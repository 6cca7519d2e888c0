CONSTANTS
  None = None
  Callers = {c1}
  Workers = {w1, w2}
  NumCases = 3
  CallerThrows = TRUE

SPECIFICATION Spec
CHECK_DEADLOCK FALSE
INVARIANT OverlapsInARunNeedUnwinding
PROPERTY EveryRunReturns
