SPECIFICATION Spec
CONSTANTS
  w1 = w1
  w2 = w2
  Workers <- TwoWorkers
  NumCases = 3
  CallerThrows = FALSE
  WorkerThrows = TRUE
  CopyThrows = TRUE
  PostThrows = TRUE
  Cancellable = TRUE
SYMMETRY Symmetry
INVARIANTS
  TypeOK
  DrainsBeforeReturn
  NoSleepingOnGroup
  SlotsHaveOneWriter
  EventsTellTheRun
  AtMostOneLateCase
PROPERTY ImplementsFanIn
