SPECIFICATION Spec
CONSTANTS
  w1 = w1
  w2 = w2
  Workers <- TwoWorkers
  NumCases = 2
  CallerThrows = FALSE
  WorkerThrows = FALSE
  CopyThrows = FALSE
  PostThrows = FALSE
  Cancellable = TRUE
SYMMETRY Symmetry
PROPERTY StopReachesQueuedCases
