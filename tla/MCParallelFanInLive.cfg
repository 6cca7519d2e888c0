SPECIFICATION FairSpec
CONSTANTS
  w1 = w1
  w2 = w2
  Workers <- TwoWorkers
  NumCases = 2
  CallerThrows = TRUE
  WorkerThrows = TRUE
  CopyThrows = TRUE
  PostThrows = TRUE
  Cancellable = TRUE
PROPERTY BranchEnds
