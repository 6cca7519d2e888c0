SPECIFICATION FairSpec
CONSTANTS
  NumThreads = 2
  c1 = c1
  c2 = c2
  Clients <- OneClient
  MaxTasks = 3
  MaxBatch = 2
  RangeMayThrow = TRUE
PROPERTIES
  WaitsReturn
  KeepsTaskPoolMoving
