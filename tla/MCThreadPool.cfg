SPECIFICATION Spec
CONSTANTS
  NumThreads = 2
  c1 = c1
  c2 = c2
  Clients <- MCClients
  MaxTasks = 2
  MaxBatch = 2
  RangeMayThrow = TRUE
SYMMETRY Symmetry
INVARIANTS
  TypeOK
  TasksAccountedFor
  NoSleepingOnWork
  NoSleepingOnIdle
  IdleAnswerCovers
  DestroyedIsQuiet
PROPERTY ImplementsTaskPool
