CONSTANTS
  e1 = e1
  e2 = e2
  None = None
  Threads = {t1, t2}
  Engines = {e1, e2}
  Storages <- Pairs
  Parallel = {e2}
  Lent = {c1}
  Heap = {h1, h2}
  MaxCalls = 3
  MaxHits = 1
  MaxBatch = 2

SPECIFICATION Spec
SYMMETRY Swap
INVARIANTS
  TypeOK
  FramesAreOnTheStack
  ResetRunsSeeTheirWrites
  ThreadLocalIsIsolated
  DanglesOnlyWhenReplaced
