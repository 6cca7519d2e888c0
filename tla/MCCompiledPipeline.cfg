CONSTANTS
  None = None
  Observers = {o1}
  Sources <- Inputs
  Outputs <- Returned
  Markers <- ErrorsAndDiagnostics
  MaxNodes = 3
  MaxCases = 2
  MaxMarked = 1
  MaxLayers = 2
  MaxBatch = 2

SPECIFICATION Spec
CHECK_DEADLOCK FALSE
INVARIANTS
  AcceptedPipelinesCompile
  MarkersCommute
  ExportsAgree
  TrackFollowsGraph
  CallersAreAnswered
  OneObserverPerRun
