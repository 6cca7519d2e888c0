CONSTANTS
  NumStages = 3
  NumCases = 3
  Modes = {"convert", "rethrow", "plain"}
  Throwing = {"start", "success", "failure", "exception", "selected", "skipped"}
  Storage = {TRUE, FALSE}
  MakingThrows = TRUE
  Shapes <- OneOfEach

SPECIFICATION PipelineSpec
INVARIANTS
  PipelineTypeOK
  EventsNest
  AnswersMatchLastEvents
  ExceptionsStopOrTellAll
  ErrorNamesCulprit
  OneVerdictOnEach
  CaseEventsTellRoute
PROPERTIES
  BranchIsAStage
  BranchRunsFirstMatch
  FanInKeepsContract
