CONSTANTS
  NumStages = 2
  NumCases = 1
  Modes = {"rethrow"}
  Throwing = {}
  Storage = {FALSE}
  MakingThrows = FALSE
  Shapes <- SimpleChain

SPECIFICATION PipelineSpec
INVARIANTS
  OneVerdict
