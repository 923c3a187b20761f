SPECIFICATION Spec
CONSTANTS
  Paths <- MCPaths
  Base <- MCBase
  Dir <- MCDir
  NoPath = NoPath
  Plans <- SpecialBitsPlans
  Modes = {"replace"}
  Profiles <- NoProfiles
  InitialTrees <- MCTrees
  MaxRuns = 1
  PreKinds = {}
INVARIANTS
  SpecialBitsApplied
CHECK_DEADLOCK FALSE
