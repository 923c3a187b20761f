SPECIFICATION Spec
CONSTANTS
  Paths <- MCPaths
  Base <- MCBase
  Dir <- MCDir
  NoPath = NoPath
  Plans <- AllPlans
  Modes = {"append", "strict", "replace"}
  Profiles <- MCProfiles
  InitialTrees <- MCTrees
  MaxRuns = 3
  PreKinds = {"file", "symlink", "fifo"}
INVARIANTS
  OrderSuffices
  OkMeansComplete
  FreshRunsExact
  AppliedPrefix
  FaultsExact
PROPERTIES
  OthersKept
  RunReturns
CHECK_DEADLOCK FALSE
