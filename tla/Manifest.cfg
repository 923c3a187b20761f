SPECIFICATION ManifestSpec
CONSTANTS
  Paths <- TreePaths
  Base <- MCBase
  Dir <- TreeDir
  NoPath = NoPath
  Plans <- BuildPlans
  Given <- GivenManifests
  Reads <- TreeReads
  Blank <- TreeBlank
  Modes = {"append", "strict", "replace"}
  Profiles <- NoProfiles
  InitialTrees <- ReplayTrees
  MaxRuns = 2
  PreKinds = {}
INVARIANTS
  RoundTrip
  ReplayInOrder
  BuiltHolds
CHECK_DEADLOCK FALSE
