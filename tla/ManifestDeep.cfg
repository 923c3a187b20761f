SPECIFICATION ManifestSpec
CONSTANTS
  Paths <- TreePaths
  Base <- MCBase
  Dir <- TreeDir
  NoPath = NoPath
  Plans <- DeepPlans
  Given = {}
  Reads <- TreeReads
  Blank <- TreeBlank
  Modes = {"replace"}
  Profiles <- NoProfiles
  InitialTrees <- EmptyTree
  MaxRuns = 1
  PreKinds = {}
INVARIANTS
  DeepReplays
CHECK_DEADLOCK FALSE
