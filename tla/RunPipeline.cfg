SPECIFICATION PipelineSpec
CONSTANTS
  Paths <- MCPaths
  Base <- MCBase
  Dir <- MCDir
  NoPath = NoPath
  EntryLimit = 4
  Depths = {2}
  DirCounts = {0, 1}
  FileCounts = {0, 1, 3}
  StrategySets = {{}}
  Hardlinks = TRUE
  SpecialSet = {}
  DeviceNumbers = FALSE
  AttrSets <- ModeOnly
  Modes = {"append", "replace"}
  Profiles <- NoProfiles
  InitialTrees <- MCTrees
  MaxRuns = 2
INVARIANTS
  LinksAsPlanned
CHECK_DEADLOCK FALSE
