SPECIFICATION Spec
CONSTANTS
  Paths <- MCPaths
  Base <- MCBase
  Dir <- MCDir
  NoPath = NoPath
  EntryLimit = 6
  Depths = {0, 2}
  DirCounts = {0, 1, 2}
  FileCounts = {0, 1, 3}
  StrategySets = {{}, {"absolute", "relative", "dangling", "self", "chained", "cycle"}}
  Hardlinks = TRUE
  SpecialSet = {"fifo", "block"}
  DeviceNumbers = FALSE
  AttrSets <- ModeOnly
INVARIANTS
  PlanWellFormed
  LimitExact
  DanglingStays
  SymlinksResolve
  NeverUnderGenerates
CHECK_DEADLOCK FALSE
