CONSTANTS
  NoPath = NoPath
  Settings <- MCSettings
  MaxCalls = 2
  MaxConfigs = 2

SPECIFICATION CoverageSpec

INVARIANTS
  PairsCovered
  CasesEarnTheirPlace
  CoverageWellFormed
  PairsPlanned
  NeedsOnlyResolved
  SamePlanAgain
  NoNilCall
  ConfigurationKept

PROPERTIES
  ConfigureAtomic
  CallReturns

CHECK_DEADLOCK FALSE
