CONSTANTS
  Jobs <- AliasedJobs
  MaxDataSize = 1
  Bytes = {0}
  XAttrNames = {"u"}
  Retries = 1
  MaxCalls = 1
SPECIFICATION Spec
INVARIANT GeneratedApplies
CHECK_DEADLOCK FALSE
