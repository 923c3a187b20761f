CONSTANTS
  Jobs <- MCJobs
  MaxDataSize = 2
  Bytes = {0}
  XAttrNames = {"u"}
  Retries = 2
  MaxCalls = 2
SPECIFICATION Spec
INVARIANTS NeverContradicts StreamTracksTree HalfDoneRepeats RefusedForLinks TreeWellFormed
CHECK_DEADLOCK FALSE
