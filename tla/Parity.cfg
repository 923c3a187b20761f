CONSTANTS
  Chunk = 4
  MaxSegment = 6
  Names = 3
  DiskBlock = 2
  Jobs <- MCJobs
SPECIFICATION Spec
INVARIANTS
  WrittenAsPlanned
  AclInForce
  VerdictExact
  MadeTwiceIsEqual
CHECK_DEADLOCK FALSE
