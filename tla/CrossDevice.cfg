CONSTANTS
  Devices = {"disk", "shm", "tmp"}
  PrimaryDevice = "disk"
  nCandidates = 2
  MaxSetups = 3
  MaxFailures = 3
SPECIFICATION Spec
INVARIANTS HandleOwns
PROPERTY CloseEnds
CHECK_DEADLOCK FALSE
