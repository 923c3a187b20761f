CONSTANTS
  MaxSetups = 2
  MaxCloses = 2
SPECIFICATION Spec
INVARIANTS FirstCloseRestores FlagsLeftOnlyByFailure
CHECK_DEADLOCK FALSE
