SPECIFICATION Spec
CONSTANTS
  Base = 4
  Bytes = {0, 1, 3}
  SampleLengths = {4, 5}
  Clocked = FALSE
  MaxPortAccesses = 5
INVARIANT ReadsFollowTime
CHECK_DEADLOCK FALSE
