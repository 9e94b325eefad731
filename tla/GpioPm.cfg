\* A device with one or two channels, bound and removed; any call may fail.
CONSTANTS
  Pins = {0, 1}
  MayFail = TRUE
  MaxProbes = 3
SPECIFICATION Spec
INVARIANTS
  TypeOK
  ClockBalanced
  ClockFollowsStatus
CHECK_DEADLOCK FALSE
