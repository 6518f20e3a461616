CONSTANTS
  Junk = {0, 2}
  MaxPlatforms = 2
  MaxDevices = 1
SPECIFICATION Spec
INVARIANTS OnlyRealDevices
CHECK_DEADLOCK FALSE
