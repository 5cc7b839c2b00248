CONSTANTS
  Sizes = {10407}
  MapBits = 8192
  MapSlots = 8
  InodesPerBlock = 32
  FirstPart = 2048
  Spare = 32
  TooLittle = 360
  MaxFrees = 0
  MaxUsed = 0
SPECIFICATION Spec
INVARIANT ZonesHaveBits
CHECK_DEADLOCK FALSE
