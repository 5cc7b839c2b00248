CONSTANTS
  Sizes <- ManySizes
  MapBits = 16
  MapSlots = 8
  InodesPerBlock = 32
  FirstPart = 10
  Spare = 6
  TooLittle = 2
  MaxFrees = 1
  MaxUsed = 8
SPECIFICATION Spec
INVARIANTS TypeOK SectionsAsDeclared RootMounts UsedIsReachable BitsAreOwners
CHECK_DEADLOCK FALSE
