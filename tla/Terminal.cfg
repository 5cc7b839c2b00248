CONSTANTS
  Consoles = {0, 1}
  ReadSize = 2
  CookedSize = 3
  MaxNest = 2
SPECIFICATION TypedSpec
INVARIANTS TypeOK CookedIsTyped LineIsTheConsoles WildNeedsASleeper
CHECK_DEADLOCK FALSE
