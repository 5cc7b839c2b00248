CONSTANTS
  NrTasks = 5
  NrPages = 9
  Addrs = {1, 2}
  Machines <- Several
SPECIFICATION Spec
INVARIANTS TypeOK PagesAccounted FamilyFits ZombieIsNoticed
PROPERTY MemoryIsPrivate
CHECK_DEADLOCK FALSE
