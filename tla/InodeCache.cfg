CONSTANTS
  t1 = t1
  t2 = t2
  t3 = t3
  Tasks = {t1,t2,t3}
  Idle = Idle
  NoTask = NoTask
  Queues = {s1,s2,s3}
  NoSlot = NoSlot
  Names = {x,y}
  NrInodes = 2
  NrPlaces = 2
  Uses <- Orderly
SPECIFICATION Spec
INVARIANTS TypeOK CountIsUsers UnusedIsClean OneInodePerNumber LockOwned CleanIsOnDisk InodesAccounted
SYMMETRY Interchangeable
CHECK_DEADLOCK FALSE
