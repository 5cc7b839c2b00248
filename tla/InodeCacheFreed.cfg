CONSTANTS
  t1 = t1
  t2 = t2
  t3 = t3
  Tasks = {t1,t2}
  Idle = Idle
  NoTask = NoTask
  Queues = {s1,s2,s3}
  NoSlot = NoSlot
  Names = {x}
  NrInodes = 2
  NrPlaces = 2
  Uses <- All
SPECIFICATION Spec
INVARIANTS FreedIsUnused
SYMMETRY Interchangeable
CHECK_DEADLOCK FALSE
