CONSTANTS
  t1 = t1
  t2 = t2
  x = x
  y = y
  z = z
  Tasks = {t1,t2}
  NrBuffers = 2
  Blocks = {x,y,z}
  NoBlock = NoBlock
  Dev <- OneDevice
  Ahead <- Meeting
  MaxHeld = 0
  Uses <- Reading
SPECIFICATION FairHistorySpec
INVARIANT SyncWritesAll
PROPERTY CallsReturn
