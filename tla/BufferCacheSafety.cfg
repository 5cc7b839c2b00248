CONSTANTS
  t1 = t1
  t2 = t2
  x = x
  y = y
  z = z
  Tasks = {t1,t2}
  NrBuffers = 2
  Blocks = {x,y,z}
  NoBlock = NoBlock
  Dev <- OneDevice
  Ahead <- FirstX
  MaxHeld = 0
  Uses <- Filling
SPECIFICATION HistorySpec
INVARIANTS TypeOK OneBufferPerBlock CountIsUsers FoundIsWanted BufferWaitEnds
PROPERTY TakenIsClean
SYMMETRY Interchangeable
