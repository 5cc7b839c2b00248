CONSTANTS
  t1 = t1
  t2 = t2
  t3 = t3
  b1 = b1
  b2 = b2
  b3 = b3
  b4 = b4
  Tasks = {t1}
  Buffers = {b1,b2}
  Devices = {1}
  Idle = Idle
  NoTask = NoTask
  NoBuf = NoBuf
  WaitForRequest = WaitForRequest
  Queues <- MCQueues
  BlockIds <- TwoBlocks
  Assigned <- InOrder
  Pages <- OnePage
  Uses = {"wait"}
  NrRequest = 3
  MaxErrors = 2
  BlockSectors = 2
  PageSectors = 1
  NrHd = 1
  NrSects <- MCNrSects
SPECIFICATION FairSpec
PROPERTY RequestsEnd
CHECK_DEADLOCK FALSE
