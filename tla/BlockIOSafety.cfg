CONSTANTS
  t1 = t1
  t2 = t2
  t3 = t3
  b1 = b1
  b2 = b2
  b3 = b3
  b4 = b4
  Tasks = {t1, t2}
  Buffers = {b1}
  Devices = {1}
  Idle = Idle
  NoTask = NoTask
  NoBuf = NoBuf
  WaitForRequest = WaitForRequest
  Queues <- MCQueues
  BlockIds <- FirstAndLast
  Assigned <- EveryWay
  Pages <- OnePage
  Uses = {"read ahead", "wait", "fill", "forget"}
  NrRequest = 2
  MaxErrors = 3
  BlockSectors = 2
  PageSectors = 2
  NrHd = 2
  NrSects <- MCNrSects
SYMMETRY Interchangeable
SPECIFICATION Spec
INVARIANTS IInv LockOwned SlotsAccounted DriveBusyWithWork ChainWhole NoLostWakeup CleanMeansOnDisk HandlerHasRequest PageWaiterHasRequest
PROPERTY ImplementsDiskIO
CHECK_DEADLOCK FALSE
