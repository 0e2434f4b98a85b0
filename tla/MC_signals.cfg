SPECIFICATION MCSpec
CONSTANTS
  NSig = 2
  Class <- MCClass
  MaxQueue = 2
  MaxSend = 4
  MaxNest = 2
  MaxAct = 1
  CpuExitAborts = {TRUE, FALSE}
  QueueGarbage = {TRUE, FALSE}
INVARIANTS DeliveredInOrder FramesIntact
PROPERTY ContextRestored
CHECK_DEADLOCK FALSE
