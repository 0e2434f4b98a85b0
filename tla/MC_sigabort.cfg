SPECIFICATION MCSpec
CONSTANTS
  NSig = 2
  Class <- MCClass
  MaxQueue = 2
  MaxSend = 4
  MaxNest = 2
  MaxAct = 1
  CpuExitAborts = {TRUE}
  QueueGarbage = {TRUE, FALSE}
PROPERTY SignalInterruptsGuest
CHECK_DEADLOCK FALSE
