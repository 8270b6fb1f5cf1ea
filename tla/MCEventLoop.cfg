SPECIFICATION FairSpec
CONSTANTS
  Capacity = 2
  Message = {kInterruptXHCI}
  EventRingSize = 3
CHECK_DEADLOCK FALSE
INVARIANTS TypeOK QueueWellFormed NoLostEvent
PROPERTY EventHandled
