SPECIFICATION QueueSpec
CONSTANTS
  Capacity = 3
  Message = {m1, m2}
INVARIANT QueueTypeOK
PROPERTY ImplementsFifo
