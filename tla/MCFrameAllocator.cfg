SPECIFICATION Spec
CONSTANTS
  FrameCount = 6
  HeapFrames = 1
  BytesPerFrame = 2
  MemoryMaps <- MCMemoryMaps
  Requests = {1, 2}
  Increments <- MCIncrements
CHECK_DEADLOCK FALSE
INVARIANTS
  TypeOK
  OnlyUsableMemory
  BlocksDisjoint
  NoFrameLost
  HeapOwned
PROPERTIES
  FirstFit
