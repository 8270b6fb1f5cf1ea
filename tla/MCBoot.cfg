SPECIFICATION Spec
CONSTANTS
  Page = 4
  Addresses = 64
  EntryOffset = 1
  Images <- MCImages
  MaxKey = 3
  MaxDevices = 5
  NumDevices = 3
  NumFunctions = 2
  ConfigSpaces <- MCConfigSpaces
  kMemoryPoolSize = 131072
  kDeviceSize = 8
  RingSize = 32
  kPageDirectoryCount = 64
  Machines <- MCMachines
  Systems <- MCSystems
INVARIANTS
  TypeOK
  HandOver
  BestController
  ReadyForEvents
PROPERTIES
  SetUpInOrder
  BootEnds
CHECK_DEADLOCK FALSE
