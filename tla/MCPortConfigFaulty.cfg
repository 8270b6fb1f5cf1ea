SPECIFICATION Spec
CONSTANTS
  MaxPorts = 3
  MaxSlots = 2
  MaxUnplugs = 1
  UnplugPhases <- AnyPhase
  MayFail = TRUE
  NoDriverPorts <- NoPort
INVARIANTS AddressingExclusive CommandsFitRing
PROPERTY ImplementsLock
CHECK_DEADLOCK FALSE
