SPECIFICATION Spec
CONSTANTS
  MaxPorts = 2
  MaxSlots = 2
  MaxUnplugs = 0
  UnplugPhases <- AnyPhase
  MayFail = TRUE
  NoDriverPorts <- NoPort
INVARIANT OneDefaultDevice
CHECK_DEADLOCK FALSE
