SPECIFICATION Spec
CONSTANTS
  MaxPorts = 3
  MaxSlots = 3
  MaxUnplugs = 1
  UnplugPhases <- WhileWaiting
  MayFail = FALSE
  NoDriverPorts <- NoPort
INVARIANT WaitingMeansBusy
CHECK_DEADLOCK FALSE
