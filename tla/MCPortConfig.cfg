SPECIFICATION FairSpec
CONSTANTS
  MaxPorts = 3
  MaxSlots = 3
  MaxUnplugs = 1
  UnplugPhases <- AnyPhase
  MayFail = FALSE
  NoDriverPorts <- LastPort
INVARIANTS TypeOK CompletionsAccepted OneDefaultDevice ContextReady
CHECK_DEADLOCK FALSE
PROPERTY EveryDeviceConfigured
