SPECIFICATION FairSpec
CONSTANTS
  RingSize = 8
  MapSize = 4
  WaiterSize = 2
  BufSize = 256
  Configurations <- MCConfigurations
  Keys = {4, 5}
  Modifiers <- MCModifiers
  Moves <- MCMoves
  MayFail = TRUE
CHECK_DEADLOCK FALSE
INVARIANTS
  TypeOK
  EventsUnderstood
  RingRoom
  ConfigurationUnderstood
  ReportsTold
PROPERTIES
  ReportsFlow
