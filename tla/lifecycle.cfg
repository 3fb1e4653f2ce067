SPECIFICATION Spec
CONSTANT Flags <- MCFlags
CHECK_DEADLOCK FALSE
INVARIANTS
  TypeOK
  CoherentReport
  CleanExit
  WalksOpenMaps
  OnlyStopsWhenAsked
PROPERTIES
  SignalStops
  ExitStops
  LeaksReported
