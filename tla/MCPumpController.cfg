\* Every band of both modes, timeouts of one and two ticks.
SPECIFICATION PumpSpec
CONSTANTS
  TriacSettle = 1
  RelaySettle = 1
  Horizon = 2
  Configs <- MCConfigs
  Loads <- MCLoads
INVARIANTS
  LatchedMeansOff
  LedTellsPump
  TimersBacked
PROPERTIES
  TripsAreEarned
  TripCutsPower
  FreshFaultIsStopped
