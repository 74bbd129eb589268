\* A well that is dry or not, in pump mode.
SPECIFICATION PumpSpec
CONSTANTS
  TriacSettle = 1
  RelaySettle = 1
  Horizon = 2
  Configs <- OnlyPumpMode
  Loads <- DryOrOk
PROPERTIES
  DryRunTurnsOff
