\* Unequal settle times, so that a wait on the wrong one shows.
SPECIFICATION TimingSpec
CONSTANTS
  TriacSettle = 5
  RelaySettle = 7
INVARIANTS
  TimingInv
PROPERTIES
  ContactMovesUnderTriac
  ImplementsSwitch
  ComesToRest
