\* Two of: a change of the broker, a move of the device, a restart by the user.
SPECIFICATION Spec
CONSTANTS
  Slots = {1, 2}
  Sockets = {1}
  MaxEvents = 2
CONSTRAINT
  NotRaced
INVARIANTS
  ConnectedCanSend
  StoppedIsOffline
PROPERTIES
  ComesBack
\* Without a fault left to happen the app may be at rest.
CHECK_DEADLOCK FALSE
