\* One restart, or one change of the broker or the device.
SPECIFICATION Spec
CONSTANTS
  Slots = {1, 2}
  Sockets = {1}
  MaxEvents = 1
PROPERTIES
  RestartReconnects
\* Without a fault left to happen the app may be at rest.
CHECK_DEADLOCK FALSE
