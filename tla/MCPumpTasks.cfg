\* Calls of both tasks that are never preempted, and of the network task
\* preempted by the sensor task.
SPECIFICATION TasksSpec
CONSTANTS
  TriacSettle = 1
  RelaySettle = 1
  Horizon = 1
  Configs <- MCConfigs
  Loads <- MCLoads
  SerialCallers <- Both
  PreemptedCallers <- Net
INVARIANTS
  LatchYieldsOnlyToARace
  OffIsOpenButForARace
PROPERTIES
  CallsAreAtomic
  TripsAreEarned
  TriacIsReleased
