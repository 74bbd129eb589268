\* Three polls to hold, two to release.
SPECIFICATION GuardSpec
CONSTANTS
  HoldTime = 3
  ReleaseTime = 2
INVARIANTS
  GuardInv
  TakeoverIsMeant
  OneAttemptPerPowerOn
PROPERTIES
  BootGoesOn
