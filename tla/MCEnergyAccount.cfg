\* The clock of the model ends at MaxTime.
SPECIFICATION EnergySpec
CONSTANTS
  Hour = 8
  Wh = 2
  MaxDraw = 1
  MaxLag = 1
  NtpPeriod = 6
  MaxLate = 2
  MaxTime = 16
  MaxCuts = 1
  None = None
INVARIANTS
  NeverOverbilled
  AccountIsClose
  
CHECK_DEADLOCK FALSE
