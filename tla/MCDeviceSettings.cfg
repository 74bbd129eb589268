\* Fields of one bit, and values that fit and that do not.
SPECIFICATION SettingsSafety
CONSTANTS
  MaxField = 1
  TopValue = 2
  DefaultTimeout = 1
INVARIANTS
  SettingsInv
  AnsweredIsKept
  RunsAsConfigured
  RestartIsNeutral
