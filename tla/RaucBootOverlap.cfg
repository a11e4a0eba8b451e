SPECIFICATION Spec
CONSTANTS
  BootAttempts <- MCBootAttempts
  Images <- MCImages
  TimeoutRollback = FALSE
  CutWhileDirty = FALSE
  InstallWhen = "any"
  MaxCuts = 0
  Absent = Absent
  Torn = Torn
PROPERTY ClearsOwnRecord
