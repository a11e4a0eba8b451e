SPECIFICATION Spec
CONSTANTS
  BootAttempts <- MCBootAttempts
  Images <- MCImages
  TimeoutRollback = FALSE
  CutWhileDirty = TRUE
  InstallWhen = "early"
  MaxCuts = 2
  Absent = Absent
  Torn = Torn
INVARIANTS
  TrialBudget
  NeverBootsHalfWritten
  TrialProtected
PROPERTY RefinesUnlessExposed
