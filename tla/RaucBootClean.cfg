SPECIFICATION FairSpec
CONSTANTS
  BootAttempts <- MCBootAttempts
  Images <- MCImages
  TimeoutRollback = FALSE
  CutWhileDirty = FALSE
  InstallWhen = "settled"
  MaxCuts = 3
  Absent = Absent
  Torn = Torn
INVARIANTS
  TypeOK
PROPERTIES
  RefinesSlotUpdate
  TrialEnds
