\* Commands from both threads, a disk that fills up, restarts of the process and
\* reboots at any moment.
SPECIFICATION FairSpec
CONSTANTS
  c1 = c1
  c2 = c2
  c3 = c3
  Commands <- MCCommands
  Signed <- MCSigned
  Factory = Factory
  Unknown = Unknown
  Nothing = Nothing
  SystemVersion = Unknown
  RebootConfigs = {TRUE, FALSE}
INVARIANTS TypeOK StatusIsOfJob CurrentWasApplied
PROPERTIES InstallsVerified InstallsWhenSettled JobEnds
