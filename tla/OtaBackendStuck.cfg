\* A disk that is full from some point on.
SPECIFICATION FairSpec
CONSTANTS
  c1 = c1
  c2 = c2
  c3 = c3
  Commands <- MCCommands
  Signed <- MCSigned
  Factory = Factory
  Unknown = Unknown
  Nothing = Nothing
  SystemVersion = Unknown
  RebootConfigs = {TRUE, FALSE}
PROPERTY InstallFailureReported
