SPECIFICATION Spec
CONSTANTS
    Rpms <- MCRpms
    Frames <- MCFrames
    Voltages <- MCVoltages
    Other = Other
    FilterRange = 2
    Threshold = 30
    MaxInbox = 1
    MaxSignals = 1
INVARIANTS
    TypeOK
    HeadUnitShowsCluster
PROPERTIES
    NobodyWaitsForEver
    ChargeSettles
