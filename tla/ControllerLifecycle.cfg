SPECIFICATION FairControllerSpec
CONSTANTS
    Key = {k1, k2}
    Self = Self
    Other = Other
    Faults = {}
    MaxElections = 2
    MaxWrites = 3
    NoKey = NoKey
    NoLeader = NoLeader
INVARIANTS
    ControllerTypeOK
    MappedIsRunning
    OneCheckerPerCluster
PROPERTY
    EveryClusterIsChecked
CHECK_DEADLOCK FALSE
