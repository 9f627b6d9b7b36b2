SPECIFICATION Spec
CONSTANTS
    n1 = n1
    n2 = n2
    n3 = n3
    n4 = n4
    n5 = n5
    n6 = n6
    Node = {n1, n2, n3, n4}
    Client = {p1}
    MaxSlotID = 2
    Requests <- MigrationRequests
    Initial <- TwoShards
    Faults = {"engine", "node", "restart"}
    EventCap = 1
    MaxShards = 3
    MaxVersion = 4
    MaxGen = 1
    NotMigrating = NotMigrating
    AnyMaster = AnyMaster
    NoCluster = NoCluster
    NoRequest = NoRequest
    NoTask = NoTask
INVARIANTS
    TypeOK
    PendingOwnedBySource
    Inv
