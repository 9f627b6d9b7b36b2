SPECIFICATION Spec
CONSTANTS
    n1 = n1
    n2 = n2
    n3 = n3
    n4 = n4
    n5 = n5
    n6 = n6
    Node = {n1, n2, n3, n4, n5, n6}
    Client = {p1, p2}
    MaxSlotID = 2
    Requests <- TopologyRequests
    Initial <- TwoShards
    Faults = {}
    EventCap = 1
    MaxShards = 3
    MaxVersion = 3
    MaxGen = 2
    NotMigrating = NotMigrating
    AnyMaster = AnyMaster
    NoCluster = NoCluster
    NoRequest = NoRequest
    NoTask = NoTask
SYMMETRY Clients
INVARIANTS
    EverySlotHasOneOwner
    OneMasterPerShard
    NoStaleWrite
CHECK_DEADLOCK FALSE
