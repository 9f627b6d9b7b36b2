SPECIFICATION FairSpec
CONSTANTS
    n1 = n1
    n2 = n2
    n3 = n3
    n4 = n4
    n5 = n5
    n6 = n6
    Node = {n1, n2, n3}
    Client = {p1, p2}
    MaxSlotID = 2
    Requests <- ShardRequests
    Initial <- TwoMasters
    Faults = {}
    EventCap = 8
    MaxShards = 3
    MaxVersion = 3
    MaxGen = 1
    NotMigrating = NotMigrating
    AnyMaster = AnyMaster
    NoCluster = NoCluster
    NoRequest = NoRequest
    NoTask = NoTask
INVARIANTS
    PendingMatchesNode
PROPERTIES
    MigrationsEnd
