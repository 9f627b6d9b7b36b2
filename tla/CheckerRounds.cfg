SPECIFICATION FairSpec
CONSTANTS
    n1 = n1
    n2 = n2
    n3 = n3
    Node = {n1, n2, n3}
    MaxSlotID = 0
    NotMigrating = NotMigrating
    AnyMaster = AnyMaster
    NoCluster = NoCluster
    InitialShards <- Shards
    Requests <- ShardRequests
    Operator <- ByHand
    MaxFailureCount = 2
    Fragile = {n1, n3}
    MaxRequests = 1
    MaxFailures = 2
    MaxLate = 1
INVARIANTS
    TypeOK
    OneTopologyPerVersion
PROPERTIES
    VersionsGrow
    FailoverOfTheFailed
    NodesConverge
    
