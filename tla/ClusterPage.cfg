SPECIFICATION FairSpec
CONSTANTS
    n1 = n1
    n2 = n2
    n3 = n3
    n4 = n4
    Node = {n1, n2, n3, n4}
    MaxSlotID = 2
    NotMigrating = NotMigrating
    AnyMaster = AnyMaster
    NoCall = NoCall
    Call = {c1, c2}
    InitialShards <- ThreeShards
    Groups <- OneGroup
    SlotInputs <- Typed
    FormInputs <- Nodes
    Faults = {"request", "answer"}
    MaxVersion = 3
INVARIANTS
    TypeOK
    
    FreshIsExact
    BusyIsOutstanding
PROPERTIES
    MigrationDialogPromise
    Responsive
