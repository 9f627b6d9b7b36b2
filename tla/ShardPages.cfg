SPECIFICATION FairSpec
CONSTANTS
    NoCall = NoCall
    Automatic = Automatic
    Call = {c1, c2}
    Faults = {"request", "answer", "node"}
    InitialShards <- TwoShards
    InitialNodes = 3
    At = 1
    MaxVersion = 3
    FormInputs <- Typed
INVARIANTS
    TypeOK
    
    BusyIsOutstanding
    OwnWritesAreShown
PROPERTIES
    DeletesConfirmedNode
    Responsive
