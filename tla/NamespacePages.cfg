SPECIFICATION FairSpec
CONSTANTS
    ns1 = ns1
    ns2 = ns2
    cl1 = cl1
    cl2 = cl2
    Name = {ns1, ns2}
    ClusterName = {cl1, cl2}
    ClusterShards <- Shapes
    NewShards <- One
    InitialSpaces <- TwoSpaces
    MaxVersion = 3
    Task = {t1, t2}
    Main = Main
    None = None
    MaxUpsets = 1
    FormInputs <- Typed
INVARIANTS
    RowsAreTrue
    CountsAgree
    BusyIsOutstanding
PROPERTIES
    Responsive
