SPECIFICATION Spec
CONSTANTS
    Procs <- TwoProcs
    Tasks <- SomeTasks
    Names <- ThreeNames
    Starts <- SomeStarts
    Files = {"f"}
    Tools <- SomeTools
    Batches <- TwoBatches
    MaxRuns = 2
    MaxRequests = 2
INVARIANTS
    TypeOK
    OneIdentity
    ToldIsTrue
    TokensStayHome
PROPERTIES
    CallsEnd
CHECK_DEADLOCK FALSE
