SPECIFICATION IndexSpec
CONSTANTS
    mine = mine
    summary = summary
    alice = alice
    Alice = Alice
    a1 = a1
    NoOne = NoOne
    NoDim = NoDim
    IndexedPaths <- TwoPaths
    Owner <- Owners
    Agent <- Agents
    Source <- Sources
    Folded <- LowerCase
    Me = alice
    MyAgent = a1
    MaxPoint = 3
    Degenerate <- Zeros
    MaxChunks = 2
    MaxEmbeddings = 2
    Limit = 2
    Overfetch = 2
    Dims <- TwoDims
    Faults <- FaultKinds
INVARIANTS
    IndexTypeOK
    TablesAgree
PROPERTIES
    SearchesAreRight
