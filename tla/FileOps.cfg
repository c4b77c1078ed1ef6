SPECIFICATION Spec
CONSTANTS
    o1 = o1
    o2 = o2
    o3 = o3
    p1 = p1
    c1 = c1
    blank = blank
    NoMemory = NoMemory
    Ops <- ThreeOps
    Paths <- OnePath
    Contents <- TextAndBlank
    Blank <- OnlyBlank
    PersistentIndex = TRUE
    Faults <- FaultKinds
SYMMETRY OpSymmetry
INVARIANTS
    TypeOK
    IndexNeverAhead
    SavedIsSearchable
    NothingUnheard
PROPERTY
    ImplementsKV
