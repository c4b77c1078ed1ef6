SPECIFICATION Spec
CONSTANTS
    o1 = o1
    o2 = o2
    o3 = o3
    p1 = p1
    c1 = c1
    blank = blank
    NoMemory = NoMemory
    Ops <- TwoOps
    Paths <- OnePath
    Contents <- OneText
    Blank <- NoFaults
    PersistentIndex = TRUE
    Faults <- NoFaults
INVARIANT
    NeverPointsAtMissingFile
