SPECIFICATION Spec
CONSTANTS
    Ops = {o1, o2}
    Memories <- SomeMemories
    Summaries <- OneSummary
    Contents = {c1, c2}
    NoMemory = NoMemory
    Partial = Partial
SYMMETRY Symmetric
PROPERTIES
    ImplementsKV
