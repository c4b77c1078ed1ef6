SPECIFICATION Spec
CONSTANTS
    n1 = n1
    n2 = n2
    t1 = t1
    s1 = s1
    s2 = s2
    NoName = NoName
    RootSecret = RootSecret
    WrongSecret = WrongSecret
    Names <- TwoNames
    Tokens <- OneToken
    Slots <- TwoSlots
    MaxNow = 1
    MaxBirths = 2
    Faults <- FaultKinds
INVARIANTS
    TypeOK
    TokensHaveOwners
    RunsAsItsSecret
PROPERTIES
    AdminRemains
    ChangesAreAdmitted
SYMMETRY NamesAlike
