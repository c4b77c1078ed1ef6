SPECIFICATION Spec
CONSTANTS
    n1 = n1
    n2 = n2
    t1 = t1
    s1 = s1
    s2 = s2
    NoName = NoName
    RootSecret = RootSecret
    WrongSecret = WrongSecret
    Names <- OneName
    Tokens <- OneToken
    Slots <- OneSlot
    MaxNow = 0
    MaxBirths = 1
    Faults <- NoFaults
PROPERTY
    FirstAdminGetsAToken
