SPECIFICATION Spec
CONSTANTS
    f1 = f1
    f2 = f2
    a1 = a1
    a2 = a2
    u1 = u1
    u2 = u2
    c1 = c1
    Global = Global
    NoMemory = NoMemory
    NoGroup = NoGroup
    Files <- TwoFiles
    Agents <- TwoAgents
    Users <- TwoUsers
    AgentOf <- OwnAgent
    UserOf <- OwnUser
    Contents <- OneText
    Cooldown = 2
    Capacity = 2
    MaxChanges = 3
    Faults <- FaultKinds
INVARIANTS
    TypeOK
    PendingIsTimed
    TiersAgree
PROPERTY
    Settles
CHECK_DEADLOCK FALSE
