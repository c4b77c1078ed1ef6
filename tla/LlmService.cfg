SPECIFICATION Spec
CONSTANTS
    s1 = s1
    s2 = s2
    t1 = t1
    d1 = d1
    d2 = d2
    NoSlot = NoSlot
    NoTarget = NoTarget
    Slots <- TwoSlots
    Targets <- OneTarget
    Docs <- TwoDocs
    MaxRetries = 2
    MaxTurns = 5
    MaxCalls = 3
    Faults <- FaultKinds
INVARIANTS
    TypeOK
    LiveTasksAreRouted
    NoDanglingTurn
PROPERTIES
    NothingForgotten
    NothingHangs
CHECK_DEADLOCK FALSE
