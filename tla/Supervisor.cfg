SPECIFICATION HubSpec
CONSTANTS
    Requests <- Two
    Faults <- AllFaults
INVARIANTS
    HubTypeOK
    DependenciesOutlive
PROPERTIES
    OkMeansBoth
    ProcessEnds
CHECK_DEADLOCK FALSE
