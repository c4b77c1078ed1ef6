SPECIFICATION Spec
CONSTANTS
    NoFile = NoFile
    NoName = NoName
    Partial = Partial
    Days <- ThreeDays
    MaxSuffix = 3
    MaxTexts = 4
    Faults <- FaultKinds
INVARIANTS
    LatestIsNewest
PROPERTIES
    OldFilesStay
    ReadsWholeAndNew
CHECK_DEADLOCK FALSE
