SPECIFICATION FairSpec
CONSTANTS
    Pages <- MCPages
    MaxFragments = 4
    StyleLimit = 8
INVARIANTS
    TypeOK
    InOrder
    LossExplained
    HeavyIsStripped
    OneNotice
PROPERTIES
    Progress
    ScanEnds
CHECK_DEADLOCK FALSE
