SPECIFICATION FairSpec
CONSTANTS
    MaxBatch = 2
    MaxQueue = 4
    LastRecord = 6
    MaxRewrites = 2
INVARIANTS
    TypeOK
    InOrder
    NothingVanishes
    OvercountBounded
    FlushIsComing
PROPERTIES
    ClosedIsFinal
    QueueDrains
