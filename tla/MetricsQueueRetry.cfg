SPECIFICATION Spec
CONSTANTS
    MaxBatch = 2
    MaxQueue = 4
    LastRecord = 2
    MaxRewrites = 2
INVARIANTS
    CountedOnce
