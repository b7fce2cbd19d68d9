SPECIFICATION Spec
CONSTANT MaxRequests = 3
INVARIANTS
    NoStaleCharts
    NewestGeoShown
    LevelShown
    SelectionShown
    LoadingEnds
CHECK_DEADLOCK FALSE
