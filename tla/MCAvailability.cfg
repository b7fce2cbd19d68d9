SPECIFICATION Spec
CONSTANTS
    DayLength = 2
    Retention = 2
    LastHour = 5
    MaxChecks <- Checks
    MaxWrites = 3
INVARIANTS
    DaysAddUp
    TotalHoursAddUp
    ShownIsWhatWasSeen
