SPECIFICATION Spec
CONSTANTS
    HOUR_MS = 2
    HoursOfDay = 2
    Preset = {"24h", "90d"}
    PresetDays <- MCPresetDays
    DefaultPreset = "24h"
    RetentionDays = 2
    HourlyHours = 2
    NoVisitor = "none"
    Context <- MCContext
    LastHour = 7
    MaxRecords = 2
INVARIANTS
    RangesHold
    TimelineIsHistory
    GeoIsHistory
    VisitorsAreHistory
    LossIsReported
