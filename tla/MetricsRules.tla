----------------------------- MODULE MetricsRules ------------------------------
(***************************************************************************)
(* The time rules of src/src/metrics.ts: buckets of an hour and of a day,  *)
(* and how a request for a range becomes whole buckets; with the two       *)
(* corrections that metrics-store.ts makes to a range before it reads.     *)
(*                                                                         *)
(* Times are integers, as in the code; a day may have fewer hours, and an  *)
(* hour fewer ticks, than there.  An optional field of a request is a set  *)
(* with no or one member.  Only the message of an error is left out.       *)
(***************************************************************************)
EXTENDS Integers

CONSTANTS
    HOUR_MS,
    HoursOfDay,
    HourlyHours,    \* 48: the hours of the longest range that is shown by the hour
    Preset,         \* METRICS_RANGE_PRESETS
    PresetDays,     \* days of each preset
    DefaultPreset,  \* "24h"
    RetentionDays   \* METRICS_RETENTION_DAYS, the days of the longest preset

ASSUME RulesAssumption ==
    /\ HOUR_MS \in Nat \ {0} /\ HoursOfDay \in Nat \ {0} /\ RetentionDays \in Nat \ {0}
    /\ HourlyHours \in Nat
    /\ PresetDays \in [Preset -> 1 .. RetentionDays]
    /\ DefaultPreset \in Preset

DAY_MS == HoursOfDay * HOUR_MS
RetentionMs == RetentionDays * DAY_MS
Duration(preset) == PresetDays[preset] * DAY_MS

FloorBucket(time, unit) == (time \div unit) * unit
CeilBucket(time, unit)  == -FloorBucket(-time, unit)

utcHourBucket(time) == FloorBucket(time, HOUR_MS)
utcDayBucket(time)  == FloorBucket(time, DAY_MS)

Unit(granularity) == IF granularity = "hour" THEN HOUR_MS ELSE DAY_MS

-----------------------------------------------------------------------------
(* parseMetricsRange.                                                      *)

\* A request that names a preset and nothing else, the only kind the API passes on.
OfPreset(preset) == [range |-> {preset}, from |-> {}, to |-> {}, granularity |-> {}]

Given(option, default) == IF option = {} THEN default ELSE CHOOSE x \in option : TRUE
Sooner(s, t) == IF s < t THEN s ELSE t

normalizeRangePreset(input) == Given(input.range, DefaultPreset)

RequestedTo(input, now) == Sooner(Given(input.to, now), now)
RequestedFrom(input, now) ==
    Given(input.from, RequestedTo(input, now) - Duration(normalizeRangePreset(input)))
Requested(input, now) == RequestedTo(input, now) - RequestedFrom(input, now)

\* The code throws a MetricsRangeError for any other request.
Accepted(input, now) ==
    /\ input.range \subseteq Preset
    /\ \A t \in input.from \union input.to : t >= 0
    /\ RequestedFrom(input, now) < RequestedTo(input, now)
    /\ Requested(input, now) <= RetentionMs
    /\ input.granularity \subseteq {"", "hour", "day"}

normalizeGranularity(input, now) ==
    Given(input.granularity \ {""},
          IF Requested(input, now) <= HourlyHours * HOUR_MS THEN "hour" ELSE "day")

\* Mutant: the running bucket is left out, as if `to` were rounded down.
ParseMetricsRangeFloored(input, now) ==
    LET granularity == normalizeGranularity(input, now)
        to == FloorBucket(RequestedTo(input, now), Unit(granularity))
    IN  [from |-> IF input.from = {} THEN to - Duration(normalizeRangePreset(input))
                  ELSE FloorBucket(RequestedFrom(input, now), Unit(granularity)),
         to |-> to, granularity |-> granularity]

ParseMetricsRange(input, now) ==
    LET granularity == normalizeGranularity(input, now)
        to == CeilBucket(RequestedTo(input, now), Unit(granularity))
    IN  [from |-> IF input.from = {} THEN to - Duration(normalizeRangePreset(input))
                  ELSE FloorBucket(RequestedFrom(input, now), Unit(granularity)),
         to |-> to, granularity |-> granularity]

\* parseMetricsTimelineRange of "all"; `earliest` is the first daily bucket, if any.
AllRange(earliest, now) ==
    [from |-> utcDayBucket(Given(earliest, now)), to |-> CeilBucket(now, DAY_MS),
     granularity |-> "day"]

\* enumerateUtcBuckets, and the loop of queryTimeline.
Buckets(range) ==
    {b \in range.from .. range.to - 1 : (b - range.from) % Unit(range.granularity) = 0}

-----------------------------------------------------------------------------
(* metrics-store.ts.                                                       *)

normalizeRange(range, granularity) ==
    [from |-> FloorBucket(range.from, Unit(granularity)),
     to |-> CeilBucket(range.to, Unit(granularity)), granularity |-> granularity]

overlappingDayRange(range) ==
    [from |-> utcDayBucket(range.from), to |-> utcDayBucket(range.to - 1) + DAY_MS,
     granularity |-> "day"]

-----------------------------------------------------------------------------
(* Properties.                                                             *)

Aligned(range) ==
    LET unit == Unit(range.granularity)
    IN  range.from = FloorBucket(range.from, unit) /\ range.to = FloorBucket(range.to, unit)

\* A preset is never refused, and becomes whole buckets, of its exact length, that
\* end with the bucket that is running (at the very moment a bucket begins, with the
\* one before).
PresetRangeHolds(preset, now) ==
    LET range == ParseMetricsRange(OfPreset(preset), now)
    IN  /\ Accepted(OfPreset(preset), now)
        /\ Aligned(range)
        /\ range.to - range.from = Duration(preset)
        /\ now <= range.to /\ range.to < now + Unit(range.granularity)

\* Nothing a preset asks for is behind the cutoffs of a cleanup at the same time
\* (retentionMs before, rounded down to the hour and to the day), not even the
\* whole days that stand in for its hours.
PresetOutlivesCleanup(preset, now) ==
    LET range == ParseMetricsRange(OfPreset(preset), now)
    IN  /\ FloorBucket(now - RetentionMs, Unit(range.granularity)) <= range.from
        /\ utcDayBucket(now - RetentionMs) <= overlappingDayRange(range).from

\* A request with both ends, if it is accepted, becomes the smallest run of whole
\* buckets that contains it (what lies in the future is cut off first).
CustomRangeHolds(input, now) ==
    Accepted(input, now) /\ input.from # {} /\ input.to # {} =>
        LET range == ParseMetricsRange(input, now)
            unit  == Unit(range.granularity)
        IN  /\ Aligned(range)
            /\ range.from <= RequestedFrom(input, now)
            /\ RequestedFrom(input, now) < range.from + unit
            /\ RequestedTo(input, now) <= range.to
            /\ range.to < RequestedTo(input, now) + unit

\* The days that stand in for a range of hours contain it, and the range as it was
\* parsed is what the store reads: normalising it again changes nothing.
DaysContainHours(preset, now) ==
    LET range == ParseMetricsRange(OfPreset(preset), now)
        days  == overlappingDayRange(range)
    IN  /\ normalizeRange(range, range.granularity) = range
        /\ days.from <= range.from /\ range.to <= days.to
        /\ range.from < days.from + DAY_MS /\ days.to < range.to + DAY_MS
================================================================================
