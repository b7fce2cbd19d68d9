------------------------------ MODULE UsageStore ------------------------------
(***************************************************************************)
(* The usage tables of SqlMetricsStore (src/src/metrics-store.ts): what a  *)
(* write adds to them, what a cleanup takes away, how a database of an     *)
(* older version is opened, and what the queries then answer; and the two  *)
(* ways a record gets there.  On Node a flush of the service writes a      *)
(* batch and keeps it for another try when the write throws (MetricsQueue  *)
(* has the details).  On Cloudflare every record is a request of its own   *)
(* to the MetricsHub object: requests overtake each other, and a failed    *)
(* one is reported and not repeated.                                       *)
(*                                                                         *)
(* The event type is one more dimension that is treated like the others,   *)
(* and is left out.  Probe records are ignored by the code before anything *)
(* else and left out too.                                                  *)
(*                                                                         *)
(* `log` is the history: the bag of all records ever written.  The rest is *)
(* the database; the properties compare its answers with the history.      *)
(***************************************************************************)
EXTENDS MetricsRules, FiniteSets, FiniteSetsExt, Functions, Bags

CONSTANTS
    NoVisitor,   \* a record without visitorHash
    Context,     \* connection contexts: [place : Place, visitor : visitor hashes or none]
    LastHour,    \* bound: hours of the run
    MaxRecords   \* bound: records that occur, and records in the log

\* normalizeConnectionContext: country and region; an unknown country has no region.
Place == {[country |-> "CN", region |-> "BJ"], [country |-> "CN", region |-> ""],
          [country |-> "ZZ", region |-> ""]}
Country == {p.country : p \in Place}

ASSUME UsageAssumption ==
    /\ {"24h", "90d"} \subseteq Preset
    /\ PresetDays["24h"] = 1 /\ PresetDays["90d"] = RetentionDays
    /\ \A p \in Preset : PresetDays[p] * HoursOfDay <= HourlyHours <=> PresetDays[p] = 1
    /\ \A c \in Context : c.place \in Place
    /\ LastHour \in Nat \ {0} /\ MaxRecords \in Nat

\* Hours and days are named by the time they begin.
Hour == {h * HOUR_MS : h \in 1 .. LastHour}
Day  == {utcDayBucket(h) : h \in Hour}

Rec == {[hour |-> h, place |-> c.place, visitor |-> c.visitor] : h \in Hour, c \in Context}

VARIABLES
    now,
    opened,          \* history: when this version first opened the database
    log,
    total,           \* metrics_totals
    hourly, daily,   \* metrics_hourly, metrics_daily
    geoHourly, geoDaily,
    visitorsHourly, visitorsDaily,   \* sets of keys
    coverage,        \* hourly_dimensions_coverage_started_at
    cleaned,         \* last_cleanup_at
    deployment,      \* "node", "cloudflare"
    waiting,         \* records in the queue, or in requests under way
    acknowledged,    \* history: records the sender knows to be written
    failed           \* history: records whose request the sender takes for failed

counts   == <<total, hourly, daily, geoHourly, geoDaily>>
visitors == <<visitorsHourly, visitorsDaily>>
database == <<log, counts, visitors, cleaned>>
fates    == <<waiting, acknowledged, failed>>
vars     == <<now, opened, database, coverage, deployment, fates>>

\* The number of records of a bag for which a condition holds.
Number(bag, cond(_)) == SumFunctionOnSet(bag, {r \in DOMAIN bag : cond(r)})

-----------------------------------------------------------------------------
(* What is added and deleted.                                              *)

\* aggregateUsage and persistUsage: what a batch adds to each table.
ByHour(bag) == [h \in Hour |-> Number(bag, LAMBDA r : r.hour = h)]
ByDay(bag)  == [d \in Day |-> Number(bag, LAMBDA r : utcDayBucket(r.hour) = d)]
ByHourAndPlace(bag) ==
    [k \in Hour \X Place |-> Number(bag, LAMBDA r : <<r.hour, r.place>> = k)]
ByDayAndPlace(bag) ==
    [k \in Day \X Place |-> Number(bag, LAMBDA r : <<utcDayBucket(r.hour), r.place>> = k)]
HourKeys(bag) ==
    {<<r.hour, r.visitor, r.place>> : r \in {s \in DOMAIN bag : s.visitor # NoVisitor}}
DayKeys(bag) == {<<utcDayBucket(k[1]), k[2], k[3]>> : k \in HourKeys(bag)}

\* INSERT ... ON CONFLICT DO UPDATE SET count = count + excluded.count
Plus(table, more) == [k \in DOMAIN table |-> table[k] + more[k]]

\* cleanup: the first hour and the first day it leaves.
HourCutoff == utcHourBucket(now - RetentionMs)
DayCutoff == utcDayBucket(now - RetentionMs)
CleanupDue == now - cleaned >= DAY_MS

\* Of the tables only these are cut; daily counts and totals are kept for ever.
\* Mutant: the daily counts are cut too.
KeptDaysCut(table) == [d \in Day |-> IF d < DayCutoff THEN 0 ELSE table[d]]
KeptDays(table) == table
KeptHours(table) == [h \in Hour |-> IF h < HourCutoff THEN 0 ELSE table[h]]
KeptHourPlaces(table) ==
    [k \in Hour \X Place |-> IF k[1] < HourCutoff THEN 0 ELSE table[k]]

-----------------------------------------------------------------------------
(* Opening and writing.                                                    *)

\* initializeHourlyDimensionsCoverage.  A database of version 1 has daily rows
\* only; one of an early version 2 has hourly rows too, but no watermark.
\* Mutant: the hour of the first hourly row, or of the upgrade, counts as covered.
CoverageTooSoon(geoRows, legacy) ==
    CASE geoRows # {}            -> Min(geoRows)
      [] geoRows = {} /\ legacy  -> utcHourBucket(now)
      [] OTHER                   -> 0

Coverage(geoRows, legacy) ==
    CASE geoRows # {}            -> Min(geoRows) + HOUR_MS
      [] geoRows = {} /\ legacy  -> utcHourBucket(now) + HOUR_MS
      [] OTHER                   -> 0

SmallBags(S) == {EmptyBag} \union {SetToBag({r}) : r \in S}
FirstTime == 2 * HOUR_MS + 1
Past == {r \in Rec : r.hour <= FirstTime}

\* A database is opened in the second hour: a new one, one that version 1 wrote to
\* (`old`), or one that an early version 2 went on with (`detailed`).
Init ==
    /\ now = FirstTime /\ opened = now
    /\ \E old, detailed \in SmallBags(Past) :
         /\ \A o \in DOMAIN old, r \in DOMAIN detailed : o.hour <= r.hour
         /\ log = old (+) detailed
         /\ geoHourly = ByHourAndPlace(detailed)
         /\ visitorsHourly = HourKeys(detailed)
         /\ coverage = Coverage({r.hour : r \in DOMAIN detailed}, old # EmptyBag)
    /\ total = SumFunction(log)
    /\ hourly = ByHour(log) /\ daily = ByDay(log)
    /\ geoDaily = ByDayAndPlace(log) /\ visitorsDaily = DayKeys(log)
    /\ cleaned = 0
    /\ deployment \in {"node", "cloudflare"}
    /\ waiting = EmptyBag /\ acknowledged = log /\ failed = EmptyBag

\* write: the batch in one transaction, then the cleanup, if it is due, in another;
\* `cleans` is FALSE when there is none or it throws.
Write(batch, cleans) ==
    LET inHours == visitorsHourly \union HourKeys(batch)
        inDays  == visitorsDaily \union DayKeys(batch)
    IN  /\ BagCardinality(log (+) batch) <= MaxRecords
        /\ log' = log (+) batch
        /\ total' = total + SumFunction(batch)
        /\ LET h == Plus(hourly, ByHour(batch))
               d == Plus(daily, ByDay(batch))
               g == Plus(geoHourly, ByHourAndPlace(batch))
           IN  /\ hourly' = IF cleans THEN KeptHours(h) ELSE h
               /\ daily' = IF cleans THEN KeptDays(d) ELSE d
               /\ geoHourly' = IF cleans THEN KeptHourPlaces(g) ELSE g
        /\ geoDaily' = Plus(geoDaily, ByDayAndPlace(batch))
        /\ visitorsHourly' = IF cleans THEN {k \in inHours : k[1] >= HourCutoff} ELSE inHours
        /\ visitorsDaily' = IF cleans THEN {k \in inDays : k[1] >= DayCutoff} ELSE inDays
        /\ cleaned' = IF cleans THEN now ELSE cleaned
        /\ UNCHANGED <<now, opened, coverage, deployment>>

-----------------------------------------------------------------------------
(* The ways to the store.                                                  *)

\* The sink takes a record: it is queued (Node), or a request is sent (Cloudflare).
Record ==
    /\ BagCardinality(waiting (+) acknowledged (+) failed) < MaxRecords
    /\ \E r \in {q \in Rec : q.hour = utcHourBucket(now)} :
         waiting' = waiting (+) SetToBag({r})
    /\ UNCHANGED <<now, opened, database, coverage, deployment, acknowledged, failed>>

\* A flush on Node.  If the cleanup throws, the batch is taken for unwritten.
Batches == {batch \in UNION {[S -> 1 .. MaxRecords] : S \in (SUBSET DOMAIN waiting) \ {{}}} :
               batch \sqsubseteq waiting}
Flush ==
    /\ deployment = "node"
    /\ \E batch \in Batches :
         \/ /\ Write(batch, CleanupDue)
            /\ waiting' = waiting (-) batch
            /\ acknowledged' = acknowledged (+) batch
            /\ UNCHANGED failed
         \/ CleanupDue /\ Write(batch, FALSE) /\ UNCHANGED fates

\* The request of a record ends, and the sender does or does not find it answered
\* with success.
Settles(r, ok) ==
    /\ waiting' = waiting (-) SetToBag({r})
    /\ IF ok THEN acknowledged' = acknowledged (+) SetToBag({r}) /\ UNCHANGED failed
       ELSE failed' = failed (+) SetToBag({r}) /\ UNCHANGED acknowledged

\* /internal/record and the sink's promise: the status of the answer, 204 or 400,
\* as the sender takes it.
\* Mutant: the promise does not look at response.ok.
TakesAnyAnswer(status) == TRUE
TakesAnswer(status) == status = 204

\* The record is written; the answer arrives, or the connection is lost before.
RequestWritten ==
    /\ deployment = "cloudflare"
    /\ \E r \in DOMAIN waiting :
         /\ Write(SetToBag({r}), CleanupDue)
         /\ Settles(r, TakesAnswer(204)) \/ Settles(r, FALSE)

\* The record is written, but the cleanup throws: the answer is 400.
RequestHalfDone ==
    /\ deployment = "cloudflare" /\ CleanupDue
    /\ \E r \in DOMAIN waiting :
         /\ Write(SetToBag({r}), FALSE)
         /\ Settles(r, TakesAnswer(400)) \/ Settles(r, FALSE)

\* The write throws, or the request does not arrive.
RequestFails ==
    /\ deployment = "cloudflare"
    /\ \E r \in DOMAIN waiting : Settles(r, TakesAnswer(400)) \/ Settles(r, FALSE)
    /\ UNCHANGED <<now, opened, database, coverage, deployment>>

\* A write of availability checks only, for this module a cleanup.
WriteAvailability == CleanupDue /\ Write(EmptyBag, TRUE) /\ UNCHANGED fates

Tick ==
    IF now < LastHour * HOUR_MS
    THEN now' = now + 1 /\ UNCHANGED <<opened, database, coverage, deployment, fates>>
    ELSE UNCHANGED vars

Next ==
    Record \/ Flush \/ RequestWritten \/ RequestHalfDone \/ RequestFails
      \/ WriteAvailability \/ Tick

Spec == Init /\ [][Next]_vars

-----------------------------------------------------------------------------
(* Queries.                                                                *)

\* What the API asks for: "24h" by the hour, the longest preset and "all" by the day.
RangeOf(preset) == ParseMetricsRange(OfPreset(preset), now)

\* getEarliestDailyBucket
EarliestDay ==
    LET days == {d \in Day : daily[d] > 0} IN IF days = {} THEN {} ELSE {Min(days)}
RangeAll == AllRange(EarliestDay, now)

\* The rows of a table that a query reads, by hour or day.
Rows(buckets, range) == {b \in buckets : b >= range.from /\ b < range.to}

\* queryGeo and queryUniqueVisitors: whole days for hours that are not covered.
DailyRange(range) == IF range.granularity = "hour" THEN overlappingDayRange(range) ELSE range

\* hasHourlyDimensionsCoverage; mutant: > for >=.
IsCoveredLater(range) == range.granularity = "hour" /\ range.from > coverage
IsCovered(range) == range.granularity = "hour" /\ range.from >= coverage

SumRows(table, rows) == SumFunctionOnSet(table, rows)
QueryGeo(range, places) ==
    IF IsCovered(range) THEN SumRows(geoHourly, Rows(Hour, range) \X places)
    ELSE SumRows(geoDaily, Rows(Day, DailyRange(range)) \X places)
QueryUniqueVisitors(range) ==
    IF IsCovered(range)
    THEN {k[2] : k \in {j \in visitorsHourly : j[1] \in Rows(Hour, range)}}
    ELSE {k[2] : k \in {j \in visitorsDaily : j[1] \in Rows(Day, DailyRange(range))}}

\* queryTimeline, with a bucket of its own for every hour or day of the range.
QueryTimeline(range) ==
    LET table == IF range.granularity = "hour" THEN hourly ELSE daily
    IN  [b \in Buckets(range) |-> IF b \in DOMAIN table THEN table[b] ELSE 0]
SumTimeline(range) == SumFunction(QueryTimeline(range))

\* querySummary: totalCalls and calls24h.
QuerySummary ==
    [totalCalls |-> total, calls24h |-> SumRows(hourly, Rows(Hour, RangeOf("24h")))]

-----------------------------------------------------------------------------
(* Properties: the answers against the history.                            *)

BucketOf(r, range) == IF range.granularity = "hour" THEN r.hour ELSE utcDayBucket(r.hour)

\* The calls of some places, and the visitors, that were seen in a range.
Calls(range, places) ==
    LET buckets == Buckets(range)
    IN  Number(log, LAMBDA r : BucketOf(r, range) \in buckets /\ r.place \in places)
Seen(range) ==
    {r.visitor : r \in {s \in DOMAIN log :
        s.visitor # NoVisitor /\ BucketOf(s, range) \in Buckets(range)}}

Selections == {{p \in Place : p.country = c} : c \in Country}
                \union {{p} : p \in {q \in Place : q.region # ""}}

\* A request for a range is answered for the range: whole buckets, the running one
\* among them (unless it begins at this very moment), nothing that a cleanup may have
\* taken.
CustomInput ==
    [range : {{}}, from : {{0}, {3}, {now - 1}}, to : {{5}, {now}, {now + 3}},
     granularity : {{}, {"day"}}]
RangesHold ==
    /\ \A p \in Preset :
         PresetRangeHolds(p, now) /\ PresetOutlivesCleanup(p, now) /\ DaysContainHours(p, now)
    /\ \A input \in CustomInput : CustomRangeHolds(input, now)

\* The curve is the history, bucket by bucket.  The whole history ends with the day
\* that is running (at the very moment a day begins, with the day before), and up
\* to there it is the total, which no cleanup reaches into.
TimelineIsHistory ==
    /\ \A range \in {RangeOf(p) : p \in Preset} : \A b \in Buckets(range) :
         QueryTimeline(range)[b] = Number(log, LAMBDA r : BucketOf(r, range) = b)
    /\ SumTimeline(RangeAll) = Number(log, LAMBDA r : r.hour < CeilBucket(now, DAY_MS))
    /\ QuerySummary = [totalCalls |-> SumFunction(log), calls24h |-> SumTimeline(RangeOf("24h"))]

\* Of each country and region, a preset never misses a call nor counts one twice:
\* it counts exactly the hours or days asked for, or in the transition after an
\* upgrade the days that overlap.  The transition ends after a day.
GeoIsHistory ==
    \A range \in {RangeOf(p) : p \in Preset}, places \in Selections :
        LET answer == QueryGeo(range, places)
        IN  \/ answer = Calls(range, places)
            \/ /\ range.granularity = "hour" /\ now <= opened + DAY_MS
               /\ answer = Calls(DailyRange(range), places)

\* A visitor is counted once, whatever regions and hours it was seen in, and the
\* cleanup of visitors never reaches into a range that can still be asked for.
VisitorsAreHistory ==
    \A range \in {RangeOf(p) : p \in Preset} :
        LET answer == QueryUniqueVisitors(range)
        IN  \/ answer = Seen(range)
            \/ /\ range.granularity = "hour" /\ now <= opened + DAY_MS
               /\ answer = Seen(DailyRange(range))

\* On Cloudflare what the sender knows to be written is counted, once; of the
\* records whose request failed some may be counted all the same, once too.  There
\* is no other loss, however the requests overtake each other.
LossIsReported ==
    deployment = "cloudflare" =>
        acknowledged \sqsubseteq log /\ log \sqsubseteq acknowledged (+) failed
===============================================================================
