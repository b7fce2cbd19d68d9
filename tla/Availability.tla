----------------------------- MODULE Availability -----------------------------
(***************************************************************************)
(* The availability ledger of SqlMetricsStore (src/src/metrics-store.ts):  *)
(* one row per hour, holding the best status any check of that hour had,   *)
(* and one row per day, into which an hour is settled once it is over.     *)
(*                                                                         *)
(* A check is stamped when it is made and written later.  Node queues it   *)
(* and writes the whole queue, again if the write failed halfway; on       *)
(* Cloudflare each probe writes its own check, whichever ends first.       *)
(*                                                                         *)
(* Time is counted in hours.                                               *)
(* There is one target, as in a running server.                            *)
(***************************************************************************)
EXTENDS Integers, Sequences, FiniteSets, FiniteSetsExt, Functions

CONSTANTS
    DayLength,   \* hours of a day; also cleanupIntervalMs
    Retention,   \* retentionMs, in hours
    LastHour,    \* bound: hours of the run
    MaxChecks,   \* bound, per deployment: checks ever made
    MaxWrites    \* bound: how often one check is written

ASSUME AvailabilityAssumption ==
    /\ DayLength \in Nat \ {0}
    /\ Retention \in Nat \ {0} /\ Retention >= DayLength
    /\ LastHour \in Nat \ {0}
    /\ MaxChecks \in [{"node", "cloudflare"} -> Nat]
    /\ MaxWrites \in Nat

Hour  == 1 .. LastHour
DayOf(h) == h \div DayLength
Day   == {DayOf(h) : h \in Hour}
NoRow == [rank |-> -1, samples |-> 0]
Never == LastHour + 1

VARIABLES
    deployment,  \* "node" or "cloudflare"
    now,      \* the current hour
    checks,   \* the checks made so far, [hour, rank, measured]
    waiting,  \* those that are still to be written
    rows,     \* availability_hourly
    days,     \* availability_daily
    start,    \* availability_monitoring_started_at; Never if unset
    cursor,   \* availability_settled_until; 0 if unset
    cleaned,  \* lastCleanupAt
    written,  \* history: how often each check was written
    erased,   \* history: hours deleted by a cleanup before they were settled
    begun     \* history: the start when the first hours were settled

ledger == <<rows, days, start, cursor, cleaned, written, erased, begun>>
vars   == <<deployment, now, checks, waiting, ledger>>

Init ==
    /\ deployment \in {"node", "cloudflare"}
    /\ now = 1
    /\ checks = <<>> /\ waiting = {}
    /\ rows = [h \in Hour |-> NoRow]
    /\ days = [d \in Day |-> [up |-> 0, total |-> 0, samples |-> 0]]
    /\ start = Never /\ cursor = 0 /\ cleaned = 1 - DayLength
    /\ written = <<>> /\ erased = {} /\ begun = Never

-----------------------------------------------------------------------------
(* The ledger.                                                             *)

\* statusRank(availabilityStatus(httpOk, websocketOk))
StatusRank(httpOk, websocketOk) ==
    CASE ~httpOk                -> 0
      [] httpOk /\ ~websocketOk -> 1
      [] httpOk /\ websocketOk  -> 2

Of(batch, h) == {i \in batch : checks[i].hour = h}

\* How many of a batch's checks of an hour measured a latency.
SamplesOf(batch, h) == Cardinality({i \in Of(batch, h) : checks[i].measured})

\* Mutant: the latest check replaces the row.
UpsertedLast(batch) ==
    [h \in Hour |->
        [rank    |-> IF Of(batch, h) = {} THEN rows[h].rank
                     ELSE checks[Max(Of(batch, h))].rank,
         samples |-> rows[h].samples + SamplesOf(batch, h)]]

\* The hourly rows after upsertAvailability of every check of the batch.
Upserted(batch) ==
    [h \in Hour |->
        [rank    |-> Max({rows[h].rank} \union {checks[i].rank : i \in Of(batch, h)}),
         samples |-> rows[h].samples + SamplesOf(batch, h)]]

\* updateEarliestMeta
Earliest(batch) == Min({start} \union {checks[i].hour : i \in batch})

\* Mutant: settles everything again.
SettleFromStart(first) == first

\* settleAvailabilityTarget starts where it stopped, or where monitoring starts.
SettleFrom(first) == Max({cursor, first})

\* A check of an hour that is already settled corrects the day, once per hour.
\* Mutants: it does not; it does so with every check that found the server up.
LateHours(d, batch) == {h \in Hour : DayOf(h) = d /\ h < cursor /\ Of(batch, h) # {}}
IgnoresLate(d, batch) == 0
CountsAgain(d, batch) ==
    Cardinality({h \in LateHours(d, batch) : Upserted(batch)[h].rank = 2})
LateUp(d, batch) ==
    Cardinality({h \in LateHours(d, batch) : rows[h].rank < 2 /\ Upserted(batch)[h].rank = 2})

\* Mutant: the latency of a late check goes to its hour only.
ForgetsLatency(d, batch) == 0
LateSamples(d, batch) ==
    SumFunctionOnSet([h \in Hour |-> SamplesOf(batch, h)], LateHours(d, batch))

\* The hours that are over now are added to their day, as they now stand.
SettledHours(d, batch) == {h \in SettleFrom(Earliest(batch)) .. (now - 1) : DayOf(h) = d}
SettledUp(d, batch) ==
    Cardinality({h \in SettledHours(d, batch) : Upserted(batch)[h].rank = 2})
SettledSamples(d, batch) ==
    SumFunctionOnSet([h \in Hour |-> Upserted(batch)[h].samples], SettledHours(d, batch))

\* One day after a write (upsertAvailabilityDay of every hour above).
DayAfter(d, batch) ==
    [up      |-> days[d].up + LateUp(d, batch) + SettledUp(d, batch),
     total   |-> days[d].total + Cardinality(SettledHours(d, batch)),
     samples |-> days[d].samples + LateSamples(d, batch) + SettledSamples(d, batch)]

\* What a cleanup leaves of the hourly rows.
Outdated(h) == h < now - Retention
Kept(table) == [h \in Hour |-> IF Outdated(h) THEN NoRow ELSE table[h]]
CleanupDue  == now - cleaned >= DayLength

\* SqlMetricsStore.write of a batch with checks: one transaction for the batch
\* and the settling, then the cleanup, if it is due and does not throw.
Write(batch, cleans) ==
    LET first == Earliest(batch)
        until == Max({SettleFrom(first), now})
    IN  /\ rows' = IF cleans THEN Kept(Upserted(batch)) ELSE Upserted(batch)
        /\ days' = [d \in Day |-> DayAfter(d, batch)]
        /\ start' = first
        /\ cursor' = until
        /\ cleaned' = IF cleans THEN now ELSE cleaned
        /\ written' = [i \in DOMAIN checks |-> written[i] + IF i \in batch THEN 1 ELSE 0]
        /\ begun' = IF cursor = 0 THEN first ELSE begun
        /\ UNCHANGED erased

-----------------------------------------------------------------------------
(* Probes, writes and time.                                                *)

\* What a probe may find.  On Node an error answer has a latency too, on Cloudflare
\* only a good one; the fetch and the socket are cut off after ten seconds.
Result == [httpOk : BOOLEAN, websocketOk : BOOLEAN, measured : BOOLEAN]
NodeResult       == {r \in Result : r.httpOk => r.measured}
CloudflareResult == {r \in Result : r.httpOk <=> r.measured}

\* On Cloudflare the check is of the hour the probe began in, and a probe under way
\* counts as waiting; on Node it is of the hour in which it is queued.
Probe(result) ==
    /\ Len(checks) < MaxChecks[deployment]
    /\ checks' = Append(checks, [hour     |-> now,
                                 rank     |-> StatusRank(result.httpOk, result.websocketOk),
                                 measured |-> result.measured])
    /\ waiting' = waiting \union {Len(checks')}
    /\ written' = Append(written, 0)
    /\ UNCHANGED <<deployment, now, rows, days, start, cursor, cleaned, erased, begun>>

\* Node writes its queue from the front, as far as a batch of it reaches.
Front(last) == {i \in waiting : i <= last}
NodeFlush(last) ==
    /\ deployment = "node"
    /\ Write(Front(last), CleanupDue)
    /\ waiting' = waiting \ Front(last)
    /\ UNCHANGED <<deployment, now, checks>>

\* The cleanup throws after the batch was committed: the queue keeps the batch.
NodeFlushFails(last) ==
    /\ deployment = "node"
    /\ CleanupDue
    /\ \A i \in Front(last) : written[i] < MaxWrites
    /\ Write(Front(last), FALSE)
    /\ UNCHANGED <<deployment, now, checks, waiting>>

\* On Cloudflare a probe writes its own check when it ends, and does not write
\* it again when the cleanup throws.
ObjectWrites(i) ==
    /\ deployment = "cloudflare"
    /\ \E cleans \in {CleanupDue, FALSE} : Write({i}, cleans)
    /\ waiting' = waiting \ {i}
    /\ UNCHANGED <<deployment, now, checks>>

\* A full queue of Node drops its oldest record, a process that dies all of them,
\* one by one; on Cloudflare any request may fail.
Lose(i) ==
    /\ deployment = "node" => i = Min(waiting)
    /\ waiting' = waiting \ {i}
    /\ UNCHANGED <<deployment, now, checks, ledger>>

\* A write of usage only leaves the ledger alone, but for the cleanup.
CleanupByUsage ==
    /\ CleanupDue
    /\ rows' = Kept(rows)
    /\ cleaned' = now
    /\ erased' = erased \union {h \in Hour : Outdated(h) /\ h >= cursor /\ rows[h] # NoRow}
    /\ UNCHANGED <<deployment, now, checks, waiting, days, start, cursor, written, begun>>

\* No check waits as long as its hour is kept (ninety days).
Tick ==
    \/ /\ now < LastHour
       /\ \A i \in waiting : now - checks[i].hour < Retention
       /\ now' = now + 1
       /\ UNCHANGED <<deployment, checks, waiting, ledger>>
    \/ /\ now = LastHour
       /\ UNCHANGED vars

Next ==
    \/ \E result \in NodeResult : deployment = "node" /\ Probe(result)
    \/ \E result \in CloudflareResult : deployment = "cloudflare" /\ Probe(result)
    \/ \E i \in waiting : NodeFlush(i) \/ NodeFlushFails(i) \/ ObjectWrites(i) \/ Lose(i)
    \/ CleanupByUsage
    \/ Tick

Spec == Init /\ [][Next]_vars

-----------------------------------------------------------------------------
(* What the page is told.                                                  *)

\* The earliest hour a preset of retentionMs reaches back to (parseMetricsRange).
OldestAsked == ((now + DayLength) \div DayLength) * DayLength - Retention

\* queryAvailability: the hours shown, and the status of each; `early` is the first
\* quarter of an hour.
Shown == {h \in Hour : h >= Max({start, OldestAsked}) /\ h <= now}
StatusShown(h, early) ==
    IF h = now /\ early THEN "pending"
    ELSE CASE rows[h].rank >= 2 -> "up"
           [] rows[h].rank = 1  -> "degraded"
           [] OTHER             -> "down"

-----------------------------------------------------------------------------
(* Properties.                                                             *)

Settled(d) == {h \in Hour : DayOf(h) = d /\ h < cursor}
Whole(d)   == \A h \in erased : DayOf(h) # d
Written(h) == {i \in DOMAIN checks : checks[i].hour = h /\ written[i] > 0}
WasUp(h)   == \E i \in Written(h) : checks[i].rank = 2

\* The day's up_hours are its settled hours in which a check found the server
\* up, each once.
UpHoursAddUp ==
    \A d \in Day : Whole(d) => days[d].up = Cardinality({h \in Settled(d) : WasUp(h)})

\* The latencies of a day are those of all its hours' checks, as often as written.
Measured(h)  == {i \in DOMAIN checks : checks[i].hour = h /\ checks[i].measured}
Latencies(h) == SumFunctionOnSet(written, Measured(h))
LatenciesAddUp ==
    \A d \in Day : Whole(d) =>
        days[d].samples = SumFunctionOnSet([h \in Hour |-> Latencies(h)], Settled(d))

\* Both, however often, how late and in whatever order the checks were written: the
\* correction of a late check and the settling agree.  On Node, whose checks are
\* written in order, no day has more hours up than it has hours: its ratio is at
\* most one.
DaysAddUp ==
    /\ UpHoursAddUp
    /\ LatenciesAddUp
    /\ deployment = "node" => \A d \in Day : days[d].up <= days[d].total

\* The day's total_hours are the hours from the start of monitoring to the
\* cursor: no hour is settled twice or skipped, in a day with or without checks.
TotalHoursAddUp ==
    \A d \in Day : days[d].total = Cardinality({h \in Settled(d) : h >= begun})

\* The page shows of every hour it can ask for the best status that was seen:
\* no check is outvoted by a worse one, and no cleanup turns an hour that was
\* up into an outage while it can still be shown.
ShownIsWhatWasSeen ==
    \A h \in Shown, early \in BOOLEAN :
        LET status == StatusShown(h, early)
        IN  status # "pending" =>
                /\ status = "up"   <=> WasUp(h)
                /\ status = "down" <=> \A i \in Written(h) : checks[i].rank = 0
===============================================================================
