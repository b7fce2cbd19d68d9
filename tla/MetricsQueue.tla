----------------------------- MODULE MetricsQueue -----------------------------
(***************************************************************************)
(* NodeMetricsService (src/src/metrics-node.ts): the in-memory queue       *)
(* between the hub and the SQLite store, its flush timer and microtask,    *)
(* shutdown, and a process that may die at any time and start again.       *)
(*                                                                         *)
(* SqlMetricsStore.write is two transactions: the batch, and when a day    *)
(* has passed the cleanup.  Either may fail; the queue cannot tell which,  *)
(* and puts the batch back.                                                *)
(*                                                                         *)
(* Records are numbered in the order they are recorded.                    *)
(***************************************************************************)
EXTENDS Integers, Sequences, FiniteSets

CONSTANTS
    MaxBatch,     \* options.maxBatchSize
    MaxQueue,     \* options.maxQueueSize
    LastRecord,   \* bound: records ever made
    MaxRewrites   \* bound: writes whose cleanup fails

ASSUME QueueAssumption ==
    /\ MaxBatch \in Nat \ {0}
    /\ MaxQueue \in Nat \ {0}
    /\ LastRecord \in Nat
    /\ MaxRewrites \in Nat

Record == 1 .. LastRecord

VARIABLES
    process,     \* "running", "closing" or "givingUp" (inside close), "closed", "dead"
    queue,       \* the records waiting, oldest first
    next,        \* number of the next record
    timer,       \* flushTimer is set
    microtasks,  \* flushes queued with queueMicrotask
    disk,        \* "ok", "noWrites", "noCleanup"
    due,         \* the next write must clean up
    stored,      \* how often each record is in the store's totals
    dropped,     \* records shifted out of a full queue, each reported to onError
    lost,        \* records in the queue of a process that closed or died
    rewrites     \* writes that stored their batch and failed nevertheless

service == <<process, queue, next, timer, microtasks, dropped, lost>>
store   == <<stored, due, rewrites>>
vars    == <<service, store, disk>>

Records(q) == {q[i] : i \in 1 .. Len(q)}
InQueue == Records(queue)

Init ==
    /\ process = "running" /\ queue = <<>> /\ next = 1
    /\ timer = FALSE /\ microtasks = 0
    /\ disk = "ok" /\ due = TRUE /\ stored = [r \in Record |-> 0]
    /\ dropped = {} /\ lost = {} /\ rewrites = 0

-----------------------------------------------------------------------------
(* The store.                                                              *)

\* Both transactions commit.
WriteSucceeds(batch) ==
    /\ disk = "ok" \/ (disk = "noCleanup" /\ ~due)
    /\ stored' = [r \in Record |-> IF r \in batch THEN stored[r] + 1 ELSE stored[r]]
    /\ due' = FALSE
    /\ UNCHANGED rewrites

\* The first transaction is rolled back.
WriteFails == disk = "noWrites" /\ UNCHANGED store

\* The first commits, and cleanup throws; lastCleanupAt stays as it was.
CleanupFails(batch) ==
    /\ disk = "noCleanup" /\ due
    /\ rewrites < MaxRewrites
    /\ rewrites' = rewrites + 1
    /\ stored' = [r \in Record |-> IF r \in batch THEN stored[r] + 1 ELSE stored[r]]
    /\ UNCHANGED due

-----------------------------------------------------------------------------
(* The queue.                                                              *)

Smaller(a, b) == IF a < b THEN a ELSE b

BatchLength(q) == Smaller(MaxBatch, Len(q))
Batch(q) == {q[i] : i \in 1 .. BatchLength(q)}

\* Mutant: slice instead of splice.
RestSliced(q) == q

Rest(q) == SubSeq(q, BatchLength(q) + 1, Len(q))

\* batch.slice(-available) is put back before the rest; slice(-0) is the whole batch.
Available(q) == IF Len(Rest(q)) < MaxQueue THEN MaxQueue - Len(Rest(q)) ELSE 0
Kept(q) == IF Available(q) = 0 THEN BatchLength(q) ELSE Smaller(Available(q), BatchLength(q))

\* Mutant: a failed batch that was never spliced out is put back.
RequeuedUnspliced(q) == SubSeq(q, 1, BatchLength(q)) \o q

\* Mutant: the failed batch is pushed behind the rest.
RequeuedBehind(q) == Rest(q) \o SubSeq(q, 1, BatchLength(q))

Requeued(q) == SubSeq(q, BatchLength(q) - Kept(q) + 1, Len(q))

\* flush() of a queue that holds q, with m microtasks queued.
FlushNothing(q, m) ==
    /\ q = <<>>
    /\ queue' = q /\ timer' = FALSE /\ microtasks' = m
    /\ UNCHANGED store

\* Mutant: what a flush leaves in the queue waits for the next record.
FlushStoresOnce(q, m) ==
    /\ q # <<>>
    /\ WriteSucceeds(Batch(q))
    /\ queue' = Rest(q)
    /\ timer' = FALSE /\ microtasks' = m

FlushStores(q, m) ==
    /\ q # <<>>
    /\ WriteSucceeds(Batch(q))
    /\ queue' = Rest(q)
    /\ timer' = (Rest(q) # <<>> /\ Len(Rest(q)) < MaxBatch)
    /\ microtasks' = IF Len(Rest(q)) >= MaxBatch THEN m + 1 ELSE m

\* Mutant: a failed batch is not put back.
FlushFailsForgets(q, m) ==
    /\ q # <<>>
    /\ WriteFails \/ CleanupFails(Batch(q))
    /\ queue' = Rest(q)
    /\ timer' = (Rest(q) # <<>>) /\ microtasks' = m

\* Mutant: a failed flush is not tried again.
FlushFailsOnce(q, m) ==
    /\ q # <<>>
    /\ WriteFails \/ CleanupFails(Batch(q))
    /\ queue' = Requeued(q)
    /\ timer' = FALSE /\ microtasks' = m

FlushFails(q, m) ==
    /\ q # <<>>
    /\ WriteFails \/ CleanupFails(Batch(q))
    /\ queue' = Requeued(q)
    /\ timer' = TRUE /\ microtasks' = m

Flush(q, m) == FlushNothing(q, m) \/ FlushStores(q, m) \/ FlushFails(q, m)

\* record(): a full queue first shifts out its oldest record.
Full == Len(queue) >= MaxQueue
Pushed == Append(IF Full THEN Tail(queue) ELSE queue, next)

RecordEvent ==
    /\ process = "running"
    /\ next \in Record
    /\ next' = next + 1
    /\ dropped' = IF Full THEN dropped \cup {Head(queue)} ELSE dropped
    /\ \/ Len(Pushed) >= MaxBatch /\ Flush(Pushed, microtasks)
       \/ /\ Len(Pushed) < MaxBatch
          /\ queue' = Pushed /\ timer' = TRUE
          /\ UNCHANGED <<store, microtasks>>
    /\ UNCHANGED <<process, lost, disk>>

TimerFires ==
    /\ process = "running" /\ timer
    /\ Flush(queue, microtasks)
    /\ UNCHANGED <<process, next, dropped, lost, disk>>

\* Mutant: flush() does not look whether the service is closed.
MicrotaskAfterClose ==
    /\ process \in {"running", "closed"} /\ microtasks > 0
    /\ Flush(queue, microtasks - 1)
    /\ UNCHANGED <<process, next, dropped, lost, disk>>

\* A flush that is still queued when the service is closed does nothing.
Microtask ==
    /\ process \in {"running", "closed"} /\ microtasks > 0
    /\ \/ process = "running" /\ Flush(queue, microtasks - 1)
       \/ /\ process = "closed"
          /\ microtasks' = microtasks - 1
          /\ UNCHANGED <<queue, timer, store>>
    /\ UNCHANGED <<process, next, dropped, lost, disk>>

-----------------------------------------------------------------------------
(* Shutdown, crash, restart.                                               *)

\* close() runs to its end without interruption: flushes until the queue is
\* empty or a flush makes no progress, then closes the database.
Close ==
    /\ process = "running" /\ process' = "closing"
    /\ UNCHANGED <<queue, next, timer, microtasks, dropped, lost, store, disk>>

CloseFlushes ==
    /\ process = "closing" /\ queue # <<>>
    /\ Flush(queue, microtasks)
    /\ process' = IF Len(queue') >= Len(queue) THEN "givingUp" ELSE "closing"
    /\ UNCHANGED <<next, dropped, lost, disk>>

CloseEnds ==
    /\ process = "givingUp" \/ (process = "closing" /\ queue = <<>>)
    /\ process' = "closed" /\ timer' = FALSE
    /\ lost' = lost \cup InQueue
    /\ UNCHANGED <<queue, next, microtasks, dropped, store, disk>>

Die ==
    /\ process # "dead" /\ process' = "dead"
    /\ lost' = lost \cup InQueue
    /\ queue' = <<>> /\ timer' = FALSE /\ microtasks' = 0
    /\ UNCHANGED <<next, dropped, store, disk>>

\* The store writes its meta table before it serves; if it cannot, the server runs
\* without metrics.
Restart ==
    /\ process = "dead" /\ process' = "running"
    /\ disk # "noWrites"
    /\ UNCHANGED <<queue, next, timer, microtasks, dropped, lost, store, disk>>

-----------------------------------------------------------------------------
(* The environment.                                                        *)

DiskChanges ==
    /\ disk' \in {"ok", "noWrites", "noCleanup"} \ {disk}
    /\ UNCHANGED <<service, store>>

CleanupFallsDue ==
    /\ ~due /\ due' = TRUE
    /\ UNCHANGED <<service, stored, rewrites, disk>>

-----------------------------------------------------------------------------
Next ==
    \/ RecordEvent \/ TimerFires \/ Microtask
    \/ Close \/ CloseFlushes \/ CloseEnds \/ Die \/ Restart
    \/ DiskChanges \/ CleanupFallsDue

Spec == Init /\ [][Next]_vars

\* The event loop runs microtasks and timers, and close() to its end.
Fairness ==
    /\ WF_vars(TimerFires) /\ WF_vars(Microtask)
    /\ WF_vars(CloseFlushes) /\ WF_vars(CloseEnds)

FairSpec == Spec /\ Fairness

-----------------------------------------------------------------------------
(* Properties.                                                             *)

\* Type invariant; a batch that is put back never makes the queue longer than
\* maxQueueSize.
TypeOK ==
    /\ process \in {"running", "closing", "givingUp", "closed", "dead"}
    /\ queue \in Seq(Record) /\ Len(queue) <= MaxQueue
    /\ next \in 1 .. LastRecord + 1
    /\ timer \in BOOLEAN
    /\ microtasks \in Nat
    /\ disk \in {"ok", "noWrites", "noCleanup"}
    /\ due \in BOOLEAN
    /\ stored \in [Record -> Nat]
    /\ dropped \subseteq Record
    /\ lost \subseteq Record
    /\ rewrites \in 0 .. MaxRewrites

\* Whatever fails, the queue stays in the order of recording, and a full queue
\* gave up older records than any it still holds.
InOrder ==
    /\ \A i, j \in 1 .. Len(queue) : i < j => queue[i] < queue[j]
    /\ \A i \in 1 .. Len(queue) : queue[i] < next
    /\ \A d \in dropped, i \in 1 .. Len(queue) : d < queue[i]

\* No record vanishes: each one is waiting, in the store, reported as dropped, or
\* was waiting when its process closed or died.
NothingVanishes ==
    \A r \in 1 .. next - 1 : r \in InQueue \cup dropped \cup lost \/ stored[r] > 0

\* A record is counted twice only by a write whose cleanup failed, once for each;
\* and what is waiting was counted by such writes only.
OvercountBounded ==
    \A r \in Record : stored[r] <= rewrites + (IF r \in InQueue THEN 0 ELSE 1)

\* A running service with records waiting has a flush on its way: no flush that
\* failed, was overtaken by another or left a remainder is the last one.
FlushIsComing ==
    process = "running" /\ queue # <<>> => timer \/ microtasks > 0

\* metrics.test.ts:370: recorded events, once in the store, are in its totals once.
CountedOnce == \A r \in Record : stored[r] <= 1

\* The closed database is not touched, by a flush queued before close() neither.
ClosedIsFinal ==
    [][(process = "closed" \/ process = "dead") => UNCHANGED <<stored, timer>>]_vars

\* Once the disk works again for good, no record waits for ever.
QueueDrains ==
    <>[](disk = "ok") =>
        \A r \in Record : r \in InQueue ~> r \notin InQueue \/ process # "running"
=============================================================================
