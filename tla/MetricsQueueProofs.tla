-------------------------- MODULE MetricsQueueProofs --------------------------
(***************************************************************************)
(* MetricsQueue keeps its invariants for every batch size, queue size and  *)
(* number of records: TypeOK, InOrder, NothingVanishes, OvercountBounded   *)
(* and FlushIsComing.  Their conjunction needs two things more to be       *)
(* inductive: the store has counted no record that is not made yet (so a   *)
(* new one can be stored twice only by a write that fails), and a closed   *)
(* or dead service has no timer, a dead one no queue (so a restart begins  *)
(* with nothing to flush).                                                 *)
(*                                                                         *)
(* Every step that touches the queue pushes at most one record and then    *)
(* flushes at most once, so the lemmas on Pushed and Flush carry the       *)
(* proof.                                                                  *)
(***************************************************************************)
EXTENDS MetricsQueue, SequenceTheorems, TLAPS

Stopped ==
    /\ process \in {"closed", "dead"} => timer = FALSE
    /\ process = "dead" => queue = <<>> /\ microtasks = 0

Fresh ==
    /\ \A r \in Record : r >= next => stored[r] = 0
    /\ \A d \in dropped : d < next

Inv ==
    /\ TypeOK /\ InOrder /\ NothingVanishes /\ OvercountBounded /\ FlushIsComing
    /\ Stopped /\ Fresh

\* What holds of a queue that flush may be called on.
Increasing(q) == \A i, j \in 1 .. Len(q) : i < j => q[i] < q[j]
Counted(q, st, rw) == \A r \in Record : st[r] <= rw + (IF r \in Records(q) THEN 0 ELSE 1)

Flushable(q) ==
    /\ q \in Seq(Record) /\ Len(q) <= MaxQueue
    /\ Increasing(q)
    /\ Counted(q, stored, rewrites)

StoreOK ==
    /\ due \in BOOLEAN
    /\ stored \in [Record -> Nat]
    /\ rewrites \in 0 .. MaxRewrites

-----------------------------------------------------------------------------
(* The sequences of a flush.                                               *)

\* splice(0, maxBatchSize) takes at least one record of a queue that has any.
LEMMA BatchLengthBounds ==
    ASSUME NEW q \in Seq(Record), q # <<>>
    PROVE  /\ BatchLength(q) \in 1 .. Len(q)
           /\ Len(q) \in Nat \ {0}
  BY QueueAssumption DEF BatchLength, Smaller

\* What splice leaves: the queue without its first BatchLength records.
LEMMA RestElements ==
    ASSUME NEW q \in Seq(Record), q # <<>>
    PROVE  /\ Rest(q) \in Seq(Record)
           /\ Len(Rest(q)) = Len(q) - BatchLength(q)
           /\ \A i \in 1 .. Len(Rest(q)) : Rest(q)[i] = q[i + BatchLength(q)]
  BY BatchLengthBounds DEF Rest

\* A batch that could not be written is put back whole: the queue is what it was.
LEMMA RequeuedIsWhole ==
    ASSUME NEW q \in Seq(Record), q # <<>>, Len(q) <= MaxQueue
    PROVE  Requeued(q) = q
<1>1. /\ BatchLength(q) \in 1 .. Len(q) /\ Len(q) \in Nat \ {0}
      /\ Len(Rest(q)) = Len(q) - BatchLength(q)
  BY BatchLengthBounds, RestElements
<1>2. Kept(q) = BatchLength(q)
  BY <1>1, QueueAssumption DEF Kept, Available, Smaller
<1>3. BatchLength(q) - Kept(q) + 1 = 1 BY <1>1, <1>2
<1>4. Requeued(q) = SubSeq(q, 1, Len(q)) BY <1>3, Zenon DEF Requeued
<1> QED BY <1>4, SubSeqFull

\* In an increasing queue the batch and the rest have no record in common, and
\* together they are the queue.
LEMMA BatchAndRest ==
    ASSUME NEW q \in Seq(Record), q # <<>>, Increasing(q)
    PROVE  /\ Records(q) = Batch(q) \cup Records(Rest(q))
           /\ Batch(q) \cap Records(Rest(q)) = {}
           /\ Increasing(Rest(q))
<1> DEFINE b == BatchLength(q)
<1>1. /\ b \in 1 .. Len(q) /\ Len(q) \in Nat
      /\ Rest(q) \in Seq(Record) /\ Len(Rest(q)) = Len(q) - b
      /\ \A i \in 1 .. Len(Rest(q)) : Rest(q)[i] = q[i + b]
  BY BatchLengthBounds, RestElements
<1>2. Batch(q) = {q[i] : i \in 1 .. b} BY DEF Batch
<1> HIDE DEF b
<1>3. ASSUME NEW r \in Records(Rest(q))
      PROVE  \E i \in b + 1 .. Len(q) : r = q[i]
  <2>1. PICK i \in 1 .. Len(Rest(q)) : r = Rest(q)[i] BY <1>3 DEF Records
  <2>2. i + b \in b + 1 .. Len(q) /\ r = q[i + b] BY <1>1, <2>1
  <2> QED BY <2>2
<1>4. ASSUME NEW i \in 1 .. Len(q)
      PROVE  q[i] \in Batch(q) \cup Records(Rest(q))
  <2>1. CASE i <= b BY <1>1, <1>2, <2>1
  <2>2. CASE i > b
    <3>1. i - b \in 1 .. Len(Rest(q)) BY <1>1, <2>2
    <3>2. q[i] = Rest(q)[i - b] BY <1>1, <3>1
    <3> QED BY <3>1, <3>2 DEF Records
  <2> QED BY <1>1, <2>1, <2>2
<1>5. Batch(q) \subseteq Records(q) BY <1>1, <1>2 DEF Records
<1>6. Records(Rest(q)) \subseteq Records(q)
  <2>1. \A i \in b + 1 .. Len(q) : i \in 1 .. Len(q) BY <1>1
  <2> QED BY <1>3, <2>1 DEF Records
<1>7. Records(q) = Batch(q) \cup Records(Rest(q))
  BY <1>4, <1>5, <1>6 DEF Records
<1>8. Batch(q) \cap Records(Rest(q)) = {}
  <2> SUFFICES ASSUME NEW r \in Batch(q), r \in Records(Rest(q)) PROVE FALSE
    OBVIOUS
  <2>1. PICK i \in 1 .. b : r = q[i] BY <1>2
  <2>2. PICK j \in b + 1 .. Len(q) : r = q[j] BY <1>3
  <2>3. i < j /\ i \in 1 .. Len(q) /\ j \in 1 .. Len(q) BY <1>1
  <2>4. q[i] < q[j] BY <2>3 DEF Increasing
  <2>5. q[i] \in Int
    <3>1. q[i] \in Record BY <2>3, ElementOfSeq
    <3> QED BY <3>1, QueueAssumption DEF Record
  <2> QED BY <2>1, <2>2, <2>4, <2>5
<1>9. Increasing(Rest(q))
  <2> SUFFICES ASSUME NEW i \in 1 .. Len(Rest(q)), NEW j \in 1 .. Len(Rest(q)), i < j
               PROVE  Rest(q)[i] < Rest(q)[j]
    BY DEF Increasing
  <2>1. i + b \in 1 .. Len(q) /\ j + b \in 1 .. Len(q) /\ i + b < j + b BY <1>1
  <2>2. q[i + b] < q[j + b] BY <2>1 DEF Increasing
  <2> QED BY <1>1, <2>2
<1> QED BY <1>7, <1>8, <1>9

-----------------------------------------------------------------------------
(* flush().                                                                *)

\* What a flush of q guarantees of the queue and of the store it leaves.
Flushed(q) ==
    /\ queue' \in Seq(Record) /\ Len(queue') <= Len(q)
    /\ Increasing(queue')
    /\ Records(queue') \subseteq Records(q)
    /\ Counted(queue', stored', rewrites')
    /\ StoreOK'
    /\ \A r \in Record : stored'[r] >= stored[r]
    /\ \A r \in Record : r \in Records(q) \/ stored'[r] = stored[r]
    /\ \A r \in Records(q) : r \in Records(queue') \/ stored'[r] > 0
    /\ timer' \in BOOLEAN
    /\ microtasks' \in Nat
    /\ queue' # <<>> => timer' \/ microtasks' > 0

\* What a flush guarantees of any queue it may find, whatever the store does.
LEMMA FlushGuarantees ==
    ASSUME NEW q, NEW m \in Nat, Flushable(q), StoreOK, Flush(q, m)
    PROVE  Flushed(q)
<1>1. q \in Seq(Record) /\ Len(q) <= MaxQueue /\ Increasing(q) BY DEF Flushable
<1>2. Records(q) \subseteq Record BY <1>1 DEF Records
<1>3. CASE FlushNothing(q, m)
  <2>1. queue' = q /\ q = <<>> /\ timer' = FALSE /\ microtasks' = m
        /\ stored' = stored /\ due' = due /\ rewrites' = rewrites
    BY <1>3 DEF FlushNothing, store
  <2>2. Records(q) = {} BY <2>1 DEF Records
  <2>3. StoreOK' /\ \A r \in Record : stored'[r] >= stored[r] BY <2>1 DEF StoreOK
  <2>4. Counted(queue', stored', rewrites') BY <2>1 DEF Flushable
  <2>5. queue' \in Seq(Record) /\ Len(queue') <= Len(q) /\ Increasing(queue')
    BY <1>1, <2>1, LenProperties
  <2>6. timer' \in BOOLEAN /\ microtasks' \in Nat BY <2>1
  <2> QED BY <2>1, <2>2, <2>3, <2>4, <2>5, <2>6 DEF Flushed
<1>4. CASE FlushStores(q, m)
  <2>1. /\ q # <<>> /\ queue' = Rest(q)
        /\ timer' = (Rest(q) # <<>> /\ Len(Rest(q)) < MaxBatch)
        /\ microtasks' = IF Len(Rest(q)) >= MaxBatch THEN m + 1 ELSE m
        /\ stored' = [r \in Record |-> IF r \in Batch(q) THEN stored[r] + 1 ELSE stored[r]]
        /\ due' = FALSE /\ rewrites' = rewrites
    BY <1>4 DEF FlushStores, WriteSucceeds
  <2>2. /\ Records(q) = Batch(q) \cup Records(Rest(q))
        /\ Batch(q) \cap Records(Rest(q)) = {}
        /\ Increasing(Rest(q))
    BY <1>1, <2>1, BatchAndRest
  <2>3. /\ Rest(q) \in Seq(Record) /\ Len(Rest(q)) \in Nat /\ Len(Rest(q)) <= Len(q)
    BY <1>1, <2>1, RestElements, BatchLengthBounds
  <2>4. StoreOK' /\ \A r \in Record : stored'[r] >= stored[r]
    <3>1. \A r \in Record : stored[r] \in Nat BY DEF StoreOK
    <3>2. \A r \in Record : stored'[r] \in Nat /\ stored'[r] >= stored[r]
      BY <2>1, <3>1
    <3>3. stored' \in [Record -> Nat] BY <2>1, <3>1
    <3> QED BY <2>1, <3>2, <3>3 DEF StoreOK
  <2>5. /\ \A r \in Batch(q) : stored'[r] > 0
        /\ \A r \in Record : r \in Records(q) \/ stored'[r] = stored[r]
    BY <1>2, <2>1, <2>2 DEF StoreOK
  <2>6. Counted(Rest(q), stored', rewrites')
    BY <2>1, <2>2 DEF Counted, Flushable, StoreOK
  <2>7. timer' \in BOOLEAN BY <2>1
  <2>8. microtasks' \in Nat BY <2>1
  <2>9. queue' # <<>> => timer' \/ microtasks' > 0
    <3>1. CASE Len(Rest(q)) >= MaxBatch
      <4>1. microtasks' > 0 BY <2>1, <3>1
      <4> QED BY <4>1
    <3>2. CASE ~(Len(Rest(q)) >= MaxBatch)
      <4>1. Len(Rest(q)) < MaxBatch BY <2>3, <3>2, QueueAssumption
      <4> QED BY <2>1, <4>1, Zenon
    <3> QED BY <3>1, <3>2
  <2> QED BY <2>1, <2>2, <2>3, <2>4, <2>5, <2>6, <2>7, <2>8, <2>9 DEF Flushed
<1>5. CASE FlushFails(q, m)
  <2>1. /\ q # <<>> /\ queue' = Requeued(q) /\ timer' = TRUE /\ microtasks' = m
        /\ WriteFails \/ CleanupFails(Batch(q))
    BY <1>5 DEF FlushFails
  <2>2. queue' = q BY <1>1, <2>1, RequeuedIsWhole
  <2>3. CASE WriteFails
    <3>1. stored' = stored /\ due' = due /\ rewrites' = rewrites
      BY <2>3 DEF WriteFails, store
    <3>2. \A r \in Record : stored'[r] >= stored[r] BY <3>1 DEF StoreOK
    <3> QED BY <1>1, <2>1, <2>2, <3>1, <3>2 DEF Flushed, Flushable, StoreOK
  <2>4. CASE CleanupFails(Batch(q))
    <3>1. /\ stored' = [r \in Record |-> IF r \in Batch(q) THEN stored[r] + 1 ELSE stored[r]]
          /\ due' = due /\ rewrites' = rewrites + 1 /\ rewrites < MaxRewrites
      BY <2>4 DEF CleanupFails
    <3>2. StoreOK' /\ \A r \in Record : stored'[r] >= stored[r]
      BY <3>1, QueueAssumption DEF StoreOK
    <3>3. Batch(q) \subseteq Records(q) BY <1>1, <2>1, BatchAndRest
    <3>4. Counted(q, stored', rewrites')
      BY <3>1, <3>3 DEF Counted, Flushable, StoreOK
    <3>5. \A r \in Record : r \in Records(q) \/ stored'[r] = stored[r]
      BY <3>1, <3>3
    <3> QED BY <1>1, <2>1, <2>2, <3>2, <3>4, <3>5 DEF Flushed
  <2> QED BY <2>1, <2>3, <2>4
<1> QED BY <1>3, <1>4, <1>5 DEF Flush

-----------------------------------------------------------------------------
(* record().                                                               *)

\* The queue with the new record, and without the oldest if it was full, is one
\* that flush may be called on, and loses nothing but what is reported as dropped.
LEMMA PushedGuarantees ==
    ASSUME Inv, next \in Record
    PROVE  /\ Flushable(Pushed)
           /\ Records(Pushed) \subseteq Records(queue) \cup {next}
           /\ Records(queue) \cup {next} \subseteq
                  Records(Pushed) \cup (IF Full THEN {Head(queue)} ELSE {})
           /\ Full => Head(queue) \in Record
           /\ Full => \A r \in Records(Pushed) : Head(queue) < r
           /\ \A r \in Records(Pushed) : r <= next
           /\ \A r \in Records(Pushed), d \in dropped : d < r
           /\ Full => Head(queue) < next
<1>1. /\ queue \in Seq(Record) /\ Len(queue) <= MaxQueue /\ Len(queue) \in Nat
      /\ Increasing(queue) /\ Counted(queue, stored, rewrites)
      /\ \A i \in 1 .. Len(queue) : queue[i] < next
      /\ stored \in [Record -> Nat] /\ rewrites \in Nat
      /\ dropped \subseteq Record
      /\ \A d \in dropped, i \in 1 .. Len(queue) : d < queue[i]
      /\ stored[next] = 0
      /\ \A d \in dropped : d < next
  BY DEF Inv, TypeOK, InOrder, OvercountBounded, Increasing, Counted, InQueue, Fresh,
         Record
<1>2. next \in Int /\ MaxQueue \in Nat \ {0} BY QueueAssumption DEF Record
<1>3. \A i \in 1 .. Len(queue) : queue[i] \in Record /\ queue[i] \in Int
  <2>1. \A i \in 1 .. Len(queue) : queue[i] \in Record BY <1>1, ElementOfSeq
  <2> QED BY <2>1, QueueAssumption DEF Record
<1> DEFINE base == IF Full THEN Tail(queue) ELSE queue
<1>4. /\ base \in Seq(Record) /\ Len(base) \in Nat /\ Len(base) + 1 <= MaxQueue
      /\ Increasing(base)
      /\ Records(base) \subseteq Records(queue)
      /\ Records(queue) \subseteq Records(base) \cup (IF Full THEN {Head(queue)} ELSE {})
      /\ Full => Head(queue) \in Record
      /\ Full => \A i \in 1 .. Len(base) : Head(queue) < base[i]
      /\ Full => Head(queue) < next
  <2>1. CASE ~Full
    <3>1. base = queue BY <2>1
    <3>2. Len(queue) + 1 <= MaxQueue BY <1>1, <1>2, <2>1 DEF Full
    <3> QED BY <1>1, <2>1, <3>1, <3>2
  <2>2. CASE Full
    <3>1. queue # <<>> /\ Len(queue) = MaxQueue
      BY <1>1, <1>2, <2>2 DEF Full
    <3>2. /\ base \in Seq(Record) /\ Len(base) = Len(queue) - 1
          /\ \A i \in 1 .. Len(base) : base[i] = queue[i + 1]
      BY <1>1, <2>2, <3>1, HeadTailProperties
    <3>3. Head(queue) = queue[1] /\ 1 \in 1 .. Len(queue)
      BY <1>1, <1>2, <3>1
    <3>4. \A i \in 1 .. Len(base) : i + 1 \in 1 .. Len(queue) /\ 1 < i + 1
      BY <1>1, <3>2
    <3>5. Increasing(base)
      <4> SUFFICES ASSUME NEW i \in 1 .. Len(base), NEW j \in 1 .. Len(base), i < j
                   PROVE  base[i] < base[j]
        BY Zenon DEF Increasing
      <4>1. i + 1 < j + 1 BY <1>1, <3>2
      <4>2. queue[i + 1] < queue[j + 1] BY <1>1, <3>4, <4>1 DEF Increasing
      <4> QED BY <3>2, <4>2
    <3>6. Records(base) \subseteq Records(queue) BY <3>2, <3>4 DEF Records
    <3>7. Records(queue) \subseteq Records(base) \cup {Head(queue)}
      <4> SUFFICES ASSUME NEW i \in 1 .. Len(queue)
                   PROVE  queue[i] \in Records(base) \cup {Head(queue)}
        BY DEF Records
      <4>1. CASE i = 1 BY <3>3, <4>1
      <4>2. CASE i # 1
        <5>1. i - 1 \in 1 .. Len(base) /\ (i - 1) + 1 = i BY <1>1, <3>2, <4>2
        <5>2. queue[i] = base[i - 1] BY <3>2, <5>1
        <5> QED BY <5>1, <5>2 DEF Records
      <4> QED BY <4>1, <4>2
    <3>8. \A i \in 1 .. Len(base) : Head(queue) < base[i]
      BY <1>1, <3>2, <3>3, <3>4 DEF Increasing
    <3>9. Head(queue) \in Record /\ Head(queue) < next BY <1>1, <1>3, <3>3
    <3> QED BY <1>1, <1>2, <2>2, <3>1, <3>2, <3>5, <3>6, <3>7, <3>8, <3>9
  <2> QED BY <2>1, <2>2
<1>5. \A i \in 1 .. Len(base) : base[i] \in Records(queue) BY <1>4 DEF Records
<1>6. \A r \in Records(queue) : r < next /\ r \in Record /\ \A d \in dropped : d < r
  BY <1>1, <1>3 DEF Records
<1>7. Pushed = Append(base, next) BY DEF Pushed
<1> HIDE DEF base
<1>8. /\ Pushed \in Seq(Record) /\ Len(Pushed) = Len(base) + 1
      /\ \A i \in 1 .. Len(base) : Pushed[i] = base[i]
      /\ Pushed[Len(base) + 1] = next
  BY <1>4, <1>7, AppendProperties
<1>9. \A i \in 1 .. Len(Pushed) : i \in 1 .. Len(base) \/ i = Len(base) + 1
  BY <1>4, <1>8
<1>10. Records(Pushed) = Records(base) \cup {next}
  <2>1. Records(Pushed) \subseteq Records(base) \cup {next}
    BY <1>8, <1>9 DEF Records
  <2>2. Records(base) \subseteq Records(Pushed)
    <3>1. \A i \in 1 .. Len(base) : i \in 1 .. Len(Pushed) BY <1>4, <1>8
    <3> QED BY <1>8, <3>1 DEF Records
  <2>3. next \in Records(Pushed)
    <3>1. Len(base) + 1 \in 1 .. Len(Pushed) BY <1>4, <1>8
    <3> QED BY <1>8, <3>1 DEF Records
  <2> QED BY <2>1, <2>2, <2>3
<1>11. Increasing(Pushed)
  <2> SUFFICES ASSUME NEW i \in 1 .. Len(Pushed), NEW j \in 1 .. Len(Pushed), i < j
               PROVE  Pushed[i] < Pushed[j]
    BY DEF Increasing
  <2>1. i \in 1 .. Len(base) BY <1>4, <1>8
  <2>2. CASE j \in 1 .. Len(base) BY <1>4, <1>8, <2>1, <2>2 DEF Increasing
  <2>3. CASE j = Len(base) + 1 BY <1>5, <1>6, <1>8, <2>1, <2>3
  <2> QED BY <1>9, <2>2, <2>3
<1>12. Counted(Pushed, stored, rewrites)
  <2> SUFFICES ASSUME NEW r \in Record
               PROVE  stored[r] <= rewrites + (IF r \in Records(Pushed) THEN 0 ELSE 1)
    BY DEF Counted
  <2>1. stored[r] \in Nat /\ rewrites \in Nat BY <1>1
  <2>2. CASE r = next BY <1>1, <1>10, <2>1, <2>2
  <2>3. CASE r # next /\ r \in Records(Pushed)
    <3>1. r \in Records(queue) BY <1>4, <1>10, <2>3
    <3> QED BY <1>1, <2>3, <3>1 DEF Counted
  <2>4. CASE r \notin Records(Pushed)
    <3>1. stored[r] <= rewrites + 1 BY <1>1, <2>1 DEF Counted
    <3> QED BY <2>4, <3>1
  <2> QED BY <2>2, <2>3, <2>4
<1>13. Flushable(Pushed) BY <1>4, <1>8, <1>11, <1>12 DEF Flushable
<1>14. \A r \in Records(Pushed) : r <= next
  BY <1>2, <1>4, <1>6, <1>10, QueueAssumption DEF Record
<1>15. \A r \in Records(Pushed), d \in dropped : d < r
  BY <1>1, <1>4, <1>6, <1>10
<1>16. Full => \A r \in Records(Pushed) : Head(queue) < r
  BY <1>4, <1>10 DEF Records
<1> QED BY <1>4, <1>10, <1>13, <1>14, <1>15, <1>16

-----------------------------------------------------------------------------
(* One step.                                                               *)

\* The queue that is waiting is one that flush may be called on.
LEMMA QueueFlushable ==
    ASSUME Inv
    PROVE  /\ Flushable(queue) /\ StoreOK
           /\ \A r \in Records(queue) : r < next /\ \A d \in dropped : d < r
<1>1. Flushable(queue)
  BY DEF Inv, TypeOK, InOrder, OvercountBounded, Flushable, Increasing, Counted, InQueue
<1>2. StoreOK BY DEF Inv, TypeOK, StoreOK
<1>3. \A r \in Records(queue) : r < next /\ \A d \in dropped : d < r
  BY DEF Inv, InOrder, Records
<1> QED BY <1>1, <1>2, <1>3

\* What is made before n was made before m or since.
LEMMA MadeBefore ==
    \A m, n \in 1 .. LastRecord + 1 : \A r \in 1 .. n - 1 :
        r \in Record /\ (r \in 1 .. m - 1 \/ r \in m .. n - 1)
  BY QueueAssumption DEF Record

\* A step that flushes q, whose records and the dropped ones account for everything
\* recorded, keeps what Inv says of the queue and the store.
LEMMA FlushKeepsRecords ==
    ASSUME Inv, NEW q, Flushable(q), Flushed(q),
           next' \in 1 .. LastRecord + 1, next <= next', lost' = lost,
           dropped' \subseteq Record, dropped \subseteq dropped',
           \A r \in Records(q) : r < next',
           \A d \in dropped' : d < next',
           \A r \in Records(q), d \in dropped' : d < r,
           \A r \in next .. next' - 1 : r \in Records(q) \cup dropped',
           \A r \in Records(queue) : r \in Records(q) \cup dropped'
    PROVE  /\ InOrder' /\ NothingVanishes' /\ OvercountBounded' /\ Fresh' /\ StoreOK'
           /\ queue' \in Seq(Record) /\ Len(queue') <= MaxQueue
           /\ timer' \in BOOLEAN /\ microtasks' \in Nat
           /\ queue' # <<>> => timer' \/ microtasks' > 0
<1>1. /\ queue' \in Seq(Record) /\ Len(queue') <= Len(q) /\ Increasing(queue')
      /\ Records(queue') \subseteq Records(q)
      /\ Counted(queue', stored', rewrites')
      /\ StoreOK'
      /\ \A r \in Record : stored'[r] >= stored[r]
      /\ \A r \in Record : r \in Records(q) \/ stored'[r] = stored[r]
      /\ \A r \in Records(q) : r \in Records(queue') \/ stored'[r] > 0
      /\ timer' \in BOOLEAN /\ microtasks' \in Nat
      /\ queue' # <<>> => timer' \/ microtasks' > 0
  BY DEF Flushed
<1>2. /\ q \in Seq(Record) /\ Len(q) \in Nat /\ Len(q) <= MaxQueue /\ Len(queue') \in Nat
  BY <1>1, LenProperties DEF Flushable
<1>3. \A i \in 1 .. Len(queue') : queue'[i] \in Records(q)
  BY <1>1 DEF Records
<1>4. InOrder' BY <1>1, <1>3 DEF InOrder, Increasing
<1>5. Len(queue') <= MaxQueue BY <1>1, <1>2, QueueAssumption
<1>6. OvercountBounded' BY <1>1 DEF OvercountBounded, Counted, InQueue
<1>7. next \in 1 .. LastRecord + 1 BY DEF Inv, TypeOK
<1>8. NothingVanishes'
  <2>1. \A r \in 1 .. next' - 1 :
            r \in Record /\ (r \in 1 .. next - 1 \/ r \in next .. next' - 1)
    BY <1>7, MadeBefore, Zenon
  <2>2. ASSUME NEW r \in Record, r \in 1 .. next - 1 \/ r \in next .. next' - 1
        PROVE  r \in Records(queue') \cup dropped' \cup lost' \/ stored'[r] > 0
    <3>1. CASE r \in Records(q) BY <1>1, <3>1
    <3>2. CASE r \in dropped' BY <3>2
    <3>3. CASE r \notin Records(q) \cup dropped'
      <4>1. r \in 1 .. next - 1 BY <2>2, <3>3
      <4>2. r \in lost \/ stored[r] > 0
        BY <3>3, <4>1 DEF Inv, NothingVanishes, InQueue
      <4>3. stored'[r] = stored[r] BY <1>1, <3>3
      <4> QED BY <4>2, <4>3
    <3> QED BY <3>1, <3>2, <3>3
  <2> QED BY <2>1, <2>2 DEF NothingVanishes, InQueue
<1>9. Fresh'
  <2>1. ASSUME NEW r \in Record, r >= next'  PROVE stored'[r] = 0
    <3>1. r >= next /\ r \in Int BY <1>7, <2>1, QueueAssumption DEF Record
    <3>2. r \notin Records(q) BY <1>7, <2>1, <3>1
    <3>3. stored[r] = 0 BY <2>1, <3>1 DEF Inv, Fresh
    <3> QED BY <1>1, <2>1, <3>2, <3>3
  <2> QED BY <2>1 DEF Fresh
<1> QED BY <1>1, <1>4, <1>5, <1>6, <1>8, <1>9

\* flush() of the queue as it is, with everything else but the process unchanged.
LEMMA FlushQueueKeepsRecords ==
    ASSUME Inv, NEW m \in Nat, Flush(queue, m), UNCHANGED <<next, dropped, lost>>
    PROVE  /\ InOrder' /\ NothingVanishes' /\ OvercountBounded' /\ Fresh' /\ StoreOK'
           /\ queue' \in Seq(Record) /\ Len(queue') <= MaxQueue
           /\ timer' \in BOOLEAN /\ microtasks' \in Nat
           /\ queue' # <<>> => timer' \/ microtasks' > 0
<1>1. /\ Flushable(queue) /\ StoreOK
      /\ \A r \in Records(queue) : r < next /\ \A d \in dropped : d < r
  BY QueueFlushable
<1>2. Flushed(queue) BY <1>1, FlushGuarantees
<1>3. /\ next \in 1 .. LastRecord + 1 /\ dropped \subseteq Record
      /\ \A d \in dropped : d < next
  BY DEF Inv, TypeOK, Fresh
<1>4. next <= next /\ next .. next - 1 = {} BY <1>3, QueueAssumption
<1> QED BY <1>1, <1>2, <1>3, <1>4, FlushKeepsRecords

\* record(), with or without the flush of a full batch.
LEMMA RecordEventStep ==
    ASSUME Inv, RecordEvent
    PROVE  Inv'
<1>1. /\ process = "running" /\ next \in Record /\ next' = next + 1
      /\ dropped' = IF Full THEN dropped \cup {Head(queue)} ELSE dropped
      /\ process' = process /\ lost' = lost /\ disk' = disk
  BY DEF RecordEvent
<1>2. /\ Flushable(Pushed)
      /\ Records(queue) \cup {next} \subseteq
             Records(Pushed) \cup (IF Full THEN {Head(queue)} ELSE {})
      /\ Full => Head(queue) \in Record
      /\ Full => \A r \in Records(Pushed) : Head(queue) < r
      /\ \A r \in Records(Pushed) : r <= next
      /\ \A r \in Records(Pushed), d \in dropped : d < r
      /\ Full => Head(queue) < next
  BY <1>1, PushedGuarantees
<1>3. StoreOK BY QueueFlushable
<1>4. microtasks \in Nat BY DEF Inv, TypeOK
<1>5. Flushed(Pushed)
  <2>1. CASE Flush(Pushed, microtasks) BY <1>2, <1>3, <1>4, <2>1, FlushGuarantees
  <2>2. CASE queue' = Pushed /\ timer' = TRUE /\ UNCHANGED <<store, microtasks>>
    <3>1. /\ stored' = stored /\ due' = due /\ rewrites' = rewrites
          /\ microtasks' = microtasks /\ queue' = Pushed /\ timer' = TRUE
      BY <2>2 DEF store
    <3>2. StoreOK' BY <1>3, <3>1 DEF StoreOK
    <3>3. \A r \in Record : stored'[r] >= stored[r] BY <1>3, <3>1 DEF StoreOK
    <3>4. Counted(queue', stored', rewrites') BY <1>2, <3>1 DEF Flushable
    <3>5. queue' \in Seq(Record) /\ Len(queue') <= Len(Pushed) /\ Increasing(queue')
      BY <1>2, <3>1, LenProperties DEF Flushable
    <3> QED BY <1>4, <3>1, <3>2, <3>3, <3>4, <3>5 DEF Flushed
  <2> QED BY <2>1, <2>2 DEF RecordEvent
<1>6. /\ next' \in 1 .. LastRecord + 1 /\ next <= next' /\ next .. next' - 1 = {next}
      /\ next \in Int
  BY <1>1, QueueAssumption DEF Record
<1>7. dropped' \subseteq Record /\ dropped \subseteq dropped'
  BY <1>1, <1>2 DEF Inv, TypeOK
<1>8. \A r \in Records(Pushed) : r \in Int
  BY <1>2, ElementOfSeq, QueueAssumption DEF Flushable, Records, Record
<1>9. \A r \in Records(Pushed) : r < next' BY <1>1, <1>2, <1>6, <1>8
<1>10. \A d \in dropped' : d < next'
  <2>1. \A d \in dropped' : d < next /\ d \in Int
    BY <1>1, <1>2, <1>7, QueueAssumption DEF Inv, Fresh, Record
  <2> QED BY <1>1, <1>6, <2>1
<1>11. \A r \in Records(Pushed), d \in dropped' : d < r BY <1>1, <1>2
<1>12. /\ \A r \in next .. next' - 1 : r \in Records(Pushed) \cup dropped'
       /\ \A r \in Records(queue) : r \in Records(Pushed) \cup dropped'
  BY <1>1, <1>2, <1>6
<1>13. /\ InOrder' /\ NothingVanishes' /\ OvercountBounded' /\ Fresh' /\ StoreOK'
       /\ queue' \in Seq(Record) /\ Len(queue') <= MaxQueue
       /\ timer' \in BOOLEAN /\ microtasks' \in Nat
       /\ queue' # <<>> => timer' \/ microtasks' > 0
  BY <1>1, <1>2, <1>5, <1>6, <1>7, <1>9, <1>10, <1>11, <1>12, FlushKeepsRecords
<1>14. TypeOK' BY <1>1, <1>6, <1>7, <1>13 DEF Inv, TypeOK, StoreOK
<1>15. FlushIsComing' BY <1>13, Zenon DEF FlushIsComing
<1>16. Stopped' BY <1>1 DEF Stopped
<1> QED BY <1>13, <1>14, <1>15, <1>16 DEF Inv

\* The flush timer.
LEMMA TimerFiresStep ==
    ASSUME Inv, TimerFires
    PROVE  Inv'
<1>1. /\ process = "running" /\ Flush(queue, microtasks)
      /\ UNCHANGED <<process, next, dropped, lost, disk>>
  BY DEF TimerFires
<1>2. microtasks \in Nat BY DEF Inv, TypeOK
<1>3. /\ InOrder' /\ NothingVanishes' /\ OvercountBounded' /\ Fresh' /\ StoreOK'
      /\ queue' \in Seq(Record) /\ Len(queue') <= MaxQueue
      /\ timer' \in BOOLEAN /\ microtasks' \in Nat
      /\ queue' # <<>> => timer' \/ microtasks' > 0
  BY <1>1, <1>2, FlushQueueKeepsRecords
<1>4. TypeOK' BY <1>1, <1>3 DEF Inv, TypeOK, StoreOK
<1>5. FlushIsComing' BY <1>3, Zenon DEF FlushIsComing
<1>6. Stopped' BY <1>1 DEF Stopped
<1> QED BY <1>3, <1>4, <1>5, <1>6 DEF Inv

\* A queued flush, before or after close().
LEMMA MicrotaskStep ==
    ASSUME Inv, Microtask
    PROVE  Inv'
<1>1. /\ process \in {"running", "closed"} /\ microtasks > 0
      /\ UNCHANGED <<process, next, dropped, lost, disk>>
  BY DEF Microtask
<1>2. microtasks - 1 \in Nat BY <1>1 DEF Inv, TypeOK
<1>3. CASE process = "running" /\ Flush(queue, microtasks - 1)
  <2>1. /\ InOrder' /\ NothingVanishes' /\ OvercountBounded' /\ Fresh' /\ StoreOK'
        /\ queue' \in Seq(Record) /\ Len(queue') <= MaxQueue
        /\ timer' \in BOOLEAN /\ microtasks' \in Nat
        /\ queue' # <<>> => timer' \/ microtasks' > 0
    BY <1>1, <1>2, <1>3, FlushQueueKeepsRecords
  <2>2. TypeOK' BY <1>1, <2>1 DEF Inv, TypeOK, StoreOK
  <2>3. FlushIsComing' BY <2>1, Zenon DEF FlushIsComing
  <2>4. Stopped' BY <1>1, <1>3 DEF Stopped
  <2> QED BY <2>1, <2>2, <2>3, <2>4 DEF Inv
<1>4. CASE /\ process = "closed" /\ microtasks' = microtasks - 1
           /\ UNCHANGED <<queue, timer, store>>
  BY <1>1, <1>2, <1>4
     DEF Inv, TypeOK, InOrder, NothingVanishes, OvercountBounded, FlushIsComing, Stopped,
         Fresh, InQueue, Records, store
<1> QED BY <1>3, <1>4 DEF Microtask

\* One flush of the loop in close().
LEMMA CloseFlushesStep ==
    ASSUME Inv, CloseFlushes
    PROVE  Inv'
<1>1. /\ process' \in {"givingUp", "closing"} /\ Flush(queue, microtasks)
      /\ UNCHANGED <<next, dropped, lost, disk>>
  BY DEF CloseFlushes
<1>2. microtasks \in Nat BY DEF Inv, TypeOK
<1>3. /\ InOrder' /\ NothingVanishes' /\ OvercountBounded' /\ Fresh' /\ StoreOK'
      /\ queue' \in Seq(Record) /\ Len(queue') <= MaxQueue
      /\ timer' \in BOOLEAN /\ microtasks' \in Nat
  BY <1>1, <1>2, FlushQueueKeepsRecords
<1>4. TypeOK' BY <1>1, <1>3 DEF Inv, TypeOK, StoreOK
<1>5. FlushIsComing' /\ Stopped' BY <1>1 DEF FlushIsComing, Stopped
<1> QED BY <1>3, <1>4, <1>5 DEF Inv

\* The end of close().
LEMMA CloseEndsStep ==
    ASSUME Inv, CloseEnds
    PROVE  Inv'
<1>1. /\ process' = "closed" /\ timer' = FALSE /\ lost' = lost \cup Records(queue)
      /\ queue' = queue /\ next' = next /\ microtasks' = microtasks
      /\ dropped' = dropped /\ disk' = disk
      /\ stored' = stored /\ due' = due /\ rewrites' = rewrites
  BY DEF CloseEnds, InQueue, store
<1>2. Records(queue) \subseteq Record BY ElementOfSeq DEF Inv, TypeOK, Records
<1>3. TypeOK' BY <1>1, <1>2 DEF Inv, TypeOK
<1>4. InOrder' /\ OvercountBounded' /\ Fresh'
  BY <1>1 DEF Inv, InOrder, OvercountBounded, Fresh, InQueue, Records
<1>5. NothingVanishes' BY <1>1 DEF Inv, NothingVanishes, InQueue, Records
<1>6. FlushIsComing' /\ Stopped' BY <1>1 DEF FlushIsComing, Stopped
<1> QED BY <1>3, <1>4, <1>5, <1>6 DEF Inv

\* The process dies with what its queue holds.
LEMMA DieStep ==
    ASSUME Inv, Die
    PROVE  Inv'
<1>1. /\ process' = "dead" /\ timer' = FALSE /\ lost' = lost \cup Records(queue)
      /\ queue' = <<>> /\ next' = next /\ microtasks' = 0
      /\ dropped' = dropped /\ disk' = disk
      /\ stored' = stored /\ due' = due /\ rewrites' = rewrites
  BY DEF Die, InQueue, store
<1>2. Records(queue) \subseteq Record BY ElementOfSeq DEF Inv, TypeOK, Records
<1>3. queue' \in Seq(Record) /\ Len(queue') = 0 /\ Records(queue') = {}
  BY <1>1 DEF Records
<1>4. TypeOK'
  <2>1. 0 <= MaxQueue /\ 0 \in Nat BY QueueAssumption
  <2>2. Len(queue') <= MaxQueue BY <1>3, <2>1, Zenon
  <2> QED BY <1>1, <1>2, <1>3, <2>1, <2>2 DEF Inv, TypeOK
<1>5. InOrder' BY <1>3 DEF InOrder
<1>6. OvercountBounded'
  <2> SUFFICES ASSUME NEW r \in Record PROVE stored[r] <= rewrites + 1
    BY <1>1, <1>3 DEF OvercountBounded, InQueue
  <2>1. stored[r] \in Nat /\ rewrites \in Nat BY DEF Inv, TypeOK
  <2>2. stored[r] <= rewrites + (IF r \in Records(queue) THEN 0 ELSE 1)
    BY DEF Inv, OvercountBounded, InQueue
  <2> QED BY <2>1, <2>2
<1>7. NothingVanishes' BY <1>1, <1>3 DEF Inv, NothingVanishes, InQueue
<1>8. Fresh' BY <1>1 DEF Inv, Fresh
<1>9. FlushIsComing' /\ Stopped' BY <1>1 DEF FlushIsComing, Stopped
<1> QED BY <1>4, <1>5, <1>6, <1>7, <1>8, <1>9 DEF Inv

\* A new service on a new database.
LEMMA InitInv == Init => Inv
<1> SUFFICES ASSUME Init PROVE Inv OBVIOUS
<1>1. queue \in Seq(Record) /\ Len(queue) = 0 /\ Records(queue) = {}
  BY DEF Init, Records
<1>2. TypeOK
  <2>1. 0 <= MaxQueue /\ 0 \in Nat /\ 0 \in 0 .. MaxRewrites /\ 1 \in 1 .. LastRecord + 1
    BY QueueAssumption
  <2>2. Len(queue) <= MaxQueue BY <1>1, <2>1, Zenon
  <2>3. stored \in [Record -> Nat] BY <2>1 DEF Init
  <2> QED BY <1>1, <2>1, <2>2, <2>3 DEF Init, TypeOK
<1>3. InOrder BY <1>1 DEF InOrder, Init
<1>4. OvercountBounded /\ NothingVanishes /\ Fresh
  BY <1>1 DEF Init, OvercountBounded, NothingVanishes, Fresh, InQueue
<1>5. FlushIsComing /\ Stopped BY DEF Init, FlushIsComing, Stopped
<1> QED BY <1>2, <1>3, <1>4, <1>5 DEF Inv

\* The steps that leave the queue and the totals alone, and stuttering.
LEMMA OtherSteps ==
    ASSUME Inv, Close \/ Restart \/ DiskChanges \/ CleanupFallsDue \/ UNCHANGED vars
    PROVE  Inv'
<1>1. /\ queue' = queue /\ next' = next /\ timer' = timer /\ microtasks' = microtasks
      /\ dropped' = dropped /\ lost' = lost /\ stored' = stored /\ rewrites' = rewrites
  BY DEF Close, Restart, DiskChanges, CleanupFallsDue, vars, service, store
<1>2. /\ process' \in {"running", "closing", "givingUp", "closed", "dead"}
      /\ disk' \in {"ok", "noWrites", "noCleanup"} /\ due' \in BOOLEAN
  BY DEF Inv, TypeOK, Close, Restart, DiskChanges, CleanupFallsDue, vars, service, store
<1>3. TypeOK' BY <1>1, <1>2 DEF Inv, TypeOK
<1>4. InOrder' /\ OvercountBounded' /\ NothingVanishes' /\ Fresh'
  BY <1>1 DEF Inv, InOrder, OvercountBounded, NothingVanishes, Fresh, InQueue, Records
<1>5. FlushIsComing' /\ Stopped'
  BY <1>1 DEF Inv, FlushIsComing, Stopped, Close, Restart, DiskChanges,
              CleanupFallsDue, vars, service
<1> QED BY <1>3, <1>4, <1>5 DEF Inv

\* The inductive invariant holds in every behaviour.
THEOREM InvHolds == Spec => []Inv
<1>1. Inv /\ [Next]_vars => Inv'
  BY RecordEventStep, TimerFiresStep, MicrotaskStep, CloseFlushesStep, CloseEndsStep,
     DieStep, OtherSteps
     DEF Next
<1> QED BY <1>1, InitInv, PTL DEF Spec

-----------------------------------------------------------------------------
(* The properties.                                                         *)

\* The queue never grows beyond maxQueueSize, whatever is put back into it.
THEOREM QueueTypeCorrect == Spec => []TypeOK
  BY InvHolds, PTL DEF Inv

\* Records wait in the order they were made, and only older ones were dropped.
THEOREM QueueStaysInOrder == Spec => []InOrder
  BY InvHolds, PTL DEF Inv

\* Every record ever made is accounted for, through failed writes, shutdown and crash.
THEOREM NothingEverVanishes == Spec => []NothingVanishes
  BY InvHolds, PTL DEF Inv

\* Only a write that fails after its batch is committed makes the totals too high.
THEOREM OvercountStaysBounded == Spec => []OvercountBounded
  BY InvHolds, PTL DEF Inv

\* A running service that holds records has its timer set or a flush queued.
THEOREM FlushStaysScheduled == Spec => []FlushIsComing
  BY InvHolds, PTL DEF Inv

\* After close() neither the totals nor the timer change.
THEOREM ClosedStaysFinal == Spec => ClosedIsFinal
<1>1. Inv /\ [Next]_vars =>
          [(process = "closed" \/ process = "dead") => UNCHANGED <<stored, timer>>]_vars
  BY DEF Inv, Stopped, Next, RecordEvent, TimerFires, Microtask, Close, CloseFlushes,
         CloseEnds, Die, Restart, DiskChanges, CleanupFallsDue, vars, service, store
<1> QED BY <1>1, InvHolds, PTL DEF Spec, ClosedIsFinal
=============================================================================
