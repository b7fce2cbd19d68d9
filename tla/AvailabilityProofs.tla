-------------------------- MODULE AvailabilityProofs --------------------------
(***************************************************************************)
(* Theorems about Availability, for days and retentions of any length, any *)
(* number of checks and of hours: the settling counts every hour of the    *)
(* monitoring once, and every hour up once, however late its checks are,   *)
(* and the page shows the best status that was seen.                       *)
(*                                                                         *)
(* Every write has one form, Write, so the proofs look at it once and at   *)
(* the actions only for what they hand to it.  What the rows need of Max   *)
(* is shown first.                                                         *)
(***************************************************************************)
EXTENDS Availability, SumTheorems

\* The larger of two numbers.
LEMMA MaxOfTwo ==
    ASSUME NEW a \in Int, NEW b \in Int
    PROVE  Max({a, b}) = IF a >= b THEN a ELSE b
BY DEF Max

\* The best of some ranks is one of them.
LEMMA MaxOfRanks ==
    ASSUME NEW S \in SUBSET (-1 .. 2), S # {}
    PROVE  Max(S) \in S /\ \A x \in S : Max(S) >= x
<1>1. \E x \in S : \A y \in S : x >= y
  <2>1. CASE 2 \in S BY <2>1
  <2>2. CASE 2 \notin S /\ 1 \in S BY <2>2
  <2>3. CASE 2 \notin S /\ 1 \notin S /\ 0 \in S BY <2>3
  <2>4. CASE 2 \notin S /\ 1 \notin S /\ 0 \notin S
    <3>1. PICK x \in S : TRUE OBVIOUS
    <3>2. x = -1 /\ \A y \in S : y = -1 BY <2>4
    <3> QED BY <3>2
  <2> QED BY <2>1, <2>2, <2>3, <2>4
<1> QED BY <1>1 DEF Max

\* A day that has begun ends later.
LEMMA DayEndsLater ==
    ASSUME NEW t \in Nat, NEW u \in Nat \ {0}
    PROVE  ((t + u) \div u) * u \in Int /\ ((t + u) \div u) * u > t
<1> DEFINE q == (t + u) \div u
<1>1. q \in Int /\ (t + u) % u \in 0 .. u - 1 /\ t + u = q * u + ((t + u) % u) OBVIOUS
<1>2. q * u \in Int BY <1>1
<1> HIDE DEF q
<1>3. q * u > t BY <1>1, <1>2
<1> QED BY <1>2, <1>3 DEF q

-----------------------------------------------------------------------------
(* The invariant.                                                           *)

CheckType == [hour : Hour, rank : 0 .. 2, measured : BOOLEAN]

\* Checks, and which of them wait.  A check is not from the future, and is written
\* while the row of its hour is kept.
ChecksOK ==
    /\ now \in Hour
    /\ checks \in Seq(CheckType) /\ waiting \in SUBSET DOMAIN checks
    /\ \A i \in DOMAIN checks : checks[i].hour <= now
    /\ \A i \in waiting : checks[i].hour >= now - Retention
    /\ written \in Seq(Nat) /\ Len(written) = Len(checks)

\* Once hours were settled, neither the start nor the first settled hour is later
\* than the cursor: this is what keeps an earlier start from settling hours again.
CursorOK ==
    /\ start \in Nat \ {0} /\ begun \in Nat \ {0} /\ cursor \in Nat
    /\ cursor # 0 => start <= cursor /\ begun <= cursor
    /\ cursor = 0 => start = Never
    /\ \A h \in Hour : Written(h) # {} => h >= start

\* Hours whose row no cleanup has taken, or none that mattered.
Known(h) == h >= cleaned - Retention \/ (h >= cursor /\ h \notin erased)

\* The row of an hour holds the best rank written for it.
RowTrue(h) ==
    \A k \in 1 .. 2 : rows[h].rank >= k <=> \E i \in Written(h) : checks[i].rank >= k

RowsTrue ==
    /\ cleaned \in Int /\ cleaned <= now
    /\ \A h \in Hour : rows[h].rank \in -1 .. 2 /\ (Known(h) => RowTrue(h))

Inv ==
    /\ ChecksOK
    /\ CursorOK
    /\ RowsTrue
    /\ TotalHoursAddUp
    /\ UpHoursAddUp

\* The hours of a run are finitely many natural numbers.
LEMMA HourType == Hour \in SUBSET (Nat \ {0}) /\ IsFiniteSet(Hour)
<1>1. LastHour \in Int /\ 1 \in Int BY AvailabilityAssumption
<1>2. IsFiniteSet(1 .. LastHour) BY <1>1, FS_Interval
<1>3. (1 .. LastHour) \in SUBSET (Nat \ {0}) BY <1>1
<1> QED BY <1>2, <1>3 DEF Hour

\* What is known of one check.
LEMMA CheckTyped ==
    ASSUME ChecksOK, NEW i \in DOMAIN checks
    PROVE  checks[i].hour \in Hour /\ checks[i].rank \in 0 .. 2
<1>1. checks[i] \in CheckType BY DEF ChecksOK
<1> QED BY <1>1 DEF CheckType

\* The invariant holds before anything was written.
LEMMA InitInv == Init => Inv
<1> SUFFICES ASSUME Init PROVE Inv OBVIOUS
<1>1. ChecksOK BY AvailabilityAssumption DEF Init, ChecksOK, Hour
<1>2. \A h \in Hour : rows[h].rank = -1 /\ Written(h) = {}
  BY DEF Init, NoRow, Written
<1>3. CursorOK BY <1>2, AvailabilityAssumption DEF Init, CursorOK, Never
<1>4. RowsTrue BY <1>2, AvailabilityAssumption DEF Init, RowsTrue, RowTrue
<1>5. \A d \in Day : Settled(d) = {} /\ days[d].total = 0 /\ days[d].up = 0
  <2>1. \A h \in Hour : ~ (h < cursor) BY HourType DEF Init
  <2> QED BY <2>1 DEF Settled, Init
<1>6. TotalHoursAddUp
  <2>1. \A d \in Day : {h \in Settled(d) : h >= begun} = {} BY <1>5
  <2> QED BY <1>5, <2>1, FS_EmptySet DEF TotalHoursAddUp
<1>7. UpHoursAddUp
  <2>1. \A d \in Day : {h \in Settled(d) : WasUp(h)} = {} BY <1>5
  <2> QED BY <1>5, <2>1, FS_EmptySet DEF UpHoursAddUp
<1> QED BY <1>1, <1>3, <1>4, <1>6, <1>7 DEF Inv

-----------------------------------------------------------------------------
(* A write.                                                                 *)

\* A write marks the checks of its batch as written.
LEMMA WriteMarks ==
    ASSUME Inv, NEW batch \in SUBSET DOMAIN checks, NEW cleans, Write(batch, cleans),
           checks' = checks
    PROVE  /\ written' \in Seq(Nat) /\ Len(written') = Len(checks)
           /\ \A h \in Hour : Written(h)' = Written(h) \union Of(batch, h)
<1>1. checks \in Seq(CheckType) /\ written \in Seq(Nat) /\ Len(written) = Len(checks)
  BY DEF Inv, ChecksOK
<1>2. DOMAIN checks = 1 .. Len(checks) /\ Len(checks) \in Nat BY <1>1
<1>3. \A i \in DOMAIN checks : written[i] \in Nat BY <1>1, <1>2
<1>4. written' = [i \in 1 .. Len(checks) |-> written[i] + IF i \in batch THEN 1 ELSE 0]
  BY <1>2 DEF Write
<1>5. \A i \in 1 .. Len(checks) : written'[i] \in Nat /\ (written'[i] > 0 <=> written[i] > 0 \/ i \in batch)
  BY <1>2, <1>3, <1>4
<1>6. written' \in Seq(Nat) /\ Len(written') = Len(checks) BY <1>2, <1>4, <1>5
<1>7. \A h \in Hour : Written(h)' = Written(h) \union Of(batch, h)
  BY <1>2, <1>5 DEF Written, Of
<1> QED BY <1>6, <1>7

\* updateEarliestMeta never moves the start to a later hour.
LEMMA EarliestOK ==
    ASSUME Inv, NEW batch \in SUBSET DOMAIN checks
    PROVE  /\ Earliest(batch) \in Nat \ {0} /\ Earliest(batch) <= start
           /\ \A i \in batch : Earliest(batch) <= checks[i].hour
<1> DEFINE S == {start} \union {checks[i].hour : i \in batch}
<1>1. \A i \in batch : checks[i].hour \in Nat \ {0}
  BY HourType, CheckTyped DEF Inv
<1>2. /\ S \in SUBSET (Nat \ {0}) /\ start \in S
      /\ \A i \in batch : checks[i].hour \in S
  BY <1>1 DEF Inv, CursorOK
<1> HIDE DEF S
<1>3. Min(S) \in S /\ \A x \in S : Min(S) <= x BY <1>2, MinOfNaturals
<1>4. Earliest(batch) = Min(S) BY DEF Earliest, S
<1> QED BY <1>2, <1>3, <1>4

\* Where a write begins to settle, and what it leaves for the next one.
LEMMA WriteCursor ==
    ASSUME Inv, NEW batch \in SUBSET DOMAIN checks, NEW cleans, Write(batch, cleans),
           checks' = checks
    PROVE  LET from == SettleFrom(Earliest(batch))
           IN  /\ CursorOK'
               /\ from \in Nat
               /\ cursor # 0 => from = cursor /\ begun' = begun
               /\ cursor = 0 => from = begun' /\ from = start'
               /\ cursor' = IF from >= now THEN from ELSE now
<1> DEFINE first == Earliest(batch)
           from  == SettleFrom(first)
<1>1. /\ first \in Nat \ {0} /\ first <= start
      /\ \A i \in batch : first <= checks[i].hour
  BY EarliestOK
<1>2. /\ start' = first /\ cursor' = Max({from, now})
      /\ begun' = IF cursor = 0 THEN first ELSE begun
  BY DEF Write
<1> HIDE DEF first
<1>3. from = IF cursor >= first THEN cursor ELSE first
  BY <1>1, MaxOfTwo DEF SettleFrom, Inv, CursorOK
<1>4. from \in Nat /\ now \in Nat BY <1>1, <1>3, HourType DEF Inv, CursorOK, ChecksOK
<1> HIDE DEF from
<1>5. cursor' = IF from >= now THEN from ELSE now BY <1>2, <1>4, MaxOfTwo
<1>6. /\ cursor # 0 => from = cursor /\ begun' = begun
      /\ cursor = 0 => from = begun' /\ from = start'
  BY <1>1, <1>2, <1>3 DEF Inv, CursorOK
<1>7. \A h \in Hour : Written(h)' # {} => h >= start'
  <2> SUFFICES ASSUME NEW h \in Hour, Written(h)' # {} PROVE h >= first
    BY <1>2
  <2>1. Written(h) # {} \/ Of(batch, h) # {} BY WriteMarks
  <2>2. Written(h) # {} => h >= start BY DEF Inv, CursorOK
  <2>3. Of(batch, h) # {} => h >= first BY <1>1, HourType DEF Of
  <2>4. h \in Nat /\ start \in Nat BY HourType DEF Inv, CursorOK
  <2> QED BY <1>1, <2>1, <2>2, <2>3, <2>4
<1>8. start' \in Nat \ {0} /\ begun' \in Nat \ {0} /\ cursor' \in Nat /\ cursor' # 0
  <2>1. start' \in Nat \ {0} /\ begun' \in Nat \ {0}
    BY <1>1, <1>2 DEF Inv, CursorOK
  <2>2. cursor' \in Nat /\ cursor' >= from BY <1>4, <1>5
  <2>3. from # 0 BY <1>1, <1>3 DEF Inv, CursorOK
  <2> QED BY <1>4, <2>1, <2>2, <2>3
<1>9. start' <= cursor' /\ begun' <= cursor'
  BY <1>1, <1>2, <1>3, <1>4, <1>5, <1>6 DEF Inv, CursorOK
<1>10. CursorOK' BY <1>7, <1>8, <1>9 DEF CursorOK
<1> QED BY <1>4, <1>5, <1>6, <1>10 DEF from, first

\* The hours a write adds to a day are those between the old and the new cursor.
LEMMA WriteTotals ==
    ASSUME Inv, NEW batch \in SUBSET DOMAIN checks, NEW cleans, Write(batch, cleans),
           checks' = checks
    PROVE  TotalHoursAddUp'
<1> SUFFICES ASSUME NEW d \in Day
             PROVE  days'[d].total = Cardinality({h \in Settled(d)' : h >= begun'})
  BY DEF TotalHoursAddUp
<1> DEFINE from  == SettleFrom(Earliest(batch))
           old   == {h \in Settled(d) : h >= begun}
           added == SettledHours(d, batch)
           new   == {h \in Settled(d)' : h >= begun'}
<1>1. /\ from \in Nat
      /\ cursor # 0 => from = cursor /\ begun' = begun
      /\ cursor = 0 => from = begun'
      /\ cursor' = IF from >= now THEN from ELSE now
      /\ CursorOK'
  BY WriteCursor
<1>2. added = {h \in from .. (now - 1) : DayOf(h) = d} BY DEF SettledHours
<1> HIDE DEF from
<1>3. now \in Hour /\ cursor \in Nat /\ begun \in Nat \ {0} /\ (cursor # 0 => begun <= cursor)
  BY DEF Inv, ChecksOK, CursorOK
<1>4. begun' \in Nat \ {0} /\ (from = begun' \/ (from = cursor /\ cursor # 0))
  BY <1>1 DEF CursorOK
<1>5. added = {h \in Hour : DayOf(h) = d /\ h >= from /\ h <= now - 1}
  BY <1>1, <1>2, <1>3, <1>4, AvailabilityAssumption DEF Hour
<1>6. old = {h \in Hour : DayOf(h) = d /\ h < cursor /\ h >= begun} BY DEF Settled
<1>7. new = {h \in Hour : DayOf(h) = d /\ h < cursor' /\ h >= begun'} BY DEF Settled
<1>8. days'[d].total = days[d].total + Cardinality(added) BY DEF Write, DayAfter
<1>9. days[d].total = Cardinality(old) BY DEF Inv, TotalHoursAddUp
<1> HIDE DEF old, added, new
<1>10. new = old \union added /\ old \cap added = {}
  <2>1. now \in Nat /\ \A h \in Hour : h \in Nat BY <1>3, HourType
  <2>2. \A h \in Hour : h < cursor' /\ h >= begun' <=>
            (h < cursor /\ h >= begun) \/ (h >= from /\ h <= now - 1)
    BY <1>1, <1>3, <1>4, <2>1
  <2>3. \A h \in Hour : ~ ((h < cursor /\ h >= begun) /\ (h >= from /\ h <= now - 1))
    BY <1>1, <1>3, <1>4, <2>1
  <2> QED BY <1>5, <1>6, <1>7, <2>2, <2>3
<1>11. IsFiniteSet(old) /\ IsFiniteSet(added)
  BY <1>5, <1>6, HourType, FS_Subset
<1>12. Cardinality(new) = Cardinality(old) + Cardinality(added) - Cardinality({})
  BY <1>10, <1>11, FS_Union
<1>13. Cardinality(old) \in Nat /\ Cardinality(added) \in Nat BY <1>11, FS_CardinalityType
<1>14. Cardinality({}) = 0 BY FS_EmptySet
<1>15. days'[d].total = Cardinality(new) BY <1>8, <1>9, <1>12, <1>13, <1>14
<1> QED BY <1>15 DEF new

\* upsertAvailability leaves the best of the row's rank and those of the batch.
LEMMA UpsertRank ==
    ASSUME Inv, NEW batch \in SUBSET DOMAIN checks, NEW h \in Hour
    PROVE  /\ Upserted(batch)[h].rank \in -1 .. 2
           /\ \A k \in 1 .. 2 : Upserted(batch)[h].rank >= k <=>
                  rows[h].rank >= k \/ \E i \in Of(batch, h) : checks[i].rank >= k
<1> DEFINE R == {rows[h].rank} \union {checks[i].rank : i \in Of(batch, h)}
<1>1. \A i \in Of(batch, h) : checks[i].rank \in 0 .. 2 BY CheckTyped DEF Inv, Of
<1>2. rows[h].rank \in -1 .. 2 BY DEF Inv, RowsTrue
<1>3. R \in SUBSET (-1 .. 2) /\ R # {} BY <1>1, <1>2
<1>4. Upserted(batch)[h].rank = Max(R) BY DEF Upserted
<1>5. \A k \in 1 .. 2 : (\E r \in R : r >= k) <=>
          rows[h].rank >= k \/ \E i \in Of(batch, h) : checks[i].rank >= k
  OBVIOUS
<1> HIDE DEF R
<1>6. Max(R) \in R /\ \A r \in R : Max(R) >= r BY <1>3, MaxOfRanks
<1>7. \A k \in 1 .. 2 : Max(R) >= k <=> \E r \in R : r >= k
  <2> TAKE k \in 1 .. 2
  <2>1. Max(R) >= k => \E r \in R : r >= k BY <1>6
  <2>2. ASSUME NEW r \in R, r >= k PROVE Max(R) >= k
    <3>1. Max(R) \in -1 .. 2 /\ r \in -1 .. 2 /\ Max(R) >= r BY <1>3, <1>6
    <3> QED BY <2>2, <3>1
  <2> QED BY <2>1, <2>2
<1> QED BY <1>3, <1>4, <1>5, <1>6, <1>7

\* A cleanup takes only rows the invariant says nothing of.
LEMMA KeptRank ==
    ASSUME NEW table, NEW h \in Hour, now \in Int, table[h].rank \in -1 .. 2
    PROVE  /\ Kept(table)[h].rank \in -1 .. 2
           /\ h >= now - Retention => Kept(table)[h].rank = table[h].rank
<1>1. h \in Int /\ Retention \in Int BY HourType, AvailabilityAssumption
<1>2. h >= now - Retention => ~ Outdated(h) BY <1>1 DEF Outdated
<1> QED BY <1>2 DEF Kept, NoRow

\* The rows stay true in a write, whether it cleans up or not: a cleanup takes no
\* row of an hour that is not settled by then.
LEMMA WriteRows ==
    ASSUME Inv, NEW batch \in SUBSET DOMAIN checks, NEW cleans \in BOOLEAN,
           Write(batch, cleans), checks' = checks, now' = now
    PROVE  RowsTrue'
<1>1. now \in Int /\ cleaned \in Int /\ cleaned <= now /\ Retention \in Nat /\ cursor \in Nat
  BY HourType, AvailabilityAssumption DEF Inv, ChecksOK, RowsTrue, CursorOK
<1>2. /\ rows' = IF cleans THEN Kept(Upserted(batch)) ELSE Upserted(batch)
      /\ cleaned' = IF cleans THEN now ELSE cleaned
      /\ erased' = erased
  BY DEF Write
<1>3. cleaned' \in Int /\ cleaned' <= now' BY <1>1, <1>2
<1>4. SUFFICES ASSUME NEW h \in Hour
      PROVE  rows'[h].rank \in -1 .. 2 /\ (Known(h)' => RowTrue(h)')
  BY <1>3 DEF RowsTrue
<1>5. /\ Upserted(batch)[h].rank \in -1 .. 2
      /\ \A k \in 1 .. 2 : Upserted(batch)[h].rank >= k <=>
             rows[h].rank >= k \/ \E i \in Of(batch, h) : checks[i].rank >= k
  BY UpsertRank
<1>6. h \in Nat BY HourType
<1>7. cursor' \in Nat /\ cursor' >= now /\ cursor' >= cursor
  <2>1. LET from == SettleFrom(Earliest(batch))
        IN  /\ from \in Nat /\ (cursor # 0 => from = cursor)
            /\ cursor' = IF from >= now THEN from ELSE now
    BY WriteCursor
  <2> QED BY <1>1, <2>1
<1>8. Known(h)' => Known(h)
  <2>1. CASE cleans
    <3>1. h >= now - Retention => h >= cleaned - Retention BY <1>1, <1>6
    <3> QED BY <1>1, <1>2, <1>6, <1>7, <2>1, <3>1 DEF Known
  <2>2. CASE ~cleans BY <1>1, <1>2, <1>6, <1>7, <2>2 DEF Known
  <2> QED BY <2>1, <2>2
<1>9. rows'[h].rank \in -1 .. 2 /\ (Known(h)' => rows'[h].rank = Upserted(batch)[h].rank)
  <2>1. CASE cleans
    <3>1. Known(h)' => h >= now - Retention BY <1>1, <1>2, <1>6, <1>7, <2>1 DEF Known
    <3> QED BY <1>1, <1>2, <1>5, <2>1, <3>1, KeptRank
  <2>2. CASE ~cleans BY <1>2, <1>5, <2>2
  <2> QED BY <2>1, <2>2
<1>10. Written(h)' = Written(h) \union Of(batch, h) BY WriteMarks
<1>11. Known(h) => RowTrue(h) BY DEF Inv, RowsTrue
<1> QED BY <1>5, <1>8, <1>9, <1>10, <1>11 DEF RowTrue

\* An hour is up by its row and the batch, and that is what was seen of it, if its row is
\* known; a check that waited is of an hour whose row is known.
LEMMA WriteFindsUp ==
    ASSUME Inv, NEW batch \in SUBSET DOMAIN checks, NEW cleans, Write(batch, cleans),
           checks' = checks, batch \subseteq waiting
    PROVE  \A h \in Hour :
               /\ Known(h) => (rows[h].rank >= 2 <=> WasUp(h))
               /\ WasUp(h)' <=> WasUp(h) \/ \E i \in Of(batch, h) : checks[i].rank >= 2
               /\ Upserted(batch)[h].rank = 2 <=>
                      rows[h].rank >= 2 \/ \E i \in Of(batch, h) : checks[i].rank >= 2
               /\ Of(batch, h) # {} => Known(h)
<1> DEFINE UpNow(h) == rows[h].rank >= 2 \/ \E i \in Of(batch, h) : checks[i].rank >= 2
<1>1. now \in Nat /\ \A h \in Hour : h \in Nat BY HourType DEF Inv, ChecksOK
<1>2. \A h \in Hour : Known(h) => (rows[h].rank >= 2 <=> WasUp(h))
  <2> SUFFICES ASSUME NEW h \in Hour, Known(h) PROVE rows[h].rank >= 2 <=> WasUp(h)
    OBVIOUS
  <2>1. rows[h].rank >= 2 <=> \E i \in Written(h) : checks[i].rank >= 2
    BY DEF Inv, RowsTrue, RowTrue
  <2>2. \A i \in Written(h) : checks[i].rank \in 0 .. 2 BY CheckTyped DEF Inv, Written
  <2> QED BY <2>1, <2>2 DEF WasUp
<1>3. \A h \in Hour :
          WasUp(h)' <=> WasUp(h) \/ \E i \in Of(batch, h) : checks[i].rank >= 2
  <2> TAKE h \in Hour
  <2>1. Written(h)' = Written(h) \union Of(batch, h) BY WriteMarks
  <2>2. \A i \in Of(batch, h) : checks[i].rank \in 0 .. 2 BY CheckTyped DEF Inv, Of
  <2> QED BY <2>1, <2>2 DEF WasUp
<1>4. \A h \in Hour : Upserted(batch)[h].rank = 2 <=> UpNow(h)
  <2> TAKE h \in Hour
  <2>1. /\ Upserted(batch)[h].rank \in -1 .. 2
        /\ Upserted(batch)[h].rank >= 2 <=> UpNow(h)
    BY UpsertRank
  <2> QED BY <2>1
<1>5. \A h \in Hour : Of(batch, h) # {} => Known(h)
  <2> SUFFICES ASSUME NEW h \in Hour, NEW i \in Of(batch, h) PROVE Known(h)
    OBVIOUS
  <2>1. i \in waiting /\ h = checks[i].hour BY DEF Of
  <2>2. h >= now - Retention BY <2>1 DEF Inv, ChecksOK
  <2>3. cleaned \in Int /\ cleaned <= now /\ Retention \in Nat
    BY AvailabilityAssumption DEF Inv, RowsTrue
  <2>4. h >= cleaned - Retention BY <1>1, <2>2, <2>3
  <2> QED BY <2>4 DEF Known
<1> QED BY <1>2, <1>3, <1>4, <1>5

\* The hours up of a day after a write are those of before, those that a late check
\* corrects, and those that are settled now.
LEMMA WriteUps ==
    ASSUME Inv, NEW batch \in SUBSET DOMAIN checks, NEW cleans, Write(batch, cleans),
           checks' = checks, batch \subseteq waiting
    PROVE  UpHoursAddUp'
<1> SUFFICES ASSUME NEW d \in Day, Whole(d)'
             PROVE  days'[d].up = Cardinality({h \in Settled(d)' : WasUp(h)'})
  BY DEF UpHoursAddUp
<1> DEFINE from == SettleFrom(Earliest(batch))
           UpNow(h) == rows[h].rank >= 2 \/ \E i \in Of(batch, h) : checks[i].rank >= 2
           old   == {h \in Settled(d) : WasUp(h)}
           late  == {h \in LateHours(d, batch) : rows[h].rank < 2 /\ Upserted(batch)[h].rank = 2}
           added == {h \in SettledHours(d, batch) : Upserted(batch)[h].rank = 2}
           new   == {h \in Settled(d)' : WasUp(h)'}
<1>1. /\ from \in Nat
      /\ cursor # 0 => from = cursor
      /\ cursor = 0 => from = start' /\ start' > 0
      /\ cursor' = IF from >= now THEN from ELSE now
      /\ CursorOK'
  BY WriteCursor DEF CursorOK
<1> HIDE DEF from
<1>2. now \in Hour /\ now \in Nat /\ cursor \in Nat /\ cursor' \in Nat /\ start' \in Nat \ {0}
  BY <1>1, HourType DEF Inv, ChecksOK, CursorOK
<1>3. erased' = erased /\ Whole(d) BY DEF Write, Whole
<1>4. \A h \in Hour : h \in Nat BY HourType
<1>5. \A h \in Hour : Known(h) => (rows[h].rank >= 2 <=> WasUp(h)) BY WriteFindsUp
<1>6. \A h \in Hour :
          WasUp(h)' <=> WasUp(h) \/ \E i \in Of(batch, h) : checks[i].rank >= 2
  BY WriteFindsUp
<1>7. \A h \in Hour : Upserted(batch)[h].rank = 2 <=> UpNow(h) BY WriteFindsUp
<1>8. \A h \in Hour : Of(batch, h) # {} => Known(h) BY WriteFindsUp
<1>9. \A h \in Hour : DayOf(h) = d /\ h >= cursor => Known(h) BY <1>3 DEF Known, Whole
<1>10. from >= cursor BY <1>1, <1>2
<1>11. old = {h \in Hour : DayOf(h) = d /\ h < cursor /\ WasUp(h)} BY DEF Settled
<1>12. late = {h \in Hour : DayOf(h) = d /\ h < cursor /\ ~WasUp(h) /\ WasUp(h)'}
  <2>1. late = {h \in Hour : DayOf(h) = d /\ h < cursor /\ Of(batch, h) # {}
                             /\ rows[h].rank < 2 /\ Upserted(batch)[h].rank = 2}
    BY DEF LateHours
  <2>2. \A h \in Hour : rows[h].rank < 2 <=> ~ (rows[h].rank >= 2)
    BY DEF Inv, RowsTrue
  <2>3. \A h \in Hour : (Of(batch, h) # {} /\ rows[h].rank < 2 /\ Upserted(batch)[h].rank = 2)
            <=> ~WasUp(h) /\ WasUp(h)'
    BY <1>5, <1>6, <1>7, <1>8, <2>2
  <2> HIDE DEF late
  <2> QED BY <2>1, <2>3
<1>13. added = {h \in Hour : DayOf(h) = d /\ h >= from /\ h <= now - 1 /\ WasUp(h)'}
  <2>1. added = {h \in from .. (now - 1) : DayOf(h) = d /\ Upserted(batch)[h].rank = 2}
    BY DEF SettledHours, from
  <2>2. from # 0 BY <1>1, <1>2
  <2>3. from .. (now - 1) = {h \in Hour : h >= from /\ h <= now - 1}
    BY <1>1, <1>2, <2>2, AvailabilityAssumption DEF Hour
  <2>4. \A h \in Hour : DayOf(h) = d /\ h >= from => (Upserted(batch)[h].rank = 2 <=> WasUp(h)')
    <3> SUFFICES ASSUME NEW h \in Hour, DayOf(h) = d, h >= from
                 PROVE  Upserted(batch)[h].rank = 2 <=> WasUp(h)'
      OBVIOUS
    <3>1. h >= cursor BY <1>1, <1>2, <1>4, <1>10
    <3>2. Known(h) BY <1>9, <3>1
    <3> QED BY <1>5, <1>6, <1>7, <3>2
  <2> HIDE DEF added
  <2> QED BY <2>1, <2>3, <2>4
<1>14. new = {h \in Hour : DayOf(h) = d /\ h < cursor' /\ WasUp(h)'} BY DEF Settled
<1>15. \A h \in Hour : cursor = 0 /\ h < from => ~ WasUp(h)'
  <2> SUFFICES ASSUME NEW h \in Hour, cursor = 0, h < from PROVE ~ WasUp(h)'
    OBVIOUS
  <2>1. from = start' /\ ~ (h >= start') BY <1>1, <1>2, <1>4
  <2>2. Written(h)' = {} BY <1>1, <2>1 DEF CursorOK
  <2> QED BY <2>2 DEF WasUp
<1>16. days'[d].up = days[d].up + Cardinality(late) + Cardinality(added)
  BY DEF Write, DayAfter, LateUp, SettledUp
<1>17. days[d].up = Cardinality(old) BY <1>3 DEF Inv, UpHoursAddUp
<1> HIDE DEF old, late, added, new, UpNow
<1>18. /\ new = (old \union late) \union added
       /\ old \cap late = {} /\ (old \union late) \cap added = {}
  <2>1. \A h \in Hour : WasUp(h) => WasUp(h)' BY <1>6
  <2>2. \A h \in Hour : WasUp(h)' =>
            (h < cursor' <=> h < cursor \/ (h >= from /\ h <= now - 1))
    BY <1>1, <1>2, <1>4, <1>15
  <2>3. \A h \in Hour : ~ (h < cursor /\ h >= from) BY <1>1, <1>2, <1>4, <1>10
  <2> QED BY <1>11, <1>12, <1>13, <1>14, <2>1, <2>2, <2>3
<1>19. IsFiniteSet(old) /\ IsFiniteSet(late) /\ IsFiniteSet(added)
  BY <1>11, <1>12, <1>13, HourType, FS_Subset
<1>20. Cardinality({}) = 0 BY FS_EmptySet
<1>21. /\ IsFiniteSet(old \union late)
       /\ Cardinality(old \union late) = Cardinality(old) + Cardinality(late) - Cardinality({})
  BY <1>18, <1>19, FS_Union
<1>22. Cardinality(new) = Cardinality(old \union late) + Cardinality(added) - Cardinality({})
  BY <1>18, <1>19, <1>21, FS_Union
<1>23. Cardinality(old) \in Nat /\ Cardinality(late) \in Nat /\ Cardinality(added) \in Nat
  BY <1>19, FS_CardinalityType
<1>24. days'[d].up = Cardinality(new) BY <1>16, <1>17, <1>20, <1>21, <1>22, <1>23
<1> QED BY <1>24 DEF new

\* A write of checks that waited, however many and in whatever order.
LEMMA WriteInv ==
    ASSUME Inv, NEW batch \in SUBSET waiting, NEW cleans \in BOOLEAN,
           Write(batch, cleans), checks' = checks, now' = now, waiting' \subseteq waiting
    PROVE  Inv'
<1>1. batch \in SUBSET DOMAIN checks BY DEF Inv, ChecksOK
<1>2. ChecksOK' BY <1>1, WriteMarks DEF Inv, ChecksOK
<1>3. CursorOK' BY <1>1, WriteCursor
<1>4. RowsTrue' BY <1>1, WriteRows
<1>5. TotalHoursAddUp' BY <1>1, WriteTotals
<1>6. UpHoursAddUp' BY <1>1, WriteUps
<1> QED BY <1>2, <1>3, <1>4, <1>5, <1>6 DEF Inv

-----------------------------------------------------------------------------
(* The other steps.                                                         *)

\* What does not touch the ledger keeps all of it, also when a check is added that
\* is not written yet.
LEMMA LedgerStays ==
    ASSUME Inv, ChecksOK', now' \in Int, now' >= now,
           UNCHANGED <<rows, days, start, cursor, cleaned, erased, begun>>,
           \A h \in Hour : Written(h)' = Written(h),
           \A i \in DOMAIN checks : checks'[i] = checks[i]
    PROVE  Inv'
<1>1. CursorOK' BY DEF Inv, CursorOK
<1>2. \A h \in Hour : \A i \in Written(h) : checks'[i] = checks[i] BY DEF Written
<1>3. RowsTrue'
  <2>1. cleaned' \in Int /\ cleaned' <= now' BY HourType DEF Inv, RowsTrue, ChecksOK
  <2>2. SUFFICES ASSUME NEW h \in Hour
        PROVE  rows'[h].rank \in -1 .. 2 /\ (Known(h)' => RowTrue(h)')
    BY <2>1 DEF RowsTrue
  <2>3. rows[h].rank \in -1 .. 2 /\ (Known(h) => RowTrue(h)) BY DEF Inv, RowsTrue
  <2>4. Known(h)' = Known(h) BY DEF Known
  <2> QED BY <1>2, <2>3, <2>4 DEF RowTrue
<1>4. TotalHoursAddUp' BY DEF Inv, TotalHoursAddUp, Settled
<1>5. UpHoursAddUp'
  <2>1. \A h \in Hour : WasUp(h)' <=> WasUp(h) BY <1>2 DEF WasUp
  <2>2. \A d \in Day : {h \in Settled(d)' : WasUp(h)'} = {h \in Settled(d) : WasUp(h)}
    BY <2>1 DEF Settled
  <2> QED BY <2>2 DEF Inv, UpHoursAddUp, Whole
<1> QED BY <1>1, <1>3, <1>4, <1>5 DEF Inv

\* A probe makes a check that is not written yet.
LEMMA ProbeInv ==
    ASSUME Inv, NEW result \in Result, Probe(result)
    PROVE  Inv'
<1> DEFINE check == [hour |-> now, rank |-> StatusRank(result.httpOk, result.websocketOk),
                     measured |-> result.measured]
<1>1. check \in CheckType /\ check.hour = now
  BY DEF Inv, ChecksOK, CheckType, StatusRank, Result
<1>2. /\ checks' = Append(checks, check) /\ written' = Append(written, 0)
      /\ waiting' = waiting \union {Len(checks')}
      /\ UNCHANGED <<now, rows, days, start, cursor, cleaned, erased, begun>>
  BY DEF Probe
<1>3. /\ checks \in Seq(CheckType) /\ written \in Seq(Nat) /\ Len(written) = Len(checks)
      /\ waiting \in SUBSET DOMAIN checks /\ now \in Hour
      /\ \A i \in DOMAIN checks : checks[i].hour <= now
      /\ \A i \in waiting : checks[i].hour >= now - Retention
  BY DEF Inv, ChecksOK
<1> HIDE DEF check
<1> DEFINE n == Len(checks) + 1
<1>4. /\ checks' \in Seq(CheckType) /\ written' \in Seq(Nat)
      /\ Len(checks') = n /\ Len(written') = n
      /\ DOMAIN checks' = DOMAIN checks \union {n}
      /\ \A i \in DOMAIN checks : checks'[i] = checks[i] /\ written'[i] = written[i]
      /\ checks'[n] = check /\ written'[n] = 0
  BY <1>1, <1>2, <1>3
<1> HIDE DEF n
<1>5. ChecksOK'
  <2>1. waiting' \in SUBSET DOMAIN checks' BY <1>2, <1>3, <1>4
  <2>2. \A i \in DOMAIN checks' : checks'[i].hour <= now'
    BY <1>1, <1>2, <1>3, <1>4, HourType
  <2>3. \A i \in waiting' : checks'[i].hour >= now' - Retention
    <3>1. now \in Nat /\ Retention \in Nat BY <1>3, HourType, AvailabilityAssumption
    <3>2. checks'[n].hour = now /\ now >= now - Retention BY <1>1, <1>4, <3>1
    <3>3. waiting' = waiting \union {n} BY <1>2, <1>4
    <3> QED BY <1>2, <1>3, <1>4, <3>2, <3>3
  <2> QED BY <1>2, <1>3, <1>4, <2>1, <2>2, <2>3 DEF ChecksOK
<1>6. \A h \in Hour : Written(h)' = Written(h) BY <1>4 DEF Written
<1>7. now' \in Int /\ now' >= now BY <1>2, <1>3, HourType
<1> QED BY <1>2, <1>4, <1>5, <1>6, <1>7, LedgerStays

\* A cleanup that comes with a write of usage only; what it takes of hours that are
\* not settled is remembered in `erased`.
LEMMA CleanupInv == ASSUME Inv, CleanupByUsage PROVE Inv'
<1>1. /\ rows' = Kept(rows) /\ cleaned' = now
      /\ erased' = erased \union {h \in Hour : Outdated(h) /\ h >= cursor /\ rows[h] # NoRow}
      /\ UNCHANGED <<now, checks, waiting, days, start, cursor, written, begun>>
  BY DEF CleanupByUsage
<1>2. \A h \in Hour : Written(h)' = Written(h) /\ WasUp(h)' = WasUp(h)
  BY <1>1 DEF Written, WasUp
<1>3. ChecksOK' /\ CursorOK' BY <1>1, <1>2 DEF Inv, ChecksOK, CursorOK
<1>4. RowsTrue'
  <2>1. now \in Int /\ cleaned \in Int /\ cleaned <= now /\ Retention \in Int
    BY HourType, AvailabilityAssumption DEF Inv, ChecksOK, RowsTrue
  <2>2. SUFFICES ASSUME NEW h \in Hour
        PROVE  rows'[h].rank \in -1 .. 2 /\ (Known(h)' => RowTrue(h)')
    BY <1>1, <2>1 DEF RowsTrue
  <2>3. h \in Nat BY HourType
  <2>4. rows[h].rank \in -1 .. 2 /\ (Known(h) => RowTrue(h)) BY DEF Inv, RowsTrue
  <2>5. rows'[h].rank \in -1 .. 2 BY <1>1, <2>1, <2>4, KeptRank
  <2>6. CASE ~ Outdated(h)
    <3>1. rows'[h] = rows[h] BY <1>1, <2>6 DEF Kept
    <3>2. h >= cleaned - Retention BY <2>1, <2>3, <2>6 DEF Outdated
    <3>3. Known(h) BY <3>2 DEF Known
    <3> QED BY <1>1, <1>2, <2>4, <3>1, <3>3 DEF RowTrue
  <2>7. CASE Outdated(h)
    <3> SUFFICES ASSUME Known(h)' PROVE RowTrue(h)' BY <2>5
    <3>1. ~ (h >= cleaned' - Retention) BY <1>1, <2>1, <2>3, <2>7 DEF Outdated
    <3>2. h >= cursor /\ h \notin erased' BY <1>1, <3>1 DEF Known
    <3>3. rows[h] = NoRow /\ h \notin erased BY <1>1, <2>7, <3>2
    <3>4. rows'[h] = rows[h] BY <1>1, <2>7, <3>3 DEF Kept
    <3>5. Known(h) BY <3>2, <3>3 DEF Known
    <3> QED BY <1>1, <1>2, <2>4, <3>4, <3>5 DEF RowTrue
  <2> QED BY <2>6, <2>7
<1>5. TotalHoursAddUp' BY <1>1 DEF Inv, TotalHoursAddUp, Settled
<1>6. UpHoursAddUp'
  <2>1. \A d \in Day : Whole(d)' => Whole(d) BY <1>1 DEF Whole
  <2>2. \A d \in Day : {h \in Settled(d)' : WasUp(h)'} = {h \in Settled(d) : WasUp(h)}
    BY <1>1, <1>2 DEF Settled
  <2> QED BY <1>1, <2>1, <2>2 DEF Inv, UpHoursAddUp
<1> QED BY <1>3, <1>4, <1>5, <1>6 DEF Inv

\* Every step preserves the invariant.
LEMMA NextInv == Inv /\ [Next]_vars => Inv'
<1> SUFFICES ASSUME Inv, [Next]_vars PROVE Inv' OBVIOUS
<1>1. waiting \in SUBSET DOMAIN checks /\ now \in Nat
  BY HourType DEF Inv, ChecksOK
<1>2. ASSUME NEW result \in Result, Probe(result) PROVE Inv' BY <1>2, ProbeInv
<1>3. ASSUME NEW i \in waiting, NodeFlush(i) PROVE Inv'
  <2>1. Front(i) \in SUBSET waiting /\ CleanupDue \in BOOLEAN BY DEF Front, CleanupDue
  <2>2. Write(Front(i), CleanupDue) /\ waiting' \subseteq waiting /\ checks' = checks /\ now' = now
    BY <1>3 DEF NodeFlush
  <2> QED BY <2>1, <2>2, WriteInv
<1>4. ASSUME NEW i \in waiting, NodeFlushFails(i) PROVE Inv'
  <2>1. Front(i) \in SUBSET waiting BY DEF Front
  <2>2. Write(Front(i), FALSE) /\ waiting' \subseteq waiting /\ checks' = checks /\ now' = now
    BY <1>4 DEF NodeFlushFails
  <2> QED BY <2>1, <2>2, WriteInv
<1>5. ASSUME NEW i \in waiting, ObjectWrites(i) PROVE Inv'
  <2>1. PICK cleans \in {CleanupDue, FALSE} : Write({i}, cleans) BY <1>5 DEF ObjectWrites
  <2>2. CleanupDue \in BOOLEAN BY DEF CleanupDue
  <2>3. cleans \in BOOLEAN BY <2>2
  <2>4. waiting' \subseteq waiting /\ checks' = checks /\ now' = now
    BY <1>5 DEF ObjectWrites
  <2> QED BY <2>1, <2>3, <2>4, WriteInv
<1>6. ASSUME NEW i \in waiting, Lose(i) PROVE Inv'
  <2>1. UNCHANGED <<now, checks, ledger>> /\ waiting' = waiting \ {i} BY <1>6 DEF Lose
  <2>2. ChecksOK' BY <2>1 DEF Inv, ChecksOK, ledger
  <2>3. \A h \in Hour : Written(h)' = Written(h) BY <2>1 DEF Written, ledger
  <2> QED BY <1>1, <2>1, <2>2, <2>3, LedgerStays DEF ledger
<1>7. CASE CleanupByUsage BY <1>7, CleanupInv
<1>8. CASE Tick /\ now < LastHour
  <2>1. now' = now + 1 /\ UNCHANGED <<checks, waiting, ledger>>
    BY <1>1, <1>8, AvailabilityAssumption DEF Tick
  <2>2. now' \in Hour BY <1>1, <1>8, <2>1, AvailabilityAssumption DEF Hour
  <2>3. \A i \in DOMAIN checks : checks[i].hour <= now'
    <3> SUFFICES ASSUME NEW i \in DOMAIN checks PROVE checks[i].hour <= now'
      OBVIOUS
    <3>1. checks[i].hour \in Nat /\ checks[i].hour <= now
      BY HourType, CheckTyped DEF Inv, ChecksOK
    <3> QED BY <1>1, <2>1, <3>1
  <2>4. \A i \in waiting : checks[i].hour >= now' - Retention
    <3> SUFFICES ASSUME NEW i \in waiting PROVE checks[i].hour >= now' - Retention
      OBVIOUS
    <3>1. checks[i].hour \in Nat BY <1>1, HourType, CheckTyped DEF Inv
    <3>2. now - checks[i].hour < Retention
      BY <1>1, <1>8, AvailabilityAssumption DEF Tick
    <3> QED BY <1>1, <2>1, <3>1, <3>2, AvailabilityAssumption
  <2>5. ChecksOK' BY <2>1, <2>2, <2>3, <2>4 DEF Inv, ChecksOK, ledger
  <2>6. \A h \in Hour : Written(h)' = Written(h) BY <2>1 DEF Written, ledger
  <2> QED BY <1>1, <2>1, <2>5, <2>6, LedgerStays DEF ledger
<1>9. CASE UNCHANGED vars
  <2>1. ChecksOK' BY <1>9 DEF Inv, ChecksOK, vars, ledger
  <2>2. \A h \in Hour : Written(h)' = Written(h) BY <1>9 DEF Written, vars, ledger
  <2> QED BY <1>1, <1>9, <2>1, <2>2, LedgerStays DEF vars, ledger
<1>10. CASE Tick /\ now = LastHour BY <1>1, <1>9, <1>10 DEF Tick
<1> QED
  BY <1>2, <1>3, <1>4, <1>5, <1>6, <1>7, <1>8, <1>9, <1>10
     DEF Next, Tick, NodeResult, CloudflareResult

-----------------------------------------------------------------------------
(* The latencies, and the ratio of a day.                                   *)

\* A row has the latencies of its hour's checks, as often as they were written.
SamplesTrue ==
    \A h \in Hour : rows[h].samples \in Nat /\ (Known(h) => rows[h].samples = Latencies(h))

DaysTyped == \A d \in Day : days[d].up \in Nat /\ days[d].samples \in Nat

\* A row, also one that a cleanup took, and a day show no more hours up than there were.
UpsSeen ==
    /\ \A h \in Hour : rows[h].rank >= 2 => WasUp(h)
    /\ \A d \in Day : days[d].up <= Cardinality({h \in Settled(d) : WasUp(h)})

\* On Node checks are made, wait and are written in order: nothing is written that is
\* earlier than the first hour that was settled.
InOrder ==
    deployment = "node" =>
        /\ \A i, j \in DOMAIN checks : i < j => checks[i].hour <= checks[j].hour
        /\ cursor # 0 => begun <= now /\ \A i \in waiting : checks[i].hour >= begun
        /\ \A h \in Hour : Written(h) # {} => h >= begun

DaysInv == Inv /\ SamplesTrue /\ DaysTyped /\ LatenciesAddUp /\ UpsSeen /\ InOrder

\* What the sums range over.
LEMMA SumsTyped ==
    ASSUME Inv
    PROVE  /\ \A h \in Hour :
                 /\ IsFiniteSet(Measured(h)) /\ \A i \in Measured(h) : written[i] \in Nat
                 /\ Latencies(h) = Sum(written, Measured(h)) /\ Latencies(h) \in Nat
           /\ \A d \in Day : Settled(d) \in SUBSET Hour /\ IsFiniteSet(Settled(d))
<1>1. DOMAIN checks = 1 .. Len(checks) /\ DOMAIN written = DOMAIN checks /\ Len(checks) \in Nat
      /\ \A i \in DOMAIN checks : written[i] \in Nat
  BY DEF Inv, ChecksOK
<1>2. IsFiniteSet(DOMAIN checks) BY <1>1, FS_Interval
<1>3. ASSUME NEW h \in Hour
      PROVE  /\ IsFiniteSet(Measured(h)) /\ \A i \in Measured(h) : written[i] \in Nat
             /\ Latencies(h) = Sum(written, Measured(h)) /\ Latencies(h) \in Nat
  <2>1. IsFiniteSet(Measured(h)) /\ \A i \in Measured(h) : written[i] \in Nat
    <3>1. Measured(h) \subseteq DOMAIN checks BY DEF Measured
    <3> QED BY <1>1, <1>2, <3>1, FS_Subset
  <2>2. Latencies(h) = Sum(written, Measured(h)) BY DEF Latencies, Sum
  <2> QED BY <2>1, <2>2, SumType
<1>4. \A d \in Day : Settled(d) \in SUBSET Hour /\ IsFiniteSet(Settled(d))
  <2> TAKE d \in Day
  <2>1. Settled(d) \in SUBSET Hour BY DEF Settled
  <2> QED BY <2>1, HourType, FS_Subset
<1> QED BY <1>3, <1>4

\* A write adds the latencies of its batch.
LEMMA WriteLatencies ==
    ASSUME Inv, NEW batch \in SUBSET DOMAIN checks, NEW cleans, Write(batch, cleans),
           checks' = checks
    PROVE  \A h \in Hour :
               /\ SamplesOf(batch, h) \in Nat
               /\ Of(batch, h) = {} => SamplesOf(batch, h) = 0
               /\ Latencies(h)' = Latencies(h) + SamplesOf(batch, h)
<1> SUFFICES ASSUME NEW h \in Hour
             PROVE  /\ SamplesOf(batch, h) \in Nat
                    /\ Of(batch, h) = {} => SamplesOf(batch, h) = 0
                    /\ Latencies(h)' = Latencies(h) + SamplesOf(batch, h)
  OBVIOUS
<1> DEFINE one == [i \in DOMAIN checks |-> IF i \in batch THEN 1 ELSE 0]
           M == Measured(h)
<1>1. IsFiniteSet(M) /\ (\A i \in M : written[i] \in Nat) /\ Latencies(h) = Sum(written, M)
  BY SumsTyped
<1>2. M \subseteq DOMAIN checks /\ {i \in Of(batch, h) : checks[i].measured} = M \intersect batch
  BY DEF Measured, Of
<1>3. \A i \in DOMAIN checks : written'[i] = written[i] + one[i] BY DEF Write
<1>4. Latencies(h)' = Sum(written', M) BY DEF Latencies, Measured, Sum
<1>5. \A i \in M : one[i] = IF i \in batch THEN 1 ELSE 0 BY <1>2
<1>6. \A i \in M : one[i] \in Nat BY <1>5
<1> HIDE DEF one, M
<1>7. Sum(written', M) = Sum(written, M) + Sum(one, M)
  BY <1>1, <1>2, <1>3, <1>6, SumPlus
<1>8. Sum(one, M) = Cardinality(M \intersect batch) BY <1>1, <1>5, SumOfMembers
<1>9. SamplesOf(batch, h) = Cardinality(M \intersect batch) BY <1>2 DEF SamplesOf
<1>10. IsFiniteSet(M \intersect batch) BY <1>1, FS_Subset
<1>11. SamplesOf(batch, h) \in Nat BY <1>9, <1>10, FS_CardinalityType
<1>12. Of(batch, h) = {} => SamplesOf(batch, h) = 0
  <2>1. Of(batch, h) = {} => {i \in Of(batch, h) : checks[i].measured} = {} OBVIOUS
  <2> QED BY <2>1, FS_EmptySet DEF SamplesOf
<1> QED BY <1>1, <1>4, <1>7, <1>8, <1>9, <1>11, <1>12

\* The rows after a write, as far as the invariant speaks of them.
LEMMA WriteSamples ==
    ASSUME Inv, SamplesTrue, NEW batch \in SUBSET DOMAIN checks, NEW cleans \in BOOLEAN,
           Write(batch, cleans), checks' = checks, now' = now
    PROVE  /\ \A h \in Hour :
                 /\ Upserted(batch)[h].samples \in Nat
                 /\ Known(h) => Upserted(batch)[h].samples = Latencies(h)'
           /\ SamplesTrue'
<1>1. ASSUME NEW h \in Hour
      PROVE  /\ Upserted(batch)[h].samples \in Nat
             /\ Known(h) => Upserted(batch)[h].samples = Latencies(h)'
  <2>1. Upserted(batch)[h].samples = rows[h].samples + SamplesOf(batch, h) BY DEF Upserted
  <2>2. rows[h].samples \in Nat /\ (Known(h) => rows[h].samples = Latencies(h))
    BY DEF SamplesTrue
  <2>3. SamplesOf(batch, h) \in Nat /\ Latencies(h)' = Latencies(h) + SamplesOf(batch, h)
    BY WriteLatencies
  <2> QED BY <2>1, <2>2, <2>3
<1>2. now \in Nat /\ cleaned \in Int /\ cleaned <= now /\ Retention \in Nat /\ cursor \in Nat
  BY HourType, AvailabilityAssumption DEF Inv, ChecksOK, RowsTrue, CursorOK
<1>3. /\ rows' = IF cleans THEN Kept(Upserted(batch)) ELSE Upserted(batch)
      /\ cleaned' = IF cleans THEN now ELSE cleaned
      /\ erased' = erased
  BY DEF Write
<1>4. cursor' \in Nat /\ cursor' >= now /\ cursor' >= cursor
  <2>1. LET from == SettleFrom(Earliest(batch))
        IN  /\ from \in Nat /\ (cursor # 0 => from = cursor)
            /\ cursor' = IF from >= now THEN from ELSE now
    BY WriteCursor
  <2> QED BY <1>2, <2>1
<1>5. SamplesTrue'
  <2> SUFFICES ASSUME NEW h \in Hour
               PROVE  rows'[h].samples \in Nat /\ (Known(h)' => rows'[h].samples = Latencies(h)')
    BY DEF SamplesTrue
  <2>1. h \in Nat BY HourType
  <2>2. CASE cleans /\ Outdated(h)
    <3>1. rows'[h].samples = 0 BY <1>3, <2>2 DEF Kept, NoRow
    <3>2. ~ Known(h)' BY <1>2, <1>3, <1>4, <2>1, <2>2 DEF Known, Outdated
    <3> QED BY <3>1, <3>2
  <2>3. CASE ~ (cleans /\ Outdated(h))
    <3>1. rows'[h] = Upserted(batch)[h] BY <1>3, <2>3 DEF Kept
    <3>2. Known(h)' => Known(h)
      <4>1. cleans => (h >= cleaned - Retention) BY <1>2, <2>1, <2>3 DEF Outdated
      <4> QED BY <1>2, <1>3, <1>4, <2>1, <4>1 DEF Known
    <3> QED BY <1>1, <3>1, <3>2
  <2> QED BY <2>2, <2>3
<1> QED BY <1>1, <1>5

\* The hours that are before the cursor after a write were so before it, are settled by
\* it, or, if it is the first to settle, have no checks.
LEMMA WriteSettles ==
    ASSUME Inv, NEW batch \in SUBSET DOMAIN checks, NEW cleans, Write(batch, cleans),
           checks' = checks, NEW d \in Day
    PROVE  /\ SettledHours(d, batch) \in SUBSET Hour
           /\ \A h \in SettledHours(d, batch) : DayOf(h) = d /\ h >= cursor
           /\ Settled(d) \intersect SettledHours(d, batch) = {}
           /\ Settled(d) \union SettledHours(d, batch) \in SUBSET Settled(d)'
           /\ \A h \in Settled(d)' \ (Settled(d) \union SettledHours(d, batch)) : Written(h)' = {}
<1> DEFINE from == SettleFrom(Earliest(batch))
<1>1. /\ from \in Nat
      /\ cursor # 0 => from = cursor
      /\ cursor = 0 => from = start' /\ start' > 0
      /\ cursor' = IF from >= now THEN from ELSE now
      /\ CursorOK'
  BY WriteCursor DEF CursorOK
<1>2. SettledHours(d, batch) = {h \in from .. (now - 1) : DayOf(h) = d} BY DEF SettledHours
<1> HIDE DEF from
<1>3. now \in Hour /\ now \in Nat /\ cursor \in Nat /\ start' \in Nat
  BY <1>1, HourType DEF Inv, ChecksOK, CursorOK
<1>4. from # 0 /\ from >= cursor BY <1>1, <1>3
<1>5. SettledHours(d, batch) = {h \in Hour : DayOf(h) = d /\ h >= from /\ h <= now - 1}
  BY <1>1, <1>2, <1>3, <1>4, AvailabilityAssumption DEF Hour
<1>6. \A h \in Hour : h \in Nat BY HourType
<1>7. Settled(d) = {h \in Hour : DayOf(h) = d /\ h < cursor} BY DEF Settled
<1>8. Settled(d)' = {h \in Hour : DayOf(h) = d /\ h < cursor'} BY DEF Settled
<1>9. \A h \in SettledHours(d, batch) : h \in Hour /\ DayOf(h) = d /\ h >= cursor
  <2> SUFFICES ASSUME NEW h \in SettledHours(d, batch)
               PROVE  h \in Hour /\ DayOf(h) = d /\ h >= cursor
    OBVIOUS
  <2>1. h \in Hour /\ DayOf(h) = d /\ h >= from BY <1>5
  <2>2. h >= cursor BY <1>1, <1>3, <1>4, <1>6, <2>1
  <2> QED BY <2>1, <2>2
<1>10. Settled(d) \intersect SettledHours(d, batch) = {}
  <2>1. \A h \in Hour : ~ (h < cursor /\ h >= cursor) BY <1>3, <1>6
  <2> QED BY <1>7, <1>9, <2>1
<1>11. Settled(d) \union SettledHours(d, batch) \in SUBSET Settled(d)'
  <2>1. \A h \in Hour : h < cursor => h < cursor' BY <1>1, <1>3, <1>4, <1>6
  <2>2. \A h \in Hour : h <= now - 1 => h < cursor' BY <1>1, <1>3, <1>6
  <2>3. Settled(d) \subseteq Settled(d)' BY <1>7, <1>8, <2>1
  <2>4. SettledHours(d, batch) \subseteq Settled(d)' BY <1>5, <1>8, <2>2
  <2> QED BY <2>3, <2>4
<1>12. ASSUME NEW h \in Settled(d)' \ (Settled(d) \union SettledHours(d, batch))
       PROVE  Written(h)' = {}
  <2>1. h \in Hour /\ h \in Nat BY <1>6, <1>8
  <2>2. cursor = 0 /\ h < from BY <1>1, <1>3, <1>5, <1>7, <1>8, <2>1
  <2>3. ~ (h >= start') BY <1>1, <1>3, <2>1, <2>2
  <2> QED BY <1>1, <2>1, <2>3 DEF CursorOK
<1> QED BY <1>9, <1>10, <1>11, <1>12

\* Checks that were not written add no latency.
LEMMA NothingWritten == ChecksOK => \A h \in Hour : Written(h) = {} => Latencies(h) = 0
<1> SUFFICES ASSUME ChecksOK, NEW h \in Hour, Written(h) = {} PROVE Latencies(h) = 0
  OBVIOUS
<1>1. DOMAIN checks = 1 .. Len(checks) /\ DOMAIN written = DOMAIN checks /\ Len(checks) \in Nat
      /\ \A i \in DOMAIN checks : written[i] \in Nat
  BY DEF ChecksOK
<1>2. Measured(h) \subseteq DOMAIN checks BY DEF Measured
<1>3. \A i \in Measured(h) : written[i] = 0 BY <1>1 DEF Measured, Written
<1>4. IsFiniteSet(DOMAIN checks) BY <1>1, FS_Interval
<1>5. IsFiniteSet(Measured(h)) BY <1>2, <1>4, FS_Subset
<1> QED BY <1>3, <1>5, SumOfZeros DEF Latencies, Sum

\* ... nor after a step.
LEMMA NothingWrittenNext ==
    (ChecksOK => \A h \in Hour : Written(h) = {} => Latencies(h) = 0)'
BY NothingWritten, PTL

\* The latencies of a day after a write: a late check's go to a day that has its hour, the
\* others wait in their row for the settling.
LEMMA WriteDaySamples ==
    ASSUME Inv, SamplesTrue, LatenciesAddUp, DaysTyped,
           NEW batch \in SUBSET DOMAIN checks, NEW cleans \in BOOLEAN,
           Write(batch, cleans), checks' = checks, now' = now, Inv'
    PROVE  LatenciesAddUp' /\ \A d \in Day : days'[d].samples \in Nat
<1> SUFFICES ASSUME NEW d \in Day
             PROVE  /\ days'[d].samples \in Nat
                    /\ Whole(d)' => days'[d].samples
                                     = Sum([h \in Hour |-> Latencies(h)'], Settled(d)')
  BY DEF LatenciesAddUp, Sum
<1> DEFINE before == [h \in Hour |-> Latencies(h)]
           after  == [h \in Hour |-> Latencies(h)']
           more   == [h \in Hour |-> SamplesOf(batch, h)]
           table  == [h \in Hour |-> Upserted(batch)[h].samples]
           added  == SettledHours(d, batch)
           late   == LateHours(d, batch)
<1>1. /\ \A h \in Hour : before[h] \in Nat /\ more[h] \in Nat /\ after[h] = before[h] + more[h]
      /\ \A h \in Hour : Of(batch, h) = {} => more[h] = 0
      /\ \A h \in Hour : table[h] \in Nat /\ (Known(h) => table[h] = after[h])
  BY SumsTyped, WriteLatencies, WriteSamples
<1>2. /\ added \in SUBSET Hour /\ Settled(d) \in SUBSET Hour /\ late \in SUBSET Settled(d)
      /\ Settled(d)' \in SUBSET Hour
      /\ Settled(d) \intersect added = {}
      /\ Settled(d) \union added \in SUBSET Settled(d)'
  BY WriteSettles DEF Settled, LateHours
<1>3. /\ IsFiniteSet(added) /\ IsFiniteSet(Settled(d)) /\ IsFiniteSet(late)
      /\ IsFiniteSet(Settled(d)') /\ IsFiniteSet(Settled(d) \union added)
  <2> HIDE DEF added, late
  <2> QED BY <1>2, HourType, FS_Subset
<1>4. \A h \in Settled(d)' \ (Settled(d) \union added) : after[h] = 0
  <2> SUFFICES ASSUME NEW h \in Settled(d)' \ (Settled(d) \union added) PROVE after[h] = 0
    OBVIOUS
  <2>1. h \in Hour /\ Written(h)' = {} BY <1>2, WriteSettles
  <2>2. (ChecksOK => \A g \in Hour : Written(g) = {} => Latencies(g) = 0)'
    BY NothingWrittenNext
  <2>3. Latencies(h)' = 0 BY <2>1, <2>2 DEF Inv
  <2> QED BY <2>1, <2>3
<1>5. \A h \in Settled(d) \ late : more[h] = 0 BY <1>1 DEF LateHours, Settled
<1>6. days'[d].samples = days[d].samples + Sum(more, late) + Sum(table, added)
  BY DEF Write, DayAfter, LateSamples, SettledSamples, Sum
<1>7. Whole(d)' => \A h \in added : table[h] = after[h]
  <2> SUFFICES ASSUME Whole(d)', NEW h \in added PROVE table[h] = after[h] OBVIOUS
  <2>1. DayOf(h) = d /\ h >= cursor /\ h \in Hour BY WriteSettles
  <2>2. h \notin erased BY <2>1 DEF Write, Whole
  <2> QED BY <1>1, <2>1, <2>2 DEF Known
<1>8. days[d].samples \in Nat BY DEF DaysTyped
<1>9. Whole(d)' => days[d].samples = Sum(before, Settled(d))
  <2>1. Whole(d)' => Whole(d) BY DEF Write, Whole
  <2> QED BY <2>1 DEF LatenciesAddUp, Sum
<1> HIDE DEF before, after, more, table, added, late
<1>10. \A h \in Hour : after[h] \in Nat BY <1>1
<1>11. Sum(more, late) \in Nat /\ Sum(table, added) \in Nat
  <2>1. \A h \in late : more[h] \in Nat BY <1>1, <1>2
  <2>2. \A h \in added : table[h] \in Nat BY <1>1, <1>2
  <2> QED BY <1>3, <2>1, <2>2, SumType
<1>12. days'[d].samples \in Nat BY <1>6, <1>8, <1>11
<1>13. ASSUME Whole(d)' PROVE days'[d].samples = Sum(after, Settled(d)')
  <2>1. Sum(more, Settled(d)) = Sum(more, late)
    <3>1. \A h \in Settled(d) : more[h] \in Nat /\ (h \notin late => more[h] = 0)
      BY <1>1, <1>2, <1>5
    <3> QED BY <1>2, <1>3, <3>1, SumOfPart
  <2>2. Sum(after, Settled(d)) = Sum(before, Settled(d)) + Sum(more, Settled(d))
    <3>1. \A h \in Settled(d) : before[h] \in Nat /\ more[h] \in Nat /\ after[h] = before[h] + more[h]
      BY <1>1, <1>2
    <3> QED BY <1>3, <3>1, SumPlus
  <2>3. Sum(table, added) = Sum(after, added)
    <3>1. \A h \in added : table[h] \in Nat /\ table[h] = after[h] BY <1>1, <1>2, <1>7, <1>13
    <3> QED BY <1>3, <3>1, SumEqual
  <2>4. Sum(after, Settled(d) \union added) = Sum(after, Settled(d)) + Sum(after, added)
    <3>1. \A h \in Settled(d) \union added : after[h] \in Nat BY <1>2, <1>10
    <3> QED BY <1>2, <1>3, <3>1, SumUnion
  <2>5. Sum(after, Settled(d)') = Sum(after, Settled(d) \union added)
    <3>1. \A h \in Settled(d)' :
            after[h] \in Nat /\ (h \notin Settled(d) \union added => after[h] = 0)
      BY <1>2, <1>4, <1>10
    <3> QED BY <1>2, <1>3, <3>1, SumOfPart
  <2>6. days'[d].samples = Sum(after, Settled(d)) + Sum(after, added)
    BY <1>6, <1>9, <1>13, <2>1, <2>2, <2>3
  <2> QED BY <2>4, <2>5, <2>6
<1> QED BY <1>12, <1>13 DEF after

\* What no row is known of is counted as up only if it was.
LEMMA WriteUpsSeen ==
    ASSUME Inv, UpsSeen, DaysTyped, NEW batch \in SUBSET waiting, NEW cleans \in BOOLEAN,
           Write(batch, cleans), checks' = checks, now' = now
    PROVE  UpsSeen' /\ \A d \in Day : days'[d].up \in Nat
<1> DEFINE Seen(h) == \E i \in Of(batch, h) : checks[i].rank >= 2
<1>1. batch \in SUBSET DOMAIN checks BY DEF Inv, ChecksOK
<1>2. \A h \in Hour :
          /\ Known(h) => (rows[h].rank >= 2 <=> WasUp(h))
          /\ WasUp(h)' <=> WasUp(h) \/ Seen(h)
          /\ Upserted(batch)[h].rank = 2 <=> rows[h].rank >= 2 \/ Seen(h)
          /\ Of(batch, h) # {} => Known(h)
  BY <1>1, WriteFindsUp
<1> HIDE DEF Seen
<1>3. \A h \in Hour : rows[h].rank >= 2 => WasUp(h) BY DEF UpsSeen
<1>4. \A h \in Hour : Upserted(batch)[h].rank \in -1 .. 2 /\ rows[h].rank \in -1 .. 2
  BY <1>1, UpsertRank DEF Inv, RowsTrue
<1>5. \A h \in Hour : Upserted(batch)[h].rank = 2 => WasUp(h)' BY <1>2, <1>3
<1>6. \A h \in Hour : rows'[h].rank >= 2 => WasUp(h)'
  <2> SUFFICES ASSUME NEW h \in Hour, rows'[h].rank >= 2 PROVE WasUp(h)' OBVIOUS
  <2>1. rows'[h] = NoRow \/ rows'[h] = Upserted(batch)[h] BY DEF Write, Kept
  <2>2. rows'[h] # NoRow BY DEF NoRow
  <2>3. Upserted(batch)[h].rank = 2 BY <1>4, <2>1, <2>2
  <2> QED BY <1>5, <2>3
<1>7. ASSUME NEW d \in Day
      PROVE  days'[d].up \in Nat /\ days'[d].up <= Cardinality({h \in Settled(d)' : WasUp(h)'})
  <2> DEFINE old   == {h \in Settled(d) : WasUp(h)}
             late  == {h \in LateHours(d, batch) : rows[h].rank < 2 /\ Upserted(batch)[h].rank = 2}
             added == {h \in SettledHours(d, batch) : Upserted(batch)[h].rank = 2}
             new   == {h \in Settled(d)' : WasUp(h)'}
  <2>1. /\ SettledHours(d, batch) \in SUBSET Hour
        /\ Settled(d) \intersect SettledHours(d, batch) = {}
        /\ Settled(d) \union SettledHours(d, batch) \in SUBSET Settled(d)'
        /\ Settled(d) \in SUBSET Hour /\ Settled(d)' \in SUBSET Hour
    BY <1>1, WriteSettles DEF Settled
  <2>2. \A h \in late : h \in Settled(d) /\ h \in Hour /\ ~ WasUp(h) /\ WasUp(h)'
    <3> SUFFICES ASSUME NEW h \in late
                 PROVE  h \in Settled(d) /\ h \in Hour /\ ~ WasUp(h) /\ WasUp(h)'
      OBVIOUS
    <3>1. /\ h \in Hour /\ h \in Settled(d) /\ Of(batch, h) # {}
          /\ rows[h].rank < 2 /\ Upserted(batch)[h].rank = 2
      BY DEF LateHours, Settled
    <3>2. ~ (rows[h].rank >= 2) BY <1>4, <3>1
    <3> QED BY <1>2, <1>5, <3>1, <3>2
  <2>3. \A h \in added : h \in SettledHours(d, batch) /\ WasUp(h)' BY <1>5, <2>1
  <2>4. \A h \in old : h \in Settled(d) /\ WasUp(h) /\ WasUp(h)' BY <1>2, <2>1
  <2>5. days'[d].up = days[d].up + Cardinality(late) + Cardinality(added)
    BY DEF Write, DayAfter, LateUp, SettledUp
  <2>6. days[d].up \in Nat /\ days[d].up <= Cardinality(old) BY DEF UpsSeen, DaysTyped
  <2>7. /\ old \subseteq Hour /\ late \subseteq Hour /\ added \subseteq Hour /\ new \subseteq Hour
        /\ (old \union late) \union added \subseteq new
        /\ old \intersect late = {} /\ (old \union late) \intersect added = {}
    BY <2>1, <2>2, <2>3, <2>4
  <2> HIDE DEF old, late, added, new
  <2>8. IsFiniteSet(old) /\ IsFiniteSet(late) /\ IsFiniteSet(added) /\ IsFiniteSet(new)
    BY <2>7, HourType, FS_Subset
  <2>9. /\ IsFiniteSet(old \union late)
        /\ Cardinality(old \union late) = Cardinality(old) + Cardinality(late) - Cardinality({})
    BY <2>7, <2>8, FS_Union
  <2>10. Cardinality((old \union late) \union added)
           = Cardinality(old \union late) + Cardinality(added) - Cardinality({})
    BY <2>7, <2>8, <2>9, FS_Union
  <2>11. Cardinality((old \union late) \union added) <= Cardinality(new)
    BY <2>7, <2>8, FS_Subset
  <2>12. /\ Cardinality({}) = 0 /\ Cardinality(old) \in Nat /\ Cardinality(late) \in Nat
         /\ Cardinality(added) \in Nat /\ Cardinality(new) \in Nat
    BY <2>8, FS_EmptySet, FS_CardinalityType
  <2>13. days'[d].up \in Nat /\ days'[d].up <= Cardinality(new)
    BY <2>5, <2>6, <2>9, <2>10, <2>11, <2>12
  <2> QED BY <2>13 DEF new
<1> QED BY <1>6, <1>7 DEF UpsSeen

\* Node writes what waits from the front.
LEMMA WriteInOrder ==
    ASSUME Inv, InOrder, NEW last \in waiting, NEW cleans, Write(Front(last), cleans),
           checks' = checks, now' = now, deployment' = deployment, waiting' \subseteq waiting,
           deployment = "node"
    PROVE  InOrder'
<1> DEFINE batch == Front(last)
           first == Earliest(batch)
<1>1. /\ batch \in SUBSET DOMAIN checks /\ batch \subseteq waiting /\ waiting \subseteq DOMAIN checks
      /\ last \in DOMAIN checks /\ DOMAIN checks \subseteq Nat
  BY DEF Front, Inv, ChecksOK
<1>2. /\ first \in Nat \ {0} /\ first <= start
      /\ \A i \in batch : first <= checks[i].hour
  BY <1>1, EarliestOK
<1>3. now \in Nat /\ \A i \in DOMAIN checks : checks[i].hour \in Nat /\ checks[i].hour <= now
  BY HourType, CheckTyped DEF Inv, ChecksOK
<1>4. begun' = IF cursor = 0 THEN first ELSE begun BY DEF Write
<1>5. \A h \in Hour : Written(h)' = Written(h) \union Of(batch, h) BY <1>1, WriteMarks
<1>6. last \in batch BY <1>1 DEF Front
<1> HIDE DEF first
<1>7. \A i, j \in DOMAIN checks : i < j => checks[i].hour <= checks[j].hour BY DEF InOrder
<1>8. begun' <= now /\ \A i \in waiting : checks[i].hour >= begun'
  <2>1. CASE cursor # 0 BY <1>4, <2>1 DEF InOrder
  <2>2. CASE cursor = 0
    <3>1. first <= checks[last].hour BY <1>2, <1>6
    <3>2. first <= now BY <1>1, <1>2, <1>3, <3>1
    <3>3. ASSUME NEW i \in waiting PROVE first <= checks[i].hour
      <4>1. CASE i \in batch BY <1>2, <4>1
      <4>2. CASE i \notin batch
        <5>1. last < i BY <1>1, <4>2 DEF Front
        <5>2. checks[last].hour <= checks[i].hour BY <1>1, <1>7, <5>1
        <5> QED BY <1>1, <1>2, <1>3, <3>1, <5>2
      <4> QED BY <4>1, <4>2
    <3> QED BY <1>1, <1>2, <1>3, <1>4, <2>2, <3>2, <3>3
  <2> QED BY <2>1, <2>2
<1>9. ASSUME NEW h \in Hour, Written(h)' # {} PROVE h >= begun'
  <2>1. CASE Of(batch, h) # {} BY <1>1, <1>8, <2>1 DEF Of
  <2>2. CASE Written(h) # {}
    <3>1. cursor # 0
      <4>1. h >= start /\ (cursor = 0 => start = Never) BY <2>2 DEF Inv, CursorOK
      <4>2. h \in Nat /\ h <= LastHour BY HourType, AvailabilityAssumption DEF Hour
      <4> QED BY <4>1, <4>2, AvailabilityAssumption DEF Never
    <3> QED BY <1>4, <2>2, <3>1 DEF InOrder
  <2> QED BY <1>5, <1>9, <2>1, <2>2
<1> QED BY <1>7, <1>8, <1>9 DEF InOrder

\* A write keeps all of it.
LEMMA WriteDays ==
    ASSUME DaysInv, Inv', NEW batch \in SUBSET waiting, NEW cleans \in BOOLEAN,
           Write(batch, cleans), checks' = checks, now' = now, InOrder'
    PROVE  DaysInv'
<1>1. batch \in SUBSET DOMAIN checks BY DEF DaysInv, Inv, ChecksOK
<1>2. Inv /\ SamplesTrue /\ DaysTyped /\ LatenciesAddUp /\ UpsSeen BY DEF DaysInv
<1>3. SamplesTrue' BY <1>1, <1>2, WriteSamples
<1>4. LatenciesAddUp' /\ \A d \in Day : days'[d].samples \in Nat
  BY <1>1, <1>2, WriteDaySamples
<1>5. UpsSeen' /\ \A d \in Day : days'[d].up \in Nat BY <1>2, WriteUpsSeen
<1>6. DaysTyped' BY <1>4, <1>5 DEF DaysTyped
<1> QED BY <1>3, <1>4, <1>5, <1>6 DEF DaysInv

\* So does a step that leaves the ledger and what was written alone.
LEMMA DaysStay ==
    ASSUME DaysInv, Inv', InOrder',
           UNCHANGED <<rows, days, start, cursor, cleaned, erased, begun>>,
           \A h \in Hour : Written(h)' = Written(h) /\ Latencies(h)' = Latencies(h),
           \A i \in DOMAIN checks : checks'[i] = checks[i]
    PROVE  DaysInv'
<1>1. \A h \in Hour : Known(h)' = Known(h) BY DEF Known
<1>2. SamplesTrue' /\ DaysTyped' BY <1>1 DEF DaysInv, SamplesTrue, DaysTyped
<1>3. \A d \in Day : Settled(d)' = Settled(d) /\ Whole(d)' = Whole(d) BY DEF Settled, Whole
<1>4. \A h \in Hour : WasUp(h)' <=> WasUp(h)
  <2>1. \A h \in Hour : \A i \in Written(h) : checks'[i] = checks[i] BY DEF Written
  <2> QED BY <2>1 DEF WasUp
<1>5. LatenciesAddUp'
  <2>1. [h \in Hour |-> Latencies(h)'] = [h \in Hour |-> Latencies(h)] OBVIOUS
  <2> QED BY <1>3, <2>1 DEF DaysInv, LatenciesAddUp
<1>6. UpsSeen'
  <2>1. \A d \in Day : {h \in Settled(d)' : WasUp(h)'} = {h \in Settled(d) : WasUp(h)}
    BY <1>3, <1>4 DEF Settled
  <2> QED BY <1>4, <2>1 DEF DaysInv, UpsSeen
<1> QED BY <1>2, <1>5, <1>6 DEF DaysInv

\* A check that is made is not written, and is the latest.
LEMMA ProbeDays ==
    ASSUME DaysInv, Inv', NEW result \in Result, Probe(result)
    PROVE  DaysInv'
<1> DEFINE check == [hour |-> now, rank |-> StatusRank(result.httpOk, result.websocketOk),
                     measured |-> result.measured]
           n == Len(checks) + 1
<1>1. /\ checks' = Append(checks, check) /\ written' = Append(written, 0)
      /\ waiting' = waiting \union {Len(checks')} /\ check.hour = now
      /\ UNCHANGED <<deployment, now, rows, days, start, cursor, cleaned, erased, begun>>
  BY DEF Probe
<1>2. /\ checks \in Seq(CheckType) /\ written \in Seq(Nat) /\ Len(written) = Len(checks)
      /\ \A i \in DOMAIN checks : checks[i].hour <= now
  BY DEF DaysInv, Inv, ChecksOK
<1> HIDE DEF check
<1>3. /\ DOMAIN checks' = DOMAIN checks \union {n} /\ n \notin DOMAIN checks
      /\ DOMAIN checks = 1 .. Len(checks) /\ Len(checks) \in Nat
      /\ \A i \in DOMAIN checks : checks'[i] = checks[i] /\ written'[i] = written[i]
      /\ checks'[n] = check /\ written'[n] = 0 /\ Len(checks') = n
      /\ \A i \in DOMAIN checks : i < n
  BY <1>1, <1>2
<1> HIDE DEF n
<1>4. \A h \in Hour : Written(h)' = Written(h) BY <1>3 DEF Written
<1>5. ASSUME NEW h \in Hour PROVE Latencies(h)' = Latencies(h)
  <2> DEFINE M == Measured(h)
             N == Measured(h)'
  <2>1. M \subseteq DOMAIN checks /\ N \in SUBSET (M \union {n}) /\ M \in SUBSET N
    BY <1>3 DEF Measured
  <2>2. IsFiniteSet(M) /\ (\A i \in M : written[i] \in Nat)
        /\ Latencies(h) = Sum(written, M)
    BY SumsTyped DEF DaysInv
  <2>3. Latencies(h)' = Sum(written', N) BY DEF Latencies, Sum
  <2>4. \A i \in M : written'[i] \in Nat /\ written[i] = written'[i] BY <1>3, <2>1, <2>2
  <2> HIDE DEF M, N
  <2>5. IsFiniteSet(N)
    <3>1. IsFiniteSet(M \union {n}) BY <2>2, FS_AddElement
    <3> QED BY <2>1, <3>1, FS_Subset
  <2>6. \A i \in N : written'[i] \in Nat /\ (i \notin M => written'[i] = 0)
    BY <1>3, <2>1, <2>4
  <2>7. Sum(written', N) = Sum(written', M) BY <2>1, <2>5, <2>6, SumOfPart
  <2>8. Sum(written, M) = Sum(written', M) BY <2>2, <2>4, SumEqual
  <2> QED BY <2>2, <2>3, <2>7, <2>8
<1>6. InOrder'
  <2> SUFFICES ASSUME deployment = "node" PROVE InOrder' BY <1>1 DEF InOrder
  <2>1. \A i, j \in DOMAIN checks' : i < j => checks'[i].hour <= checks'[j].hour
    <3> SUFFICES ASSUME NEW i \in DOMAIN checks', NEW j \in DOMAIN checks', i < j
                 PROVE  checks'[i].hour <= checks'[j].hour
      OBVIOUS
    <3>1. i # n BY <1>3
    <3>2. CASE j = n BY <1>1, <1>2, <1>3, <3>1, <3>2
    <3>3. CASE j # n BY <1>3, <3>1, <3>3 DEF DaysInv, InOrder
    <3> QED BY <3>2, <3>3
  <2>2. cursor' # 0 => begun' <= now' /\ \A i \in waiting' : checks'[i].hour >= begun'
    <3> SUFFICES ASSUME cursor # 0 PROVE begun <= now /\ \A i \in waiting' : checks'[i].hour >= begun
      BY <1>1
    <3>1. begun <= now /\ \A i \in waiting : checks[i].hour >= begun BY DEF DaysInv, InOrder
    <3>2. waiting \subseteq DOMAIN checks BY DEF DaysInv, Inv, ChecksOK
    <3>3. waiting' = waiting \union {n} /\ checks'[n].hour = now BY <1>1, <1>3
    <3>4. now \in Nat /\ begun \in Nat BY HourType DEF DaysInv, Inv, ChecksOK, CursorOK
    <3> QED BY <1>3, <3>1, <3>2, <3>3, <3>4
  <2>3. \A h \in Hour : Written(h)' # {} => h >= begun' BY <1>1, <1>4 DEF DaysInv, InOrder
  <2> QED BY <2>1, <2>2, <2>3 DEF InOrder
<1> QED BY <1>1, <1>3, <1>4, <1>5, <1>6, DaysStay

\* A cleanup takes rows the invariant says nothing of, or that are remembered.
LEMMA CleanupDays == ASSUME DaysInv, Inv', CleanupByUsage PROVE DaysInv'
<1>1. /\ rows' = Kept(rows) /\ cleaned' = now
      /\ erased' = erased \union {h \in Hour : Outdated(h) /\ h >= cursor /\ rows[h] # NoRow}
      /\ UNCHANGED <<deployment, now, checks, waiting, days, start, cursor, written, begun>>
  BY DEF CleanupByUsage
<1>2. /\ \A h \in Hour : Written(h)' = Written(h) /\ WasUp(h)' = WasUp(h)
                          /\ Latencies(h)' = Latencies(h)
      /\ \A d \in Day : Settled(d)' = Settled(d) /\ (Whole(d)' => Whole(d))
  BY <1>1 DEF Written, WasUp, Latencies, Measured, Settled, Whole
<1>3. InOrder' /\ DaysTyped' BY <1>1, <1>2 DEF DaysInv, InOrder, DaysTyped
<1>4. LatenciesAddUp'
  <2>1. [h \in Hour |-> Latencies(h)'] = [h \in Hour |-> Latencies(h)] BY <1>2
  <2> QED BY <1>1, <1>2, <2>1 DEF DaysInv, LatenciesAddUp
<1>5. UpsSeen'
  <2>1. \A d \in Day : {h \in Settled(d)' : WasUp(h)'} = {h \in Settled(d) : WasUp(h)}
    BY <1>2 DEF Settled
  <2>2. \A h \in Hour : rows'[h].rank >= 2 => rows[h].rank >= 2 BY <1>1 DEF Kept, NoRow
  <2> QED BY <1>1, <1>2, <2>1, <2>2 DEF DaysInv, UpsSeen
<1>6. SamplesTrue'
  <2>1. now \in Int /\ cleaned \in Int /\ cleaned <= now /\ Retention \in Int
    BY HourType, AvailabilityAssumption DEF DaysInv, Inv, ChecksOK, RowsTrue
  <2> SUFFICES ASSUME NEW h \in Hour
               PROVE  rows'[h].samples \in Nat /\ (Known(h)' => rows'[h].samples = Latencies(h)')
    BY DEF SamplesTrue
  <2>2. h \in Nat BY HourType
  <2>3. rows[h].samples \in Nat /\ (Known(h) => rows[h].samples = Latencies(h))
    BY DEF DaysInv, SamplesTrue
  <2>4. CASE ~ Outdated(h)
    <3>1. rows'[h] = rows[h] BY <1>1, <2>4 DEF Kept
    <3>2. h >= cleaned - Retention BY <2>1, <2>2, <2>4 DEF Outdated
    <3> QED BY <1>2, <2>3, <3>1, <3>2 DEF Known
  <2>5. CASE Outdated(h)
    <3>1. rows'[h].samples = 0 BY <1>1, <2>5 DEF Kept, NoRow
    <3> SUFFICES ASSUME Known(h)' PROVE rows'[h].samples = Latencies(h)' BY <3>1
    <3>2. ~ (h >= cleaned' - Retention) BY <1>1, <2>1, <2>2, <2>5 DEF Outdated
    <3>3. h >= cursor /\ h \notin erased' BY <1>1, <3>2 DEF Known
    <3>4. rows[h] = NoRow /\ h \notin erased BY <1>1, <2>5, <3>3
    <3>5. Latencies(h) = 0 BY <2>3, <3>3, <3>4 DEF Known, NoRow
    <3> QED BY <1>2, <3>1, <3>5
  <2> QED BY <2>4, <2>5
<1> QED BY <1>3, <1>4, <1>5, <1>6 DEF DaysInv

\* Nothing has been written, nothing is settled.
LEMMA InitDays == Init => DaysInv
<1> SUFFICES ASSUME Init PROVE DaysInv OBVIOUS
<1>1. Inv BY InitInv
<1>2. \A h \in Hour : Written(h) = {} /\ rows[h].rank = -1 /\ rows[h].samples = 0
  BY DEF Init, NoRow, Written
<1>3. \A h \in Hour : Latencies(h) = 0 BY <1>1, <1>2, NothingWritten DEF Inv
<1>4. \A d \in Day : Settled(d) = {} /\ days[d].up = 0 /\ days[d].samples = 0
  <2>1. \A h \in Hour : ~ (h < cursor) BY HourType DEF Init
  <2> QED BY <2>1 DEF Settled, Init
<1>5. SamplesTrue /\ DaysTyped BY <1>2, <1>3, <1>4 DEF SamplesTrue, DaysTyped
<1>6. LatenciesAddUp
  <2>1. Sum([h \in Hour |-> Latencies(h)], {}) = 0 BY SumEmpty
  <2> QED BY <1>4, <2>1 DEF LatenciesAddUp, Sum
<1>7. UpsSeen
  <2>1. \A d \in Day : {h \in Settled(d) : WasUp(h)} = {} BY <1>4
  <2>2. Cardinality({}) = 0 BY FS_EmptySet
  <2>3. \A h \in Hour : ~ (rows[h].rank >= 2) BY <1>2
  <2>4. \A d \in Day : Cardinality({h \in Settled(d) : WasUp(h)}) = 0 BY <2>1, <2>2
  <2>5. \A d \in Day : days[d].up <= Cardinality({h \in Settled(d) : WasUp(h)})
    <3> TAKE d \in Day
    <3>1. days[d].up = 0 BY <1>4
    <3>2. Cardinality({h \in Settled(d) : WasUp(h)}) = 0 BY <2>4
    <3> QED BY <3>1, <3>2
  <2> QED BY <2>3, <2>5 DEF UpsSeen
<1>8. InOrder BY <1>2 DEF Init, InOrder
<1> QED BY <1>1, <1>5, <1>6, <1>7, <1>8 DEF DaysInv

\* Every step preserves the sums.
LEMMA NextDays == DaysInv /\ [Next]_vars => DaysInv'
<1> SUFFICES ASSUME DaysInv, [Next]_vars PROVE DaysInv' OBVIOUS
<1>1. Inv /\ InOrder /\ Inv' BY NextInv DEF DaysInv
<1>2. waiting \in SUBSET DOMAIN checks /\ now \in Nat BY <1>1, HourType DEF Inv, ChecksOK
<1>3. ASSUME NEW result \in Result, Probe(result) PROVE DaysInv' BY <1>1, <1>3, ProbeDays
<1>4. ASSUME NEW i \in waiting, NEW cleans \in BOOLEAN, Write(Front(i), cleans),
             deployment = "node", deployment' = deployment,
             waiting' \subseteq waiting, checks' = checks, now' = now
      PROVE  DaysInv'
  <2>1. Front(i) \in SUBSET waiting BY DEF Front
  <2>2. InOrder' BY <1>1, <1>4, WriteInOrder
  <2> QED BY <1>1, <1>4, <2>1, <2>2, WriteDays
<1>5. ASSUME NEW i \in waiting, NodeFlush(i) PROVE DaysInv'
  <2>1. CleanupDue \in BOOLEAN BY DEF CleanupDue
  <2> QED BY <1>4, <1>5, <2>1 DEF NodeFlush
<1>6. ASSUME NEW i \in waiting, NodeFlushFails(i) PROVE DaysInv'
  BY <1>4, <1>6 DEF NodeFlushFails
<1>7. ASSUME NEW i \in waiting, ObjectWrites(i) PROVE DaysInv'
  <2>1. PICK cleans \in {CleanupDue, FALSE} : Write({i}, cleans) BY <1>7 DEF ObjectWrites
  <2>2. CleanupDue \in BOOLEAN BY DEF CleanupDue
  <2>3. cleans \in BOOLEAN BY <2>2
  <2>4. checks' = checks /\ now' = now /\ InOrder' BY <1>7 DEF ObjectWrites, InOrder
  <2> QED BY <1>1, <2>1, <2>3, <2>4, WriteDays
<1>8. ASSUME UNCHANGED <<deployment, checks, ledger>>, now' \in Nat, now' >= now,
             waiting' \subseteq waiting
      PROVE  DaysInv'
  <2>1. UNCHANGED <<rows, days, start, cursor, cleaned, written, erased, begun>> BY <1>8 DEF ledger
  <2>2. \A h \in Hour : Written(h)' = Written(h) /\ Latencies(h)' = Latencies(h)
    BY <1>8, <2>1 DEF Written, Latencies, Measured
  <2>3. begun \in Nat BY <1>1 DEF Inv, CursorOK
  <2>4. InOrder' BY <1>1, <1>2, <1>8, <2>1, <2>2, <2>3 DEF InOrder
  <2> QED BY <1>1, <1>8, <2>1, <2>2, <2>4, DaysStay
<1>9. ASSUME NEW i \in waiting, Lose(i) PROVE DaysInv' BY <1>2, <1>8, <1>9 DEF Lose
<1>10. CASE CleanupByUsage BY <1>1, <1>10, CleanupDays
<1>11. CASE Tick BY <1>2, <1>8, <1>11 DEF Tick, vars
<1>12. CASE UNCHANGED vars BY <1>2, <1>8, <1>12 DEF vars
<1> QED
  BY <1>3, <1>5, <1>6, <1>7, <1>9, <1>10, <1>11, <1>12
     DEF Next, NodeResult, CloudflareResult

-----------------------------------------------------------------------------
(* The theorems.                                                            *)

(* The invariant holds in every reachable state.                            *)
THEOREM SpecInv == Spec => []Inv
BY InitInv, NextInv, PTL DEF Spec

(* A day's total is the number of its hours from the start of monitoring to *)
(* the cursor: settling, again and again and from starts that move back,    *)
(* neither skips an hour nor adds one twice.                                *)
THEOREM TotalsAlwaysAddUp == Spec => []TotalHoursAddUp
BY SpecInv, PTL DEF Inv

(* A day's hours up are its settled hours with a check that found the       *)
(* server up: late checks correct their day once, whether their hour was    *)
(* settled as down, degraded or never checked, in any order of writes, and  *)
(* again when a write is repeated.                                          *)
THEOREM UpHoursStayExact == Spec => []UpHoursAddUp
BY SpecInv, PTL DEF Inv

(* A day is the sum of its settled hours, in hours up and in latencies, and *)
(* on Node it has no more hours up than hours: for any number of checks,    *)
(* written late, again or in any order, and cleanups between them.          *)
THEOREM DaysAlwaysAddUp == Spec => []DaysAddUp
<1>1. DaysInv => DaysAddUp
  <2> SUFFICES ASSUME DaysInv PROVE DaysAddUp OBVIOUS
  <2>1. Inv /\ UpHoursAddUp /\ LatenciesAddUp BY DEF DaysInv, Inv
  <2>2. ASSUME deployment = "node", NEW d \in Day PROVE days[d].up <= days[d].total
    <3> DEFINE ups    == {h \in Settled(d) : WasUp(h)}
               totals == {h \in Settled(d) : h >= begun}
    <3>1. IsFiniteSet(totals) /\ ups \subseteq totals
      <4>1. \A h \in Settled(d) : WasUp(h) => h >= begun BY <2>2 DEF DaysInv, InOrder, WasUp, Settled
      <4>2. IsFiniteSet(Settled(d)) BY <2>1, SumsTyped
      <4> QED BY <4>1, <4>2, FS_Subset
    <3>2. days[d].up \in Nat /\ days[d].up <= Cardinality(ups) BY DEF DaysInv, UpsSeen, DaysTyped
    <3>3. days[d].total = Cardinality(totals) BY DEF DaysInv, Inv, TotalHoursAddUp
    <3> HIDE DEF ups, totals
    <3>4. IsFiniteSet(ups) /\ Cardinality(ups) <= Cardinality(totals) BY <3>1, FS_Subset
    <3>5. Cardinality(ups) \in Nat /\ Cardinality(totals) \in Nat
      BY <3>1, <3>4, FS_CardinalityType
    <3> QED BY <3>2, <3>3, <3>4, <3>5
  <2> QED BY <2>1, <2>2 DEF DaysAddUp
<1> QED BY <1>1, InitDays, NextDays, PTL DEF Spec

(* Every hour the page can ask for has the best status that was written for *)
(* it, after any order of checks and cleanups.                              *)
THEOREM PageShowsWhatWasSeen == Spec => []ShownIsWhatWasSeen
<1>1. Inv => ShownIsWhatWasSeen
  <2> SUFFICES ASSUME Inv, NEW h \in Shown, NEW early \in BOOLEAN,
                      StatusShown(h, early) # "pending"
               PROVE  /\ StatusShown(h, early) = "up"   <=> WasUp(h)
                      /\ StatusShown(h, early) = "down" <=>
                            \A i \in Written(h) : checks[i].rank = 0
    BY DEF ShownIsWhatWasSeen
  <2>1. /\ now \in Nat /\ start \in Nat /\ h \in Hour /\ h \in Int
        /\ cleaned \in Int /\ cleaned <= now
        /\ DayLength \in Nat \ {0} /\ Retention \in Int
    BY HourType, AvailabilityAssumption DEF Inv, ChecksOK, CursorOK, RowsTrue, Shown
  <2>2. OldestAsked \in Int /\ OldestAsked > now - Retention
    <3> DEFINE end == ((now + DayLength) \div DayLength) * DayLength
    <3>1. end \in Int /\ end > now BY <2>1, DayEndsLater
    <3>2. OldestAsked = end - Retention BY DEF OldestAsked
    <3> HIDE DEF end
    <3> QED BY <2>1, <3>1, <3>2
  <2>3. h >= OldestAsked
    <3>1. h >= Max({start, OldestAsked}) BY DEF Shown
    <3>2. Max({start, OldestAsked}) = IF start >= OldestAsked THEN start ELSE OldestAsked
      BY <2>1, <2>2, MaxOfTwo
    <3> QED BY <2>1, <2>2, <3>1, <3>2
  <2>4. h >= cleaned - Retention BY <2>1, <2>2, <2>3
  <2>5. /\ rows[h].rank \in -1 .. 2
        /\ \A k \in 1 .. 2 : rows[h].rank >= k <=> \E i \in Written(h) : checks[i].rank >= k
    BY <2>1, <2>4 DEF Inv, RowsTrue, RowTrue, Known
  <2>6. \A i \in Written(h) : checks[i].rank \in 0 .. 2
    BY CheckTyped DEF Inv, Written
  <2>7. rows[h].rank >= 2 <=> WasUp(h) BY <2>5, <2>6 DEF WasUp
  <2>8. ~ (rows[h].rank >= 1) <=> \A i \in Written(h) : checks[i].rank = 0 BY <2>5, <2>6
  <2> QED BY <2>5, <2>7, <2>8 DEF StatusShown
<1> QED BY <1>1, SpecInv, PTL
=============================================================================
