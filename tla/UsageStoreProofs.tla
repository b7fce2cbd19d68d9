---------------------------- MODULE UsageStoreProofs ---------------------------
(***************************************************************************)
(* Theorems about UsageStore and the rules of MetricsRules it rests on,    *)
(* for hours, days and presets of any length and any number of records:    *)
(* every answer of the store is the history.                               *)
(*                                                                         *)
(* Two invariants.  The bags of Cloudflare's sender: every request that    *)
(* ends adds its record to `acknowledged` or `failed`, and to `log` unless *)
(* it failed before the write.  And the tables: each counts the records of *)
(* `log` of its hours, days or places, back to the last cleanup and, with  *)
(* places or visitors by the hour, to the coverage watermark.  A range     *)
(* reaches behind neither, so what a query sums is a number of records.    *)
(***************************************************************************)
EXTENDS UsageStore, SumTheorems

(***************************************************************************)
(* The rules: buckets.                                                     *)
(***************************************************************************)

\* The bucket of a time begins at a multiple of the unit, not after the time.
LEMMA FloorFacts ==
    ASSUME NEW t \in Int, NEW u \in Nat \ {0}
    PROVE  /\ FloorBucket(t, u) \in Int
           /\ FloorBucket(t, u) <= t /\ t < FloorBucket(t, u) + u
           /\ FloorBucket(FloorBucket(t, u), u) = FloorBucket(t, u)
<1>1. /\ t \div u \in Int /\ t % u \in 0 .. u - 1
      /\ t = (t \div u) * u + (t % u)
  OBVIOUS
<1>2. ((t \div u) * u) \div u = t \div u BY <1>1
<1> QED BY <1>1, <1>2 DEF FloorBucket

\* Rounding up is the same, seen from the other side; what is a bucket stays.
LEMMA CeilFacts ==
    ASSUME NEW t \in Int, NEW u \in Nat \ {0}
    PROVE  /\ CeilBucket(t, u) \in Int
           /\ t <= CeilBucket(t, u) /\ CeilBucket(t, u) < t + u
           /\ FloorBucket(CeilBucket(t, u), u) = CeilBucket(t, u)
<1> DEFINE q == (-t) \div u
<1>1. -t \in Int /\ q \in Int OBVIOUS
<1>2. FloorBucket(-t, u) = q * u BY DEF FloorBucket
<1>3. CeilBucket(t, u) = (-q) * u BY <1>1, <1>2 DEF CeilBucket
<1>4. ((-q) * u) \div u = -q BY <1>1
<1>5. FloorBucket(CeilBucket(t, u), u) = CeilBucket(t, u) BY <1>3, <1>4 DEF FloorBucket
<1>6. /\ FloorBucket(-t, u) \in Int /\ FloorBucket(-t, u) <= -t /\ -t < FloorBucket(-t, u) + u
  BY <1>1, FloorFacts
<1> QED BY <1>5, <1>6 DEF CeilBucket

\* Whole buckets before a bucket are buckets.
LEMMA BucketsBefore ==
    ASSUME NEW t \in Int, NEW u \in Nat \ {0}, NEW n \in Int, FloorBucket(t, u) = t
    PROVE  FloorBucket(t - n * u, u) = t - n * u
<1> DEFINE q == t \div u
<1>1. q \in Int /\ t = q * u BY DEF FloorBucket
<1>2. t - n * u = (q - n) * u BY <1>1
<1>3. ((q - n) * u) \div u = q - n BY <1>1
<1> QED BY <1>2, <1>3 DEF FloorBucket

\* Rounding down keeps the order, and a bucket is the greatest before what it begins.
LEMMA FloorMonotone ==
    ASSUME NEW s \in Int, NEW t \in Int, NEW u \in Nat \ {0}, s <= t
    PROVE  FloorBucket(s, u) <= FloorBucket(t, u)
<1> DEFINE p == s \div u
           q == t \div u
<1>1. p \in Int /\ q \in Int /\ p * u <= s /\ t < q * u + u BY FloorFacts DEF FloorBucket
<1>2. p * u < q * u + u BY <1>1
<1>3. p <= q BY <1>1, <1>2
<1>4. p * u <= q * u BY <1>1, <1>3
<1> QED BY <1>4 DEF FloorBucket

\* A bucket after a time is not before its rounding up.
LEMMA CeilLeast ==
    ASSUME NEW t \in Int, NEW b \in Int, NEW u \in Nat \ {0}, FloorBucket(b, u) = b, t <= b
    PROVE  CeilBucket(t, u) <= b
<1> DEFINE q == b \div u
<1>1. q \in Int /\ b = q * u BY DEF FloorBucket
<1>2. -b = (-q) * u BY <1>1
<1>3. ((-q) * u) \div u = -q BY <1>1
<1>4. FloorBucket(-b, u) = -b BY <1>2, <1>3 DEF FloorBucket
<1>5. FloorBucket(-b, u) <= FloorBucket(-t, u) BY FloorMonotone
<1>6. FloorBucket(-t, u) \in Int BY FloorFacts
<1> QED BY <1>4, <1>5, <1>6 DEF CeilBucket

\* Hours and days are positive; every day is a bucket of hours too.
LEMMA Units ==
    /\ HOUR_MS \in Nat \ {0} /\ DAY_MS \in Nat \ {0}
    /\ \A g : Unit(g) \in {HOUR_MS, DAY_MS} /\ Unit(g) \in Nat \ {0}
    /\ \A t \in Int : FloorBucket(t, DAY_MS) = t => FloorBucket(t, HOUR_MS) = t
<1>1. HOUR_MS \in Nat \ {0} /\ HoursOfDay \in Nat \ {0} BY RulesAssumption
<1>2. HoursOfDay * HOUR_MS \in Nat \ {0} BY <1>1
<1>3. DAY_MS \in Nat \ {0} BY <1>2 DEF DAY_MS
<1>4. ASSUME NEW t \in Int, FloorBucket(t, DAY_MS) = t PROVE FloorBucket(t, HOUR_MS) = t
  <2> DEFINE q == t \div DAY_MS
  <2>1. q \in Int /\ t = q * DAY_MS BY <1>3, <1>4 DEF FloorBucket
  <2>2. t = (q * HoursOfDay) * HOUR_MS BY <1>1, <2>1 DEF DAY_MS
  <2>3. q * HoursOfDay \in Int BY <1>1, <2>1
  <2>4. ((q * HoursOfDay) * HOUR_MS) \div HOUR_MS = q * HoursOfDay BY <1>1, <2>3
  <2> QED BY <2>2, <2>4 DEF FloorBucket
<1> QED BY <1>1, <1>3, <1>4 DEF Unit

\* The length of a preset: whole days, at least one, at most the retention.
LEMMA Durations ==
    ASSUME NEW p \in Preset
    PROVE  /\ PresetDays[p] \in Nat \ {0}
           /\ Duration(p) \in Nat \ {0} /\ DAY_MS <= Duration(p)
           /\ RetentionMs \in Nat /\ Duration(p) <= RetentionMs
           /\ \E n \in Int : Duration(p) = n * DAY_MS
           /\ \A g : \E n \in Int : Duration(p) = n * Unit(g)
<1> DEFINE d == PresetDays[p]
<1>1. d \in Nat \ {0} /\ d <= RetentionDays /\ RetentionDays \in Nat \ {0}
  BY RulesAssumption
<1>2. DAY_MS \in Nat \ {0} /\ HOUR_MS \in Nat \ {0} /\ HoursOfDay \in Nat \ {0}
  BY Units, RulesAssumption
<1>3. 1 * DAY_MS <= d * DAY_MS /\ d * DAY_MS <= RetentionDays * DAY_MS
  <2> DEFINE D == DAY_MS
             R == RetentionDays
  <2>1. D \in Nat /\ R \in Nat /\ d \in Nat /\ 1 <= d /\ d <= R BY <1>1, <1>2
  <2> HIDE DEF D, R, d
  <2>2. 1 * D <= d * D BY <2>1
  <2>3. d * D <= R * D BY <2>1
  <2> QED BY <2>2, <2>3 DEF D, R, d
<1>4. d * DAY_MS \in Nat \ {0} /\ RetentionDays * DAY_MS \in Nat BY <1>1, <1>2, <1>3
<1>5. d * DAY_MS = (d * HoursOfDay) * HOUR_MS /\ d * HoursOfDay \in Int
  BY <1>1, <1>2 DEF DAY_MS
<1>6. \A g : \E n \in Int : d * DAY_MS = n * Unit(g)
  <2>1. \E n \in Int : d * DAY_MS = n * DAY_MS BY <1>1
  <2>2. \E n \in Int : d * DAY_MS = n * HOUR_MS BY <1>5
  <2> QED BY <2>1, <2>2, Zenon DEF Unit
<1>7. \E n \in Int : d * DAY_MS = n * DAY_MS BY <1>1
<1>8. DAY_MS <= d * DAY_MS BY <1>2, <1>3
<1> QED BY <1>1, <1>3, <1>4, <1>6, <1>7, <1>8, Zenon DEF Duration, RetentionMs

(***************************************************************************)
(* Ranges.                                                                 *)
(***************************************************************************)

\* What parsing a bare preset amounts to.
LEMMA PresetParsed ==
    ASSUME NEW p \in Preset, NEW time \in Nat
    PROVE  LET input == OfPreset(p)
               range == ParseMetricsRange(input, time)
               unit  == Unit(range.granularity)
           IN  /\ RequestedTo(input, time) = time
               /\ RequestedFrom(input, time) = time - Duration(p)
               /\ Requested(input, time) = Duration(p)
               /\ range.to = CeilBucket(time, unit)
               /\ range.from = CeilBucket(time, unit) - Duration(p)
               /\ unit \in {HOUR_MS, DAY_MS} /\ unit \in Nat \ {0}
<1> DEFINE input == OfPreset(p)
<1>1. /\ input.range = {p} /\ input.from = {} /\ input.to = {} /\ input.granularity = {}
  BY DEF OfPreset
<1>2. (CHOOSE x \in {p} : TRUE) = p OBVIOUS
<1>3. normalizeRangePreset(input) = p
  BY <1>1, <1>2 DEF normalizeRangePreset, Given
<1>4. Duration(p) \in Nat BY Durations
<1>5. RequestedTo(input, time) = time
  BY <1>1 DEF RequestedTo, Given, Sooner
<1>6. RequestedFrom(input, time) = time - Duration(p)
  BY <1>1, <1>3, <1>5 DEF RequestedFrom, Given
<1>7. Requested(input, time) = Duration(p)
  BY <1>4, <1>5, <1>6 DEF Requested
<1> HIDE DEF input
<1>8. LET range == ParseMetricsRange(input, time)
      IN  /\ range.granularity = normalizeGranularity(input, time)
          /\ range.to = CeilBucket(time, Unit(normalizeGranularity(input, time)))
          /\ range.from = CeilBucket(time, Unit(normalizeGranularity(input, time))) - Duration(p)
  BY <1>1, <1>3, <1>5 DEF ParseMetricsRange
<1> QED BY <1>5, <1>6, <1>7, <1>8, Units DEF input

\* A preset is never refused and becomes whole buckets of its exact length that
\* end with the bucket that is running, however the time falls in it (at the very
\* moment a bucket begins, with the one before).
THEOREM PresetRanges == \A p \in Preset, time \in Nat : PresetRangeHolds(p, time)
<1> SUFFICES ASSUME NEW p \in Preset, NEW time \in Nat PROVE PresetRangeHolds(p, time)
  OBVIOUS
<1> DEFINE input == OfPreset(p)
           range == ParseMetricsRange(input, time)
           unit  == Unit(range.granularity)
           d     == Duration(p)
<1>1. /\ RequestedTo(input, time) = time /\ RequestedFrom(input, time) = time - d
      /\ Requested(input, time) = d
      /\ range.to = CeilBucket(time, unit) /\ range.from = CeilBucket(time, unit) - d
      /\ unit \in Nat \ {0}
  BY PresetParsed
<1>2. d \in Nat \ {0} /\ RetentionMs \in Nat /\ d <= RetentionMs BY Durations
<1>3. Accepted(input, time)
  <2>1. input.range \subseteq Preset /\ input.from = {} /\ input.to = {} /\ input.granularity = {}
    BY DEF OfPreset
  <2> HIDE DEF input, d
  <2> QED BY <2>1, <1>1, <1>2 DEF Accepted
<1> HIDE DEF input, range, unit, d
<1>4. /\ CeilBucket(time, unit) \in Int
      /\ time <= CeilBucket(time, unit) /\ CeilBucket(time, unit) < time + unit
      /\ FloorBucket(CeilBucket(time, unit), unit) = CeilBucket(time, unit)
  BY <1>1, CeilFacts
<1>5. PICK n \in Int : d = n * unit BY Durations DEF d, unit
<1>6. FloorBucket(CeilBucket(time, unit) - d, unit) = CeilBucket(time, unit) - d
  BY <1>1, <1>4, <1>5, BucketsBefore
<1>7. Aligned(range)
  BY <1>1, <1>4, <1>6 DEF Aligned, unit
<1>8. range.to - range.from = d /\ time <= range.to /\ range.to < time + unit
  BY <1>1, <1>2, <1>4
<1> QED BY <1>3, <1>7, <1>8 DEF PresetRangeHolds, input, range, unit, d

\* Nothing a preset asks for is behind the cutoffs of a cleanup at that time.
THEOREM PresetsOutliveCleanup == \A p \in Preset, time \in Nat : PresetOutlivesCleanup(p, time)
<1> SUFFICES ASSUME NEW p \in Preset, NEW time \in Nat PROVE PresetOutlivesCleanup(p, time)
  OBVIOUS
<1> DEFINE range == ParseMetricsRange(OfPreset(p), time)
           unit  == Unit(range.granularity)
           d     == Duration(p)
           old   == time - RetentionMs
<1>1. range.from = CeilBucket(time, unit) - d /\ unit \in Nat \ {0}
  BY PresetParsed
<1>2. d \in Nat \ {0} /\ RetentionMs \in Nat /\ d <= RetentionMs BY Durations
<1> HIDE DEF range, unit, d
<1>3. CeilBucket(time, unit) \in Int /\ time <= CeilBucket(time, unit) BY <1>1, CeilFacts
<1>4. old \in Int /\ range.from \in Int /\ old <= range.from BY <1>1, <1>2, <1>3
<1> HIDE DEF old
<1>5. FloorBucket(old, unit) <= range.from
  <2>1. FloorBucket(old, unit) <= old /\ FloorBucket(old, unit) \in Int BY <1>1, <1>4, FloorFacts
  <2> QED BY <2>1, <1>4
<1>6. DAY_MS \in Nat \ {0} BY Units
<1>7. utcDayBucket(old) <= utcDayBucket(range.from)
  BY <1>4, <1>6, FloorMonotone DEF utcDayBucket
<1>8. overlappingDayRange(range).from = utcDayBucket(range.from)
  BY DEF overlappingDayRange
<1> QED BY <1>5, <1>7, <1>8 DEF PresetOutlivesCleanup, range, unit, old

\* The days that stand in for the hours of a preset contain them and reach less
\* than a day further; reading a parsed range leaves it as it is.
THEOREM DaysStandIn == \A p \in Preset, time \in Nat : DaysContainHours(p, time)
<1> SUFFICES ASSUME NEW p \in Preset, NEW time \in Nat PROVE DaysContainHours(p, time)
  OBVIOUS
<1> DEFINE range == ParseMetricsRange(OfPreset(p), time)
           unit  == Unit(range.granularity)
           days  == overlappingDayRange(range)
<1>1. /\ range.from = CeilBucket(time, unit) - Duration(p) /\ range.to = CeilBucket(time, unit)
      /\ unit \in Nat \ {0}
      /\ range = [from |-> range.from, to |-> range.to, granularity |-> range.granularity]
  BY PresetParsed DEF ParseMetricsRange
<1>2. Duration(p) \in Nat /\ CeilBucket(time, unit) \in Int
  BY <1>1, Durations, CeilFacts
<1>3. Aligned(range) BY PresetRanges DEF PresetRangeHolds
<1>4. days = [from |-> utcDayBucket(range.from), to |-> utcDayBucket(range.to - 1) + DAY_MS,
              granularity |-> "day"]
  BY DEF overlappingDayRange
<1>5. normalizeRange(range, range.granularity)
        = [from |-> FloorBucket(range.from, unit), to |-> CeilBucket(range.to, unit),
           granularity |-> range.granularity]
  BY DEF normalizeRange
<1>6. FloorBucket(range.from, unit) = range.from /\ FloorBucket(range.to, unit) = range.to
  BY <1>3 DEF Aligned
<1> HIDE DEF range, unit, days
<1>7. range.from \in Int /\ range.to \in Int BY <1>1, <1>2
<1>8. CeilBucket(range.to, unit) = range.to
  <2>1. CeilBucket(range.to, unit) <= range.to BY <1>1, <1>6, <1>7, CeilLeast
  <2>2. CeilBucket(range.to, unit) \in Int /\ range.to <= CeilBucket(range.to, unit)
    BY <1>1, <1>7, CeilFacts
  <2> QED BY <2>1, <2>2, <1>7
<1>9. normalizeRange(range, range.granularity) = range
  BY <1>1, <1>5, <1>6, <1>8
<1>10. DAY_MS \in Nat \ {0} BY Units
<1>11. /\ utcDayBucket(range.from) \in Int
       /\ utcDayBucket(range.from) <= range.from /\ range.from < utcDayBucket(range.from) + DAY_MS
  BY <1>7, <1>10, FloorFacts DEF utcDayBucket
<1>12. /\ utcDayBucket(range.to - 1) \in Int
       /\ utcDayBucket(range.to - 1) <= range.to - 1
       /\ range.to - 1 < utcDayBucket(range.to - 1) + DAY_MS
  <2>1. range.to - 1 \in Int BY <1>7
  <2> QED BY <2>1, <1>10, FloorFacts DEF utcDayBucket
<1>13. days.from = utcDayBucket(range.from) /\ days.to = utcDayBucket(range.to - 1) + DAY_MS
  BY <1>4
<1>14. /\ days.from <= range.from /\ range.to <= days.to
       /\ range.from < days.from + DAY_MS /\ days.to < range.to + DAY_MS
  BY <1>7, <1>10, <1>11, <1>12, <1>13
<1> QED BY <1>9, <1>14 DEF DaysContainHours, range, days

\* A request with both ends becomes the smallest run of whole buckets around it.
THEOREM CustomRanges ==
    ASSUME NEW input, input.from \in SUBSET Int, input.to \in SUBSET Int, NEW time \in Nat
    PROVE  CustomRangeHolds(input, time)
<1> SUFFICES ASSUME Accepted(input, time), input.from # {}, input.to # {}
             PROVE  CustomRangeHolds(input, time)
  BY DEF CustomRangeHolds
<1> DEFINE range == ParseMetricsRange(input, time)
           unit  == Unit(range.granularity)
           s     == RequestedFrom(input, time)
           t     == RequestedTo(input, time)
<1>1. s \in Int /\ t \in Int
  BY DEF RequestedFrom, RequestedTo, Given, Sooner
<1>2. unit \in Nat \ {0} BY Units
<1>3. range.to = CeilBucket(t, unit) /\ range.from = FloorBucket(s, unit)
  BY DEF ParseMetricsRange
<1> HIDE DEF range, unit, s, t
<1>4. /\ CeilBucket(t, unit) \in Int
      /\ t <= CeilBucket(t, unit) /\ CeilBucket(t, unit) < t + unit
      /\ FloorBucket(CeilBucket(t, unit), unit) = CeilBucket(t, unit)
  BY <1>1, <1>2, CeilFacts
<1>5. /\ FloorBucket(s, unit) <= s /\ s < FloorBucket(s, unit) + unit
      /\ FloorBucket(FloorBucket(s, unit), unit) = FloorBucket(s, unit)
  BY <1>1, <1>2, FloorFacts
<1>6. Aligned(range) BY <1>3, <1>4, <1>5 DEF Aligned, unit
<1> QED BY <1>3, <1>4, <1>5, <1>6 DEF CustomRangeHolds, range, unit, s, t

-----------------------------------------------------------------------------

(* The bags of the history on Cloudflare; on Node they are not looked at.  *)
Inv ==
    deployment = "cloudflare" =>
        /\ IsABag(log) /\ IsABag(acknowledged) /\ IsABag(failed)
        /\ acknowledged \sqsubseteq log
        /\ log \sqsubseteq acknowledged (+) failed

-----------------------------------------------------------------------------
(* Bags.                                                                    *)

\* The union of two bags is a bag, and has the copies of both.
LEMMA PlusFacts ==
    ASSUME NEW A, NEW B, IsABag(A), IsABag(B)
    PROVE  /\ IsABag(A (+) B)
           /\ DOMAIN (A (+) B) = DOMAIN A \union DOMAIN B
           /\ \A e \in DOMAIN A \union DOMAIN B :
                (A (+) B)[e] = (IF e \in DOMAIN A THEN A[e] ELSE 0)
                                 + (IF e \in DOMAIN B THEN B[e] ELSE 0)
BY DEF IsABag, (+)

\* No record, and one record, are bags.
LEMMA SmallFacts ==
    ASSUME NEW r
    PROVE  IsABag(EmptyBag) /\ IsABag(SetToBag({r}))
BY DEF IsABag, EmptyBag, SetToBag

\* Nothing added changes nothing.
LEMMA PlusEmpty ==
    ASSUME NEW A, IsABag(A)
    PROVE  A (+) EmptyBag = A
BY DEF IsABag, EmptyBag, SetToBag, (+)

\* A bag is a part of itself, and of any larger one.
LEMMA PartOfMore ==
    ASSUME NEW A, NEW B, NEW C, IsABag(A), IsABag(B), IsABag(C), A \sqsubseteq B
    PROVE  A \sqsubseteq A /\ A \sqsubseteq B (+) C
BY DEF IsABag, \sqsubseteq, (+)

\* What is added on both sides leaves a part a part.
LEMMA PartOfBoth ==
    ASSUME NEW A, NEW B, NEW C, IsABag(A), IsABag(B), IsABag(C), A \sqsubseteq B
    PROVE  A (+) C \sqsubseteq B (+) C
BY DEF IsABag, \sqsubseteq, (+)

\* Of a union it does not matter to which part something is added.
LEMMA PlusCommutes ==
    ASSUME NEW A, NEW B, NEW C, IsABag(A), IsABag(B), IsABag(C)
    PROVE  /\ (A (+) B) (+) C = (A (+) C) (+) B
           /\ (A (+) B) (+) C = A (+) (B (+) C)
BY DEF IsABag, (+)

-----------------------------------------------------------------------------
(* The invariant.                                                           *)

\* A database is opened with a log that its sender knows.
LEMMA InitInv == Init => Inv
<1> SUFFICES ASSUME Init PROVE Inv OBVIOUS
<1>1. PICK old \in SmallBags(Past), detailed \in SmallBags(Past) : log = old (+) detailed
  BY DEF Init
<1>2. IsABag(old) /\ IsABag(detailed) BY SmallFacts DEF SmallBags
<1>3. IsABag(log) BY <1>1, <1>2, PlusFacts
<1>4. acknowledged = log /\ failed = EmptyBag BY DEF Init
<1>5. log \sqsubseteq log BY <1>3 DEF IsABag, \sqsubseteq
<1>6. acknowledged (+) failed = log BY <1>3, <1>4, PlusEmpty
<1> QED BY <1>3, <1>4, <1>5, <1>6, SmallFacts DEF Inv

\* A record that is written and acknowledged, written and taken for failed, or not
\* written and taken for failed, leaves the bags as the invariant wants them.
LEMMA RequestKeeps ==
    ASSUME NEW L, NEW A, NEW F, NEW r, IsABag(L), IsABag(A), IsABag(F),
           A \sqsubseteq L, L \sqsubseteq A (+) F
    PROVE  LET one == SetToBag({r})
           IN  /\ IsABag(L (+) one) /\ IsABag(A (+) one) /\ IsABag(F (+) one)
               /\ A (+) one \sqsubseteq L (+) one
               /\ A \sqsubseteq L (+) one
               /\ L (+) one \sqsubseteq (A (+) one) (+) F
               /\ L (+) one \sqsubseteq A (+) (F (+) one)
               /\ L \sqsubseteq A (+) (F (+) one)
<1> DEFINE one == SetToBag({r})
<1>1. IsABag(one) BY SmallFacts
<1> HIDE DEF one
<1>2. IsABag(A (+) F) BY PlusFacts
<1>3. L (+) one \sqsubseteq (A (+) F) (+) one BY <1>1, <1>2, PartOfBoth
<1>4. L \sqsubseteq (A (+) F) (+) one BY <1>1, <1>2, PartOfMore
<1>5. /\ (A (+) F) (+) one = (A (+) one) (+) F
      /\ (A (+) F) (+) one = A (+) (F (+) one)
  BY <1>1, PlusCommutes
<1>6. A (+) one \sqsubseteq L (+) one /\ A \sqsubseteq L (+) one
  BY <1>1, PartOfBoth, PartOfMore
<1>7. IsABag(L (+) one) /\ IsABag(A (+) one) /\ IsABag(F (+) one) BY <1>1, PlusFacts
<1> QED BY <1>3, <1>4, <1>5, <1>6, <1>7 DEF one

\* How a request ends for its sender.
LEMMA SettlesOneWay ==
    ASSUME NEW r, NEW status, Settles(r, TakesAnswer(status)) \/ Settles(r, FALSE)
    PROVE  \/ status = 204 /\ acknowledged' = acknowledged (+) SetToBag({r}) /\ failed' = failed
           \/ failed' = failed (+) SetToBag({r}) /\ acknowledged' = acknowledged
<1>1. TakesAnswer(status) = (status = 204) BY DEF TakesAnswer
<1>2. CASE status = 204 /\ Settles(r, TakesAnswer(status)) BY <1>1, <1>2 DEF Settles
<1>3. CASE status # 204 /\ Settles(r, TakesAnswer(status)) BY <1>1, <1>3 DEF Settles
<1>4. CASE Settles(r, FALSE) BY <1>4 DEF Settles
<1> QED BY <1>2, <1>3, <1>4

\* A request of Cloudflare that ends.
LEMMA RequestInv ==
    ASSUME Inv, RequestWritten \/ RequestHalfDone \/ RequestFails
    PROVE  Inv'
<1>1. deployment = "cloudflare" BY DEF RequestWritten, RequestHalfDone, RequestFails
<1>2. /\ IsABag(log) /\ IsABag(acknowledged) /\ IsABag(failed)
      /\ acknowledged \sqsubseteq log /\ log \sqsubseteq acknowledged (+) failed
  BY <1>1 DEF Inv
<1>3. CASE RequestWritten \/ RequestHalfDone
  <2>1. PICK r, cleans, status :
          /\ Write(SetToBag({r}), cleans)
          /\ Settles(r, TakesAnswer(status)) \/ Settles(r, FALSE)
    <3>1. CASE RequestWritten BY <3>1 DEF RequestWritten
    <3>2. CASE RequestHalfDone BY <3>2, ZenonT(30) DEF RequestHalfDone
    <3> QED BY <1>3, <3>1, <3>2
  <2>2. log' = log (+) SetToBag({r}) BY <2>1 DEF Write
  <2>3. \/ acknowledged' = acknowledged (+) SetToBag({r}) /\ failed' = failed
        \/ failed' = failed (+) SetToBag({r}) /\ acknowledged' = acknowledged
    BY <2>1, SettlesOneWay
  <2> DEFINE one == SetToBag({r})
  <2>4. /\ IsABag(log (+) one) /\ IsABag(acknowledged (+) one) /\ IsABag(failed (+) one)
        /\ acknowledged (+) one \sqsubseteq log (+) one
        /\ acknowledged \sqsubseteq log (+) one
        /\ log (+) one \sqsubseteq (acknowledged (+) one) (+) failed
        /\ log (+) one \sqsubseteq acknowledged (+) (failed (+) one)
    BY <1>2, RequestKeeps
  <2> QED BY <1>2, <2>2, <2>3, <2>4 DEF Inv
<1>4. CASE RequestFails
  <2>1. PICK r : Settles(r, TakesAnswer(400)) \/ Settles(r, FALSE) BY <1>4 DEF RequestFails
  <2> DEFINE status == 400
  <2>2. failed' = failed (+) SetToBag({r}) /\ acknowledged' = acknowledged
    <3>1. status # 204 OBVIOUS
    <3> HIDE DEF status
    <3>2. Settles(r, TakesAnswer(status)) \/ Settles(r, FALSE) BY <2>1 DEF status
    <3> QED BY <3>1, <3>2, SettlesOneWay
  <2>3. log' = log BY <1>4 DEF RequestFails, database
  <2>4. IsABag(failed (+) SetToBag({r}))
        /\ log \sqsubseteq acknowledged (+) (failed (+) SetToBag({r}))
    BY <1>2, RequestKeeps
  <2> QED BY <1>2, <2>2, <2>3, <2>4 DEF Inv
<1> QED BY <1>3, <1>4

\* Every step keeps the invariant; a flush happens on Node only.
LEMMA NextInv == Inv /\ [Next]_vars => Inv'
<1> SUFFICES ASSUME Inv, [Next]_vars PROVE Inv' OBVIOUS
<1>1. CASE UNCHANGED <<log, acknowledged, failed, deployment>> BY <1>1 DEF Inv
<1>2. CASE Record
  BY <1>1, <1>2 DEF Record, database
<1>3. CASE Flush
  <2>1. deployment' = "node" BY <1>3 DEF Flush, Write
  <2> QED BY <2>1 DEF Inv
<1>4. CASE RequestWritten \/ RequestHalfDone \/ RequestFails BY <1>4, RequestInv
<1>5. CASE WriteAvailability
  <2>1. /\ log' = log (+) EmptyBag
        /\ UNCHANGED <<acknowledged, failed, deployment>>
    BY <1>5 DEF WriteAvailability, Write, fates
  <2>2. deployment = "cloudflare" => log' = log BY <2>1, PlusEmpty DEF Inv
  <2> QED BY <2>1, <2>2 DEF Inv
<1>6. CASE Tick
  BY <1>1, <1>6 DEF Tick, vars, database, fates
<1>7. CASE UNCHANGED vars BY <1>1, <1>7 DEF vars, database, fates
<1> QED BY <1>2, <1>3, <1>4, <1>5, <1>6, <1>7 DEF Next

-----------------------------------------------------------------------------
(* Records of a bag that belong to a set.                                    *)

Count(bag, X) == Sum(bag, DOMAIN bag \intersect X)

FiniteBag(bag) == IsABag(bag) /\ IsFiniteSet(DOMAIN bag) /\ DOMAIN bag \in SUBSET Rec

OfHour(h) == {r \in Rec : r.hour = h}
OfDay(d)  == {r \in Rec : utcDayBucket(r.hour) = d}
At(P)     == {r \in Rec : r.place \in P}

\* A bag counts its records with a natural number.
LEMMA CountType ==
    ASSUME NEW bag, FiniteBag(bag), NEW X
    PROVE  /\ IsFiniteSet(DOMAIN bag \intersect X)
           /\ \A r \in DOMAIN bag : bag[r] \in Nat /\ bag[r] > 0
           /\ Count(bag, X) \in Nat
<1>1. IsFiniteSet(DOMAIN bag \intersect X) BY FS_Subset DEF FiniteBag
<1>2. \A r \in DOMAIN bag : bag[r] \in Nat /\ bag[r] > 0 BY DEF FiniteBag, IsABag
<1> QED BY <1>1, <1>2, SumType DEF Count

\* Of two bags the records are counted together.
LEMMA CountPlus ==
    ASSUME NEW A, NEW B, FiniteBag(A), FiniteBag(B)
    PROVE  /\ FiniteBag(A (+) B)
           /\ \A X : Count(A (+) B, X) = Count(A, X) + Count(B, X)
<1> DEFINE D == DOMAIN A \union DOMAIN B
           a == [r \in D |-> IF r \in DOMAIN A THEN A[r] ELSE 0]
           b == [r \in D |-> IF r \in DOMAIN B THEN B[r] ELSE 0]
<1>1. IsABag(A) /\ IsABag(B) /\ IsFiniteSet(DOMAIN A) /\ IsFiniteSet(DOMAIN B)
  BY DEF FiniteBag
<1>2. /\ IsABag(A (+) B) /\ DOMAIN (A (+) B) = D
      /\ \A r \in D : (A (+) B)[r] = a[r] + b[r]
  BY <1>1, PlusFacts
<1>3. IsFiniteSet(D) BY <1>1, FS_Union
<1>4. FiniteBag(A (+) B) BY <1>2, <1>3 DEF FiniteBag
<1>5. /\ \A r \in DOMAIN A : a[r] = A[r] /\ A[r] \in Nat
      /\ \A r \in DOMAIN B : b[r] = B[r] /\ B[r] \in Nat
      /\ \A r \in D : a[r] \in Nat /\ b[r] \in Nat
      /\ \A r \in D : (r \notin DOMAIN A => a[r] = 0) /\ (r \notin DOMAIN B => b[r] = 0)
  BY <1>1 DEF IsABag
<1>6. DOMAIN A \subseteq D /\ DOMAIN B \subseteq D OBVIOUS
<1> HIDE DEF D, a, b
<1>7. ASSUME NEW X PROVE Count(A (+) B, X) = Count(A, X) + Count(B, X)
  <2> DEFINE S == D \intersect X
             SA == DOMAIN A \intersect X
             SB == DOMAIN B \intersect X
  <2>1. /\ IsFiniteSet(S) /\ IsFiniteSet(SA) /\ IsFiniteSet(SB)
        /\ SA \in SUBSET S /\ SB \in SUBSET S
    BY <1>1, <1>3, <1>6, FS_Subset
  <2>2. /\ \A r \in S : a[r] \in Nat /\ b[r] \in Nat /\ (A (+) B)[r] = a[r] + b[r]
        /\ \A r \in S : (r \notin SA => a[r] = 0) /\ (r \notin SB => b[r] = 0)
        /\ \A r \in SA : A[r] \in Nat /\ A[r] = a[r]
        /\ \A r \in SB : B[r] \in Nat /\ B[r] = b[r]
    BY <1>2, <1>5
  <2> HIDE DEF S, SA, SB
  <2>3. Sum(A (+) B, S) = Sum(a, S) + Sum(b, S) BY <2>1, <2>2, SumPlus
  <2>4. Sum(a, S) = Sum(a, SA) BY <2>1, <2>2, SumOfPart
  <2>5. Sum(b, S) = Sum(b, SB) BY <2>1, <2>2, SumOfPart
  <2>6. Sum(A, SA) = Sum(a, SA) BY <2>1, <2>2, SumEqual
  <2>7. Sum(B, SB) = Sum(b, SB) BY <2>1, <2>2, SumEqual
  <2>8. Sum(A (+) B, S) = Sum(A, SA) + Sum(B, SB) BY <2>3, <2>4, <2>5, <2>6, <2>7
  <2> QED BY <1>2, <2>8 DEF Count, S, SA, SB
<1> QED BY <1>4, <1>7

\* No records, one record, and a part of a bag.
LEMMA SmallBagsFinite ==
    /\ FiniteBag(EmptyBag) /\ DOMAIN EmptyBag = {}
    /\ \A r \in Rec : FiniteBag(SetToBag({r})) /\ DOMAIN SetToBag({r}) = {r}
<1>1. DOMAIN EmptyBag = {} BY DEF EmptyBag, SetToBag
<1>2. \A r : DOMAIN SetToBag({r}) = {r} BY DEF SetToBag
<1>3. FiniteBag(EmptyBag)
  <2>1. IsABag(EmptyBag) BY SmallFacts
  <2>2. IsFiniteSet({}) BY FS_EmptySet
  <2> QED BY <1>1, <2>1, <2>2 DEF FiniteBag
<1>4. ASSUME NEW r \in Rec PROVE FiniteBag(SetToBag({r}))
  <2>1. IsABag(SetToBag({r})) BY SmallFacts
  <2>2. IsFiniteSet({r}) BY FS_Singleton
  <2> QED BY <1>2, <2>1, <2>2 DEF FiniteBag
<1> QED BY <1>1, <1>2, <1>3, <1>4

\* What a flush writes, and what is left of a bag.
LEMMA PartsFinite ==
    ASSUME NEW A, FiniteBag(A)
    PROVE  /\ A = waiting => \A B \in Batches : FiniteBag(B)
           /\ \A B : IsABag(B) => FiniteBag(A (-) B)
<1>1. ASSUME A = waiting, NEW B \in Batches PROVE FiniteBag(B)
  <2>1. PICK S \in SUBSET DOMAIN A : B \in [S -> 1 .. MaxRecords] BY <1>1 DEF Batches
  <2>2. \A n \in 1 .. MaxRecords : n \in Nat /\ n > 0 BY UsageAssumption
  <2>3. DOMAIN B = S /\ \A r \in S : B[r] \in Nat /\ B[r] > 0 BY <2>1, <2>2
  <2>4. IsABag(B) /\ DOMAIN B \subseteq DOMAIN A BY <2>1, <2>3 DEF IsABag
  <2>5. IsFiniteSet(DOMAIN A) /\ DOMAIN A \in SUBSET Rec BY DEF FiniteBag
  <2> QED BY <2>4, <2>5, FS_Subset DEF FiniteBag
<1>2. ASSUME NEW B, IsABag(B) PROVE FiniteBag(A (-) B)
  <2> DEFINE rest == [r \in DOMAIN A |-> IF r \in DOMAIN B THEN A[r] - B[r] ELSE A[r]]
             left == {r \in DOMAIN A : rest[r] > 0}
  <2>1. A (-) B = [r \in left |-> rest[r]] BY DEF (-)
  <2>2. \A r \in DOMAIN A : rest[r] \in Int BY <1>2 DEF FiniteBag, IsABag
  <2>3. left \subseteq DOMAIN A /\ \A r \in left : rest[r] \in {n \in Nat : n > 0} BY <2>2
  <2> HIDE DEF rest, left
  <2>4. DOMAIN (A (-) B) = left /\ IsABag(A (-) B) BY <2>1, <2>3 DEF IsABag
  <2>5. IsFiniteSet(DOMAIN A) /\ DOMAIN A \in SUBSET Rec BY DEF FiniteBag
  <2> QED BY <2>3, <2>4, <2>5, FS_Subset DEF FiniteBag
<1> QED BY <1>1, <1>2

\* What aggregateUsage counts of a batch.
LEMMA BatchCounts ==
    ASSUME NEW bag, FiniteBag(bag)
    PROVE  /\ \A h \in Hour : ByHour(bag)[h] = Count(bag, OfHour(h))
           /\ \A d \in Day : ByDay(bag)[d] = Count(bag, OfDay(d))
           /\ \A h \in Hour, p \in Place :
                ByHourAndPlace(bag)[<<h, p>>] = Count(bag, OfHour(h) \intersect At({p}))
           /\ \A d \in Day, p \in Place :
                ByDayAndPlace(bag)[<<d, p>>] = Count(bag, OfDay(d) \intersect At({p}))
           /\ SumFunction(bag) = Count(bag, Rec)
<1>1. DOMAIN bag \subseteq Rec BY DEF FiniteBag
<1>2. ASSUME NEW h \in Hour
      PROVE  {r \in DOMAIN bag : r.hour = h} = DOMAIN bag \intersect OfHour(h)
  BY <1>1 DEF OfHour
<1>3. ASSUME NEW d \in Day
      PROVE  {r \in DOMAIN bag : utcDayBucket(r.hour) = d} = DOMAIN bag \intersect OfDay(d)
  BY <1>1 DEF OfDay
<1>4. ASSUME NEW h \in Hour, NEW p \in Place
      PROVE  {r \in DOMAIN bag : <<r.hour, r.place>> = <<h, p>>}
               = DOMAIN bag \intersect (OfHour(h) \intersect At({p}))
  BY <1>1 DEF OfHour, At
<1>5. ASSUME NEW d \in Day, NEW p \in Place
      PROVE  {r \in DOMAIN bag : <<utcDayBucket(r.hour), r.place>> = <<d, p>>}
               = DOMAIN bag \intersect (OfDay(d) \intersect At({p}))
  BY <1>1 DEF OfDay, At
<1>6. DOMAIN bag \intersect Rec = DOMAIN bag BY <1>1
<1>7. \A h \in Hour : ByHour(bag)[h] = Count(bag, OfHour(h))
  BY <1>2 DEF ByHour, Number, Count, Sum
<1>8. \A d \in Day : ByDay(bag)[d] = Count(bag, OfDay(d))
  BY <1>3 DEF ByDay, Number, Count, Sum
<1>9. \A h \in Hour, p \in Place :
        ByHourAndPlace(bag)[<<h, p>>] = Count(bag, OfHour(h) \intersect At({p}))
  BY <1>4 DEF ByHourAndPlace, Number, Count, Sum
<1>10. \A d \in Day, p \in Place :
        ByDayAndPlace(bag)[<<d, p>>] = Count(bag, OfDay(d) \intersect At({p}))
  BY <1>5 DEF ByDayAndPlace, Number, Count, Sum
<1> QED BY <1>6, <1>7, <1>8, <1>9, <1>10 DEF SumFunction, Count, Sum

-----------------------------------------------------------------------------
(* The database.                                                             *)

\* The first hour and the first day the last cleanup left.
CutHour == utcHourBucket(cleaned - RetentionMs)
CutDay  == utcDayBucket(cleaned - RetentionMs)

BagsOK == FiniteBag(log) /\ FiniteBag(waiting)

TimesOK ==
    /\ now \in Nat /\ opened \in Nat /\ opened <= now
    /\ cleaned \in Nat /\ cleaned <= now
    /\ coverage \in Int /\ coverage <= utcHourBucket(opened) + HOUR_MS

\* The tables count the log: days for ever, hours since the last cleanup, and hours with
\* their places since the hour from which the version that writes them was there.
CountsTrue ==
    /\ total = Count(log, Rec)
    /\ hourly \in [Hour -> Nat] /\ daily \in [Day -> Nat]
    /\ geoHourly \in [Hour \X Place -> Nat] /\ geoDaily \in [Day \X Place -> Nat]
    /\ \A h \in Hour : h >= CutHour => hourly[h] = Count(log, OfHour(h))
    /\ \A d \in Day : daily[d] = Count(log, OfDay(d))
    /\ \A h \in Hour, p \in Place :
         h >= CutHour /\ h >= coverage =>
           geoHourly[<<h, p>>] = Count(log, OfHour(h) \intersect At({p}))
    /\ \A d \in Day, p \in Place : geoDaily[<<d, p>>] = Count(log, OfDay(d) \intersect At({p}))

\* The keys of the visitors are those of the log, from the same hours and days on.
VisitorsTrue ==
    /\ \A h \in Hour : h >= CutHour /\ h >= coverage =>
         {k \in visitorsHourly : k[1] = h} = {k \in HourKeys(log) : k[1] = h}
    /\ \A d \in Day : d >= CutDay =>
         {k \in visitorsDaily : k[1] = d} = {k \in DayKeys(log) : k[1] = d}

UsageInv == BagsOK /\ TimesOK /\ CountsTrue /\ VisitorsTrue

\* Hours and days are buckets, and finitely many; so are the places.
LEMMA Keys ==
    /\ \A h \in Hour : /\ h \in Nat /\ utcHourBucket(h) = h /\ utcDayBucket(h) \in Day
                       /\ utcDayBucket(h) <= h
    /\ \A d \in Day : d \in Int /\ utcDayBucket(d) = d /\ utcHourBucket(d) = d
    /\ IsFiniteSet(Hour) /\ IsFiniteSet(Day) /\ IsFiniteSet(Place)
<1>1. HOUR_MS \in Nat \ {0} /\ DAY_MS \in Nat \ {0} BY Units
<1>2. ASSUME NEW h \in Hour
      PROVE  /\ h \in Nat /\ utcHourBucket(h) = h /\ utcDayBucket(h) \in Day
             /\ utcDayBucket(h) <= h
  <2>1. PICK i \in 1 .. LastHour : h = i * HOUR_MS BY DEF Hour
  <2>2. h \in Nat BY <1>1, <2>1, UsageAssumption
  <2>3. h \div HOUR_MS = i BY <1>1, <2>1, UsageAssumption
  <2>4. utcHourBucket(h) = h BY <2>1, <2>3 DEF utcHourBucket, FloorBucket
  <2>5. utcDayBucket(h) \in Day BY DEF Day
  <2>6. utcDayBucket(h) <= h BY <1>1, <2>2, FloorFacts DEF utcDayBucket
  <2> QED BY <2>2, <2>4, <2>5, <2>6
<1>3. ASSUME NEW d \in Day
      PROVE  d \in Int /\ utcDayBucket(d) = d /\ utcHourBucket(d) = d
  <2>1. PICK h \in Hour : d = utcDayBucket(h) BY DEF Day
  <2>2. d \in Int /\ utcDayBucket(d) = d BY <1>1, <1>2, <2>1, FloorFacts DEF utcDayBucket
  <2>3. utcHourBucket(d) = d BY <2>2, Units DEF utcDayBucket, utcHourBucket
  <2> QED BY <2>2, <2>3
<1>4. IsFiniteSet(Hour)
  <2>1. IsFiniteSet(1 .. LastHour) BY UsageAssumption, FS_Interval
  <2> DEFINE f == [i \in 1 .. LastHour |-> i * HOUR_MS]
  <2>2. f \in Surjection(1 .. LastHour, Hour) BY DEF Hour, Surjection
  <2> HIDE DEF f
  <2> QED BY <2>1, <2>2, FS_Surjection
<1>5. IsFiniteSet(Day)
  <2> DEFINE f == [h \in Hour |-> utcDayBucket(h)]
  <2>1. f \in Surjection(Hour, Day) BY DEF Day, Surjection
  <2> HIDE DEF f
  <2> QED BY <1>4, <2>1, FS_Surjection
<1>6. IsFiniteSet(Place)
  <2> DEFINE a == [country |-> "CN", region |-> "BJ"]
             b == [country |-> "CN", region |-> ""]
             c == [country |-> "ZZ", region |-> ""]
  <2>1. Place = {a} \union {b, c} BY DEF Place
  <2> HIDE DEF a, b, c
  <2>2. IsFiniteSet({b, c}) /\ IsFiniteSet({a})
    <3>1. {b, c} = {b} \union {c} OBVIOUS
    <3>2. IsFiniteSet({a}) /\ IsFiniteSet({b}) /\ IsFiniteSet({c}) BY FS_Singleton
    <3>3. IsFiniteSet({b} \union {c}) BY <3>2, FS_Union
    <3> QED BY <3>1, <3>2, <3>3
  <2> QED BY <2>1, <2>2, FS_Union
<1> QED BY <1>2, <1>3, <1>4, <1>5, <1>6

\* A later cleanup cuts later.
LEMMA CutLater ==
    ASSUME NEW s \in Int, NEW t \in Int, s <= t
    PROVE  /\ utcHourBucket(s - RetentionMs) \in Int /\ utcDayBucket(s - RetentionMs) \in Int
           /\ utcHourBucket(s - RetentionMs) <= utcHourBucket(t - RetentionMs)
           /\ utcDayBucket(s - RetentionMs) <= utcDayBucket(t - RetentionMs)
<1>1. RetentionMs \in Nat BY Durations, RulesAssumption
<1> DEFINE a == s - RetentionMs
           b == t - RetentionMs
<1>2. a \in Int /\ b \in Int /\ a <= b BY <1>1
<1> HIDE DEF a, b
<1>3. HOUR_MS \in Nat \ {0} /\ DAY_MS \in Nat \ {0} BY Units
<1>4. /\ FloorBucket(a, HOUR_MS) \in Int /\ FloorBucket(a, DAY_MS) \in Int
      /\ FloorBucket(a, HOUR_MS) <= FloorBucket(b, HOUR_MS)
      /\ FloorBucket(a, DAY_MS) <= FloorBucket(b, DAY_MS)
  BY <1>2, <1>3, FloorFacts, FloorMonotone
<1> QED BY <1>4 DEF utcHourBucket, utcDayBucket, a, b

\* The keys of two bags.
LEMMA KeysPlus ==
    ASSUME NEW A, NEW B, IsABag(A), IsABag(B)
    PROVE  /\ HourKeys(A (+) B) = HourKeys(A) \union HourKeys(B)
           /\ DayKeys(A (+) B) = DayKeys(A) \union DayKeys(B)
<1>1. DOMAIN (A (+) B) = DOMAIN A \union DOMAIN B BY PlusFacts
<1>2. HourKeys(A (+) B) = HourKeys(A) \union HourKeys(B) BY <1>1 DEF HourKeys
<1> QED BY <1>2 DEF DayKeys

\* What a write leaves in the tables, whether it cleans up or not.
LEMMA WriteCounts ==
    ASSUME UsageInv, NEW batch, FiniteBag(batch), NEW cleans \in BOOLEAN, Write(batch, cleans)
    PROVE  FiniteBag(log') /\ TimesOK' /\ CountsTrue'
<1>1. FiniteBag(log) /\ log' = log (+) batch BY DEF UsageInv, BagsOK, Write
<1>2. FiniteBag(log') /\ \A X : Count(log', X) = Count(log, X) + Count(batch, X)
  BY <1>1, CountPlus
<1>3. /\ now \in Nat /\ cleaned \in Nat /\ cleaned <= now
      /\ UNCHANGED <<now, opened, coverage>>
      /\ cleaned' = IF cleans THEN now ELSE cleaned
  BY DEF UsageInv, TimesOK, Write
<1>4. TimesOK' BY <1>3 DEF UsageInv, TimesOK
<1>5. /\ CutHour \in Int /\ CutHour' \in Int /\ CutHour <= CutHour'
      /\ cleans => CutHour' = HourCutoff
  BY <1>3, CutLater DEF CutHour, HourCutoff
<1>6. \A X : Count(batch, X) \in Nat BY CountType
<1>7. /\ \A h \in Hour : ByHour(batch)[h] = Count(batch, OfHour(h))
      /\ \A d \in Day : ByDay(batch)[d] = Count(batch, OfDay(d))
      /\ \A h \in Hour, p \in Place :
           ByHourAndPlace(batch)[<<h, p>>] = Count(batch, OfHour(h) \intersect At({p}))
      /\ \A d \in Day, p \in Place :
           ByDayAndPlace(batch)[<<d, p>>] = Count(batch, OfDay(d) \intersect At({p}))
      /\ SumFunction(batch) = Count(batch, Rec)
  BY BatchCounts
<1>8. CountsTrue BY DEF UsageInv
<1>9. total' = Count(log', Rec) BY <1>2, <1>7, <1>8 DEF Write, CountsTrue
<1>10. /\ hourly' \in [Hour -> Nat]
       /\ \A h \in Hour : h >= CutHour' => hourly'[h] = Count(log', OfHour(h))
  <2> DEFINE table == Plus(hourly, ByHour(batch))
  <2>1. /\ DOMAIN hourly = Hour
        /\ table = [h \in Hour |-> hourly[h] + ByHour(batch)[h]]
    BY <1>8 DEF CountsTrue, Plus
  <2>2. \A h \in Hour : table[h] = hourly[h] + Count(batch, OfHour(h)) /\ table[h] \in Nat
    BY <1>6, <1>7, <1>8, <2>1 DEF CountsTrue
  <2>3. hourly' = IF cleans THEN KeptHours(table) ELSE table BY DEF Write
  <2>4. table = [h \in Hour |-> table[h]] BY <2>1
  <2> HIDE DEF table
  <2>5. \A h \in Hour : hourly'[h] = IF cleans /\ h < HourCutoff THEN 0 ELSE table[h]
    BY <2>3 DEF KeptHours
  <2>6. hourly' \in [Hour -> Nat]
    <3>1. hourly' = [h \in Hour |-> hourly'[h]] BY <2>3, <2>4 DEF KeptHours
    <3>2. \A h \in Hour : hourly'[h] \in Nat BY <2>2, <2>5
    <3> QED BY <3>1, <3>2
  <2>7. ASSUME NEW h \in Hour, h >= CutHour' PROVE hourly'[h] = Count(log', OfHour(h))
    <3>1. h \in Nat BY Keys
    <3>2. h >= CutHour /\ ~ (cleans /\ h < HourCutoff) BY <1>5, <2>7, <3>1
    <3>3. hourly[h] = Count(log, OfHour(h)) BY <1>8, <3>2 DEF CountsTrue
    <3> QED BY <1>2, <2>2, <2>5, <3>2, <3>3
  <2> QED BY <2>6, <2>7
<1>11. daily' \in [Day -> Nat] /\ \A d \in Day : daily'[d] = Count(log', OfDay(d))
  <2>1. daily' = [d \in Day |-> daily[d] + ByDay(batch)[d]]
    BY <1>8 DEF CountsTrue, Plus, Write, KeptDays
  <2> QED BY <1>2, <1>6, <1>7, <1>8, <2>1 DEF CountsTrue
<1>12. /\ geoHourly' \in [Hour \X Place -> Nat]
       /\ \A h \in Hour, p \in Place :
            h >= CutHour' /\ h >= coverage' =>
              geoHourly'[<<h, p>>] = Count(log', OfHour(h) \intersect At({p}))
  <2> DEFINE table == Plus(geoHourly, ByHourAndPlace(batch))
  <2>1. table = [k \in Hour \X Place |-> geoHourly[k] + ByHourAndPlace(batch)[k]]
    BY <1>8 DEF CountsTrue, Plus
  <2>2. \A h \in Hour, p \in Place :
          /\ table[<<h, p>>] = geoHourly[<<h, p>>] + Count(batch, OfHour(h) \intersect At({p}))
          /\ table[<<h, p>>] \in Nat
    <3> TAKE h \in Hour, p \in Place
    <3>1. <<h, p>> \in Hour \X Place OBVIOUS
    <3>2. geoHourly[<<h, p>>] \in Nat BY <1>8, <3>1 DEF CountsTrue
    <3>3. table[<<h, p>>] = geoHourly[<<h, p>>] + ByHourAndPlace(batch)[<<h, p>>]
      BY <2>1, <3>1
    <3>4. Count(batch, OfHour(h) \intersect At({p})) \in Nat BY <1>6
    <3> HIDE DEF table
    <3> QED BY <1>7, <3>2, <3>3, <3>4
  <2>3. geoHourly' = IF cleans THEN KeptHourPlaces(table) ELSE table BY DEF Write
  <2>4. table = [k \in Hour \X Place |-> table[k]] BY <2>1
  <2> HIDE DEF table
  <2>5. \A h \in Hour, p \in Place :
          geoHourly'[<<h, p>>] = IF cleans /\ h < HourCutoff THEN 0 ELSE table[<<h, p>>]
    BY <2>3 DEF KeptHourPlaces
  <2>6. geoHourly' \in [Hour \X Place -> Nat]
    <3>1. geoHourly' = [k \in Hour \X Place |-> geoHourly'[k]]
      BY <2>3, <2>4 DEF KeptHourPlaces
    <3>2. \A h \in Hour, p \in Place : geoHourly'[<<h, p>>] \in Nat
      <4> TAKE h \in Hour, p \in Place
      <4>1. table[<<h, p>>] \in Nat BY <2>2
      <4> QED BY <2>5, <4>1
    <3>3. \A k \in Hour \X Place : geoHourly'[k] \in Nat BY <3>2
    <3> QED BY <3>1, <3>3
  <2>7. ASSUME NEW h \in Hour, NEW p \in Place, h >= CutHour', h >= coverage'
        PROVE  geoHourly'[<<h, p>>] = Count(log', OfHour(h) \intersect At({p}))
    <3>1. h \in Nat BY Keys
    <3>2. h >= CutHour /\ ~ (cleans /\ h < HourCutoff) BY <1>5, <2>7, <3>1
    <3>3. geoHourly[<<h, p>>] = Count(log, OfHour(h) \intersect At({p}))
      BY <1>3, <1>8, <2>7, <3>2 DEF CountsTrue
    <3> QED BY <1>2, <2>2, <2>5, <3>2, <3>3
  <2> QED BY <2>6, <2>7
<1>13. /\ geoDaily' \in [Day \X Place -> Nat]
       /\ \A d \in Day, p \in Place :
            geoDaily'[<<d, p>>] = Count(log', OfDay(d) \intersect At({p}))
  <2>1. geoDaily' = [k \in Day \X Place |-> geoDaily[k] + ByDayAndPlace(batch)[k]]
    BY <1>8 DEF CountsTrue, Plus, Write
  <2>2. \A d \in Day, p \in Place :
          /\ geoDaily'[<<d, p>>] = geoDaily[<<d, p>>] + Count(batch, OfDay(d) \intersect At({p}))
          /\ geoDaily'[<<d, p>>] \in Nat
    <3> TAKE d \in Day, p \in Place
    <3>1. <<d, p>> \in Day \X Place OBVIOUS
    <3>2. geoDaily[<<d, p>>] \in Nat BY <1>8, <3>1 DEF CountsTrue
    <3>3. geoDaily'[<<d, p>>] = geoDaily[<<d, p>>] + ByDayAndPlace(batch)[<<d, p>>]
      BY <2>1, <3>1
    <3>4. Count(batch, OfDay(d) \intersect At({p})) \in Nat BY <1>6
    <3> QED BY <1>7, <3>2, <3>3, <3>4
  <2>3. \A d \in Day, p \in Place : geoDaily'[<<d, p>>] = Count(log', OfDay(d) \intersect At({p}))
    <3> TAKE d \in Day, p \in Place
    <3>1. geoDaily[<<d, p>>] = Count(log, OfDay(d) \intersect At({p}))
      BY <1>8 DEF CountsTrue
    <3> QED BY <1>2, <2>2, <3>1
  <2>4. \A k \in Day \X Place : geoDaily'[k] \in Nat
    <3> TAKE k \in Day \X Place
    <3>1. PICK d \in Day, p \in Place : k = <<d, p>> OBVIOUS
    <3> QED BY <2>2, <3>1
  <2>5. geoDaily' = [k \in Day \X Place |-> geoDaily'[k]] BY <2>1
  <2>6. geoDaily' \in [Day \X Place -> Nat] BY <2>4, <2>5
  <2> QED BY <2>3, <2>6
<1>14. CountsTrue' BY <1>9, <1>10, <1>11, <1>12, <1>13 DEF CountsTrue
<1> QED BY <1>2, <1>4, <1>14

\* ... and in the sets of visitors.
LEMMA WriteVisitors ==
    ASSUME UsageInv, NEW batch, FiniteBag(batch), NEW cleans \in BOOLEAN, Write(batch, cleans)
    PROVE  VisitorsTrue'
<1>1. IsABag(log) /\ IsABag(batch) /\ log' = log (+) batch
  BY DEF UsageInv, BagsOK, FiniteBag, Write
<1>2. /\ HourKeys(log') = HourKeys(log) \union HourKeys(batch)
      /\ DayKeys(log') = DayKeys(log) \union DayKeys(batch)
  BY <1>1, KeysPlus
<1>3. /\ now \in Nat /\ cleaned \in Nat /\ cleaned <= now
      /\ UNCHANGED <<now, opened, coverage>>
      /\ cleaned' = IF cleans THEN now ELSE cleaned
  BY DEF UsageInv, TimesOK, Write
<1>4. /\ CutHour \in Int /\ CutHour' \in Int /\ CutHour <= CutHour'
      /\ CutDay \in Int /\ CutDay' \in Int /\ CutDay <= CutDay'
      /\ cleans => CutHour' = HourCutoff /\ CutDay' = DayCutoff
  BY <1>3, CutLater DEF CutHour, CutDay, HourCutoff, DayCutoff
<1> DEFINE inHours == visitorsHourly \union HourKeys(batch)
           inDays  == visitorsDaily \union DayKeys(batch)
<1>5. /\ visitorsHourly' = IF cleans THEN {k \in inHours : k[1] >= HourCutoff} ELSE inHours
      /\ visitorsDaily' = IF cleans THEN {k \in inDays : k[1] >= DayCutoff} ELSE inDays
  BY DEF Write
<1>6. ASSUME NEW h \in Hour, h >= CutHour', h >= coverage'
      PROVE  {k \in visitorsHourly' : k[1] = h} = {k \in HourKeys(log') : k[1] = h}
  <2>1. h \in Nat BY Keys
  <2>2. h >= CutHour /\ h >= coverage BY <1>3, <1>4, <1>6, <2>1
  <2>3. {k \in visitorsHourly : k[1] = h} = {k \in HourKeys(log) : k[1] = h}
    BY <2>2 DEF UsageInv, VisitorsTrue
  <2>4. cleans => h >= HourCutoff BY <1>4, <1>6
  <2>5. {k \in visitorsHourly' : k[1] = h} = {k \in inHours : k[1] = h} BY <1>5, <2>4
  <2> QED BY <1>2, <2>3, <2>5
<1>7. ASSUME NEW d \in Day, d >= CutDay'
      PROVE  {k \in visitorsDaily' : k[1] = d} = {k \in DayKeys(log') : k[1] = d}
  <2>1. d \in Int BY Keys
  <2>2. d >= CutDay BY <1>4, <1>7, <2>1
  <2>3. {k \in visitorsDaily : k[1] = d} = {k \in DayKeys(log) : k[1] = d}
    BY <2>2 DEF UsageInv, VisitorsTrue
  <2>4. cleans => d >= DayCutoff BY <1>4, <1>7
  <2>5. {k \in visitorsDaily' : k[1] = d} = {k \in inDays : k[1] = d} BY <1>5, <2>4
  <2> QED BY <1>2, <2>3, <2>5
<1> QED BY <1>6, <1>7 DEF VisitorsTrue

\* Where the detailed hours of a database begin that is opened.
LEMMA CoverageOpens ==
    ASSUME NEW old, NEW detailed, FiniteBag(old), FiniteBag(detailed), now \in Nat,
           \A r \in DOMAIN old \union DOMAIN detailed : r.hour <= now,
           \A o \in DOMAIN old, r \in DOMAIN detailed : o.hour <= r.hour,
           coverage = Coverage({r.hour : r \in DOMAIN detailed}, old # EmptyBag)
    PROVE  /\ coverage \in Int /\ coverage <= utcHourBucket(now) + HOUR_MS
           /\ \A o \in DOMAIN old : o.hour < coverage
<1> DEFINE rows == {r.hour : r \in DOMAIN detailed}
<1>1. HOUR_MS \in Nat \ {0} BY Units
<1>2. \A r \in DOMAIN old \union DOMAIN detailed :
        r \in Rec /\ r.hour \in Hour /\ r.hour \in Nat /\ utcHourBucket(r.hour) = r.hour
  <2> SUFFICES ASSUME NEW r \in DOMAIN old \union DOMAIN detailed
               PROVE  r \in Rec /\ r.hour \in Hour /\ r.hour \in Nat /\ utcHourBucket(r.hour) = r.hour
    OBVIOUS
  <2>1. r \in Rec BY DEF FiniteBag
  <2>2. r.hour \in Hour BY <2>1 DEF Rec
  <2> QED BY <2>1, <2>2, Keys
<1>3. /\ utcHourBucket(now) \in Int /\ utcHourBucket(now) <= now
      /\ now < utcHourBucket(now) + HOUR_MS
  BY <1>1, FloorFacts DEF utcHourBucket
<1>4. \A r \in DOMAIN old \union DOMAIN detailed : r.hour <= utcHourBucket(now)
  BY <1>1, <1>2, FloorMonotone DEF utcHourBucket
<1>5. CASE rows # {}
  <2>1. coverage = Min(rows) + HOUR_MS BY <1>5 DEF Coverage
  <2>2. rows \in SUBSET Nat BY <1>2
  <2> HIDE DEF rows
  <2>3. Min(rows) \in rows BY <1>5, <2>2, MinOfNaturals
  <2>4. PICK r \in DOMAIN detailed : r.hour = Min(rows) BY <2>3 DEF rows
  <2>5. r.hour \in Nat /\ r.hour <= utcHourBucket(now) BY <1>2, <1>4
  <2>6. coverage \in Int /\ coverage <= utcHourBucket(now) + HOUR_MS
    BY <1>1, <1>3, <2>1, <2>4, <2>5
  <2>7. ASSUME NEW o \in DOMAIN old PROVE o.hour < coverage
    <3>1. o.hour \in Nat /\ o.hour <= r.hour BY <1>2
    <3> QED BY <1>1, <2>1, <2>4, <2>5, <3>1
  <2> QED BY <2>6, <2>7
<1>6. CASE rows = {} /\ old # EmptyBag
  <2>1. coverage = utcHourBucket(now) + HOUR_MS BY <1>6 DEF Coverage
  <2>2. ASSUME NEW o \in DOMAIN old PROVE o.hour < coverage
    <3>1. o.hour \in Nat /\ o.hour <= utcHourBucket(now) BY <1>2, <1>4
    <3> QED BY <1>1, <1>3, <2>1, <3>1
  <2> QED BY <1>1, <1>3, <2>1, <2>2
<1>7. CASE rows = {} /\ old = EmptyBag
  <2>1. coverage = 0 BY <1>7 DEF Coverage
  <2>2. DOMAIN old = {} BY <1>7, SmallBagsFinite
  <2>3. 0 <= utcHourBucket(now) + HOUR_MS BY <1>1, <1>3
  <2> QED BY <2>1, <2>2, <2>3
<1> QED BY <1>5, <1>6, <1>7

\* Records that are not there are not counted.
LEMMA CountNone ==
    ASSUME NEW bag, NEW X, DOMAIN bag \intersect X = {}
    PROVE  Count(bag, X) = 0
BY SumEmpty DEF Count

\* A database that is opened, new or of an older version, is as the invariant says.
LEMMA InitUsage == Init => UsageInv
<1> SUFFICES ASSUME Init PROVE UsageInv OBVIOUS
<1>1. PICK old \in SmallBags(Past), detailed \in SmallBags(Past) :
        /\ \A o \in DOMAIN old, r \in DOMAIN detailed : o.hour <= r.hour
        /\ log = old (+) detailed
        /\ geoHourly = ByHourAndPlace(detailed)
        /\ visitorsHourly = HourKeys(detailed)
        /\ coverage = Coverage({r.hour : r \in DOMAIN detailed}, old # EmptyBag)
  BY DEF Init
<1>2. HOUR_MS \in Nat \ {0} /\ now = 2 * HOUR_MS + 1 /\ now \in Nat /\ opened = now /\ cleaned = 0
  BY Units DEF Init, FirstTime
<1>3. \A bag \in SmallBags(Past) : FiniteBag(bag) /\ \A r \in DOMAIN bag : r.hour <= now
  <2> TAKE bag \in SmallBags(Past)
  <2>1. CASE bag = EmptyBag BY <2>1, SmallBagsFinite
  <2>2. CASE bag # EmptyBag
    <3>1. PICK r \in Past : bag = SetToBag({r}) BY <2>2 DEF SmallBags
    <3>2. r \in Rec /\ r.hour <= now BY DEF Past, Init
    <3> QED BY <3>1, <3>2, SmallBagsFinite
  <2> QED BY <2>1, <2>2
<1>4. FiniteBag(old) /\ FiniteBag(detailed) /\ IsABag(old) /\ IsABag(detailed)
  BY <1>3 DEF FiniteBag
<1>5. FiniteBag(log) /\ \A X : Count(log, X) = Count(old, X) + Count(detailed, X)
  BY <1>1, <1>4, CountPlus
<1>6. BagsOK BY <1>5, SmallBagsFinite DEF BagsOK, Init
<1>7. /\ coverage \in Int /\ coverage <= utcHourBucket(now) + HOUR_MS
      /\ \A o \in DOMAIN old : o.hour < coverage
  BY <1>1, <1>2, <1>3, <1>4, CoverageOpens
<1>8. TimesOK BY <1>2, <1>7 DEF TimesOK
<1>a. /\ \A h \in Hour : ByHour(log)[h] = Count(log, OfHour(h))
      /\ \A d \in Day : ByDay(log)[d] = Count(log, OfDay(d))
      /\ \A d \in Day, p \in Place :
           ByDayAndPlace(log)[<<d, p>>] = Count(log, OfDay(d) \intersect At({p}))
      /\ SumFunction(log) = Count(log, Rec)
  BY <1>5, BatchCounts
<1>b. \A X : Count(log, X) \in Nat BY <1>5, CountType
<1>9. /\ \A h \in Hour : ByHour(log)[h] = Count(log, OfHour(h)) /\ Count(log, OfHour(h)) \in Nat
      /\ \A d \in Day : ByDay(log)[d] = Count(log, OfDay(d)) /\ Count(log, OfDay(d)) \in Nat
      /\ \A d \in Day, p \in Place :
           /\ ByDayAndPlace(log)[<<d, p>>] = Count(log, OfDay(d) \intersect At({p}))
           /\ Count(log, OfDay(d) \intersect At({p})) \in Nat
      /\ SumFunction(log) = Count(log, Rec)
  <2> HIDE DEF Count, OfHour, OfDay, At, ByHour, ByDay, ByDayAndPlace
  <2> QED BY ONLY <1>a, <1>b
<1>10. hourly \in [Hour -> Nat] /\ \A h \in Hour : hourly[h] = Count(log, OfHour(h))
  <2>1. hourly = [h \in Hour |-> hourly[h]] BY DEF Init, ByHour
  <2>2. \A h \in Hour : hourly[h] = Count(log, OfHour(h)) BY <1>9 DEF Init
  <2> QED BY <1>9, <2>1, <2>2
<1>11. daily \in [Day -> Nat] /\ \A d \in Day : daily[d] = Count(log, OfDay(d))
  <2>1. daily = [d \in Day |-> daily[d]] BY DEF Init, ByDay
  <2>2. \A d \in Day : daily[d] = Count(log, OfDay(d)) BY <1>9 DEF Init
  <2> QED BY <1>9, <2>1, <2>2
<1>12. /\ geoDaily \in [Day \X Place -> Nat]
       /\ \A d \in Day, p \in Place : geoDaily[<<d, p>>] = Count(log, OfDay(d) \intersect At({p}))
  <2>1. geoDaily = [k \in Day \X Place |-> geoDaily[k]] BY DEF Init, ByDayAndPlace
  <2>2. \A d \in Day, p \in Place : geoDaily[<<d, p>>] = Count(log, OfDay(d) \intersect At({p}))
    BY <1>9 DEF Init
  <2>3. \A k \in Day \X Place : geoDaily[k] \in Nat
    <3> TAKE k \in Day \X Place
    <3>1. PICK d \in Day, p \in Place : k = <<d, p>> OBVIOUS
    <3> QED BY <1>9, <2>2, <3>1
  <2> QED BY <2>1, <2>2, <2>3
<1>13. /\ geoHourly \in [Hour \X Place -> Nat]
       /\ \A h \in Hour, p \in Place :
            h >= coverage => geoHourly[<<h, p>>] = Count(log, OfHour(h) \intersect At({p}))
  <2>1. geoHourly = [k \in Hour \X Place |-> geoHourly[k]] BY <1>1 DEF ByHourAndPlace
  <2>2. \A h \in Hour, p \in Place :
          /\ geoHourly[<<h, p>>] = Count(detailed, OfHour(h) \intersect At({p}))
          /\ Count(detailed, OfHour(h) \intersect At({p})) \in Nat
    <3>1. \A X : Count(detailed, X) \in Nat BY <1>4, CountType
    <3>2. \A h \in Hour, p \in Place :
            ByHourAndPlace(detailed)[<<h, p>>] = Count(detailed, OfHour(h) \intersect At({p}))
      BY <1>4, BatchCounts
    <3>3. geoHourly = ByHourAndPlace(detailed) BY <1>1
    <3> QED BY ONLY <3>1, <3>2, <3>3
  <2>3. \A k \in Hour \X Place : geoHourly[k] \in Nat
    <3> TAKE k \in Hour \X Place
    <3>1. PICK h \in Hour, p \in Place : k = <<h, p>> OBVIOUS
    <3> QED BY <2>2, <3>1
  <2>4. ASSUME NEW h \in Hour, NEW p \in Place, h >= coverage
        PROVE  geoHourly[<<h, p>>] = Count(log, OfHour(h) \intersect At({p}))
    <3> DEFINE X == OfHour(h) \intersect At({p})
    <3>1. h \in Nat BY Keys
    <3>2. \A o \in DOMAIN old : o.hour # h BY <1>7, <2>4, <3>1
    <3>3. DOMAIN old \intersect X = {} BY <3>2 DEF OfHour
    <3> HIDE DEF X
    <3>4. Count(old, X) = 0 BY <3>3, CountNone
    <3>5. Count(log, X) = 0 + Count(detailed, X) BY <1>5, <3>4
    <3>6. geoHourly[<<h, p>>] = Count(detailed, X) /\ Count(detailed, X) \in Nat BY <2>2 DEF X
    <3>7. geoHourly[<<h, p>>] = Count(log, X) BY <3>5, <3>6
    <3> QED BY <3>7 DEF X
  <2> QED BY <2>1, <2>3, <2>4
<1>14. CountsTrue BY <1>9, <1>10, <1>11, <1>12, <1>13 DEF CountsTrue, Init
<1>15. VisitorsTrue
  <2>1. HourKeys(log) = HourKeys(old) \union HourKeys(detailed) BY <1>1, <1>4, KeysPlus
  <2>2. ASSUME NEW h \in Hour, h >= coverage
        PROVE  {k \in visitorsHourly : k[1] = h} = {k \in HourKeys(log) : k[1] = h}
    <3>1. h \in Nat BY Keys
    <3>2. \A o \in DOMAIN old : o.hour # h BY <1>7, <2>2, <3>1
    <3>3. {k \in HourKeys(old) : k[1] = h} = {} BY <3>2 DEF HourKeys
    <3> QED BY <1>1, <2>1, <3>3
  <2>3. visitorsDaily = DayKeys(log) BY DEF Init
  <2> QED BY <2>2, <2>3 DEF VisitorsTrue
<1> QED BY <1>6, <1>8, <1>14, <1>15 DEF UsageInv

\* Every step keeps the tables true: each write adds a finite bag of records.
LEMMA NextUsage == UsageInv /\ [Next]_vars => UsageInv'
<1> SUFFICES ASSUME UsageInv, [Next]_vars PROVE UsageInv' OBVIOUS
<1>1. FiniteBag(log) /\ FiniteBag(waiting) BY DEF UsageInv, BagsOK
<1>2. ASSUME NEW batch, FiniteBag(batch), NEW cleans \in BOOLEAN, Write(batch, cleans),
             FiniteBag(waiting')
      PROVE  UsageInv'
  BY <1>2, WriteCounts, WriteVisitors DEF UsageInv, BagsOK
<1>3. ASSUME UNCHANGED <<opened, database, coverage>>, now' \in Nat, now' >= now, FiniteBag(waiting')
      PROVE  UsageInv'
  <2>1. UNCHANGED <<opened, log, total, hourly, daily, geoHourly, geoDaily, visitorsHourly,
                    visitorsDaily, cleaned, coverage>>
    BY <1>3 DEF database, counts, visitors
  <2>2. BagsOK' BY <1>1, <1>3, <2>1 DEF BagsOK
  <2>3. TimesOK' BY <1>3, <2>1 DEF UsageInv, TimesOK
  <2>4. CutHour' = CutHour /\ CutDay' = CutDay BY <2>1 DEF CutHour, CutDay
  <2>5. CountsTrue' BY <2>1, <2>4 DEF UsageInv, CountsTrue
  <2>6. VisitorsTrue' BY <2>1, <2>4 DEF UsageInv, VisitorsTrue
  <2> QED BY <2>2, <2>3, <2>5, <2>6 DEF UsageInv
<1>4. now \in Nat BY DEF UsageInv, TimesOK
<1>5. \A r \in DOMAIN waiting : FiniteBag(SetToBag({r})) /\ IsABag(SetToBag({r}))
  BY <1>1, SmallBagsFinite DEF FiniteBag
<1>6. CleanupDue \in BOOLEAN BY DEF CleanupDue
<1>7. CASE Record
  <2>1. PICK r \in Rec : waiting' = waiting (+) SetToBag({r}) BY <1>7 DEF Record
  <2>2. FiniteBag(waiting') BY <1>1, <2>1, SmallBagsFinite, CountPlus
  <2> QED BY <1>3, <1>4, <1>7, <2>2 DEF Record
<1>8. CASE Flush
  <2>1. PICK batch \in Batches :
          \/ Write(batch, CleanupDue) /\ waiting' = waiting (-) batch
          \/ CleanupDue /\ Write(batch, FALSE) /\ UNCHANGED fates
    BY <1>8 DEF Flush
  <2>2. FiniteBag(batch) BY <1>1, PartsFinite
  <2>3. FiniteBag(waiting') BY <1>1, <2>1, <2>2, PartsFinite DEF fates, FiniteBag
  <2> QED BY <1>2, <1>6, <2>1, <2>2, <2>3
<1>9. CASE RequestWritten \/ RequestHalfDone
  <2>1. PICK r \in DOMAIN waiting, cleans \in BOOLEAN :
          Write(SetToBag({r}), cleans) /\ waiting' = waiting (-) SetToBag({r})
    BY <1>6, <1>9 DEF RequestWritten, RequestHalfDone, Settles
  <2>2. FiniteBag(waiting') BY <1>1, <1>5, <2>1, PartsFinite
  <2> QED BY <1>2, <1>5, <2>1, <2>2
<1>10. CASE RequestFails
  <2>1. PICK r \in DOMAIN waiting : waiting' = waiting (-) SetToBag({r})
    BY <1>10 DEF RequestFails, Settles
  <2>2. FiniteBag(waiting') BY <1>1, <1>5, <2>1, PartsFinite
  <2> QED BY <1>3, <1>4, <1>10, <2>2 DEF RequestFails
<1>11. CASE WriteAvailability
  <2>1. Write(EmptyBag, TRUE) /\ waiting' = waiting BY <1>11 DEF WriteAvailability, fates
  <2> QED BY <1>1, <1>2, <2>1, SmallBagsFinite
<1>12. CASE Tick BY <1>1, <1>3, <1>4, <1>12 DEF Tick, fates, vars
<1>13. CASE UNCHANGED vars BY <1>1, <1>3, <1>4, <1>13 DEF vars, fates
<1> QED BY <1>7, <1>8, <1>9, <1>10, <1>11, <1>12, <1>13 DEF Next

-----------------------------------------------------------------------------
(* The answers.                                                              *)

\* Of two buckets one after the other, the first is over when the second begins.
LEMMA BucketAfter ==
    ASSUME NEW s \in Int, NEW t \in Int, NEW u \in Nat \ {0},
           FloorBucket(s, u) = s, FloorBucket(t, u) = t, s < t
    PROVE  s + u <= t
<1> DEFINE p == s \div u
           q == t \div u
<1>1. p \in Int /\ q \in Int /\ s = p * u /\ t = q * u BY DEF FloorBucket
<1> HIDE DEF p, q
<1>2. p < q
  <2> SUFFICES ASSUME q <= p PROVE FALSE BY <1>1
  <2>1. q * u <= p * u BY <1>1
  <2> QED BY <1>1, <2>1
<1>3. (p + 1) * u <= q * u BY <1>1, <1>2
<1>4. (p + 1) * u = p * u + u BY <1>1
<1> QED BY <1>1, <1>3, <1>4

\* The buckets of a range of whole buckets: all that lie in it.
LEMMA BucketsOfRange ==
    ASSUME NEW range, range.from \in Int, range.to \in Int, Aligned(range)
    PROVE  /\ \A b : b \in Buckets(range) <=>
                       /\ b \in Int /\ range.from <= b /\ b < range.to
                       /\ FloorBucket(b, Unit(range.granularity)) = b
           /\ IsFiniteSet(Buckets(range))
<1> DEFINE u == Unit(range.granularity)
           s == range.from
<1>1. u \in Nat \ {0} /\ s \in Int /\ FloorBucket(s, u) = s BY Units DEF Aligned
<1>2. \A b : b \in Buckets(range) <=>
               b \in Int /\ s <= b /\ b < range.to /\ (b - s) % u = 0
  BY DEF Buckets
<1>3. IsFiniteSet(range.from .. range.to - 1) BY FS_Interval
<1>4. IsFiniteSet(Buckets(range)) BY <1>3, FS_Subset DEF Buckets
<1> HIDE DEF u, s
<1>5. ASSUME NEW b \in Int PROVE (b - s) % u = 0 <=> FloorBucket(b, u) = b
  <2> DEFINE p == s \div u
             q == b \div u
             d == (b - s) \div u
  <2>1. p \in Int /\ q \in Int /\ d \in Int /\ s = p * u
    BY <1>1 DEF FloorBucket
  <2>2. ASSUME (b - s) % u = 0 PROVE FloorBucket(b, u) = b
    <3>1. \A x \in Int : x = (x \div u) * u + (x % u) BY <1>1
    <3>2. b - s \in Int /\ b - s = d * u BY <1>1, <2>1, <2>2, <3>1
    <3> HIDE DEF p, d
    <3>3. (p + d) * u = p * u + d * u BY <1>1, <2>1
    <3>4. p + d \in Int /\ b = (p + d) * u BY <1>1, <2>1, <3>2, <3>3
    <3>5. ((p + d) * u) \div u = p + d BY <1>1, <3>4
    <3> QED BY <3>4, <3>5 DEF FloorBucket
  <2>3. ASSUME FloorBucket(b, u) = b PROVE (b - s) % u = 0
    <3>1. b = q * u BY <2>3 DEF FloorBucket
    <3> HIDE DEF p, q, d
    <3>2. (q - p) * u = q * u - p * u BY <1>1, <2>1
    <3>3. q - p \in Int /\ b - s = (q - p) * u BY <1>1, <2>1, <3>1, <3>2
    <3> DEFINE n == q - p
    <3>4. n \in Int /\ b - s = n * u BY <3>3
    <3> HIDE DEF n
    <3>5. (n * u) \div u = n /\ n * u \in Int /\ (n * u) % u \in Int BY <1>1, <3>4
    <3>6. \A x \in Int : x = (x \div u) * u + (x % u) BY <1>1
    <3>7. n * u = n * u + ((n * u) % u) BY <3>5, <3>6
    <3> QED BY <3>4, <3>5, <3>7
  <2> QED BY <2>2, <2>3
<1>6. \A b : b \in Buckets(range) <=> b \in Int /\ s <= b /\ b < range.to /\ FloorBucket(b, u) = b
  BY <1>2, <1>5
<1> QED BY <1>4, <1>6 DEF s, u

\* What a preset asks for, and what the last cleanup left of it.
LEMMA Asked ==
    ASSUME TimesOK, NEW p \in Preset
    PROVE  LET range == RangeOf(p)
           IN  /\ range.granularity \in {"hour", "day"}
               /\ range.from \in Int /\ range.to \in Int /\ Aligned(range)
               /\ now <= range.to /\ range.to - range.from = Duration(p)
               /\ range.granularity = "hour" <=> PresetDays[p] = 1
               /\ range.granularity = "hour" => CutHour <= range.from
               /\ range.granularity = "day" => CutDay <= range.from
               /\ DailyRange(range).granularity = "day"
               /\ DailyRange(range).from \in Int /\ DailyRange(range).to \in Int
               /\ Aligned(DailyRange(range)) /\ CutDay <= DailyRange(range).from
               /\ CutHour \in Int /\ CutDay \in Int
<1> DEFINE range == RangeOf(p)
           input == OfPreset(p)
           days  == overlappingDayRange(range)
           unit  == Unit(range.granularity)
<1>1. now \in Nat /\ cleaned \in Nat /\ cleaned <= now BY DEF TimesOK
<1>2. /\ Requested(input, now) = Duration(p)
      /\ range.to = CeilBucket(now, unit) /\ range.from = CeilBucket(now, unit) - Duration(p)
      /\ unit \in Nat \ {0}
  BY <1>1, PresetParsed DEF RangeOf
<1>3. Duration(p) \in Nat /\ RetentionMs \in Nat /\ PresetDays[p] \in Nat BY Durations
<1>4. range.from \in Int /\ range.to \in Int
  <2>1. CeilBucket(now, unit) \in Int BY <1>1, <1>2, CeilFacts
  <2> HIDE DEF range, unit
  <2> QED BY <1>2, <1>3, <2>1
<1>5. Aligned(range) /\ now <= range.to /\ range.to - range.from = Duration(p)
  BY <1>1, PresetRanges DEF PresetRangeHolds, RangeOf
<1>6. range.granularity = IF Duration(p) <= HourlyHours * HOUR_MS THEN "hour" ELSE "day"
  BY <1>2 DEF RangeOf, ParseMetricsRange, normalizeGranularity, OfPreset, Given
<1>7. Duration(p) <= HourlyHours * HOUR_MS <=> PresetDays[p] = 1
  <2> DEFINE hours == PresetDays[p] * HoursOfDay
  <2>1. HOUR_MS \in Nat \ {0} /\ HoursOfDay \in Nat \ {0} /\ HourlyHours \in Nat
    BY RulesAssumption
  <2>2. hours \in Nat /\ Duration(p) = hours * HOUR_MS BY <1>3, <2>1 DEF Duration, DAY_MS
  <2>3. hours <= HourlyHours <=> PresetDays[p] = 1 BY UsageAssumption
  <2> HIDE DEF hours
  <2>4. hours <= HourlyHours => hours * HOUR_MS <= HourlyHours * HOUR_MS BY <2>1, <2>2
  <2>5. HourlyHours < hours => HourlyHours * HOUR_MS < hours * HOUR_MS BY <2>1, <2>2
  <2> QED BY <2>1, <2>2, <2>3, <2>4, <2>5
<1>8. /\ FloorBucket(now - RetentionMs, unit) <= range.from
      /\ utcDayBucket(now - RetentionMs) <= days.from
  BY <1>1, PresetsOutliveCleanup DEF PresetOutlivesCleanup, RangeOf
<1>9. /\ CutHour \in Int /\ CutDay \in Int
      /\ utcHourBucket(now - RetentionMs) \in Int /\ utcDayBucket(now - RetentionMs) \in Int
      /\ CutHour <= utcHourBucket(now - RetentionMs) /\ CutDay <= utcDayBucket(now - RetentionMs)
  BY <1>1, CutLater DEF CutHour, CutDay
<1>10. /\ days.granularity = "day" /\ days.from \in Int /\ days.to \in Int /\ Aligned(days)
       /\ CutDay <= days.from
  <2>1. DAY_MS \in Nat \ {0} BY Units
  <2>2. /\ days.from = FloorBucket(range.from, DAY_MS)
        /\ days.to = FloorBucket(range.to - 1, DAY_MS) + DAY_MS /\ days.granularity = "day"
    BY DEF overlappingDayRange, utcDayBucket
  <2> HIDE DEF range, days
  <2>3. range.to - 1 \in Int BY <1>4
  <2>4. /\ days.from \in Int /\ FloorBucket(range.to - 1, DAY_MS) \in Int
        /\ FloorBucket(days.from, DAY_MS) = days.from
        /\ FloorBucket(FloorBucket(range.to - 1, DAY_MS), DAY_MS) = FloorBucket(range.to - 1, DAY_MS)
    BY <1>4, <2>1, <2>2, <2>3, FloorFacts
  <2> DEFINE last == FloorBucket(range.to - 1, DAY_MS)
  <2>5. FloorBucket(last - (-1) * DAY_MS, DAY_MS) = last - (-1) * DAY_MS
    BY <2>1, <2>4, BucketsBefore
  <2>6. last - (-1) * DAY_MS = days.to /\ days.to \in Int BY <2>1, <2>2, <2>4
  <2>7. Aligned(days) BY <2>2, <2>4, <2>5, <2>6 DEF Aligned, Unit
  <2>8. CutDay <= days.from BY <1>8, <1>9, <2>4
  <2> QED BY <2>2, <2>4, <2>6, <2>7, <2>8
<1>11. range.granularity = "hour" => unit = HOUR_MS /\ DailyRange(range) = days
  BY DEF Unit, DailyRange
<1>12. range.granularity = "day" => unit = DAY_MS /\ DailyRange(range) = range
  BY DEF Unit, DailyRange
<1> HIDE DEF range, days, unit
<1>13. range.granularity \in {"hour", "day"} /\ (range.granularity = "hour" <=> PresetDays[p] = 1)
  BY <1>6, <1>7
<1>14. range.granularity = "hour" => CutHour <= range.from
  BY <1>4, <1>8, <1>9, <1>11 DEF utcHourBucket
<1>15. range.granularity = "day" => CutDay <= range.from
  BY <1>4, <1>8, <1>9, <1>12 DEF utcDayBucket
<1>16. /\ DailyRange(range).granularity = "day"
       /\ DailyRange(range).from \in Int /\ DailyRange(range).to \in Int
       /\ Aligned(DailyRange(range)) /\ CutDay <= DailyRange(range).from
  BY <1>4, <1>5, <1>10, <1>11, <1>12, <1>13, <1>15
<1> QED BY <1>4, <1>5, <1>9, <1>13, <1>14, <1>15, <1>16 DEF range

\* The records of the history, and that they are counted with natural numbers.
LEMMA Logged ==
    ASSUME UsageInv
    PROVE  /\ IsFiniteSet(DOMAIN log)
           /\ \A r \in DOMAIN log :
                /\ log[r] \in Nat /\ log[r] > 0
                /\ r \in Rec /\ r.hour \in Hour /\ r.place \in Place
                /\ r.hour \in Nat /\ utcHourBucket(r.hour) = r.hour
                /\ utcDayBucket(r.hour) \in Day /\ utcDayBucket(r.hour) \in Int
                /\ utcDayBucket(r.hour) <= r.hour /\ r.hour < utcDayBucket(r.hour) + DAY_MS
<1>1. FiniteBag(log) BY DEF UsageInv, BagsOK
<1>2. IsFiniteSet(DOMAIN log) /\ \A r \in DOMAIN log : r \in Rec BY <1>1 DEF FiniteBag
<1>3. \A r \in DOMAIN log : log[r] \in Nat /\ log[r] > 0 BY <1>1, CountType
<1>4. \A r \in Rec : r.hour \in Hour /\ r.place \in Place BY UsageAssumption DEF Rec
<1>5. \A h \in Hour : /\ h \in Nat /\ utcHourBucket(h) = h
                      /\ utcDayBucket(h) \in Day /\ utcDayBucket(h) \in Int
                      /\ utcDayBucket(h) <= h /\ h < utcDayBucket(h) + DAY_MS
  BY Keys, Units, FloorFacts DEF utcDayBucket
<1> QED BY <1>2, <1>3, <1>4, <1>5

\* The bucket of a record is one of a range if and only if it begins in the range.
LEMMA LoggedIn ==
    ASSUME UsageInv, NEW range, range.from \in Int, range.to \in Int, Aligned(range),
           range.granularity \in {"hour", "day"}, NEW r \in DOMAIN log
    PROVE  /\ BucketOf(r, range) \in Int
           /\ BucketOf(r, range) \in Buckets(range) <=>
                range.from <= BucketOf(r, range) /\ BucketOf(r, range) < range.to
<1>1. CASE range.granularity = "hour"
  <2>1. BucketOf(r, range) = r.hour /\ Unit(range.granularity) = HOUR_MS
    BY <1>1 DEF BucketOf, Unit
  <2>2. r.hour \in Int /\ FloorBucket(r.hour, HOUR_MS) = r.hour BY Logged DEF utcHourBucket
  <2> QED BY <2>1, <2>2, BucketsOfRange
<1>2. CASE range.granularity = "day"
  <2>1. BucketOf(r, range) = utcDayBucket(r.hour) /\ Unit(range.granularity) = DAY_MS
    BY <1>2 DEF BucketOf, Unit
  <2>2. /\ utcDayBucket(r.hour) \in Int
        /\ FloorBucket(utcDayBucket(r.hour), DAY_MS) = utcDayBucket(r.hour)
    BY Logged, Keys DEF utcDayBucket
  <2> QED BY <2>1, <2>2, BucketsOfRange
<1> QED BY <1>1, <1>2

\* A bucket of the curve shows the records of the bucket.
LEMMA BucketShown ==
    ASSUME UsageInv, NEW range, range.from \in Int, range.to \in Int, Aligned(range),
           range.granularity \in {"hour", "day"},
           range.granularity = "hour" => CutHour <= range.from,
           NEW b \in Buckets(range)
    PROVE  /\ QueryTimeline(range)[b] = Sum(log, {r \in DOMAIN log : BucketOf(r, range) = b})
           /\ QueryTimeline(range)[b] \in Nat
<1> DEFINE rows == {r \in DOMAIN log : BucketOf(r, range) = b}
           table == IF range.granularity = "hour" THEN hourly ELSE daily
<1>1. /\ hourly \in [Hour -> Nat] /\ daily \in [Day -> Nat]
      /\ \A h \in Hour : h >= CutHour => hourly[h] = Count(log, OfHour(h))
      /\ \A d \in Day : daily[d] = Count(log, OfDay(d))
  BY DEF UsageInv, CountsTrue
<1>2. b \in Int /\ range.from <= b BY BucketsOfRange
<1>3. CutHour \in Int BY CutLater DEF UsageInv, TimesOK, CutHour
<1>4. QueryTimeline(range)[b] = IF b \in DOMAIN table THEN table[b] ELSE 0
  BY DEF QueryTimeline
<1>5. IsFiniteSet(rows) /\ \A r \in rows : log[r] \in Nat BY Logged, FS_Subset
<1>6. DOMAIN log \subseteq Rec BY Logged
<1>7. CASE range.granularity = "hour" /\ b \in Hour
  <2>1. rows = DOMAIN log \intersect OfHour(b) BY <1>6, <1>7 DEF BucketOf, OfHour
  <2>2. b \in DOMAIN table /\ table[b] = Count(log, OfHour(b)) BY <1>1, <1>2, <1>3, <1>7
  <2> QED BY <1>4, <1>5, <2>1, <2>2, SumType DEF Count
<1>8. CASE range.granularity = "day" /\ b \in Day
  <2>1. rows = DOMAIN log \intersect OfDay(b) BY <1>6, <1>8 DEF BucketOf, OfDay
  <2>2. b \in DOMAIN table /\ table[b] = Count(log, OfDay(b)) BY <1>1, <1>8
  <2> QED BY <1>4, <1>5, <2>1, <2>2, SumType DEF Count
<1>9. CASE b \notin DOMAIN table
  <2>1. rows = {} BY <1>1, <1>9, Logged DEF BucketOf
  <2> QED BY <1>4, <1>9, <2>1, SumEmpty
<1>10. DOMAIN table = IF range.granularity = "hour" THEN Hour ELSE Day BY <1>1
<1> QED BY <1>7, <1>8, <1>9, <1>10

\* The curve as a whole shows the records whose buckets lie in the range.
LEMMA CurveShown ==
    ASSUME UsageInv, NEW range, range.from \in Int, range.to \in Int, Aligned(range),
           range.granularity \in {"hour", "day"},
           range.granularity = "hour" => CutHour <= range.from
    PROVE  SumTimeline(range)
             = Sum(log, {r \in DOMAIN log : BucketOf(r, range) \in Buckets(range)})
<1> DEFINE S == Buckets(range)
           curve == QueryTimeline(range)
           G == [b \in S |-> {r \in DOMAIN log : BucketOf(r, range) = b}]
           D == DOMAIN log
<1>1. SumTimeline(range) = Sum(curve, S)
  BY DEF SumTimeline, SumFunction, QueryTimeline, Sum
<1>2. IsFiniteSet(S) BY BucketsOfRange
<1>3. IsFiniteSet(D) /\ \A r \in D : log[r] \in Nat BY Logged
<1>4. \A b \in S : G[b] \in SUBSET D /\ curve[b] = Sum(log, G[b]) BY BucketShown
<1>5. \A k, l \in S : k # l => G[k] \intersect G[l] = {} OBVIOUS
<1>6. UNION {G[b] : b \in S} = {r \in D : BucketOf(r, range) \in S} OBVIOUS
<1> HIDE DEF S, curve, G, D
<1>7. Sum(curve, S) = Sum(log, UNION {G[b] : b \in S}) BY <1>2, <1>3, <1>4, <1>5, SumOfSums
<1> QED BY <1>1, <1>6, <1>7 DEF S, D

\* The range of the whole history: it begins with the first day that counted a record.
LEMMA WholeHistory ==
    ASSUME UsageInv
    PROVE  /\ RangeAll.from \in Int /\ RangeAll.to = CeilBucket(now, DAY_MS) /\ RangeAll.to \in Int
           /\ RangeAll.granularity = "day" /\ Aligned(RangeAll)
           /\ \A r \in DOMAIN log : RangeAll.from <= utcDayBucket(r.hour)
<1> DEFINE days == {d \in Day : daily[d] > 0}
           first == Given(EarliestDay, now)
<1>1. now \in Nat /\ DAY_MS \in Nat \ {0} BY Units DEF UsageInv, TimesOK
<1>2. /\ RangeAll.from = FloorBucket(first, DAY_MS) /\ RangeAll.to = CeilBucket(now, DAY_MS)
      /\ RangeAll.granularity = "day"
  BY DEF RangeAll, AllRange, utcDayBucket
<1>3. first = IF days = {} THEN now ELSE Min(days)
  <2>1. EarliestDay = IF days = {} THEN {} ELSE {Min(days)} BY DEF EarliestDay
  <2>2. \A x : Given({x}, now) = x BY DEF Given
  <2> QED BY <2>1, <2>2 DEF Given
<1>4. days \in SUBSET Nat
  <2>1. \A h \in Hour : FloorBucket(0, DAY_MS) <= utcDayBucket(h)
    BY <1>1, Keys, FloorMonotone DEF utcDayBucket
  <2>2. FloorBucket(0, DAY_MS) = 0 BY <1>1 DEF FloorBucket
  <2>3. \A h \in Hour : utcDayBucket(h) \in Nat BY <2>1, <2>2, Keys
  <2> QED BY <2>3 DEF Day
<1>5. \A r \in DOMAIN log : utcDayBucket(r.hour) \in days
  <2> SUFFICES ASSUME NEW r \in DOMAIN log PROVE utcDayBucket(r.hour) \in days OBVIOUS
  <2> DEFINE d == utcDayBucket(r.hour)
             S == DOMAIN log \intersect OfDay(d)
  <2>1. /\ IsFiniteSet(DOMAIN log) /\ \A s \in DOMAIN log : log[s] \in Nat
        /\ d \in Day /\ r \in Rec /\ log[r] > 0 /\ log[r] \in Nat
    BY Logged
  <2>2. r \in S /\ S = (S \ {r}) \union {r} BY <2>1 DEF OfDay
  <2>3. IsFiniteSet(S \ {r}) /\ \A s \in S \ {r} : log[s] \in Nat BY <2>1, FS_Subset
  <2> HIDE DEF S, d
  <2>4. Sum(log, S) = Sum(log, S \ {r}) + log[r] BY <2>1, <2>2, <2>3, SumOneMore
  <2>5. Sum(log, S \ {r}) \in Nat BY <2>3, SumType
  <2>6. Sum(log, S) > 0 BY <2>1, <2>4, <2>5
  <2>7. daily[d] = Sum(log, S) BY <2>1 DEF UsageInv, CountsTrue, Count, S
  <2> QED BY <2>1, <2>6, <2>7 DEF d
<1> HIDE DEF days, first
<1>6. first \in Int /\ \A d \in days : first <= d BY <1>1, <1>3, <1>4, MinOfNaturals
<1>7. /\ RangeAll.from \in Int /\ RangeAll.from <= first
      /\ FloorBucket(RangeAll.from, DAY_MS) = RangeAll.from
  BY <1>1, <1>2, <1>6, FloorFacts
<1>8. RangeAll.to \in Int /\ FloorBucket(RangeAll.to, DAY_MS) = RangeAll.to
  BY <1>1, <1>2, CeilFacts
<1>9. Aligned(RangeAll) BY <1>2, <1>7, <1>8 DEF Aligned, Unit
<1>10. \A r \in DOMAIN log : RangeAll.from <= utcDayBucket(r.hour)
  <2> TAKE r \in DOMAIN log
  <2> DEFINE d == utcDayBucket(r.hour)
  <2>1. d \in days BY <1>5
  <2> HIDE DEF d
  <2>2. d \in Nat /\ first <= d BY <1>4, <1>6, <2>1
  <2>3. RangeAll.from <= d BY <1>6, <1>7, <2>2
  <2> QED BY <2>3 DEF d
<1> QED BY <1>2, <1>7, <1>8, <1>9, <1>10

\* The curve is the history.
LEMMA TimelineTrue == UsageInv => TimelineIsHistory
<1> SUFFICES ASSUME UsageInv PROVE TimelineIsHistory OBVIOUS
<1> USE DEF Sum
<1>1. TimesOK BY DEF UsageInv
<1>2. ASSUME NEW p \in Preset, NEW b \in Buckets(RangeOf(p))
      PROVE  QueryTimeline(RangeOf(p))[b] = Number(log, LAMBDA r : BucketOf(r, RangeOf(p)) = b)
  BY <1>1, Asked, BucketShown DEF Number
<1>3. SumTimeline(RangeAll) = Number(log, LAMBDA r : r.hour < CeilBucket(now, DAY_MS))
  <2> DEFINE D == DOMAIN log
  <2>1. SumTimeline(RangeAll) = Sum(log, {r \in D : BucketOf(r, RangeAll) \in Buckets(RangeAll)})
    BY WholeHistory, CurveShown
  <2>2. ASSUME NEW r \in D
        PROVE  BucketOf(r, RangeAll) \in Buckets(RangeAll) <=> r.hour < CeilBucket(now, DAY_MS)
    <3> DEFINE d == utcDayBucket(r.hour)
               t == RangeAll.to
    <3>1. /\ t = CeilBucket(now, DAY_MS) /\ t \in Int /\ FloorBucket(t, DAY_MS) = t
          /\ BucketOf(r, RangeAll) = d /\ RangeAll.from <= d
      BY WholeHistory DEF BucketOf, Aligned, Unit
    <3>2. d \in Buckets(RangeAll) <=> d < t BY <3>1, WholeHistory, LoggedIn
    <3>3. d \in Int /\ d <= r.hour /\ r.hour < d + DAY_MS /\ r.hour \in Nat BY Logged
    <3>4. DAY_MS \in Nat \ {0} BY Units
    <3>5. FloorBucket(d, DAY_MS) = d
      <4>1. r.hour \in Int BY <3>3
      <4>2. FloorBucket(FloorBucket(r.hour, DAY_MS), DAY_MS) = FloorBucket(r.hour, DAY_MS)
        BY <3>4, <4>1, FloorFacts
      <4>3. d = FloorBucket(r.hour, DAY_MS) BY DEF utcDayBucket
      <4> QED BY <4>2, <4>3
    <3> HIDE DEF d, t
    <3>6. d < t => d + DAY_MS <= t BY <3>1, <3>3, <3>4, <3>5, BucketAfter
    <3> QED BY <3>1, <3>2, <3>3, <3>4, <3>6
  <2>3. {r \in D : BucketOf(r, RangeAll) \in Buckets(RangeAll)}
          = {r \in D : r.hour < CeilBucket(now, DAY_MS)}
    BY <2>2
  <2> QED BY <2>1, <2>3 DEF Number
<1>4. total = SumFunction(log) BY BatchCounts DEF UsageInv, BagsOK, CountsTrue
<1>5. SumRows(hourly, Rows(Hour, RangeOf("24h"))) = SumTimeline(RangeOf("24h"))
  <2> DEFINE range == RangeOf("24h")
             S == Buckets(range)
             T == Rows(Hour, range)
             curve == QueryTimeline(range)
  <2>1. "24h" \in Preset /\ PresetDays["24h"] = 1 BY UsageAssumption
  <2>2. /\ range.granularity = "hour" /\ CutHour <= range.from
        /\ range.from \in Int /\ range.to \in Int /\ Aligned(range)
    BY <1>1, <2>1, Asked
  <2>3. hourly \in [Hour -> Nat] BY DEF UsageInv, CountsTrue
  <2>4. curve = [b \in S |-> IF b \in Hour THEN hourly[b] ELSE 0] BY <2>2, <2>3 DEF QueryTimeline
  <2>5. T = S \intersect Hour
    <3>1. Unit(range.granularity) = HOUR_MS BY <2>2 DEF Unit
    <3>2. \A h \in Hour : h \in Int /\ FloorBucket(h, HOUR_MS) = h BY Keys DEF utcHourBucket
    <3>3. \A h \in Hour : h \in S <=> range.from <= h /\ h < range.to
      BY <2>2, <3>1, <3>2, BucketsOfRange
    <3>4. \A h \in Hour : range.from <= h <=> h >= range.from BY <2>2, <3>2
    <3> QED BY <3>3, <3>4 DEF Rows
  <2>6. IsFiniteSet(S) BY <2>2, BucketsOfRange
  <2>7. SumTimeline(range) = Sum(curve, S) BY DEF SumTimeline, SumFunction, QueryTimeline
  <2> HIDE DEF S, T, curve, Sum
  <2>8. /\ \A b \in S : curve[b] \in Nat /\ (b \notin T => curve[b] = 0)
        /\ \A b \in T : curve[b] \in Nat /\ curve[b] = hourly[b]
    BY <2>3, <2>4, <2>5
  <2>9. T \in SUBSET S /\ IsFiniteSet(T) BY <2>5, <2>6, FS_Subset
  <2>10. Sum(curve, S) = Sum(curve, T) BY <2>6, <2>8, <2>9, SumOfPart
  <2>11. Sum(curve, T) = Sum(hourly, T) BY <2>8, <2>9, SumEqual
  <2>12. Sum(hourly, T) = SumTimeline(range) BY <2>7, <2>10, <2>11
  <2> QED BY <2>12 DEF SumRows, Sum, T
<1>6. \A range \in {RangeOf(p) : p \in Preset} : \A b \in Buckets(range) :
        QueryTimeline(range)[b] = Number(log, LAMBDA r : BucketOf(r, range) = b)
  <2> SUFFICES ASSUME NEW range \in {RangeOf(q) : q \in Preset}, NEW b \in Buckets(range)
               PROVE  QueryTimeline(range)[b] = Number(log, LAMBDA r : BucketOf(r, range) = b)
    OBVIOUS
  <2>1. PICK q \in Preset : range = RangeOf(q) OBVIOUS
  <2>2. b \in Buckets(RangeOf(q)) BY <2>1
  <2> QED BY <1>2, <2>1, <2>2 DEF Number
<1>7. QuerySummary = [totalCalls |-> SumFunction(log), calls24h |-> SumTimeline(RangeOf("24h"))]
  BY <1>4, <1>5 DEF QuerySummary
<1> QED BY <1>3, <1>6, <1>7 DEF TimelineIsHistory

\* Whole days may stand in for the hours of a range only until a day after the upgrade.
LEMMA Transition ==
    ASSUME UsageInv, NEW p \in Preset,
           RangeOf(p).granularity = "hour", ~ IsCovered(RangeOf(p))
    PROVE  now <= opened + DAY_MS
<1> DEFINE range == RangeOf(p)
           since == utcHourBucket(opened)
<1>1. /\ now \in Nat /\ opened \in Nat /\ coverage \in Int /\ coverage <= since + HOUR_MS
      /\ HOUR_MS \in Nat \ {0} /\ DAY_MS \in Nat \ {0}
  BY Units DEF UsageInv, TimesOK
<1>2. /\ range.from \in Int /\ range.to \in Int /\ now <= range.to
      /\ range.to - range.from = Duration(p) /\ PresetDays[p] = 1
      /\ FloorBucket(range.from, HOUR_MS) = range.from
  BY Asked DEF UsageInv, Aligned, Unit
<1>3. Duration(p) = DAY_MS BY <1>1, <1>2 DEF Duration
<1>4. range.from < coverage
  <2>1. ~ (range.from >= coverage) BY DEF IsCovered
  <2> QED BY <1>1, <1>2, <2>1
<1>5. since \in Int /\ since <= opened /\ FloorBucket(since, HOUR_MS) = since
  BY <1>1, FloorFacts DEF utcHourBucket
<1> HIDE DEF range, since
<1>6. since < range.from => since + HOUR_MS <= range.from BY <1>1, <1>2, <1>5, BucketAfter
<1>7. range.from <= since BY <1>1, <1>2, <1>4, <1>5, <1>6
<1> QED BY <1>1, <1>2, <1>3, <1>5, <1>7

\* The rows of a table that lie in a range are its buckets that the table has.
LEMMA RowsRead ==
    ASSUME NEW range, range.from \in Int, range.to \in Int, Aligned(range)
    PROVE  /\ range.granularity = "hour" => Rows(Hour, range) = Hour \intersect Buckets(range)
           /\ range.granularity = "day" => Rows(Day, range) = Day \intersect Buckets(range)
           /\ IsFiniteSet(Rows(Hour, range)) /\ IsFiniteSet(Rows(Day, range))
<1>1. /\ \A h \in Hour : h \in Int /\ FloorBucket(h, HOUR_MS) = h
      /\ \A d \in Day : d \in Int /\ FloorBucket(d, DAY_MS) = d
  BY Keys DEF utcHourBucket, utcDayBucket
<1>2. ASSUME NEW S, NEW u, Unit(range.granularity) = u,
             \A k \in S : k \in Int /\ FloorBucket(k, u) = k
      PROVE  Rows(S, range) = S \intersect Buckets(range)
  <2>1. \A k \in S : k \in Buckets(range) <=> k >= range.from /\ k < range.to
    BY <1>2, BucketsOfRange
  <2> QED BY <2>1 DEF Rows
<1>3. range.granularity = "hour" => Rows(Hour, range) = Hour \intersect Buckets(range)
  BY <1>1, <1>2 DEF Unit
<1>4. range.granularity = "day" => Rows(Day, range) = Day \intersect Buckets(range)
  BY <1>1, <1>2 DEF Unit
<1>5. IsFiniteSet(Rows(Hour, range)) /\ IsFiniteSet(Rows(Day, range))
  BY Keys, FS_Subset DEF Rows
<1> QED BY <1>3, <1>4, <1>5

\* The records of a bag in a bucket, each record's bucket given, and of a place; and
\* those of several.
One(bag, bucket, b, p) == {r \in DOMAIN bag : bucket[r] = b /\ r.place = p}
Part(bag, bucket, rows, places) ==
    {r \in DOMAIN bag : bucket[r] \in rows /\ r.place \in places}

\* A sum over rows and places, each of which counts its records, counts the records of
\* all of them.
LEMMA GeoSum ==
    ASSUME NEW bag, FiniteBag(bag), NEW table, NEW rows, IsFiniteSet(rows),
           NEW places \in SUBSET Place,
           NEW bucket, \A r \in DOMAIN bag : bucket[r] \in Int,
           \A b \in rows, p \in places : table[<<b, p>>] = Sum(bag, One(bag, bucket, b, p))
    PROVE  SumRows(table, rows \X places) = Sum(bag, Part(bag, bucket, rows, places))
<1> DEFINE S == rows \X places
           D == DOMAIN bag
           G == [k \in S |-> {r \in D : bucket[r] = k[1] /\ r.place = k[2]}]
<1>1. IsFiniteSet(S)
  <2>1. IsFiniteSet(places) BY Keys, FS_Subset
  <2> QED BY <2>1, FS_Product
<1>2. IsFiniteSet(D) /\ \A r \in D : bag[r] \in Nat BY CountType DEF FiniteBag
<1>3. \A k \in S : G[k] \in SUBSET D /\ table[k] = Sum(bag, G[k])
  <2> TAKE k \in S
  <2>1. PICK b \in rows, p \in places : k = <<b, p>> OBVIOUS
  <2>2. G[k] = One(bag, bucket, b, p) BY <2>1 DEF One
  <2>3. table[k] = Sum(bag, One(bag, bucket, b, p)) BY <2>1
  <2> QED BY <2>2, <2>3 DEF One
<1>4. \A k, l \in S : k # l => G[k] \intersect G[l] = {}
  <2> TAKE k, l \in S
  <2>1. PICK b \in rows, p \in places : k = <<b, p>> OBVIOUS
  <2>2. PICK c \in rows, q \in places : l = <<c, q>> OBVIOUS
  <2>3. /\ G[k] = {r \in D : bucket[r] = b /\ r.place = p}
        /\ G[l] = {r \in D : bucket[r] = c /\ r.place = q}
    BY <2>1, <2>2
  <2> QED BY <2>1, <2>2, <2>3
<1>5. UNION {G[k] : k \in S} = {r \in D : bucket[r] \in rows /\ r.place \in places}
  <2>1. ASSUME NEW r \in D, bucket[r] \in rows, r.place \in places
        PROVE  r \in UNION {G[k] : k \in S}
    <3> DEFINE k == <<bucket[r], r.place>>
    <3>1. k \in S /\ k[1] = bucket[r] /\ k[2] = r.place BY <2>1
    <3>2. r \in G[k] BY <3>1
    <3> QED BY <3>1, <3>2
  <2>2. \A k \in S : k[1] \in rows /\ k[2] \in places OBVIOUS
  <2>3. \A k \in S : \A r \in G[k] : r \in D /\ bucket[r] \in rows /\ r.place \in places
    BY <2>2
  <2> QED BY <2>1, <2>3
<1> HIDE DEF S, D, G
<1>6. Sum(table, S) = Sum(bag, UNION {G[k] : k \in S}) BY <1>1, <1>2, <1>3, <1>4, SumOfSums
<1> QED BY <1>5, <1>6 DEF SumRows, Sum, Part, S, D

\* Covered hours, and whole days, are counted place by place.
LEMMA GeoOfHours ==
    ASSUME UsageInv, NEW range, range.from \in Int, range.to \in Int, Aligned(range),
           range.granularity = "hour", CutHour <= range.from, range.from >= coverage,
           NEW places \in SUBSET Place
    PROVE  SumRows(geoHourly, Rows(Hour, range) \X places) = Calls(range, places)
<1> DEFINE rows == Rows(Hour, range)
           D == DOMAIN log
           bucket == [r \in D |-> r.hour]
<1>1. /\ IsFiniteSet(rows) /\ rows = Hour \intersect Buckets(range) BY RowsRead
<1>2. D \subseteq Rec /\ \A r \in D : r.hour \in Hour /\ r.hour \in Int BY Logged
<1>3. ASSUME NEW b \in rows, NEW p \in places
      PROVE  geoHourly[<<b, p>>] = Sum(log, One(log, bucket, b, p))
  <2>1. b \in Hour /\ b \in Int /\ range.from <= b BY <1>1, BucketsOfRange
  <2>2. CutHour \in Int /\ coverage \in Int BY CutLater DEF UsageInv, TimesOK, CutHour
  <2>3. b >= CutHour /\ b >= coverage BY <2>1, <2>2
  <2>4. geoHourly[<<b, p>>] = Count(log, OfHour(b) \intersect At({p}))
    BY <2>1, <2>3 DEF UsageInv, CountsTrue
  <2>5. D \intersect (OfHour(b) \intersect At({p})) = One(log, bucket, b, p)
    BY <1>2 DEF OfHour, At, One
  <2> QED BY <2>4, <2>5 DEF Count
<1>4. \A r \in D : bucket[r] \in Int BY <1>2
<1>5. Part(log, bucket, rows, places)
        = {r \in D : BucketOf(r, range) \in Buckets(range) /\ r.place \in places}
  BY <1>1, <1>2 DEF BucketOf, Part
<1> HIDE DEF rows, bucket
<1>6. SumRows(geoHourly, rows \X places) = Sum(log, Part(log, bucket, rows, places))
  BY <1>1, <1>3, <1>4, GeoSum DEF UsageInv, BagsOK
<1> QED BY <1>5, <1>6 DEF Calls, Number, Sum, rows

LEMMA GeoOfDays ==
    ASSUME UsageInv, NEW range, range.from \in Int, range.to \in Int, Aligned(range),
           range.granularity = "day", NEW places \in SUBSET Place
    PROVE  SumRows(geoDaily, Rows(Day, range) \X places) = Calls(range, places)
<1> DEFINE rows == Rows(Day, range)
           D == DOMAIN log
           bucket == [r \in D |-> utcDayBucket(r.hour)]
<1>1. /\ IsFiniteSet(rows) /\ rows = Day \intersect Buckets(range) BY RowsRead
<1>2. D \subseteq Rec /\ \A r \in D : utcDayBucket(r.hour) \in Day /\ utcDayBucket(r.hour) \in Int
  BY Logged
<1>3. ASSUME NEW b \in rows, NEW p \in places
      PROVE  geoDaily[<<b, p>>] = Sum(log, One(log, bucket, b, p))
  <2>1. b \in Day BY <1>1
  <2>2. geoDaily[<<b, p>>] = Count(log, OfDay(b) \intersect At({p}))
    BY <2>1 DEF UsageInv, CountsTrue
  <2>3. D \intersect (OfDay(b) \intersect At({p})) = One(log, bucket, b, p)
    BY <1>2 DEF OfDay, At, One
  <2> QED BY <2>2, <2>3 DEF Count
<1>4. \A r \in D : bucket[r] \in Int BY <1>2
<1>5. Part(log, bucket, rows, places)
        = {r \in D : BucketOf(r, range) \in Buckets(range) /\ r.place \in places}
  BY <1>1, <1>2 DEF BucketOf, Part
<1> HIDE DEF rows, bucket
<1>6. SumRows(geoDaily, rows \X places) = Sum(log, Part(log, bucket, rows, places))
  BY <1>1, <1>3, <1>4, GeoSum DEF UsageInv, BagsOK
<1> QED BY <1>5, <1>6 DEF Calls, Number, Sum, rows

\* A country or a region is never missed and never counted twice.
LEMMA GeoTrue == UsageInv => GeoIsHistory
<1> SUFFICES ASSUME UsageInv, NEW p \in Preset, NEW places \in Selections
             PROVE  LET range  == RangeOf(p)
                        answer == QueryGeo(range, places)
                    IN  \/ answer = Calls(range, places)
                        \/ /\ range.granularity = "hour" /\ now <= opened + DAY_MS
                           /\ answer = Calls(DailyRange(range), places)
  BY DEF GeoIsHistory
<1> DEFINE range == RangeOf(p)
<1>1. places \in SUBSET Place BY DEF Selections
<1>2. /\ range.granularity \in {"hour", "day"}
      /\ range.from \in Int /\ range.to \in Int /\ Aligned(range)
      /\ range.granularity = "hour" => CutHour <= range.from
      /\ DailyRange(range).granularity = "day"
      /\ DailyRange(range).from \in Int /\ DailyRange(range).to \in Int
      /\ Aligned(DailyRange(range))
  BY Asked DEF UsageInv
<1>3. CASE IsCovered(range)
  <2>1. range.granularity = "hour" /\ range.from >= coverage BY <1>3 DEF IsCovered
  <2>2. QueryGeo(range, places) = SumRows(geoHourly, Rows(Hour, range) \X places)
    BY <1>3 DEF QueryGeo
  <2> HIDE DEF range
  <2>3. QueryGeo(range, places) = Calls(range, places) BY <1>1, <1>2, <2>1, <2>2, GeoOfHours
  <2> QED BY <2>3 DEF range
<1>4. CASE ~ IsCovered(range)
  <2>1. QueryGeo(range, places)
          = SumRows(geoDaily, Rows(Day, DailyRange(range)) \X places)
    BY <1>4 DEF QueryGeo
  <2>2. range.granularity = "day" => DailyRange(range) = range BY DEF DailyRange
  <2>3. range.granularity = "hour" => now <= opened + DAY_MS BY <1>4, Transition
  <2> DEFINE whole == DailyRange(range)
  <2> HIDE DEF range, whole
  <2>4. SumRows(geoDaily, Rows(Day, whole) \X places) = Calls(whole, places)
    BY <1>1, <1>2, GeoOfDays DEF whole
  <2>5. QueryGeo(range, places) = Calls(DailyRange(range), places) BY <2>1, <2>4 DEF whole
  <2> QED BY <1>2, <2>2, <2>3, <2>5 DEF range
<1> QED BY <1>3, <1>4

\* The keys of the visitors name the records that have one.
LEMMA KeysOf ==
    /\ \A k \in HourKeys(log) :
         \E r \in DOMAIN log : r.visitor # NoVisitor /\ k = <<r.hour, r.visitor, r.place>>
    /\ \A r \in DOMAIN log : r.visitor # NoVisitor =>
         <<r.hour, r.visitor, r.place>> \in HourKeys(log)
    /\ \A k \in DayKeys(log) :
         \E r \in DOMAIN log :
           r.visitor # NoVisitor /\ k = <<utcDayBucket(r.hour), r.visitor, r.place>>
    /\ \A r \in DOMAIN log : r.visitor # NoVisitor =>
         <<utcDayBucket(r.hour), r.visitor, r.place>> \in DayKeys(log)
<1>1. /\ \A k \in HourKeys(log) :
           \E r \in DOMAIN log : r.visitor # NoVisitor /\ k = <<r.hour, r.visitor, r.place>>
      /\ \A r \in DOMAIN log : r.visitor # NoVisitor =>
           <<r.hour, r.visitor, r.place>> \in HourKeys(log)
  BY DEF HourKeys
<1>2. ASSUME NEW k \in DayKeys(log)
      PROVE  \E r \in DOMAIN log :
               r.visitor # NoVisitor /\ k = <<utcDayBucket(r.hour), r.visitor, r.place>>
  <2>1. PICK j \in HourKeys(log) : k = <<utcDayBucket(j[1]), j[2], j[3]>> BY DEF DayKeys
  <2>2. PICK r \in DOMAIN log : r.visitor # NoVisitor /\ j = <<r.hour, r.visitor, r.place>>
    BY <1>1
  <2>3. j[1] = r.hour /\ j[2] = r.visitor /\ j[3] = r.place BY <2>2
  <2> QED BY <2>1, <2>2, <2>3
<1>3. ASSUME NEW r \in DOMAIN log, r.visitor # NoVisitor
      PROVE  <<utcDayBucket(r.hour), r.visitor, r.place>> \in DayKeys(log)
  <2> DEFINE j == <<r.hour, r.visitor, r.place>>
  <2>1. j \in HourKeys(log) /\ j[1] = r.hour /\ j[2] = r.visitor /\ j[3] = r.place
    BY <1>1, <1>3
  <2> QED BY <2>1 DEF DayKeys
<1> QED BY <1>1, <1>2, <1>3

\* The visitors of some buckets, from keys that are those of the history there.
LEMMA VisitorsOf ==
    ASSUME NEW keys, NEW all, NEW rows,
           \A b \in rows : {k \in keys : k[1] = b} = {k \in all : k[1] = b}
    PROVE  {k[2] : k \in {j \in keys : j[1] \in rows}} = {k[2] : k \in {j \in all : j[1] \in rows}}
<1>1. ASSUME NEW k, k[1] \in rows PROVE k \in keys <=> k \in all
  <2>1. k \in {j \in keys : j[1] = k[1]} <=> k \in {j \in all : j[1] = k[1]} BY <1>1
  <2> QED BY <2>1
<1>2. {j \in keys : j[1] \in rows} = {j \in all : j[1] \in rows} BY <1>1
<1> QED BY <1>2

\* A visitor is counted once, and none is missed.
LEMMA VisitorsCounted == UsageInv => VisitorsAreHistory
<1> SUFFICES ASSUME UsageInv, NEW p \in Preset
             PROVE  LET range  == RangeOf(p)
                        answer == QueryUniqueVisitors(range)
                    IN  \/ answer = Seen(range)
                        \/ /\ range.granularity = "hour" /\ now <= opened + DAY_MS
                           /\ answer = Seen(DailyRange(range))
  BY DEF VisitorsAreHistory
<1> DEFINE range == RangeOf(p)
           whole == DailyRange(range)
           hours == Rows(Hour, range)
           days  == Rows(Day, whole)
<1>1. /\ range.granularity \in {"hour", "day"}
      /\ range.from \in Int /\ range.to \in Int /\ Aligned(range)
      /\ range.granularity = "hour" => CutHour <= range.from
      /\ whole.granularity = "day" /\ whole.from \in Int /\ whole.to \in Int
      /\ Aligned(whole) /\ CutDay <= whole.from
      /\ CutHour \in Int /\ CutDay \in Int /\ coverage \in Int
  BY Asked DEF UsageInv, TimesOK
<1>2. /\ \A h \in Hour : h \in Int
      /\ \A d \in Day : d \in Int
  BY Keys
<1>3. CASE IsCovered(range)
  <2>1. range.granularity = "hour" /\ range.from >= coverage BY <1>3 DEF IsCovered
  <2>2. QueryUniqueVisitors(range) = {k[2] : k \in {j \in visitorsHourly : j[1] \in hours}}
    BY <1>3 DEF QueryUniqueVisitors
  <2>3. hours = Hour \intersect Buckets(range) BY <1>1, <2>1, RowsRead
  <2> HIDE DEF range, hours
  <2>4. ASSUME NEW h \in hours
        PROVE  {k \in visitorsHourly : k[1] = h} = {k \in HourKeys(log) : k[1] = h}
    <3>1. h \in Hour /\ range.from <= h BY <1>1, <2>3, BucketsOfRange
    <3>2. h >= CutHour /\ h >= coverage BY <1>1, <1>2, <2>1, <3>1
    <3> QED BY <3>1, <3>2 DEF UsageInv, VisitorsTrue
  <2>5. QueryUniqueVisitors(range) = {k[2] : k \in {j \in HourKeys(log) : j[1] \in hours}}
    BY <2>2, <2>4, VisitorsOf
  <2>6. \A r \in DOMAIN log : r.hour \in hours <=> BucketOf(r, range) \in Buckets(range)
    BY <2>1, <2>3, Logged DEF BucketOf
  <2>7. \A k \in HourKeys(log) : k[1] \in hours => k[2] \in Seen(range)
    BY <2>6, KeysOf DEF Seen
  <2>8. \A v \in Seen(range) : \E k \in HourKeys(log) : k[1] \in hours /\ k[2] = v
    <3> TAKE v \in Seen(range)
    <3>1. PICK r \in DOMAIN log :
            v = r.visitor /\ r.visitor # NoVisitor /\ BucketOf(r, range) \in Buckets(range)
      BY DEF Seen
    <3>2. <<r.hour, r.visitor, r.place>> \in HourKeys(log) BY <3>1, KeysOf
    <3> WITNESS <<r.hour, r.visitor, r.place>> \in HourKeys(log)
    <3> QED BY <2>6, <3>1
  <2>9. QueryUniqueVisitors(range) = Seen(range) BY <2>5, <2>7, <2>8
  <2> QED BY <2>9 DEF range
<1>4. CASE ~ IsCovered(range)
  <2>1. QueryUniqueVisitors(range) = {k[2] : k \in {j \in visitorsDaily : j[1] \in days}}
    BY <1>4 DEF QueryUniqueVisitors
  <2>2. days = Day \intersect Buckets(whole) BY <1>1, RowsRead
  <2>3. range.granularity = "day" => whole = range BY DEF DailyRange
  <2>4. range.granularity = "hour" => now <= opened + DAY_MS BY <1>4, Transition
  <2> HIDE DEF range, whole, days
  <2>5. ASSUME NEW d \in days
        PROVE  {k \in visitorsDaily : k[1] = d} = {k \in DayKeys(log) : k[1] = d}
    <3>1. d \in Day /\ whole.from <= d BY <1>1, <2>2, BucketsOfRange
    <3>2. d >= CutDay BY <1>1, <1>2, <3>1
    <3> QED BY <3>1, <3>2 DEF UsageInv, VisitorsTrue
  <2>6. QueryUniqueVisitors(range) = {k[2] : k \in {j \in DayKeys(log) : j[1] \in days}}
    BY <2>1, <2>5, VisitorsOf
  <2>7. \A r \in DOMAIN log : utcDayBucket(r.hour) \in days <=> BucketOf(r, whole) \in Buckets(whole)
    BY <1>1, <2>2, Logged DEF BucketOf
  <2>8. \A k \in DayKeys(log) : k[1] \in days => k[2] \in Seen(whole)
    BY <2>7, KeysOf DEF Seen
  <2>9. \A v \in Seen(whole) : \E k \in DayKeys(log) : k[1] \in days /\ k[2] = v
    <3> TAKE v \in Seen(whole)
    <3>1. PICK r \in DOMAIN log :
            v = r.visitor /\ r.visitor # NoVisitor /\ BucketOf(r, whole) \in Buckets(whole)
      BY DEF Seen
    <3>2. <<utcDayBucket(r.hour), r.visitor, r.place>> \in DayKeys(log) BY <3>1, KeysOf
    <3> WITNESS <<utcDayBucket(r.hour), r.visitor, r.place>> \in DayKeys(log)
    <3> QED BY <2>7, <3>1
  <2>10. QueryUniqueVisitors(range) = Seen(whole) BY <2>6, <2>8, <2>9
  <2> QED BY <1>1, <2>3, <2>4, <2>10 DEF range, whole
<1> QED BY <1>3, <1>4

\* Requests are answered for the range they ask for.
LEMMA RangesTrue == UsageInv => RangesHold
<1> SUFFICES ASSUME UsageInv PROVE RangesHold OBVIOUS
<1>1. now \in Nat BY DEF UsageInv, TimesOK
<1>2. \A p \in Preset :
        PresetRangeHolds(p, now) /\ PresetOutlivesCleanup(p, now) /\ DaysContainHours(p, now)
  BY <1>1, PresetRanges, PresetsOutliveCleanup, DaysStandIn
<1>3. \A input \in CustomInput : input.from \in SUBSET Int /\ input.to \in SUBSET Int
  BY <1>1 DEF CustomInput
<1>4. \A input \in CustomInput : CustomRangeHolds(input, now) BY <1>1, <1>3, CustomRanges
<1> QED BY <1>2, <1>4 DEF RangesHold

-----------------------------------------------------------------------------
(* The theorems.                                                            *)

(* The tables of a database of any age count the history it was written,    *)
(* after every write, cleanup and failure, as far back as the last cleanup  *)
(* and the watermark of the detailed hours let them.                        *)
THEOREM UsageInvariant == Spec => []UsageInv
BY InitUsage, NextUsage, PTL DEF Spec

(* A preset is answered for whole buckets of its exact length that no       *)
(* cleanup has touched, a custom range for the buckets that contain it.     *)
THEOREM RangesAlwaysHold == Spec => []RangesHold
BY UsageInvariant, RangesTrue, PTL

(* Every bucket of the curve, the whole curve and the two totals of the     *)
(* summary are those of the history: no write is lost or doubled by the     *)
(* upserts, by a cleanup or by the place a range begins at.                 *)
THEOREM TimelineStaysHistory == Spec => []TimelineIsHistory
BY UsageInvariant, TimelineTrue, PTL

(* The calls of every country and region are those of the history, for the  *)
(* hours asked for or, within a day of the upgrade, for the days around.    *)
THEOREM GeoStaysHistory == Spec => []GeoIsHistory
BY UsageInvariant, GeoTrue, PTL

(* The same for the visitors, each counted once.                            *)
THEOREM VisitorsStayHistory == Spec => []VisitorsAreHistory
BY UsageInvariant, VisitorsCounted, PTL

(* On Cloudflare every record the sender knows to be written is counted,    *)
(* once, and nothing else is but what it takes for failed, once too.        *)
THEOREM LossStaysReported == Spec => []LossIsReported
<1>1. Inv => LossIsReported BY DEF Inv, LossIsReported
<1> QED BY <1>1, InitInv, NextInv, PTL DEF Spec
================================================================================
