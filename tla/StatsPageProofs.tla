---------------------------- MODULE StatsPageProofs ---------------------------
(***************************************************************************)
(* Theorems about StatsPage, for any number of requests: what its five     *)
(* invariants say holds in whatever order answers, maps and controls come. *)
(***************************************************************************)
EXTENDS StatsPage, SumTheorems

-----------------------------------------------------------------------------
(* The invariant.                                                           *)

\* A page whose rows are from the first n requests.
View(n) ==
    [panel    : [Panel -> [state : {"loading", "ready", "empty", "error"}, of : 0 .. MaxRequests]],
     drawn    : [{"map", "table"} -> Level],
     rows     : [Fetch -> 0 .. n],
     selected : Nat,
     line     : [is : {"loading", "empty", "error", "hour"}, of : Nat, hour : Nat]]

StatsType ==
    /\ requestId \in 0 .. MaxRequests
    /\ asked \in [Request -> RangeKey]
    /\ stage \in [Request -> {"none", "fetching", "maps", "over"}]
    /\ answered \in [Request -> SUBSET Fetch]
    /\ maps \in {"none", "loading", "ready"}
    /\ waiters \in Seq(Request)
    /\ mapLevel \in Level
    /\ page \in View(requestId)
    /\ summary \in [state : {"loading", "ready", "error"}, notice : BOOLEAN]
    /\ summaries \in SUBSET (1 .. requestId) /\ refreshing \in SUBSET (1 .. requestId)
    /\ disabled \in BOOLEAN

\* The requests that wait for the maps, in their order; the newest of all is not over
\* with geo rows while any of them waits.
Waits == requestId > 0 /\ stage[requestId] = "maps"
RequestsOK ==
    /\ \A r \in Request : stage[r] = "none" <=> r > requestId
    /\ \A r \in Request : stage[r] = "maps" <=> \E i \in 1 .. Len(waiters) : waiters[i] = r
    /\ \A r \in Request : stage[r] = "maps" => "geo" \in answered[r]
    /\ \A i, j \in 1 .. Len(waiters) : i < j => waiters[i] < waiters[j]
    /\ maps = "loading" <=> waiters # <<>>
    /\ Newest /\ "geo" \in answered[requestId] => waiters = <<>>

\* Charts show the rows that are stored, but for the geo rows of a request that waits.
Charts(view) ==
    /\ view.panel["timeline"].state = "ready" =>
         view.panel["timeline"].of = view.rows["timeline"] /\ view.rows["timeline"] # 0
    /\ \A p \in {"map", "table"} : view.panel[p].state = "ready" /\ ~Waits =>
         view.panel[p].of = view.rows["geo"] /\ view.rows["geo"] # 0
    /\ requestId = 0 => \A p \in Panel : view.panel[p].state # "error"

\* What is stored, and painted, of the newest request once it is answered.
StoredOf(r, f) == IF f \in answered[r] THEN r ELSE 0
Settled(view) ==
    /\ requestId > 0 /\ stage[requestId] \in {"maps", "over"} =>
         /\ \A f \in {"timeline", "geo"} : view.rows[f] = StoredOf(requestId, f)
         /\ view.panel["timeline"].state # "loading"
    /\ Newest => /\ \A p \in Panel : view.panel[p].state # "loading"
                 /\ view.line.is # "loading"

\* The strip and the text under it.
Strip(view) ==
    /\ view.line.is = "hour" => view.line = Selection(view) /\ view.selected \in 1 .. Hours(view)
    /\ view.panel["availability"].state = "ready" => view.line.is = "hour"

MapsOK ==
    /\ maps # "ready" => page.panel["map"].state # "ready"
    /\ NewestGeoShown
    /\ LevelShown

\* A refresh is under way as long as one of its parts is.
RefreshOK ==
    /\ requestId > 0 /\ summary.state = "loading" => summaries # {}
    /\ disabled => refreshing # {}
    /\ \A r \in refreshing : r \in summaries \/ stage[r] # "over"

StatsInv ==
    /\ StatsType /\ RequestsOK /\ Charts(page) /\ Settled(page) /\ Strip(page) /\ MapsOK
    /\ RefreshOK

-----------------------------------------------------------------------------
(* Painting.                                                                *)

\* A panel that is set to a state.
LEMMA SetPanel ==
    ASSUME NEW n \in 0 .. MaxRequests, NEW view \in View(n), NEW p \in Panel,
           NEW s \in {"loading", "ready", "empty", "error"}, NEW r \in 0 .. MaxRequests
    PROVE  LET w == [view EXCEPT !.panel[p] = [state |-> s, of |-> r]]
           IN  /\ w \in View(n)
               /\ w.panel = [q \in Panel |-> IF q = p THEN [state |-> s, of |-> r] ELSE view.panel[q]]
               /\ w.drawn = view.drawn /\ w.rows = view.rows
               /\ w.selected = view.selected /\ w.line = view.line
BY DEF View

LEMMA FailFacts ==
    ASSUME NEW n \in 0 .. MaxRequests, NEW view \in View(n), NEW p \in Panel,
           NEW r \in 0 .. MaxRequests
    PROVE  LET w == Fail(view, p, r)
           IN  /\ w \in View(n)
               /\ w.panel = [q \in Panel |->
                               IF q = p THEN [state |-> "error", of |-> r] ELSE view.panel[q]]
               /\ w.drawn = view.drawn /\ w.rows = view.rows
               /\ w.selected = view.selected /\ w.line = view.line
<1> DEFINE s == "error"
<1>1. s \in {"loading", "ready", "empty", "error"} OBVIOUS
<1>2. Fail(view, p, r) = [view EXCEPT !.panel[p] = [state |-> s, of |-> r]] BY DEF Fail
<1> HIDE DEF s
<1>3. LET w == [view EXCEPT !.panel[p] = [state |-> s, of |-> r]]
      IN  /\ w \in View(n)
          /\ w.panel = [q \in Panel |-> IF q = p THEN [state |-> s, of |-> r] ELSE view.panel[q]]
          /\ w.drawn = view.drawn /\ w.rows = view.rows
          /\ w.selected = view.selected /\ w.line = view.line
  BY <1>1, SetPanel
<1> QED BY <1>2, <1>3 DEF s

LEMMA DrawnFacts ==
    ASSUME NEW n \in 0 .. MaxRequests, NEW view \in View(n), NEW p \in Panel
    PROVE  LET w    == Drawn(view, p)
               from == view.rows[Source(p)]
               s    == IF from = 0 THEN "empty" ELSE "ready"
           IN  /\ w \in View(n) /\ from \in 0 .. n
               /\ w.panel = [q \in Panel |->
                               IF q = p THEN [state |-> s, of |-> from] ELSE view.panel[q]]
               /\ w.drawn = view.drawn /\ w.rows = view.rows
               /\ w.selected = view.selected /\ w.line = view.line
<1> DEFINE from == view.rows[Source(p)]
           s    == IF from = 0 THEN "empty" ELSE "ready"
<1>1. Source(p) \in Fetch BY DEF Source, Panel, Fetch
<1>2. from \in 0 .. n /\ from \in 0 .. MaxRequests BY <1>1, StatsPageAssumption DEF View
<1>3. s \in {"loading", "ready", "empty", "error"} OBVIOUS
<1>4. Drawn(view, p) = [view EXCEPT !.panel[p] = [state |-> s, of |-> from]] BY DEF Drawn
<1> HIDE DEF s, from
<1>5. LET w == [view EXCEPT !.panel[p] = [state |-> s, of |-> from]]
      IN  /\ w \in View(n)
          /\ w.panel = [q \in Panel |-> IF q = p THEN [state |-> s, of |-> from] ELSE view.panel[q]]
          /\ w.drawn = view.drawn /\ w.rows = view.rows
          /\ w.selected = view.selected /\ w.line = view.line
  BY <1>2, <1>3, SetPanel
<1> QED BY <1>2, <1>4, <1>5 DEF s, from

\* The map and the table, drawn for the level that is chosen.
LEMMA MapFacts ==
    ASSUME NEW n \in 0 .. MaxRequests, NEW view \in View(n), mapLevel \in Level
    PROVE  LET w    == RenderMap(view)
               from == view.rows["geo"]
               s    == IF from = 0 THEN "empty" ELSE "ready"
           IN  /\ w \in View(n) /\ from \in 0 .. n
               /\ w.panel = [q \in Panel |->
                               IF q = "map" THEN [state |-> s, of |-> from] ELSE view.panel[q]]
               /\ w.drawn = [q \in {"map", "table"} |-> IF q = "map" THEN mapLevel ELSE view.drawn[q]]
               /\ w.rows = view.rows /\ w.selected = view.selected /\ w.line = view.line
<1> DEFINE d == Drawn(view, "map")
           w == RenderMap(view)
<1>1. "map" \in Panel /\ Source("map") = "geo" BY DEF Panel, Source
<1>2. /\ d \in View(n) /\ view.rows["geo"] \in 0 .. n
      /\ d.panel = [q \in Panel |->
                      IF q = "map"
                      THEN [state |-> IF view.rows["geo"] = 0 THEN "empty" ELSE "ready",
                            of |-> view.rows["geo"]]
                      ELSE view.panel[q]]
      /\ d.drawn = view.drawn /\ d.rows = view.rows
      /\ d.selected = view.selected /\ d.line = view.line
  BY <1>1, DrawnFacts
<1>3. w = [d EXCEPT !.drawn["map"] = mapLevel] BY DEF RenderMap
<1> HIDE DEF d, w
<1>4. /\ w \in View(n) /\ w.panel = d.panel
      /\ w.drawn = [q \in {"map", "table"} |-> IF q = "map" THEN mapLevel ELSE d.drawn[q]]
      /\ w.rows = d.rows /\ w.selected = d.selected /\ w.line = d.line
  BY <1>2, <1>3 DEF View
<1> QED BY <1>2, <1>4 DEF w

LEMMA TableFacts ==
    ASSUME NEW n \in 0 .. MaxRequests, NEW view \in View(n), mapLevel \in Level
    PROVE  LET w    == RenderGeoTable(view)
               from == view.rows["geo"]
               s    == IF from = 0 THEN "empty" ELSE "ready"
           IN  /\ w \in View(n) /\ from \in 0 .. n
               /\ w.panel = [q \in Panel |->
                               IF q = "table" THEN [state |-> s, of |-> from] ELSE view.panel[q]]
               /\ w.drawn = [q \in {"map", "table"} |-> IF q = "table" THEN mapLevel ELSE view.drawn[q]]
               /\ w.rows = view.rows /\ w.selected = view.selected /\ w.line = view.line
<1> DEFINE d == Drawn(view, "table")
           w == RenderGeoTable(view)
<1>1. "table" \in Panel /\ Source("table") = "geo" BY DEF Panel, Source
<1>2. /\ d \in View(n) /\ view.rows["geo"] \in 0 .. n
      /\ d.panel = [q \in Panel |->
                      IF q = "table"
                      THEN [state |-> IF view.rows["geo"] = 0 THEN "empty" ELSE "ready",
                            of |-> view.rows["geo"]]
                      ELSE view.panel[q]]
      /\ d.drawn = view.drawn /\ d.rows = view.rows
      /\ d.selected = view.selected /\ d.line = view.line
  BY <1>1, DrawnFacts
<1>3. w = [d EXCEPT !.drawn["table"] = mapLevel] BY DEF RenderGeoTable
<1> HIDE DEF d, w
<1>4. /\ w \in View(n) /\ w.panel = d.panel
      /\ w.drawn = [q \in {"map", "table"} |-> IF q = "table" THEN mapLevel ELSE d.drawn[q]]
      /\ w.rows = d.rows /\ w.selected = d.selected /\ w.line = d.line
  BY <1>2, <1>3 DEF View
<1> QED BY <1>2, <1>4 DEF w

\* The hours of the strip, and what is selected in it.
LEMMA HoursFacts ==
    ASSUME NEW n \in 0 .. MaxRequests, NEW view \in View(n), asked \in [Request -> RangeKey]
    PROVE  /\ view.rows["availability"] \in 0 .. n
           /\ Hours(view) \in 0 .. 2
           /\ Hours(view) = 0 <=> view.rows["availability"] = 0
<1>1. view.rows["availability"] \in 0 .. n BY DEF View, Fetch
<1>2. \A r \in 1 .. n : asked[r] \in 1 .. 2
  BY StatsPageAssumption DEF Request, RangeKey
<1> QED BY <1>1, <1>2 DEF Hours

LEMMA AvailabilityFacts ==
    ASSUME NEW n \in 0 .. MaxRequests, NEW view \in View(n), asked \in [Request -> RangeKey]
    PROVE  LET w    == RenderAvailability(view)
               from == view.rows["availability"]
               s    == IF from = 0 THEN "empty" ELSE "ready"
           IN  /\ w \in View(n) /\ Strip(w) /\ w.line.is \in {"empty", "hour"}
               /\ w.panel = [q \in Panel |->
                     IF q = "availability" THEN [state |-> s, of |-> from] ELSE view.panel[q]]
               /\ w.drawn = view.drawn /\ w.rows = view.rows
<1> DEFINE d == Drawn(view, "availability")
           from == view.rows["availability"]
           s    == IF from = 0 THEN "empty" ELSE "ready"
           hours == Hours(view)
           w == RenderAvailability(view)
<1>1. "availability" \in Panel /\ Source("availability") = "availability" BY DEF Panel, Source
<1>2. /\ d \in View(n) /\ from \in 0 .. n
      /\ d.panel = [q \in Panel |->
                      IF q = "availability" THEN [state |-> s, of |-> from] ELSE view.panel[q]]
      /\ d.drawn = view.drawn /\ d.rows = view.rows
      /\ d.selected = view.selected /\ d.line = view.line
  BY <1>1, DrawnFacts
<1>3. hours \in 0 .. 2 /\ (hours = 0 <=> from = 0) BY HoursFacts
<1> HIDE DEF d, s, w
<1>4. CASE hours = 0
  <2>1. w = [d EXCEPT !.line = Text("empty")] BY <1>4 DEF RenderAvailability, d, w
  <2>2. Text("empty") \in [is : {"loading", "empty", "error", "hour"}, of : Nat, hour : Nat]
    BY DEF Text
  <2>3. /\ w \in View(n) /\ w.panel = d.panel /\ w.drawn = d.drawn /\ w.rows = d.rows
        /\ w.line = Text("empty")
    BY <1>2, <2>1, <2>2 DEF View
  <2>4. w.line.is = "empty" BY <2>3 DEF Text
  <2>5. w.panel["availability"].state # "ready" BY <1>1, <1>2, <1>3, <1>4, <2>3 DEF s
  <2> QED BY <1>2, <2>3, <2>4, <2>5 DEF Strip, w, s
<1>5. CASE hours # 0
  <2> DEFINE line == [is |-> "hour", of |-> from, hour |-> hours]
  <2>1. w = [[d EXCEPT !.selected = hours] EXCEPT !.line = line]
    <3>1. LET strip == [d EXCEPT !.selected = hours]
          IN  Selection(strip) = line /\ w = [strip EXCEPT !.line = Selection(strip)]
      BY <1>2, <1>5 DEF RenderAvailability, SelectLast, Selection, View, d, w
    <3> QED BY <3>1
  <2>2. line \in [is : {"loading", "empty", "error", "hour"}, of : Nat, hour : Nat]
    BY <1>2, <1>3
  <2>3. hours \in Nat /\ hours \in 1 .. hours BY <1>3, <1>5
  <2>4. line.is = "hour" OBVIOUS
  <2> HIDE DEF hours, line
  <2>5. /\ w \in View(n) /\ w.panel = d.panel /\ w.drawn = d.drawn /\ w.rows = d.rows
        /\ w.line = line /\ w.selected = hours
    BY <1>2, <2>1, <2>2, <2>3 DEF View
  <2>6. Hours(w) = hours BY <1>2, <2>5 DEF Hours, hours
  <2>7. Selection(w) = line BY <1>2, <2>5 DEF Selection, line
  <2> QED BY <1>2, <2>3, <2>4, <2>5, <2>6, <2>7 DEF Strip, w, s
<1> QED BY <1>4, <1>5

\* Rows that are stored, or forgotten because their fetch failed.
LEMMA StoreFacts ==
    ASSUME NEW n \in 0 .. MaxRequests, NEW view \in View(n), NEW f \in Fetch,
           NEW r \in 0 .. n, NEW got \in SUBSET Fetch
    PROVE  LET w == Store(view, f, r, got)
           IN  /\ w \in View(n)
               /\ w.rows = [e \in Fetch |-> IF e = f THEN (IF f \in got THEN r ELSE 0)
                                            ELSE view.rows[e]]
               /\ w.panel = view.panel /\ w.drawn = view.drawn
               /\ w.selected = view.selected /\ w.line = view.line
<1> DEFINE x == IF f \in got THEN r ELSE 0
<1>1. x \in 0 .. n OBVIOUS
<1>2. Store(view, f, r, got) = [view EXCEPT !.rows[f] = x] BY DEF Store
<1> HIDE DEF x
<1>3. LET w == [view EXCEPT !.rows[f] = x]
      IN  /\ w \in View(n)
          /\ w.rows = [e \in Fetch |-> IF e = f THEN x ELSE view.rows[e]]
          /\ w.panel = view.panel /\ w.drawn = view.drawn
          /\ w.selected = view.selected /\ w.line = view.line
  BY <1>1 DEF View
<1> QED BY <1>2, <1>3 DEF x

\* The timeline's part of a settled request.
LEMMA TimelinePainted ==
    ASSUME NEW n \in 0 .. MaxRequests, NEW view \in View(n), NEW r \in 1 .. n,
           NEW got \in SUBSET Fetch
    PROVE  LET w == PaintTimeline(view, r, got)
           IN  /\ w \in View(n)
               /\ w.rows = [e \in Fetch |->
                     IF e = "timeline" THEN (IF "timeline" \in got THEN r ELSE 0) ELSE view.rows[e]]
               /\ w.panel = [q \in Panel |->
                     IF q = "timeline"
                     THEN [state |-> IF "timeline" \in got THEN "ready" ELSE "error", of |-> r]
                     ELSE view.panel[q]]
               /\ w.drawn = view.drawn /\ w.selected = view.selected /\ w.line = view.line
<1> DEFINE stored == Store(view, "timeline", r, got)
<1>1. "timeline" \in Fetch /\ "timeline" \in Panel /\ Source("timeline") = "timeline"
      /\ r \in 0 .. n /\ r \in 0 .. MaxRequests /\ r # 0
  BY StatsPageAssumption DEF Fetch, Panel, Source
<1>2. /\ stored \in View(n)
      /\ stored.rows = [e \in Fetch |->
            IF e = "timeline" THEN (IF "timeline" \in got THEN r ELSE 0) ELSE view.rows[e]]
      /\ stored.panel = view.panel /\ stored.drawn = view.drawn
      /\ stored.selected = view.selected /\ stored.line = view.line
  BY <1>1, StoreFacts
<1> HIDE DEF stored
<1>3. CASE "timeline" \in got
  <2>1. PaintTimeline(view, r, got) = Drawn(stored, "timeline")
    BY <1>3 DEF PaintTimeline, RenderTimeline, stored
  <2>2. stored.rows["timeline"] = r BY <1>1, <1>2, <1>3
  <2> QED BY <1>1, <1>2, <1>3, <2>1, <2>2, DrawnFacts
<1>4. CASE "timeline" \notin got
  <2>1. PaintTimeline(view, r, got) = Fail(stored, "timeline", r)
    BY <1>4 DEF PaintTimeline, stored
  <2> QED BY <1>1, <1>2, <1>4, <2>1, FailFacts
<1> QED BY <1>3, <1>4

\* The availability's part.
LEMMA AvailabilityPainted ==
    ASSUME NEW n \in 0 .. MaxRequests, NEW view \in View(n), NEW r \in 1 .. n,
           NEW got \in SUBSET Fetch, asked \in [Request -> RangeKey]
    PROVE  LET w == PaintAvailability(view, r, got)
           IN  /\ w \in View(n) /\ Strip(w) /\ w.line.is # "loading"
               /\ w.rows["timeline"] = view.rows["timeline"] /\ w.rows["geo"] = view.rows["geo"]
               /\ w.panel["availability"].state # "loading"
               /\ \A q \in Panel \ {"availability"} : w.panel[q] = view.panel[q]
               /\ w.drawn = view.drawn
<1> DEFINE stored == Store(view, "availability", r, got)
           w == PaintAvailability(view, r, got)
<1>1. "availability" \in Fetch /\ "timeline" \in Fetch /\ "geo" \in Fetch /\ "availability" \in Panel
      /\ r \in 0 .. n /\ r \in 0 .. MaxRequests /\ r # 0
  BY StatsPageAssumption DEF Fetch, Panel
<1>2. /\ stored \in View(n)
      /\ stored.rows = [e \in Fetch |->
            IF e = "availability" THEN (IF "availability" \in got THEN r ELSE 0) ELSE view.rows[e]]
      /\ stored.panel = view.panel /\ stored.drawn = view.drawn
  BY <1>1, StoreFacts
<1> HIDE DEF stored, w
<1>3. CASE "availability" \in got
  <2>1. w = RenderAvailability(stored) BY <1>3 DEF PaintAvailability, stored, w
  <2>2. /\ w \in View(n) /\ Strip(w) /\ w.line.is \in {"empty", "hour"}
        /\ w.panel = [q \in Panel |->
              IF q = "availability"
              THEN [state |-> IF stored.rows["availability"] = 0 THEN "empty" ELSE "ready",
                    of |-> stored.rows["availability"]]
              ELSE stored.panel[q]]
        /\ w.drawn = stored.drawn /\ w.rows = stored.rows
    BY <1>2, <2>1, AvailabilityFacts
  <2> QED BY <1>1, <1>2, <2>2 DEF w
<1>4. CASE "availability" \notin got
  <2> DEFINE failed == Fail(stored, "availability", r)
  <2>1. w = [failed EXCEPT !.line = Text("error")]
    BY <1>4 DEF PaintAvailability, stored, w
  <2>2. /\ failed \in View(n)
        /\ failed.panel = [q \in Panel |->
              IF q = "availability" THEN [state |-> "error", of |-> r] ELSE stored.panel[q]]
        /\ failed.drawn = stored.drawn /\ failed.rows = stored.rows
    BY <1>1, <1>2, FailFacts
  <2>3. Text("error") \in [is : {"loading", "empty", "error", "hour"}, of : Nat, hour : Nat]
    BY DEF Text
  <2> HIDE DEF failed
  <2>4. /\ w \in View(n) /\ w.panel = failed.panel /\ w.drawn = failed.drawn
        /\ w.rows = failed.rows /\ w.line = Text("error")
    BY <2>1, <2>2, <2>3 DEF View
  <2>5. w.line.is = "error" BY <2>4 DEF Text
  <2>6. w.panel["availability"].state = "error" BY <1>1, <2>2, <2>4
  <2> QED BY <1>1, <1>2, <2>2, <2>4, <2>5, <2>6 DEF Strip, w
<1> QED BY <1>3, <1>4

\* What a request that waited for the maps paints when it goes on.
LEMMA AfterMapsPainted ==
    ASSUME NEW n \in 0 .. MaxRequests, NEW view \in View(n), NEW r \in 1 .. n,
           NEW got \in SUBSET Fetch, NEW ok \in BOOLEAN,
           asked \in [Request -> RangeKey], mapLevel \in Level
    PROVE  LET w     == AfterMaps(view, r, got, ok)
               from  == view.rows["geo"]
               drawn == [state |-> IF from = 0 THEN "empty" ELSE "ready", of |-> from]
           IN  /\ w \in View(n) /\ Strip(w) /\ w.line.is # "loading"
               /\ w.rows["timeline"] = view.rows["timeline"] /\ w.rows["geo"] = from
               /\ w.panel["availability"].state # "loading"
               /\ w.panel["timeline"] = view.panel["timeline"]
               /\ w.panel["table"] = drawn /\ w.drawn["table"] = mapLevel
               /\ ok /\ r = requestId => w.panel["map"] = drawn /\ w.drawn["map"] = mapLevel
               /\ ok /\ r # requestId =>
                    w.panel["map"] = view.panel["map"] /\ w.drawn["map"] = view.drawn["map"]
               /\ ~ok => w.panel["map"].state = "error"
<1> DEFINE a == DrawMap(view, r, ok)
           b == RenderGeoTable(a)
           from  == view.rows["geo"]
           drawn == [state |-> IF from = 0 THEN "empty" ELSE "ready", of |-> from]
<1>1. /\ "map" \in Panel /\ "table" \in Panel /\ "timeline" \in Panel /\ "availability" \in Panel
      /\ "geo" \in Fetch /\ "timeline" \in Fetch
      /\ r \in 0 .. MaxRequests
  BY StatsPageAssumption DEF Panel, Fetch
<1>2. /\ a \in View(n) /\ a.rows = view.rows
      /\ a.panel["timeline"] = view.panel["timeline"]
      /\ ok /\ r = requestId => a.panel["map"] = drawn /\ a.drawn["map"] = mapLevel
      /\ ok /\ r # requestId =>
           a.panel["map"] = view.panel["map"] /\ a.drawn["map"] = view.drawn["map"]
      /\ ~ok => a.panel["map"].state = "error"
  <2>1. CASE ~ok
    <3>1. a = Fail(view, "map", r) BY <2>1 DEF DrawMap
    <3> HIDE DEF a
    <3>2. /\ a \in View(n) /\ a.rows = view.rows
          /\ a.panel = [q \in Panel |->
                          IF q = "map" THEN [state |-> "error", of |-> r] ELSE view.panel[q]]
      BY <1>1, <3>1, FailFacts
    <3> QED BY <1>1, <2>1, <3>2
  <2>2. CASE ok /\ r = requestId
    <3>1. a = RenderMap(view) BY <2>2 DEF DrawMap
    <3> HIDE DEF a
    <3>2. /\ a \in View(n) /\ a.rows = view.rows
          /\ a.panel = [q \in Panel |-> IF q = "map" THEN drawn ELSE view.panel[q]]
          /\ a.drawn = [q \in {"map", "table"} |-> IF q = "map" THEN mapLevel ELSE view.drawn[q]]
      BY <3>1, MapFacts
    <3> QED BY <1>1, <2>2, <3>2
  <2>3. CASE ok /\ r # requestId
    <3>1. a = view BY <2>3 DEF DrawMap
    <3> QED BY <2>3, <3>1
  <2> QED BY <2>1, <2>2, <2>3
<1> HIDE DEF a
<1>3. /\ b \in View(n) /\ b.rows = view.rows
      /\ b.panel["timeline"] = view.panel["timeline"]
      /\ b.panel["map"] = a.panel["map"] /\ b.drawn["map"] = a.drawn["map"]
      /\ b.panel["table"] = drawn /\ b.drawn["table"] = mapLevel
  <2>1. a \in View(n) /\ a.rows = view.rows BY <1>2
  <2>2. /\ b \in View(n) /\ b.rows = a.rows
        /\ b.panel = [q \in Panel |-> IF q = "table" THEN drawn ELSE a.panel[q]]
        /\ b.drawn = [q \in {"map", "table"} |-> IF q = "table" THEN mapLevel ELSE a.drawn[q]]
    BY <2>1, TableFacts
  <2>3. a.panel["timeline"] = view.panel["timeline"] BY <1>2
  <2> HIDE DEF b, drawn
  <2> QED BY <1>1, <2>1, <2>2, <2>3
<1> HIDE DEF b, drawn, from
<1>4. AfterMaps(view, r, got, ok) = PaintAvailability(b, r, got) BY DEF AfterMaps, a, b
<1>5. LET w == PaintAvailability(b, r, got)
      IN  /\ w \in View(n) /\ Strip(w) /\ w.line.is # "loading"
          /\ w.rows["timeline"] = b.rows["timeline"] /\ w.rows["geo"] = b.rows["geo"]
          /\ w.panel["availability"].state # "loading"
          /\ \A q \in Panel \ {"availability"} : w.panel[q] = b.panel[q]
          /\ w.drawn = b.drawn
  BY <1>3, AvailabilityPainted
<1> QED BY <1>1, <1>2, <1>3, <1>4, <1>5 DEF drawn, from

-----------------------------------------------------------------------------
(* The requests that go on when the maps are there, or are not.              *)

\* A recursion of n steps has a result.
Steps(n, S) == [(1 .. n) \X S -> S]
Result(f, n, S, start, step) ==
    f \in [0 .. n -> S] /\ f[0] = start /\ \A i \in 1 .. n : f[i] = step[<<i, f[i - 1]>>]

LEMMA Unfolds ==
    ASSUME NEW S, NEW start \in S, NEW n \in Nat, NEW step \in Steps(n, S)
    PROVE  \E f : Result(f, n, S, start, step)
<1> SUFFICES \E f \in [0 .. n -> S] : f[0] = start /\ \A i \in 1 .. n : f[i] = step[<<i, f[i - 1]>>]
  BY DEF Result
<1> USE DEF Steps
<1> DEFINE Solves(f, m) == f[0] = start /\ \A i \in 1 .. m : f[i] = step[<<i, f[i - 1]>>]
           bad == {m \in 0 .. n : ~ \E f \in [0 .. m -> S] : Solves(f, m)}
<1>0. n \notin bad => \E f \in [0 .. n -> S] : Solves(f, n)
  <2> HIDE DEF Solves
  <2> QED OBVIOUS
<1> SUFFICES ASSUME bad # {} PROVE FALSE
  <2>1. n \notin bad OBVIOUS
  <2> QED BY <1>0, <2>1
<1>1. bad \in SUBSET Nat OBVIOUS
<1>2. Min(bad) \in bad /\ \A m \in bad : Min(bad) <= m
  <2> HIDE DEF bad
  <2> QED BY <1>1, MinOfNaturals
<1>3. PICK m \in 0 .. n : /\ ~ \E f \in [0 .. m -> S] : Solves(f, m)
                          /\ \A k \in bad : m <= k
  BY <1>2
<1>4. m # 0
  <2> SUFFICES ASSUME m = 0 PROVE FALSE OBVIOUS
  <2> DEFINE f == [i \in 0 .. 0 |-> start]
  <2>1. f \in [0 .. m -> S] /\ Solves(f, m) OBVIOUS
  <2> QED BY <1>3, <2>1
<1>5. m - 1 \in 0 .. n /\ m - 1 \notin bad /\ m \in 1 .. n BY <1>1, <1>3, <1>4
<1>6. PICK f \in [0 .. m - 1 -> S] : Solves(f, m - 1) BY <1>5
<1> DEFINE g == [i \in 0 .. m |-> IF i = m THEN step[<<m, f[m - 1]>>] ELSE f[i]]
<1>7. f[m - 1] \in S /\ step[<<m, f[m - 1]>>] \in S BY <1>5, <1>6
<1>8. g \in [0 .. m -> S] BY <1>5, <1>6, <1>7
<1>9. g[0] = start BY <1>5, <1>6
<1>10. ASSUME NEW i \in 1 .. m PROVE g[i] = step[<<i, g[i - 1]>>]
  <2>1. i - 1 \in 0 .. m /\ i - 1 # m /\ g[i - 1] = f[i - 1] BY <1>5
  <2>2. CASE i = m BY <2>1, <2>2
  <2>3. CASE i # m
    <3>1. i \in 1 .. m - 1 /\ g[i] = f[i] BY <1>5, <2>3
    <3> QED BY <1>6, <2>1, <3>1
  <2> QED BY <2>2, <2>3
<1>11. Solves(g, m) BY <1>9, <1>10
<1> QED BY <1>3, <1>8, <1>11

\* What stands on the page when they have gone on: the last of them draws the table, the
\* newest of all the map.
LEMMA Resumed ==
    ASSUME StatsType, RequestsOK, waiters # <<>>, NEW ok \in BOOLEAN
    PROVE  LET w     == Resume(ok)
               from  == page.rows["geo"]
               drawn == [state |-> IF from = 0 THEN "empty" ELSE "ready", of |-> from]
           IN  /\ w \in View(requestId) /\ Strip(w) /\ w.line.is # "loading"
               /\ w.rows["timeline"] = page.rows["timeline"] /\ w.rows["geo"] = from
               /\ w.panel["availability"].state # "loading"
               /\ w.panel["timeline"] = page.panel["timeline"]
               /\ w.panel["table"] = drawn /\ w.drawn["table"] = mapLevel
               /\ ok /\ Waits => w.panel["map"] = drawn /\ w.drawn["map"] = mapLevel
               /\ ok /\ ~Waits =>
                    w.panel["map"] = page.panel["map"] /\ w.drawn["map"] = page.drawn["map"]
               /\ ~ok => w.panel["map"].state = "error"
<1> DEFINE n == Len(waiters)
           N == requestId
           V == View(N)
           Go(view, i) == AfterMaps(view, waiters[i], answered[waiters[i]], ok)
           Runs(g) == g = [i \in 0 .. n |-> IF i = 0 THEN page ELSE Go(g[i - 1], i)]
           after == CHOOSE g : Runs(g)
           from  == page.rows["geo"]
           drawn == [state |-> IF from = 0 THEN "empty" ELSE "ready", of |-> from]
           Good(w, i) ==
              /\ w \in V
              /\ w.rows["timeline"] = page.rows["timeline"] /\ w.rows["geo"] = from
              /\ w.panel["timeline"] = page.panel["timeline"]
              /\ i # 0 => /\ Strip(w) /\ w.line.is # "loading"
                          /\ w.panel["availability"].state # "loading"
                          /\ w.panel["table"] = drawn /\ w.drawn["table"] = mapLevel
                          /\ ok /\ waiters[i] = N =>
                               w.panel["map"] = drawn /\ w.drawn["map"] = mapLevel
                          /\ ~ok => w.panel["map"].state = "error"
              /\ ok /\ (i = 0 \/ waiters[i] # N) =>
                   w.panel["map"] = page.panel["map"] /\ w.drawn["map"] = page.drawn["map"]
<1>1. n \in Nat /\ n # 0 /\ N \in 0 .. MaxRequests /\ page \in V
      /\ asked \in [Request -> RangeKey] /\ mapLevel \in Level
      /\ \A i \in 1 .. n : waiters[i] \in Request
  BY DEF StatsType
<1>2. \A i \in 1 .. n : waiters[i] \in 1 .. N /\ answered[waiters[i]] \in SUBSET Fetch
  <2> TAKE i \in 1 .. n
  <2> DEFINE r == waiters[i]
  <2>1. r \in Request BY <1>1
  <2>2. stage[r] = "maps" BY <2>1 DEF RequestsOK
  <2>3. ~ (r > N) BY <2>1, <2>2 DEF RequestsOK
  <2> QED BY <1>1, <2>1, <2>3 DEF StatsType, Request
<1>3. \A i \in 2 .. n : waiters[i - 1] # N
  <2> TAKE i \in 2 .. n
  <2>1. i - 1 \in 1 .. n /\ i \in 1 .. n /\ i - 1 < i BY <1>1
  <2>2. waiters[i - 1] < waiters[i] BY <2>1 DEF RequestsOK
  <2> QED BY <1>1, <1>2, <2>1, <2>2
<1>4. Waits <=> waiters[n] = N
  <2>1. n \in 1 .. n BY <1>1
  <2>2. ASSUME waiters[n] = N PROVE Waits
    BY <1>1, <1>2, <2>1, <2>2 DEF Waits, RequestsOK
  <2>3. ASSUME Waits PROVE waiters[n] = N
    <3>1. N \in Request BY <1>1, <2>3 DEF Waits, Request
    <3>2. PICK i \in 1 .. n : waiters[i] = N BY <2>3, <3>1 DEF Waits, RequestsOK
    <3>3. i = n
      <4> SUFFICES ASSUME i # n PROVE FALSE OBVIOUS
      <4>1. i < n /\ waiters[i] < waiters[n] BY <1>1, <2>1, <3>2 DEF RequestsOK
      <4> QED BY <1>1, <1>2, <2>1, <3>2, <4>1
    <3> QED BY <3>2, <3>3
  <2> QED BY <2>2, <2>3
<1> HIDE DEF n, N, from, drawn
<1>5. ASSUME NEW view \in V, NEW i \in 1 .. n
      PROVE  LET w == Go(view, i)
                 rows == view.rows["geo"]
                 redrawn == [state |-> IF rows = 0 THEN "empty" ELSE "ready", of |-> rows]
             IN  /\ w \in V /\ Strip(w) /\ w.line.is # "loading"
                 /\ w.rows["timeline"] = view.rows["timeline"] /\ w.rows["geo"] = rows
                 /\ w.panel["availability"].state # "loading"
                 /\ w.panel["timeline"] = view.panel["timeline"]
                 /\ w.panel["table"] = redrawn /\ w.drawn["table"] = mapLevel
                 /\ ok /\ waiters[i] = N => w.panel["map"] = redrawn /\ w.drawn["map"] = mapLevel
                 /\ ok /\ waiters[i] # N =>
                      w.panel["map"] = view.panel["map"] /\ w.drawn["map"] = view.drawn["map"]
                 /\ ~ok => w.panel["map"].state = "error"
  <2> DEFINE r == waiters[i]
             got == answered[r]
  <2>1. r \in 1 .. N /\ got \in SUBSET Fetch BY <1>2
  <2> HIDE DEF r, got, V
  <2>2. N \in 0 .. MaxRequests /\ asked \in [Request -> RangeKey] /\ mapLevel \in Level
        /\ view \in View(N)
    BY <1>1 DEF V
  <2> QED BY <2>1, <2>2, AfterMapsPainted DEF N, r, got, V
<1>6. Runs(after)
  <2> DEFINE step == [k \in (1 .. n) \X V |-> Go(k[2], k[1])]
  <2>1. step \in [(1 .. n) \X V -> V]
    <3>1. \A k \in (1 .. n) \X V : Go(k[2], k[1]) \in V
      <4> TAKE k \in (1 .. n) \X V
      <4>1. k[1] \in 1 .. n /\ k[2] \in V OBVIOUS
      <4> HIDE DEF Go, V
      <4> QED BY <1>5, <4>1
    <3> HIDE DEF Go, V
    <3> QED BY <3>1
  <2> HIDE DEF step, V
  <2>2. PICK f \in [0 .. n -> V] : f[0] = page /\ \A i \in 1 .. n : f[i] = step[<<i, f[i - 1]>>]
    <3>1. page \in V /\ n \in Nat BY <1>1 DEF V
    <3> DEFINE start == page
    <3> HIDE DEF start
    <3>2. start \in V BY <3>1 DEF start
    <3>3. step \in Steps(n, V) BY <2>1 DEF Steps
    <3>4. \E f : Result(f, n, V, start, step) BY <3>1, <3>2, <3>3, Unfolds
    <3> QED BY <3>4 DEF Result, start
  <2>3. ASSUME NEW i \in 1 .. n PROVE f[i] = Go(f[i - 1], i)
    <3>1. i - 1 \in 0 .. n /\ f[i - 1] \in V BY <1>1, <2>2
    <3>2. <<i, f[i - 1]>> \in (1 .. n) \X V BY <3>1
    <3>3. step[<<i, f[i - 1]>>] = Go(f[i - 1], i) BY <3>2 DEF step
    <3> QED BY <2>2, <3>3
  <2> HIDE DEF Go
  <2>4. \A i \in 0 .. n : i # 0 => i \in 1 .. n BY <1>1
  <2>5. Runs(f) BY <2>2, <2>3, <2>4
  <2> HIDE DEF Runs
  <2> QED BY <2>5
<1>7. after[0] = page /\ \A i \in 1 .. n : after[i] = Go(after[i - 1], i)
  <2> HIDE DEF after, Go
  <2> QED BY <1>1, <1>6
<1>8. Resume(ok) = after[n] BY DEF Resume, n
<1> HIDE DEF after, Go, V
<1>9. Good(after[0], 0) BY <1>1, <1>7 DEF from
<1>10. ASSUME NEW i \in 1 .. n, Good(after[i - 1], i - 1) PROVE Good(after[i], i)
  <2>1. after[i - 1] \in V /\ after[i] = Go(after[i - 1], i) BY <1>7, <1>10
  <2>2. i - 1 = 0 \/ waiters[i - 1] # N BY <1>1, <1>3
  <2>3. (after[i - 1]).rows["geo"] = from BY <1>10
  <2> DEFINE v == after[i - 1]
             w == after[i]
  <2>4. ok => v.panel["map"] = page.panel["map"] /\ v.drawn["map"] = page.drawn["map"]
    BY <1>10, <2>2
  <2>5. v.rows["timeline"] = page.rows["timeline"] /\ v.panel["timeline"] = page.panel["timeline"]
    BY <1>10
  <2> HIDE DEF v, w
  <2>6. /\ w \in V /\ Strip(w) /\ w.line.is # "loading"
        /\ w.rows["timeline"] = v.rows["timeline"] /\ w.rows["geo"] = v.rows["geo"]
        /\ w.panel["availability"].state # "loading"
        /\ w.panel["timeline"] = v.panel["timeline"]
        /\ w.panel["table"] = drawn /\ w.drawn["table"] = mapLevel
        /\ ok /\ waiters[i] = N => w.panel["map"] = drawn /\ w.drawn["map"] = mapLevel
        /\ ok /\ waiters[i] # N =>
             w.panel["map"] = v.panel["map"] /\ w.drawn["map"] = v.drawn["map"]
        /\ ~ok => w.panel["map"].state = "error"
    BY <1>5, <2>1, <2>3 DEF drawn, v, w
  <2>7. v.rows["geo"] = from /\ i # 0 BY <2>3 DEF v
  <2>8. Good(w, i) BY <2>4, <2>5, <2>6, <2>7
  <2> QED BY <2>8 DEF w
<1> HIDE DEF Good
<1>11. Good(after[n], n)
  <2> DEFINE bad == {i \in 0 .. n : ~Good(after[i], i)}
  <2> SUFFICES ASSUME bad # {} PROVE FALSE BY <1>1
  <2>1. bad \in SUBSET Nat BY <1>1
  <2>2. Min(bad) \in bad /\ \A i \in bad : Min(bad) <= i
    <3> HIDE DEF bad
    <3> QED BY <2>1, MinOfNaturals
  <2>3. PICK m \in 0 .. n : ~Good(after[m], m) /\ \A i \in bad : m <= i BY <2>2
  <2>4. m # 0 BY <1>9, <2>3
  <2>5. m \in 1 .. n /\ m - 1 \in 0 .. n /\ ~ (m <= m - 1) BY <1>1, <2>3, <2>4
  <2>6. Good(after[m - 1], m - 1) BY <2>3, <2>5
  <2> QED BY <1>10, <2>3, <2>5, <2>6
<1> QED BY <1>1, <1>4, <1>8, <1>11 DEF Good, N, V, from, drawn

-----------------------------------------------------------------------------
(* A step keeps the invariant.                                               *)

LEMMA InitStats == Init => StatsInv
<1> SUFFICES ASSUME Init PROVE StatsInv OBVIOUS
<1> USE StatsPageAssumption
<1>1. StatsType
  <2>1. page \in View(0)
    BY DEF Init, View, Text, Level
  <2>2. asked \in [Request -> RangeKey] /\ stage \in [Request -> {"none", "fetching", "maps", "over"}]
        /\ answered \in [Request -> SUBSET Fetch]
    BY DEF Init, RangeKey
  <2>3. requestId \in 0 .. MaxRequests /\ requestId = 0 BY DEF Init
  <2>4. waiters \in Seq(Request) BY DEF Init
  <2>5. summary \in [state : {"loading", "ready", "error"}, notice : BOOLEAN] BY DEF Init
  <2>6. maps \in {"none", "loading", "ready"} /\ mapLevel \in Level BY DEF Init, Level
  <2>7. summaries = {} /\ refreshing = {} /\ disabled \in BOOLEAN BY DEF Init
  <2> QED BY <2>1, <2>2, <2>3, <2>4, <2>5, <2>6, <2>7 DEF StatsType
<1>2. RequestsOK BY DEF Init, RequestsOK, Newest, Request
<1>3. Charts(page) BY DEF Init, Charts, Waits, Panel
<1>4. Settled(page) BY DEF Init, Settled, Newest
<1>5. Strip(page) BY DEF Init, Strip, Text, Panel
<1>6. MapsOK BY DEF Init, MapsOK, NewestGeoShown, LevelShown, Newest, Panel
<1>7. RefreshOK BY DEF Init, RefreshOK
<1> QED BY <1>1, <1>2, <1>3, <1>4, <1>5, <1>6, <1>7 DEF StatsInv

\* What a refresh leaves behind when one of its parts ends.
LEMMA RefreshesEndOK ==
    ASSUME StatsType, RefreshOK, RefreshesEnd, requestId' = requestId,
           requestId > 0 /\ summary'.state = "loading" => summaries' # {}
    PROVE  RefreshOK' /\ refreshing' \in SUBSET (1 .. requestId') /\ disabled' \in BOOLEAN
BY DEF StatsType, RefreshOK, RefreshesEnd

\* Where the numbers of the requests are.
LEMMA WaitersFacts ==
    ASSUME StatsType, RequestsOK
    PROVE  /\ \A r \in Request : stage[r] # "none" => r \in 1 .. requestId
           /\ \A i \in 1 .. Len(waiters) : waiters[i] \in Request /\ stage[waiters[i]] = "maps"
           /\ waiters = <<>> => ~Waits
           /\ waiters # <<>> => requestId > 0
<1>1. \A r \in Request : stage[r] # "none" => r \in 1 .. requestId
  BY DEF StatsType, RequestsOK, Request
<1>2. \A i \in 1 .. Len(waiters) : waiters[i] \in Request BY DEF StatsType
<1>3. \A i \in 1 .. Len(waiters) : stage[waiters[i]] = "maps" BY <1>2 DEF RequestsOK
<1>4. waiters = <<>> => ~Waits
  <2> SUFFICES ASSUME waiters = <<>>, Waits PROVE FALSE OBVIOUS
  <2>1. requestId \in Request BY DEF Waits, StatsType, Request
  <2>2. PICK i \in 1 .. Len(waiters) : waiters[i] = requestId BY <2>1 DEF Waits, RequestsOK
  <2> QED BY <2>2
<1>5. waiters # <<>> => requestId > 0
  <2> SUFFICES ASSUME waiters # <<>> PROVE requestId > 0 OBVIOUS
  <2>1. 1 \in 1 .. Len(waiters) BY DEF StatsType
  <2>2. waiters[1] \in 1 .. requestId BY <1>1, <1>2, <1>3, <2>1
  <2> QED BY <2>2 DEF StatsType
<1> QED BY <1>1, <1>2, <1>3, <1>4, <1>5

\* A request that begins: every panel says it is loading.
LEMMA LoadStep ==
    ASSUME StatsInv, NEW range \in RangeKey, LoadRangeData(range),
           summary' \in [state : {"loading", "ready", "error"}, notice : BOOLEAN],
           summaries' \in SUBSET (1 .. requestId'), refreshing' \in SUBSET (1 .. requestId'),
           disabled' \in BOOLEAN, RefreshOK'
    PROVE  StatsInv'
<1> DEFINE N == requestId + 1
<1>1. /\ requestId' = N /\ N \in 1 .. MaxRequests /\ N \in Request /\ requestId \in Nat
      /\ stage[N] = "none"
  BY StatsPageAssumption DEF LoadRangeData, StatsInv, StatsType, RequestsOK, Request
<1> DEFINE P == [p \in Panel |-> [state |-> "loading", of |-> requestId']]
           T == Text("loading")
<1>2. page' = [page EXCEPT !.panel = P, !.line = T] BY DEF LoadRangeData
<1>3. page'.panel = P /\ page'.line = T /\ page'.rows = page.rows
      /\ page'.selected = page.selected /\ page'.drawn = page.drawn
  <2> HIDE DEF P, T
  <2> QED BY <1>2 DEF StatsInv, StatsType, View
<1>4. page'.line.is = "loading" BY <1>3 DEF Text
<1>14. \A p \in Panel : page'.panel[p] = [state |-> "loading", of |-> requestId'] BY <1>3
<1>5. stage' = [stage EXCEPT ![N] = "fetching"] BY <1>1 DEF LoadRangeData
<1>6. stage \in [Request -> {"none", "fetching", "maps", "over"}] BY DEF StatsInv, StatsType
<1>7. StatsType'
  <2>1. page' \in View(N)
    <3>1. page.rows \in [Fetch -> 0 .. N] BY <1>1 DEF StatsInv, StatsType, View
    <3>2. T \in [is : {"loading", "empty", "error", "hour"}, of : Nat, hour : Nat] BY DEF Text
    <3>3. P \in [Panel -> [state : {"loading", "ready", "empty", "error"}, of : 0 .. MaxRequests]]
      BY <1>1
    <3> HIDE DEF N, P, T
    <3> QED BY <1>2, <3>1, <3>2, <3>3 DEF StatsInv, StatsType, View
  <2>2. asked' \in [Request -> RangeKey] BY DEF LoadRangeData, StatsInv, StatsType
  <2>3. stage' \in [Request -> {"none", "fetching", "maps", "over"}] BY <1>5, <1>6
  <2> QED BY <1>1, <2>1, <2>2, <2>3 DEF LoadRangeData, StatsInv, StatsType
<1>8. ~Newest' /\ ~Waits' BY <1>1, <1>5, <1>6 DEF Newest, Waits
<1>9. RequestsOK'
  <2>1. waiters' = waiters /\ maps' = maps /\ answered' = answered BY DEF LoadRangeData
  <2>2. \A r \in Request : stage'[r] = IF r = N THEN "fetching" ELSE stage[r] BY <1>5, <1>6
  <2>3. \A r \in Request : stage'[r] = "none" <=> r > N
    BY <1>1, <2>2 DEF StatsInv, RequestsOK, Request
  <2>4. \A r \in Request : stage'[r] = "maps" <=> stage[r] = "maps" BY <1>1, <2>2
  <2> QED BY <1>1, <1>8, <2>1, <2>3, <2>4 DEF StatsInv, RequestsOK
<1>10. Charts(page)' BY <1>1, <1>14 DEF Charts, Panel
<1>11. Settled(page)' BY <1>1, <1>5, <1>6, <1>8 DEF Settled
<1>12. Strip(page)' BY <1>14, <1>4 DEF Strip, Panel
<1>13. MapsOK' BY <1>14, <1>8 DEF MapsOK, NewestGeoShown, LevelShown, Panel
<1> QED BY <1>7, <1>9, <1>10, <1>11, <1>12, <1>13 DEF StatsInv

\* A change of the range or a retry, which leave the refreshes alone.
LEMMA LoadAgain ==
    ASSUME StatsInv, requestId > 0, NEW range \in RangeKey, LoadRangeData(range),
           UNCHANGED refresh
    PROVE  StatsInv'
<1>1. /\ requestId \in Nat /\ requestId' = requestId + 1 /\ requestId' \in Request
      /\ stage \in [Request -> {"none", "fetching", "maps", "over"}]
      /\ stage' = [stage EXCEPT ![requestId'] = "fetching"]
  BY StatsPageAssumption DEF LoadRangeData, StatsInv, StatsType, Request
<1>2. /\ summary \in [state : {"loading", "ready", "error"}, notice : BOOLEAN]
      /\ summaries \in SUBSET (1 .. requestId) /\ refreshing \in SUBSET (1 .. requestId)
      /\ disabled \in BOOLEAN
  BY DEF StatsInv, StatsType
<1>3. /\ summary' = summary /\ summaries' = summaries /\ refreshing' = refreshing
      /\ disabled' = disabled
  BY DEF refresh
<1>4. \A r \in refreshing : stage'[r] # "over" <=> stage[r] # "over"
  BY <1>1, <1>2 DEF StatsInv, StatsType, Request
<1>5. RefreshOK' BY <1>3, <1>4 DEF StatsInv, RefreshOK
<1> QED BY <1>1, <1>2, <1>3, <1>5, LoadStep

LEMMA ChangeRangeOK == StatsInv /\ ChangeRange => StatsInv'
<1> SUFFICES ASSUME StatsInv, ChangeRange PROVE StatsInv' OBVIOUS
<1>1. PICK range \in RangeKey : LoadRangeData(range) BY DEF ChangeRange
<1>2. requestId > 0 /\ UNCHANGED refresh BY DEF ChangeRange
<1> QED BY <1>1, <1>2, LoadAgain

LEMMA RetryPanelOK == StatsInv /\ RetryPanel => StatsInv'
<1> SUFFICES ASSUME StatsInv, RetryPanel PROVE StatsInv' OBVIOUS
<1>1. requestId > 0
  BY DEF RetryPanel, StatsInv, StatsType, Charts
<1>2. asked[requestId] \in RangeKey BY <1>1 DEF StatsInv, StatsType, Request
<1>3. LoadRangeData(asked[requestId]) /\ UNCHANGED refresh BY DEF RetryPanel
<1> QED BY <1>1, <1>2, <1>3, LoadAgain

LEMMA RefreshAllOK == StatsInv /\ RefreshAll => StatsInv'
<1> SUFFICES ASSUME StatsInv, RefreshAll PROVE StatsInv' OBVIOUS
<1> DEFINE range == IF requestId = 0 THEN 1 ELSE asked[requestId]
<1>1. range \in RangeKey BY DEF StatsInv, StatsType, Request, RangeKey
<1>2. LoadRangeData(range) BY DEF RefreshAll
<1> HIDE DEF range
<1>3. /\ requestId \in Nat /\ requestId' = requestId + 1 /\ requestId' \in Request
      /\ stage \in [Request -> {"none", "fetching", "maps", "over"}]
      /\ stage' = [stage EXCEPT ![requestId'] = "fetching"]
  BY <1>2, StatsPageAssumption DEF LoadRangeData, StatsInv, StatsType, Request
<1>4. /\ summary \in [state : {"loading", "ready", "error"}, notice : BOOLEAN]
      /\ summaries \in SUBSET (1 .. requestId) /\ refreshing \in SUBSET (1 .. requestId)
      /\ disabled \in BOOLEAN
  BY DEF StatsInv, StatsType
<1>5. /\ summaries' = summaries \union {requestId'} /\ refreshing' = refreshing \union {requestId'}
      /\ disabled' = TRUE
      /\ summary' = [summary EXCEPT !.state = "loading"]
  BY DEF RefreshAll
<1>6. \A r \in refreshing : stage'[r] # "over" <=> stage[r] # "over"
  BY <1>3, <1>4 DEF StatsInv, StatsType, Request
<1>7. \A r \in refreshing' : r \in summaries' \/ stage'[r] # "over"
  BY <1>5, <1>6 DEF StatsInv, RefreshOK
<1>8. RefreshOK' BY <1>5, <1>7 DEF RefreshOK
<1>9. /\ summary' \in [state : {"loading", "ready", "error"}, notice : BOOLEAN]
      /\ summaries' \in SUBSET (1 .. requestId') /\ refreshing' \in SUBSET (1 .. requestId')
      /\ disabled' \in BOOLEAN
  BY <1>3, <1>4, <1>5
<1> QED BY <1>1, <1>2, <1>8, <1>9, LoadStep

\* A control redraws panels from what is stored.
ShownOf(f) == [state |-> IF page.rows[f] = 0 THEN "empty" ELSE "ready", of |-> page.rows[f]]
Redrawn(w) ==
    /\ w \in View(requestId) /\ w.rows = page.rows /\ Strip(w)
    /\ w.panel["timeline"] \in {page.panel["timeline"], ShownOf("timeline")}
    /\ w.panel["map"] \in {page.panel["map"]} \union (IF maps = "ready" THEN {ShownOf("geo")} ELSE {})
    /\ w.panel["table"] \in {page.panel["table"], ShownOf("geo")}
    /\ w.panel["availability"].state \in {page.panel["availability"].state, "empty", "ready"}
    /\ w.line.is \in {page.line.is, "empty", "hour"}

LEMMA Redraw ==
    ASSUME StatsInv, mapLevel' \in Level, UNCHANGED <<requests, refresh>>, Redrawn(page'),
           \A p \in {"map", "table"} :
             maps = "ready" /\ page'.panel[p].state = "ready" => page'.drawn[p] = mapLevel'
    PROVE  StatsInv'
<1>1. /\ requestId' = requestId /\ asked' = asked /\ stage' = stage /\ answered' = answered
      /\ maps' = maps /\ waiters' = waiters /\ summary' = summary /\ summaries' = summaries
      /\ refreshing' = refreshing /\ disabled' = disabled
  BY DEF requests, refresh
<1> DEFINE w == page'
<1>2. w \in View(requestId) /\ w.rows = page.rows /\ Strip(w) BY DEF Redrawn
<1>3. StatsType' BY <1>1, <1>2 DEF StatsInv, StatsType
<1>4. RequestsOK' BY <1>1 DEF StatsInv, RequestsOK, Newest
<1>5. (Waits' <=> Waits) /\ (Newest' <=> Newest) BY <1>1 DEF Waits, Newest
<1>6. /\ ShownOf("timeline").state # "loading" /\ ShownOf("geo").state # "loading"
      /\ ShownOf("timeline").state # "error" /\ ShownOf("geo").state # "error"
      /\ ShownOf("timeline").of = page.rows["timeline"] /\ ShownOf("geo").of = page.rows["geo"]
      /\ ShownOf("timeline").state = "ready" <=> page.rows["timeline"] # 0
      /\ ShownOf("geo").state = "ready" <=> page.rows["geo"] # 0
  BY DEF ShownOf
<1>7. \/ w.panel["timeline"] = page.panel["timeline"] 
      \/ w.panel["timeline"] = ShownOf("timeline")
  BY DEF Redrawn
<1>8. \/ w.panel["map"] = page.panel["map"]
      \/ maps = "ready" /\ w.panel["map"] = ShownOf("geo")
  BY DEF Redrawn
<1>9. w.panel["table"] = page.panel["table"] \/ w.panel["table"] = ShownOf("geo")
  BY DEF Redrawn
<1>10. /\ w.panel["availability"].state \in {page.panel["availability"].state, "empty", "ready"}
       /\ w.line.is \in {page.line.is, "empty", "hour"}
  BY DEF Redrawn
<1> HIDE DEF w
<1>11. w = page' BY DEF w
<1>12. Charts(page)'
  <2>1. w.panel["timeline"].state = "ready" =>
          w.panel["timeline"].of = w.rows["timeline"] /\ w.rows["timeline"] # 0
    BY <1>2, <1>6, <1>7 DEF StatsInv, Charts
  <2>2. \A p \in {"map", "table"} : w.panel[p].state = "ready" /\ ~Waits =>
          w.panel[p].of = w.rows["geo"] /\ w.rows["geo"] # 0
    BY <1>2, <1>6, <1>8, <1>9 DEF StatsInv, Charts
  <2>3. requestId = 0 => \A p \in Panel : w.panel[p].state # "error"
    <3>1. \A p \in Panel : \/ p = "timeline" \/ p = "map" \/ p = "table" \/ p = "availability"
      BY DEF Panel
    <3>2. requestId = 0 => /\ page.panel["timeline"].state # "error"
                           /\ page.panel["map"].state # "error"
                           /\ page.panel["table"].state # "error"
                           /\ page.panel["availability"].state # "error"
      BY DEF StatsInv, Charts, Panel
    <3> QED BY <1>6, <1>7, <1>8, <1>9, <1>10, <3>1, <3>2
  <2> QED BY <1>1, <1>5, <1>11, <2>1, <2>2, <2>3 DEF Charts
<1>13. Settled(page)'
  <2>1. requestId > 0 /\ stage[requestId] \in {"maps", "over"} =>
          /\ \A f \in {"timeline", "geo"} : w.rows[f] = StoredOf(requestId, f)
          /\ w.panel["timeline"].state # "loading"
    BY <1>2, <1>6, <1>7 DEF StatsInv, Settled
  <2>2. Newest => /\ \A p \in Panel : w.panel[p].state # "loading"
                  /\ w.line.is # "loading"
    <3>1. \A p \in Panel : \/ p = "timeline" \/ p = "map" \/ p = "table" \/ p = "availability"
      BY DEF Panel
    <3>2. Newest => /\ page.panel["timeline"].state # "loading"
                    /\ page.panel["map"].state # "loading"
                    /\ page.panel["table"].state # "loading"
                    /\ page.panel["availability"].state # "loading"
                    /\ page.line.is # "loading"
      BY DEF StatsInv, Settled, Panel
    <3> QED BY <1>6, <1>7, <1>8, <1>9, <1>10, <3>1, <3>2
  <2> QED BY <1>1, <1>5, <1>11, <2>1, <2>2 DEF Settled, StoredOf
<1>14. Strip(page)' BY <1>1, <1>2, <1>11 DEF Strip, Selection, Hours
<1>15. MapsOK'
  <2>1. maps # "ready" => w.panel["map"].state # "ready" BY <1>8 DEF StatsInv, MapsOK
  <2>2. NewestGeoShown'
    <3>1. SUFFICES ASSUME Newest, "geo" \in answered[requestId]
                   PROVE  /\ w.panel["table"] = [state |-> "ready", of |-> requestId]
                          /\ w.panel["map"].state = IF maps = "ready" THEN "ready" ELSE "error"
      BY <1>1, <1>5, <1>11 DEF NewestGeoShown
    <3>2. page.rows["geo"] = requestId /\ requestId > 0
      BY <3>1 DEF StatsInv, Settled, StoredOf, Newest
    <3>3. ShownOf("geo") = [state |-> "ready", of |-> requestId] BY <3>2 DEF ShownOf
    <3>4. /\ page.panel["table"] = [state |-> "ready", of |-> requestId]
          /\ page.panel["map"].state = IF maps = "ready" THEN "ready" ELSE "error"
      BY <3>1 DEF StatsInv, MapsOK, NewestGeoShown
    <3> QED BY <1>8, <1>9, <3>3, <3>4
  <2>3. LevelShown' BY <1>1 DEF LevelShown
  <2> QED BY <1>1, <1>11, <2>1, <2>2, <2>3 DEF MapsOK
<1>16. RefreshOK' BY <1>1 DEF StatsInv, RefreshOK
<1> QED BY <1>3, <1>4, <1>12, <1>13, <1>14, <1>15, <1>16 DEF StatsInv

LEMMA SetMapLevelOK ==
    ASSUME StatsInv, NEW level \in Level, SetMapLevel(level)
    PROVE  StatsInv'
<1> DEFINE N == requestId
           a == RenderMap(page)
           b == RenderGeoTable(a)
<1>1. N \in 0 .. MaxRequests /\ page \in View(N) /\ mapLevel \in Level /\ Strip(page)
  BY DEF StatsInv, StatsType
<1>2. mapLevel' \in Level /\ UNCHANGED <<requests, refresh>> BY DEF SetMapLevel
<1>3. CASE maps # "ready"
  <2>1. page' = page BY <1>3 DEF SetMapLevel
  <2>2. Redrawn(page') BY <1>1, <2>1 DEF Redrawn
  <2> QED BY <1>2, <1>3, <2>2, Redraw
<1>4. CASE maps = "ready"
  <2>1. /\ a \in View(N) /\ a.rows = page.rows /\ a.selected = page.selected /\ a.line = page.line
        /\ a.panel = [q \in Panel |-> IF q = "map" THEN ShownOf("geo") ELSE page.panel[q]]
    BY <1>1, MapFacts DEF ShownOf
  <2> HIDE DEF a, N
  <2>2. /\ b \in View(N) /\ b.rows = page.rows /\ b.selected = page.selected /\ b.line = page.line
        /\ b.panel = [q \in Panel |-> IF q = "table" THEN ShownOf("geo") ELSE a.panel[q]]
    <3>1. a \in View(N) BY <2>1
    <3>2. /\ b \in View(N) /\ b.rows = a.rows /\ b.selected = a.selected /\ b.line = a.line
          /\ b.panel = [q \in Panel |-> IF q = "table"
                THEN [state |-> IF a.rows["geo"] = 0 THEN "empty" ELSE "ready",
                      of |-> a.rows["geo"]]
                ELSE a.panel[q]]
      BY <1>1, <3>1, TableFacts
    <3>3. a.rows = page.rows BY <2>1
    <3> HIDE DEF b
    <3> QED BY <2>1, <3>2, <3>3 DEF ShownOf
  <2> DEFINE d == [p \in {"map", "table"} |-> level]
  <2>3. page' = [b EXCEPT !.drawn = d] BY <1>4 DEF SetMapLevel, a, b
  <2>4. d \in [{"map", "table"} -> Level] /\ \A p \in {"map", "table"} : d[p] = level OBVIOUS
  <2> HIDE DEF b, d
  <2>5. /\ page' \in View(N) /\ page'.rows = page.rows /\ page'.selected = page.selected
        /\ page'.line = page.line /\ page'.panel = b.panel /\ page'.drawn = d
    BY <2>2, <2>3, <2>4 DEF View
  <2>6. /\ page'.panel["timeline"] = page.panel["timeline"]
        /\ page'.panel["availability"] = page.panel["availability"]
        /\ page'.panel["map"] = ShownOf("geo") /\ page'.panel["table"] = ShownOf("geo")
    BY <2>1, <2>2, <2>5 DEF Panel
  <2>7. Strip(page') BY <1>1, <2>5, <2>6 DEF Strip, Selection, Hours
  <2>8. Redrawn(page') BY <1>4, <2>5, <2>6, <2>7 DEF Redrawn, N
  <2>9. mapLevel' = level BY DEF SetMapLevel
  <2> QED BY <1>2, <2>4, <2>5, <2>8, <2>9, Redraw
<1> QED BY <1>3, <1>4

LEMMA DrillDownOK == StatsInv /\ DrillDown => StatsInv'
BY SetMapLevelOK DEF DrillDown, Level

LEMMA WorldCrumbOK == StatsInv /\ WorldCrumb => StatsInv'
BY SetMapLevelOK DEF WorldCrumb, Level

LEMMA ChangeMetricOK == StatsInv /\ ChangeMetric => StatsInv'
<1> SUFFICES ASSUME StatsInv, ChangeMetric PROVE StatsInv' OBVIOUS
<1> DEFINE N == requestId
<1>1. N \in 0 .. MaxRequests /\ page \in View(N) /\ mapLevel \in Level /\ Strip(page)
  BY DEF StatsInv, StatsType
<1>2. /\ maps = "ready" /\ page' = RenderMap(page) /\ mapLevel' = mapLevel
      /\ UNCHANGED <<requests, refresh>>
  BY DEF ChangeMetric
<1> HIDE DEF N
<1>3. /\ page' \in View(N) /\ page'.rows = page.rows
      /\ page'.selected = page.selected /\ page'.line = page.line
      /\ page'.panel = [q \in Panel |-> IF q = "map" THEN ShownOf("geo") ELSE page.panel[q]]
      /\ page'.drawn = [q \in {"map", "table"} |-> IF q = "map" THEN mapLevel ELSE page.drawn[q]]
  BY <1>1, <1>2, MapFacts DEF ShownOf
<1>4. /\ page'.panel["timeline"] = page.panel["timeline"]
      /\ page'.panel["availability"] = page.panel["availability"]
      /\ page'.panel["map"] = ShownOf("geo") /\ page'.panel["table"] = page.panel["table"]
      /\ page'.drawn["map"] = mapLevel /\ page'.drawn["table"] = page.drawn["table"]
  BY <1>3 DEF Panel
<1>5. Strip(page') BY <1>1, <1>3, <1>4 DEF Strip, Selection, Hours
<1>6. Redrawn(page') BY <1>2, <1>3, <1>4, <1>5 DEF Redrawn, N
<1>7. \A p \in {"map", "table"} : page'.panel[p].state = "ready" => page'.drawn[p] = mapLevel'
  BY <1>2, <1>4 DEF StatsInv, MapsOK, LevelShown
<1> QED BY <1>1, <1>2, <1>6, <1>7, Redraw

LEMMA SortOK == StatsInv /\ Sort => StatsInv'
<1> SUFFICES ASSUME StatsInv, Sort PROVE StatsInv' OBVIOUS
<1> DEFINE N == requestId
<1>1. N \in 0 .. MaxRequests /\ page \in View(N) /\ mapLevel \in Level /\ Strip(page)
  BY DEF StatsInv, StatsType
<1>2. /\ page' = RenderGeoTable(page) /\ mapLevel' = mapLevel /\ UNCHANGED <<requests, refresh>>
  BY DEF Sort
<1> HIDE DEF N
<1>3. /\ page' \in View(N) /\ page'.rows = page.rows
      /\ page'.selected = page.selected /\ page'.line = page.line
      /\ page'.panel = [q \in Panel |-> IF q = "table" THEN ShownOf("geo") ELSE page.panel[q]]
      /\ page'.drawn = [q \in {"map", "table"} |-> IF q = "table" THEN mapLevel ELSE page.drawn[q]]
  BY <1>1, <1>2, TableFacts DEF ShownOf
<1>4. /\ page'.panel["timeline"] = page.panel["timeline"]
      /\ page'.panel["availability"] = page.panel["availability"]
      /\ page'.panel["table"] = ShownOf("geo") /\ page'.panel["map"] = page.panel["map"]
      /\ page'.drawn["table"] = mapLevel /\ page'.drawn["map"] = page.drawn["map"]
  BY <1>3 DEF Panel
<1>5. Strip(page') BY <1>1, <1>3, <1>4 DEF Strip, Selection, Hours
<1>6. Redrawn(page') BY <1>2, <1>3, <1>4, <1>5 DEF Redrawn, N
<1>7. \A p \in {"map", "table"} :
        maps = "ready" /\ page'.panel[p].state = "ready" => page'.drawn[p] = mapLevel'
  BY <1>2, <1>4 DEF StatsInv, MapsOK, LevelShown
<1> QED BY <1>1, <1>2, <1>6, <1>7, Redraw

LEMMA SelectAvailabilityOK == StatsInv /\ SelectAvailability => StatsInv'
<1> SUFFICES ASSUME StatsInv, SelectAvailability PROVE StatsInv' OBVIOUS
<1> DEFINE N == requestId
<1>1. /\ N \in 0 .. MaxRequests /\ page \in View(N) /\ mapLevel \in Level /\ Strip(page)
      /\ asked \in [Request -> RangeKey]
  BY DEF StatsInv, StatsType
<1>2. /\ mapLevel' = mapLevel /\ UNCHANGED <<requests, refresh>>
  BY DEF SelectAvailability
<1>3. PICK hour \in 1 .. Hours(page) :
        LET chosen == [page EXCEPT !.selected = hour]
        IN  page' = [chosen EXCEPT !.line = Selection(chosen)]
  BY DEF SelectAvailability
<1> DEFINE chosen == [page EXCEPT !.selected = hour]
           line == [is |-> "hour", of |-> page.rows["availability"], hour |-> hour]
<1> HIDE DEF N
<1>4. Hours(page) \in 0 .. 2 /\ page.rows["availability"] \in 0 .. N BY <1>1, HoursFacts
<1>5. hour \in Nat /\ page.rows["availability"] \in Nat BY <1>1, <1>3, <1>4
<1>6. line \in [is : {"loading", "empty", "error", "hour"}, of : Nat, hour : Nat] /\ line.is = "hour"
  BY <1>5
<1>7. Selection(chosen) = line BY <1>1 DEF Selection, View
<1>8. page' = [chosen EXCEPT !.line = line] BY <1>3, <1>7
<1> HIDE DEF line
<1>9. /\ page' \in View(N) /\ page'.rows = page.rows /\ page'.panel = page.panel
      /\ page'.drawn = page.drawn /\ page'.selected = hour /\ page'.line = line
  BY <1>1, <1>5, <1>6, <1>8 DEF View
<1>10. Hours(page') = Hours(page) /\ Selection(page') = line
  BY <1>9 DEF Hours, Selection, line
<1>11. Strip(page') BY <1>3, <1>6, <1>9, <1>10 DEF Strip
<1>12. Redrawn(page') BY <1>6, <1>9, <1>11 DEF Redrawn, N
<1>13. \A p \in {"map", "table"} :
        maps = "ready" /\ page'.panel[p].state = "ready" => page'.drawn[p] = mapLevel'
  BY <1>2, <1>9 DEF StatsInv, MapsOK, LevelShown
<1> QED BY <1>1, <1>2, <1>12, <1>13, Redraw

LEMMA RerenderForThemeOK == StatsInv /\ RerenderForTheme => StatsInv'
<1> SUFFICES ASSUME StatsInv, RerenderForTheme PROVE StatsInv' OBVIOUS
<1> DEFINE N == requestId
           HasRows(p) == page.rows[Source(p)] # 0
           curves == IF HasRows("timeline") THEN RenderTimeline(page) ELSE page
           throws == HasRows("map") /\ maps # "ready"
           map    == IF HasRows("map") THEN RenderMap(curves) ELSE curves
<1>1. /\ N \in 0 .. MaxRequests /\ page \in View(N) /\ mapLevel \in Level /\ Strip(page)
      /\ asked \in [Request -> RangeKey]
  BY DEF StatsInv, StatsType
<1>2. /\ mapLevel' = mapLevel /\ UNCHANGED <<requests, refresh>>
      /\ page' = CASE throws -> curves
                   [] ~throws /\ HasRows("availability") -> RenderAvailability(map)
                   [] ~throws /\ ~HasRows("availability") -> map
  BY DEF RerenderForTheme
<1> HIDE DEF N
<1>3. /\ curves \in View(N) /\ curves.rows = page.rows /\ curves.selected = page.selected
      /\ curves.line = page.line /\ curves.drawn = page.drawn
      /\ \A q \in Panel \ {"timeline"} : curves.panel[q] = page.panel[q]
      /\ curves.panel["timeline"] \in {page.panel["timeline"], ShownOf("timeline")}
  <2>1. CASE ~HasRows("timeline") BY <1>1, <2>1
  <2>2. CASE HasRows("timeline")
    <3>1. curves = Drawn(page, "timeline") BY <2>2 DEF RenderTimeline
    <3>2. "timeline" \in Panel /\ Source("timeline") = "timeline" BY DEF Panel, Source
    <3> HIDE DEF curves
    <3>3. /\ curves \in View(N) /\ curves.rows = page.rows /\ curves.selected = page.selected
          /\ curves.line = page.line /\ curves.drawn = page.drawn
          /\ curves.panel = [q \in Panel |->
                               IF q = "timeline" THEN ShownOf("timeline") ELSE page.panel[q]]
      BY <1>1, <3>1, <3>2, DrawnFacts DEF ShownOf
    <3> QED BY <3>2, <3>3
  <2> QED BY <2>1, <2>2
<1> HIDE DEF curves
<1>4. ~throws =>
      /\ map \in View(N) /\ map.rows = page.rows /\ map.selected = page.selected
      /\ map.line = page.line /\ map.drawn["table"] = page.drawn["table"]
      /\ \A q \in Panel \ {"map"} : map.panel[q] = curves.panel[q]
      /\ \/ map.panel["map"] = page.panel["map"] /\ map.drawn["map"] = page.drawn["map"]
         \/ maps = "ready" /\ map.panel["map"] = ShownOf("geo") /\ map.drawn["map"] = mapLevel
  <2> SUFFICES ASSUME ~throws
               PROVE  /\ map \in View(N) /\ map.rows = page.rows /\ map.selected = page.selected
                      /\ map.line = page.line /\ map.drawn["table"] = page.drawn["table"]
                      /\ \A q \in Panel \ {"map"} : map.panel[q] = curves.panel[q]
                      /\ \/ map.panel["map"] = page.panel["map"] /\ map.drawn["map"] = page.drawn["map"]
                         \/ maps = "ready" /\ map.panel["map"] = ShownOf("geo") /\ map.drawn["map"] = mapLevel
    OBVIOUS
  <2>1. CASE ~HasRows("map") BY <1>3, <2>1 DEF Panel
  <2>2. CASE HasRows("map")
    <3>1. maps = "ready" /\ map = RenderMap(curves) BY <2>2
    <3> HIDE DEF map
    <3>2. /\ map \in View(N) /\ map.rows = curves.rows /\ map.selected = curves.selected
          /\ map.line = curves.line
          /\ map.panel = [q \in Panel |-> IF q = "map"
                THEN [state |-> IF curves.rows["geo"] = 0 THEN "empty" ELSE "ready",
                      of |-> curves.rows["geo"]]
                ELSE curves.panel[q]]
          /\ map.drawn = [q \in {"map", "table"} |-> IF q = "map" THEN mapLevel ELSE curves.drawn[q]]
      BY <1>1, <1>3, <3>1, MapFacts
    <3>3. curves.rows = page.rows BY <1>3
    <3>4. map.panel = [q \in Panel |-> IF q = "map" THEN ShownOf("geo") ELSE curves.panel[q]]
      BY <3>2, <3>3 DEF ShownOf
    <3>5. "map" \in Panel BY DEF Panel
    <3> QED BY <1>3, <3>1, <3>2, <3>4, <3>5
  <2> QED BY <2>1, <2>2
<1> HIDE DEF map
<1>5. /\ "timeline" \in Panel /\ "map" \in Panel /\ "table" \in Panel /\ "availability" \in Panel
  BY DEF Panel
<1>6. CASE throws
  <2>1. page' = curves BY <1>2, <1>6
  <2>2. Strip(page') BY <1>1, <1>3, <1>5, <2>1 DEF Strip, Selection, Hours
  <2>3. Redrawn(page') BY <1>3, <1>5, <2>1, <2>2 DEF Redrawn, N
  <2>4. \A p \in {"map", "table"} :
          maps = "ready" /\ page'.panel[p].state = "ready" => page'.drawn[p] = mapLevel'
    BY <1>6
  <2> QED BY <1>1, <1>2, <2>3, <2>4, Redraw
<1>7. CASE ~throws
  <2>1. /\ page' \in View(N) /\ Strip(page') /\ page'.rows = page.rows
        /\ page'.drawn = map.drawn
        /\ \A q \in Panel \ {"availability"} : page'.panel[q] = map.panel[q]
        /\ page'.panel["availability"].state \in {page.panel["availability"].state, "empty", "ready"}
        /\ page'.line.is \in {page.line.is, "empty", "hour"}
    <3>1. CASE ~HasRows("availability")
      <4>1. page' = map BY <1>2, <1>7, <3>1
      <4>2. map.panel["availability"] = page.panel["availability"] BY <1>3, <1>4, <1>5, <1>7
      <4>3. Strip(page') BY <1>1, <1>4, <1>7, <4>1, <4>2 DEF Strip, Selection, Hours
      <4> QED BY <1>4, <1>7, <4>1, <4>2, <4>3
    <3>2. CASE HasRows("availability")
      <4>1. page' = RenderAvailability(map) BY <1>2, <1>7, <3>2
      <4>2. map \in View(N) BY <1>4, <1>7
      <4>3. /\ page' \in View(N) /\ Strip(page') /\ page'.line.is \in {"empty", "hour"}
            /\ page'.panel = [q \in Panel |-> IF q = "availability"
                  THEN [state |-> IF map.rows["availability"] = 0 THEN "empty" ELSE "ready",
                        of |-> map.rows["availability"]]
                  ELSE map.panel[q]]
            /\ page'.drawn = map.drawn /\ page'.rows = map.rows
        BY <1>1, <4>1, <4>2, AvailabilityFacts
      <4> QED BY <1>4, <1>5, <1>7, <4>3
    <3> QED BY <3>1, <3>2
  <2>2. /\ page'.panel["timeline"] \in {page.panel["timeline"], ShownOf("timeline")}
        /\ page'.panel["table"] = page.panel["table"]
        /\ page'.panel["map"] = map.panel["map"]
    BY <1>3, <1>4, <1>5, <1>7, <2>1
  <2>3. Redrawn(page') BY <1>4, <1>7, <2>1, <2>2 DEF Redrawn, N
  <2>4. \A p \in {"map", "table"} :
          maps = "ready" /\ page'.panel[p].state = "ready" => page'.drawn[p] = mapLevel'
    BY <1>2, <1>4, <1>7, <2>1, <2>2 DEF StatsInv, MapsOK, LevelShown
  <2> QED BY <1>1, <1>2, <2>3, <2>4, Redraw
<1> QED BY <1>6, <1>7

\* Only the summary settles.
LEMMA SummarySettlesOK ==
    ASSUME StatsInv, NEW r \in Request, NEW ok \in BOOLEAN, SummarySettles(r, ok)
    PROVE  StatsInv'
<1>1. /\ requestId' = requestId /\ asked' = asked /\ stage' = stage /\ answered' = answered
      /\ maps' = maps /\ waiters' = waiters /\ mapLevel' = mapLevel /\ page' = page
  BY DEF SummarySettles, requests
<1>2. summary' \in [state : {"loading", "ready", "error"}, notice : BOOLEAN]
      /\ summary'.state # "loading"
  BY DEF SummarySettles
<1>3. summaries' \in SUBSET (1 .. requestId) BY DEF SummarySettles, StatsInv, StatsType
<1>4. RefreshOK' /\ refreshing' \in SUBSET (1 .. requestId') /\ disabled' \in BOOLEAN
  BY <1>1, <1>2, RefreshesEndOK DEF SummarySettles, StatsInv
<1>5. StatsType' BY <1>1, <1>2, <1>3, <1>4 DEF StatsInv, StatsType
<1>6. (Waits' <=> Waits) /\ (Newest' <=> Newest) BY <1>1 DEF Waits, Newest
<1>7. RequestsOK' BY <1>1, <1>6 DEF StatsInv, RequestsOK
<1>8. Charts(page)' BY <1>1, <1>6 DEF StatsInv, Charts
<1>9. Settled(page)' BY <1>1, <1>6 DEF StatsInv, Settled, StoredOf
<1>10. Strip(page)' BY <1>1 DEF StatsInv, Strip, Selection, Hours
<1>11. MapsOK' BY <1>1, <1>6 DEF StatsInv, MapsOK, NewestGeoShown, LevelShown
<1> QED BY <1>4, <1>5, <1>7, <1>8, <1>9, <1>10, <1>11 DEF StatsInv

\* The fetches of a request settle: what every way has in common.
LEMMA SettleFrame ==
    ASSUME StatsInv, NEW r \in Request, Settle(r), stage[r] = "fetching",
           NEW s \in {"maps", "over"}, stage' = [stage EXCEPT ![r] = s]
    PROVE  /\ requestId' = requestId /\ asked' = asked /\ mapLevel' = mapLevel
           /\ requestId \in 1 .. MaxRequests /\ requestId \in Request
           /\ summary' = summary /\ summaries' = summaries
           /\ r \in 1 .. requestId
           /\ stage \in [Request -> {"none", "fetching", "maps", "over"}]
           /\ stage' \in [Request -> {"none", "fetching", "maps", "over"}]
           /\ \A q \in Request : stage'[q] = IF q = r THEN s ELSE stage[q]
           /\ \A q \in Request : stage'[q] = "none" <=> q > requestId
           /\ RefreshOK' /\ refreshing' \in SUBSET (1 .. requestId') /\ disabled' \in BOOLEAN
<1>1. /\ requestId' = requestId /\ asked' = asked /\ mapLevel' = mapLevel
      /\ summary' = summary /\ summaries' = summaries /\ RefreshesEnd
  BY DEF Settle
<1>2. RefreshOK' /\ refreshing' \in SUBSET (1 .. requestId') /\ disabled' \in BOOLEAN
  <2>1. requestId > 0 /\ summary'.state = "loading" => summaries' # {}
    BY <1>1 DEF StatsInv, RefreshOK
  <2> QED BY <1>1, <2>1, RefreshesEndOK DEF StatsInv
<1>3. r \in 1 .. requestId BY WaitersFacts DEF StatsInv
<1>4. requestId \in 1 .. MaxRequests /\ requestId \in Request
  BY <1>3 DEF StatsInv, StatsType, Request
<1>5. stage \in [Request -> {"none", "fetching", "maps", "over"}] BY DEF StatsInv, StatsType
<1>6. \A q \in Request : stage'[q] = IF q = r THEN s ELSE stage[q] BY <1>5
<1>7. \A q \in Request : stage'[q] = "none" <=> q > requestId
  BY <1>3, <1>4, <1>6 DEF StatsInv, RequestsOK
<1> QED BY <1>1, <1>2, <1>3, <1>4, <1>5, <1>6, <1>7

LEMMA DroppedOK ==
    ASSUME StatsInv, NEW r \in Request, Settle(r), Dropped(r)
    PROVE  StatsInv'
<1>1. /\ stage[r] = "fetching" /\ r # requestId /\ stage' = [stage EXCEPT ![r] = "over"]
      /\ answered' = answered /\ maps' = maps /\ waiters' = waiters /\ page' = page
  BY DEF Dropped, IsCurrent
<1>2. /\ requestId' = requestId /\ asked' = asked /\ mapLevel' = mapLevel
      /\ requestId \in 1 .. MaxRequests /\ requestId \in Request
      /\ summary' = summary /\ summaries' = summaries
      /\ stage' \in [Request -> {"none", "fetching", "maps", "over"}]
      /\ \A q \in Request : stage'[q] = IF q = r THEN "over" ELSE stage[q]
      /\ \A q \in Request : stage'[q] = "none" <=> q > requestId
      /\ RefreshOK' /\ refreshing' \in SUBSET (1 .. requestId') /\ disabled' \in BOOLEAN
  <2> DEFINE s == "over"
  <2>1. s \in {"maps", "over"} OBVIOUS
  <2> HIDE DEF s
  <2>2. stage' = [stage EXCEPT ![r] = s] BY <1>1 DEF s
  <2> QED BY <1>1, <2>1, <2>2, SettleFrame DEF s
<1>3. stage'[requestId] = stage[requestId] BY <1>1, <1>2
<1>4. (Waits' <=> Waits) /\ (Newest' <=> Newest) BY <1>2, <1>3 DEF Waits, Newest
<1>5. StatsType' BY <1>1, <1>2 DEF StatsInv, StatsType
<1>6. \A q \in Request : stage'[q] = "maps" <=> stage[q] = "maps" BY <1>1, <1>2
<1>7. RequestsOK' BY <1>1, <1>2, <1>4, <1>6 DEF StatsInv, RequestsOK
<1>8. Charts(page)' BY <1>1, <1>2, <1>4 DEF StatsInv, Charts
<1>9. Settled(page)' BY <1>1, <1>2, <1>3, <1>4 DEF StatsInv, Settled, StoredOf
<1>10. Strip(page)' BY <1>1, <1>2 DEF StatsInv, Strip, Selection, Hours
<1>11. MapsOK' BY <1>1, <1>2, <1>4 DEF StatsInv, MapsOK, NewestGeoShown, LevelShown
<1> QED BY <1>2, <1>5, <1>7, <1>8, <1>9, <1>10, <1>11 DEF StatsInv

\* What the newest request stores as soon as its fetches are settled.
LEMMA CurvesPainted ==
    ASSUME StatsInv, requestId \in 1 .. MaxRequests, NEW got \in SUBSET Fetch
    PROVE  LET w == Store(PaintTimeline(page, requestId, got), "geo", requestId, got)
           IN  /\ w \in View(requestId)
               /\ w.rows["timeline"] = IF "timeline" \in got THEN requestId ELSE 0
               /\ w.rows["geo"] = IF "geo" \in got THEN requestId ELSE 0
               /\ w.rows["availability"] = page.rows["availability"]
               /\ w.panel["timeline"] =
                    [state |-> IF "timeline" \in got THEN "ready" ELSE "error", of |-> requestId]
               /\ \A q \in Panel \ {"timeline"} : w.panel[q] = page.panel[q]
               /\ w.drawn = page.drawn /\ w.selected = page.selected /\ w.line = page.line
<1> DEFINE N == requestId
           a == PaintTimeline(page, N, got)
           b == Store(a, "geo", N, got)
<1>1. N \in 0 .. MaxRequests /\ N \in 1 .. N /\ N \in 0 .. N /\ page \in View(N)
  BY DEF StatsInv, StatsType
<1> HIDE DEF N
<1>2. /\ a \in View(N)
      /\ a.rows = [e \in Fetch |->
            IF e = "timeline" THEN (IF "timeline" \in got THEN N ELSE 0) ELSE page.rows[e]]
      /\ a.panel = [q \in Panel |->
            IF q = "timeline"
            THEN [state |-> IF "timeline" \in got THEN "ready" ELSE "error", of |-> N]
            ELSE page.panel[q]]
      /\ a.drawn = page.drawn /\ a.selected = page.selected /\ a.line = page.line
  BY <1>1, TimelinePainted
<1> HIDE DEF a
<1>3. "geo" \in Fetch /\ "timeline" \in Fetch /\ "availability" \in Fetch /\ "timeline" \in Panel
  BY DEF Fetch, Panel
<1>4. /\ b \in View(N)
      /\ b.rows = [e \in Fetch |-> IF e = "geo" THEN (IF "geo" \in got THEN N ELSE 0)
                                   ELSE a.rows[e]]
      /\ b.panel = a.panel /\ b.drawn = a.drawn /\ b.selected = a.selected /\ b.line = a.line
  <2>1. a \in View(N) BY <1>2
  <2> DEFINE f == "geo"
  <2>2. f \in Fetch BY DEF Fetch
  <2> HIDE DEF f
  <2>3. LET w == Store(a, f, N, got)
        IN  /\ w \in View(N)
            /\ w.rows = [e \in Fetch |-> IF e = f THEN (IF f \in got THEN N ELSE 0) ELSE a.rows[e]]
            /\ w.panel = a.panel /\ w.drawn = a.drawn
            /\ w.selected = a.selected /\ w.line = a.line
    BY <1>1, <2>1, <2>2, StoreFacts
  <2> QED BY <2>3 DEF f
<1> HIDE DEF b
<1>5. b = Store(PaintTimeline(page, requestId, got), "geo", requestId, got) BY DEF a, b, N
<1>6. /\ b.rows["timeline"] = IF "timeline" \in got THEN N ELSE 0
      /\ b.rows["geo"] = IF "geo" \in got THEN N ELSE 0
      /\ b.rows["availability"] = page.rows["availability"]
      /\ b.panel["timeline"] = [state |-> IF "timeline" \in got THEN "ready" ELSE "error", of |-> N]
      /\ \A q \in Panel \ {"timeline"} : b.panel[q] = page.panel[q]
      /\ b.drawn = page.drawn /\ b.selected = page.selected /\ b.line = page.line
  BY <1>2, <1>3, <1>4
<1> QED BY <1>4, <1>5, <1>6 DEF N

\* The newest request is over: what it has painted makes the page right.
LEMMA NewestIsOver ==
    ASSUME StatsInv, requestId \in Request, Settle(requestId), stage[requestId] = "fetching",
           NEW got \in SUBSET Fetch, answered' = [answered EXCEPT ![requestId] = got],
           stage' = [stage EXCEPT ![requestId] = "over"],
           UNCHANGED <<maps, waiters>>,
           "geo" \in got => maps = "ready",
           page' \in View(requestId), Strip(page'), page'.line.is # "loading",
           page'.rows["timeline"] = IF "timeline" \in got THEN requestId ELSE 0,
           page'.rows["geo"] = IF "geo" \in got THEN requestId ELSE 0,
           page'.panel["timeline"] =
             [state |-> IF "timeline" \in got THEN "ready" ELSE "error", of |-> requestId],
           page'.panel["availability"].state # "loading",
           \A p \in {"map", "table"} :
             /\ "geo" \in got => page'.panel[p] = [state |-> "ready", of |-> requestId]
                                 /\ page'.drawn[p] = mapLevel
             /\ "geo" \notin got => page'.panel[p].state = "error"
    PROVE  StatsInv'
<1> DEFINE N == requestId
           w == page'
<1>1. /\ requestId' = N /\ asked' = asked /\ mapLevel' = mapLevel
      /\ N \in 1 .. MaxRequests /\ N \in Request
      /\ summary' = summary /\ summaries' = summaries
      /\ stage' \in [Request -> {"none", "fetching", "maps", "over"}]
      /\ \A q \in Request : stage'[q] = IF q = N THEN "over" ELSE stage[q]
      /\ \A q \in Request : stage'[q] = "none" <=> q > N
      /\ RefreshOK' /\ refreshing' \in SUBSET (1 .. requestId') /\ disabled' \in BOOLEAN
  <2> DEFINE s == "over"
             r == requestId
  <2>1. s \in {"maps", "over"} /\ r \in Request OBVIOUS
  <2> HIDE DEF s, r
  <2>2. stage' = [stage EXCEPT ![r] = s] /\ stage[r] = "fetching" /\ Settle(r) BY DEF s, r
  <2> QED BY <2>1, <2>2, SettleFrame DEF s, r
<1>2. /\ answered \in [Request -> SUBSET Fetch] /\ answered' \in [Request -> SUBSET Fetch]
      /\ answered'[N] = got /\ \A q \in Request \ {N} : answered'[q] = answered[q]
  BY DEF StatsInv, StatsType
<1>3. maps' = maps /\ waiters' = waiters OBVIOUS
<1>4. StatsType' BY <1>1, <1>2, <1>3 DEF StatsInv, StatsType
<1>5. Newest' /\ ~Waits' BY <1>1 DEF Newest, Waits
<1>6. RequestsOK'
  <2>1. \A q \in Request : stage'[q] = "maps" <=> stage[q] = "maps" BY <1>1
  <2>2. \A q \in Request : stage'[q] = "maps" => "geo" \in answered'[q]
    BY <1>1, <1>2, <2>1 DEF StatsInv, RequestsOK
  <2>3. "geo" \in answered'[N] => waiters = <<>> BY <1>2 DEF StatsInv, RequestsOK
  <2> QED BY <1>1, <1>3, <2>1, <2>2, <2>3 DEF StatsInv, RequestsOK
<1>7. \A p \in Panel : w.panel[p].state # "loading"
  <2>1. \A p \in Panel : \/ p = "timeline" \/ p = "map" \/ p = "table" \/ p = "availability"
    BY DEF Panel
  <2> QED BY <2>1
<1>8. Charts(page)' BY <1>1 DEF Charts, Request
<1>9. Settled(page)' BY <1>1, <1>2, <1>7 DEF Settled, StoredOf
<1>10. Strip(page)' BY <1>1 DEF Strip, Selection, Hours
<1>11. MapsOK'
  <2>1. maps # "ready" => w.panel["map"].state # "ready" OBVIOUS
  <2>2. NewestGeoShown' BY <1>1, <1>2, <1>3 DEF NewestGeoShown
  <2>3. LevelShown' BY <1>1, <1>3 DEF LevelShown
  <2> QED BY <1>3, <2>1, <2>2, <2>3 DEF MapsOK
<1> QED BY <1>1, <1>4, <1>6, <1>8, <1>9, <1>10, <1>11 DEF StatsInv

LEMMA GeoFailsOK ==
    ASSUME StatsInv, NEW r \in Request, Settle(r), NEW got \in SUBSET Fetch, GeoFails(r, got)
    PROVE  StatsInv'
<1> DEFINE N == requestId
           a == Store(PaintTimeline(page, N, got), "geo", N, got)
           b == Fail(a, "map", N)
           c == Fail(b, "table", N)
<1>1. /\ r = N /\ N \in Request /\ stage[N] = "fetching" /\ "geo" \notin got
      /\ answered' = [answered EXCEPT ![N] = got] /\ stage' = [stage EXCEPT ![N] = "over"]
      /\ page' = PaintAvailability(c, N, got) /\ UNCHANGED <<maps, waiters>> /\ Settle(N)
  BY DEF GeoFails, IsCurrent
<1>2. N \in 1 .. MaxRequests /\ N \in 0 .. MaxRequests /\ N \in 1 .. N
      /\ asked \in [Request -> RangeKey]
  BY <1>1 DEF StatsInv, StatsType, Request
<1>3. /\ a \in View(N)
      /\ a.rows["timeline"] = IF "timeline" \in got THEN N ELSE 0
      /\ a.rows["geo"] = IF "geo" \in got THEN N ELSE 0
      /\ a.panel["timeline"] = [state |-> IF "timeline" \in got THEN "ready" ELSE "error", of |-> N]
  BY <1>2, CurvesPainted
<1> HIDE DEF a, N
<1>4. "map" \in Panel /\ "table" \in Panel /\ "timeline" \in Panel /\ "availability" \in Panel
      /\ "geo" \in Fetch /\ "timeline" \in Fetch
  BY DEF Panel, Fetch
<1>5. /\ b \in View(N) /\ b.rows = a.rows
      /\ b.panel = [q \in Panel |-> IF q = "map" THEN [state |-> "error", of |-> N] ELSE a.panel[q]]
  BY <1>2, <1>3, <1>4, FailFacts
<1> HIDE DEF b
<1>6. /\ c \in View(N) /\ c.rows = b.rows
      /\ c.panel = [q \in Panel |-> IF q = "table" THEN [state |-> "error", of |-> N] ELSE b.panel[q]]
  BY <1>2, <1>4, <1>5, FailFacts
<1> HIDE DEF c
<1>7. /\ page' \in View(N) /\ Strip(page') /\ page'.line.is # "loading"
      /\ page'.rows["timeline"] = c.rows["timeline"] /\ page'.rows["geo"] = c.rows["geo"]
      /\ page'.panel["availability"].state # "loading"
      /\ \A q \in Panel \ {"availability"} : page'.panel[q] = c.panel[q]
  BY <1>1, <1>2, <1>6, AvailabilityPainted
<1>8. /\ page'.rows["timeline"] = IF "timeline" \in got THEN N ELSE 0
      /\ page'.rows["geo"] = IF "geo" \in got THEN N ELSE 0
      /\ page'.panel["timeline"] =
           [state |-> IF "timeline" \in got THEN "ready" ELSE "error", of |-> N]
      /\ page'.panel["map"].state = "error" /\ page'.panel["table"].state = "error"
  BY <1>3, <1>4, <1>5, <1>6, <1>7
<1> QED BY <1>1, <1>7, <1>8, NewestIsOver DEF N

LEMMA GeoDrawnOK ==
    ASSUME StatsInv, NEW r \in Request, Settle(r), NEW got \in SUBSET Fetch, GeoDrawn(r, got)
    PROVE  StatsInv'
<1> DEFINE N == requestId
           a == Store(PaintTimeline(page, N, got), "geo", N, got)
<1>1. /\ r = N /\ N \in Request /\ stage[N] = "fetching" /\ "geo" \in got /\ maps = "ready"
      /\ answered' = [answered EXCEPT ![N] = got] /\ stage' = [stage EXCEPT ![N] = "over"]
      /\ page' = AfterMaps(a, N, got, TRUE) /\ UNCHANGED <<maps, waiters>> /\ Settle(N)
  BY DEF GeoDrawn, IsCurrent
<1>2. N \in 1 .. MaxRequests /\ N \in 0 .. MaxRequests /\ N \in 1 .. N
      /\ asked \in [Request -> RangeKey] /\ mapLevel \in Level
  BY <1>1 DEF StatsInv, StatsType, Request
<1>3. /\ a \in View(N)
      /\ a.rows["timeline"] = IF "timeline" \in got THEN N ELSE 0
      /\ a.rows["geo"] = IF "geo" \in got THEN N ELSE 0
      /\ a.panel["timeline"] = [state |-> IF "timeline" \in got THEN "ready" ELSE "error", of |-> N]
  BY <1>2, CurvesPainted
<1> HIDE DEF a, N
<1>4. LET from  == a.rows["geo"]
          drawn == [state |-> IF from = 0 THEN "empty" ELSE "ready", of |-> from]
      IN  /\ page' \in View(N) /\ Strip(page') /\ page'.line.is # "loading"
          /\ page'.rows["timeline"] = a.rows["timeline"] /\ page'.rows["geo"] = from
          /\ page'.panel["availability"].state # "loading"
          /\ page'.panel["timeline"] = a.panel["timeline"]
          /\ page'.panel["table"] = drawn /\ page'.drawn["table"] = mapLevel
          /\ page'.panel["map"] = drawn /\ page'.drawn["map"] = mapLevel
  <2>1. PICK ok \in BOOLEAN : ok = TRUE OBVIOUS
  <2>2. page' = AfterMaps(a, N, got, ok) BY <1>1, <2>1
  <2>3. N = requestId BY DEF N
  <2> DEFINE n == N
             x == AfterMaps(a, N, got, ok)
  <2>4. n \in 0 .. MaxRequests /\ a \in View(n) /\ N \in 1 .. n BY <1>2, <1>3
  <2> HIDE DEF n
  <2>5. LET from  == a.rows["geo"]
            drawn == [state |-> IF from = 0 THEN "empty" ELSE "ready", of |-> from]
        IN  /\ x \in View(n) /\ Strip(x) /\ x.line.is # "loading"
            /\ x.rows["timeline"] = a.rows["timeline"] /\ x.rows["geo"] = from
            /\ x.panel["availability"].state # "loading"
            /\ x.panel["timeline"] = a.panel["timeline"]
            /\ x.panel["table"] = drawn /\ x.drawn["table"] = mapLevel
            /\ ok /\ N = requestId => x.panel["map"] = drawn /\ x.drawn["map"] = mapLevel
            /\ ok /\ N # requestId =>
                 x.panel["map"] = a.panel["map"] /\ x.drawn["map"] = a.drawn["map"]
            /\ ~ok => x.panel["map"].state = "error"
    BY <1>2, <2>4, AfterMapsPainted
  <2> QED BY <2>1, <2>2, <2>3, <2>5 DEF n
<1>5. a.rows["geo"] = N /\ N # 0 BY <1>1, <1>2, <1>3
<1>6. /\ page' \in View(N) /\ Strip(page') /\ page'.line.is # "loading"
      /\ page'.rows["timeline"] = IF "timeline" \in got THEN N ELSE 0
      /\ page'.rows["geo"] = N
      /\ page'.panel["availability"].state # "loading"
      /\ page'.panel["timeline"] =
           [state |-> IF "timeline" \in got THEN "ready" ELSE "error", of |-> N]
      /\ page'.panel["table"] = [state |-> "ready", of |-> N] /\ page'.drawn["table"] = mapLevel
      /\ page'.panel["map"] = [state |-> "ready", of |-> N] /\ page'.drawn["map"] = mapLevel
  BY <1>3, <1>4, <1>5
<1> QED BY <1>1, <1>6, NewestIsOver DEF N

LEMMA GeoAwaitsMapsOK ==
    ASSUME StatsInv, NEW r \in Request, Settle(r), NEW got \in SUBSET Fetch, GeoAwaitsMaps(r, got)
    PROVE  StatsInv'
<1> DEFINE N == requestId
           w == page'
<1>1. /\ r = N /\ N \in Request /\ stage[N] = "fetching" /\ "geo" \in got /\ maps # "ready"
      /\ answered' = [answered EXCEPT ![N] = got] /\ stage' = [stage EXCEPT ![N] = "maps"]
      /\ page' = Store(PaintTimeline(page, N, got), "geo", N, got)
      /\ maps' = "loading" /\ waiters' = Append(waiters, N)
  BY DEF GeoAwaitsMaps, IsCurrent
<1>2. /\ requestId' = N /\ asked' = asked /\ mapLevel' = mapLevel
      /\ N \in 1 .. MaxRequests
      /\ summary' = summary /\ summaries' = summaries
      /\ stage' \in [Request -> {"none", "fetching", "maps", "over"}]
      /\ \A q \in Request : stage'[q] = IF q = N THEN "maps" ELSE stage[q]
      /\ \A q \in Request : stage'[q] = "none" <=> q > N
      /\ RefreshOK' /\ refreshing' \in SUBSET (1 .. requestId') /\ disabled' \in BOOLEAN
  <2> DEFINE s == "maps"
  <2>1. s \in {"maps", "over"} OBVIOUS
  <2> HIDE DEF s
  <2>2. stage' = [stage EXCEPT ![r] = s] /\ stage[r] = "fetching" BY <1>1 DEF s
  <2> QED BY <1>1, <2>1, <2>2, SettleFrame DEF s
<1>3. /\ w \in View(N)
      /\ w.rows["timeline"] = IF "timeline" \in got THEN N ELSE 0
      /\ w.rows["geo"] = IF "geo" \in got THEN N ELSE 0
      /\ w.rows["availability"] = page.rows["availability"]
      /\ w.panel["timeline"] = [state |-> IF "timeline" \in got THEN "ready" ELSE "error", of |-> N]
      /\ \A q \in Panel \ {"timeline"} : w.panel[q] = page.panel[q]
      /\ w.drawn = page.drawn /\ w.selected = page.selected /\ w.line = page.line
  <2>1. requestId \in 1 .. MaxRequests BY <1>2
  <2> QED BY <1>1, <2>1, CurvesPainted
<1>4. /\ answered' \in [Request -> SUBSET Fetch]
      /\ answered'[N] = got /\ \A q \in Request \ {N} : answered'[q] = answered[q]
  BY <1>1 DEF StatsInv, StatsType
<1>5. /\ waiters \in Seq(Request) /\ waiters' \in Seq(Request) /\ Len(waiters) \in Nat
      /\ Len(waiters') = Len(waiters) + 1 /\ waiters'[Len(waiters) + 1] = N
      /\ \A i \in 1 .. Len(waiters) : waiters'[i] = waiters[i]
  BY <1>1 DEF StatsInv, StatsType
<1>6. StatsType'
  <2>1. maps' \in {"none", "loading", "ready"} BY <1>1
  <2> QED BY <1>2, <1>3, <1>4, <1>5, <2>1 DEF StatsInv, StatsType
<1>7. ~Newest' BY <1>1, <1>2 DEF Newest
<1>8. Waits' BY <1>1, <1>2 DEF Waits
<1>9. RequestsOK'
  <2>1. \A q \in Request : stage'[q] = "maps" <=> \E i \in 1 .. Len(waiters') : waiters'[i] = q
    <3> TAKE q \in Request
    <3>1. CASE q = N
      <4>1. Len(waiters) + 1 \in 1 .. Len(waiters') BY <1>5
      <4> QED BY <1>1, <1>2, <1>5, <3>1, <4>1
    <3>2. CASE q # N
      <4>1. stage'[q] = "maps" <=> \E i \in 1 .. Len(waiters) : waiters[i] = q
        BY <1>2, <3>2 DEF StatsInv, RequestsOK
      <4>2. \A i \in 1 .. Len(waiters) : i \in 1 .. Len(waiters') BY <1>5
      <4>3. \A i \in 1 .. Len(waiters') : i \in 1 .. Len(waiters) \/ i = Len(waiters) + 1 BY <1>5
      <4> QED BY <1>5, <3>2, <4>1, <4>2, <4>3
    <3> QED BY <3>1, <3>2
  <2>2. \A q \in Request : stage'[q] = "maps" => "geo" \in answered'[q]
    BY <1>1, <1>2, <1>4 DEF StatsInv, RequestsOK
  <2>3. \A i, j \in 1 .. Len(waiters') : i < j => waiters'[i] < waiters'[j]
    <3> SUFFICES ASSUME NEW i \in 1 .. Len(waiters'), NEW j \in 1 .. Len(waiters'), i < j
                 PROVE  waiters'[i] < waiters'[j]
      OBVIOUS
    <3>1. i \in 1 .. Len(waiters) /\ waiters'[i] = waiters[i] BY <1>5
    <3>2. waiters[i] \in 1 .. N /\ waiters[i] # N
      BY <1>1, <3>1, WaitersFacts DEF StatsInv
    <3>3. CASE j = Len(waiters) + 1 BY <1>2, <1>5, <3>1, <3>2, <3>3
    <3>4. CASE j # Len(waiters) + 1
      <4>1. j \in 1 .. Len(waiters) /\ waiters'[j] = waiters[j] BY <1>5, <3>4
      <4> QED BY <3>1, <4>1 DEF StatsInv, RequestsOK
    <3> QED BY <3>3, <3>4
  <2>4. waiters' # <<>> BY <1>5
  <2> QED BY <1>1, <1>2, <1>7, <2>1, <2>2, <2>3, <2>4 DEF RequestsOK
<1>10. Charts(page)'
  <2>1. w.panel["timeline"].state = "ready" =>
          w.panel["timeline"].of = w.rows["timeline"] /\ w.rows["timeline"] # 0
    BY <1>2, <1>3
  <2> QED BY <1>2, <1>8, <2>1 DEF Charts
<1>11. Settled(page)'
  BY <1>1, <1>2, <1>3, <1>4, <1>7 DEF Settled, StoredOf
<1>12. Strip(page)'
  BY <1>2, <1>3 DEF StatsInv, Strip, Selection, Hours, Panel
<1>13. MapsOK'
  <2>1. w.panel["map"].state # "ready"
    BY <1>1, <1>3 DEF StatsInv, MapsOK, Panel
  <2> QED BY <1>1, <1>7, <2>1 DEF MapsOK, NewestGeoShown, LevelShown
<1> QED BY <1>2, <1>6, <1>9, <1>10, <1>11, <1>12, <1>13 DEF StatsInv

\* The maps settle, and every request that waited for them goes on.
LEMMA MapsSettleOK ==
    ASSUME StatsInv, NEW ok \in BOOLEAN, MapsSettle(ok)
    PROVE  StatsInv'
<1> DEFINE N == requestId
           w == page'
<1>1. /\ maps = "loading" /\ maps' = (IF ok THEN "ready" ELSE "none") /\ page' = Resume(ok)
      /\ stage' = [r \in Request |-> IF stage[r] = "maps" THEN "over" ELSE stage[r]]
      /\ waiters' = <<>> /\ requestId' = N /\ asked' = asked /\ answered' = answered
      /\ mapLevel' = mapLevel /\ summary' = summary /\ summaries' = summaries /\ RefreshesEnd
  BY DEF MapsSettle
<1>2. waiters # <<>> BY <1>1 DEF StatsInv, RequestsOK
<1>3. N > 0 /\ N \in 1 .. MaxRequests /\ N \in Request
  BY <1>2, WaitersFacts DEF StatsInv, StatsType, Request
<1>4. LET from  == page.rows["geo"]
          drawn == [state |-> IF from = 0 THEN "empty" ELSE "ready", of |-> from]
      IN  /\ w \in View(N) /\ Strip(w) /\ w.line.is # "loading"
          /\ w.rows["timeline"] = page.rows["timeline"] /\ w.rows["geo"] = from
          /\ w.panel["availability"].state # "loading"
          /\ w.panel["timeline"] = page.panel["timeline"]
          /\ w.panel["table"] = drawn /\ w.drawn["table"] = mapLevel
          /\ ok /\ Waits => w.panel["map"] = drawn /\ w.drawn["map"] = mapLevel
          /\ ok /\ ~Waits =>
               w.panel["map"] = page.panel["map"] /\ w.drawn["map"] = page.drawn["map"]
          /\ ~ok => w.panel["map"].state = "error"
  BY <1>1, <1>2, Resumed DEF StatsInv
<1> DEFINE from == page.rows["geo"]
<1>5. page.panel["map"].state # "ready" BY <1>1 DEF StatsInv, MapsOK
<1>6. /\ stage \in [Request -> {"none", "fetching", "maps", "over"}]
      /\ stage' \in [Request -> {"none", "fetching", "maps", "over"}]
      /\ \A r \in Request : stage'[r] = IF stage[r] = "maps" THEN "over" ELSE stage[r]
  BY <1>1 DEF StatsInv, StatsType
<1>7. RefreshOK' /\ refreshing' \in SUBSET (1 .. requestId') /\ disabled' \in BOOLEAN
  <2>1. requestId > 0 /\ summary'.state = "loading" => summaries' # {}
    BY <1>1 DEF StatsInv, RefreshOK
  <2> QED BY <1>1, <2>1, RefreshesEndOK DEF StatsInv
<1>8. StatsType'
  <2>1. maps' \in {"none", "loading", "ready"} BY <1>1
  <2>2. waiters' \in Seq(Request) BY <1>1
  <2> QED BY <1>1, <1>4, <1>6, <1>7, <2>1, <2>2 DEF StatsInv, StatsType
<1>9. ~Waits' /\ (Newest' <=> Newest \/ Waits) BY <1>1, <1>3, <1>6 DEF Newest, Waits
<1>10. RequestsOK'
  <2>1. \A r \in Request : stage'[r] # "maps" BY <1>6
  <2>2. \A r \in Request : stage'[r] = "none" <=> r > N BY <1>6 DEF StatsInv, RequestsOK
  <2>3. maps' # "loading" /\ Len(waiters') = 0 BY <1>1
  <2> QED BY <1>1, <2>1, <2>2, <2>3 DEF RequestsOK
<1> HIDE DEF w
<1>11. w = page' BY DEF w
<1>12. Charts(page)'
  <2>1. w.panel["timeline"].state = "ready" =>
          w.panel["timeline"].of = w.rows["timeline"] /\ w.rows["timeline"] # 0
    BY <1>4 DEF StatsInv, Charts
  <2>2. \A p \in {"map", "table"} : w.panel[p].state = "ready" =>
          w.panel[p].of = w.rows["geo"] /\ w.rows["geo"] # 0
    BY <1>4, <1>5
  <2> QED BY <1>1, <1>3, <1>11, <2>1, <2>2 DEF Charts
<1>13. Settled(page)'
  <2>1. stage'[N] \in {"maps", "over"} => stage[N] \in {"maps", "over"} BY <1>3, <1>6
  <2>2. stage'[N] \in {"maps", "over"} =>
          /\ \A f \in {"timeline", "geo"} : w.rows[f] = StoredOf(N, f)
          /\ w.panel["timeline"].state # "loading"
    BY <1>3, <1>4, <2>1 DEF StatsInv, Settled
  <2>3. Newest' => \A p \in Panel : w.panel[p].state # "loading"
    <3> SUFFICES ASSUME Newest' PROVE \A p \in Panel : w.panel[p].state # "loading" OBVIOUS
    <3>1. \A p \in Panel : \/ p = "timeline" \/ p = "map" \/ p = "table" \/ p = "availability"
      BY DEF Panel
    <3>2. stage'[N] = "over" BY <1>1 DEF Newest
    <3>3. w.panel["map"].state # "loading"
      <4>1. ~Waits => page.panel["map"].state # "loading"
        BY <1>9 DEF StatsInv, Settled, Panel
      <4> QED BY <1>4, <4>1
    <3> QED BY <1>4, <2>2, <3>1, <3>2, <3>3
  <2> QED BY <1>1, <1>4, <1>9, <1>11, <2>2, <2>3 DEF Settled, StoredOf
<1>14. Strip(page)' BY <1>1, <1>4, <1>11 DEF Strip, Selection, Hours
<1>15. MapsOK'
  <2>1. maps' # "ready" => w.panel["map"].state # "ready" BY <1>1, <1>4
  <2>2. NewestGeoShown'
    <3>1. SUFFICES ASSUME Newest \/ Waits, "geo" \in answered[N]
                   PROVE  /\ w.panel["table"] = [state |-> "ready", of |-> N]
                          /\ w.panel["map"].state = IF maps' = "ready" THEN "ready" ELSE "error"
      BY <1>1, <1>9, <1>11 DEF NewestGeoShown
    <3>2. Waits BY <1>2, <3>1 DEF StatsInv, RequestsOK
    <3>3. from = N BY <1>3, <3>1, <3>2 DEF StatsInv, Settled, StoredOf, Waits
    <3> QED BY <1>1, <1>3, <1>4, <3>2, <3>3
  <2>3. LevelShown' BY <1>1, <1>4, <1>5, <1>11 DEF LevelShown
  <2> QED BY <1>11, <2>1, <2>2, <2>3 DEF MapsOK
<1> QED BY <1>7, <1>8, <1>10, <1>12, <1>13, <1>14, <1>15 DEF StatsInv

\* Nothing happens.
LEMMA StutterOK == StatsInv /\ UNCHANGED vars => StatsInv'
<1> SUFFICES ASSUME StatsInv, UNCHANGED vars PROVE StatsInv' OBVIOUS
<1>1. /\ requestId' = requestId /\ asked' = asked /\ stage' = stage /\ answered' = answered
      /\ maps' = maps /\ waiters' = waiters /\ mapLevel' = mapLevel /\ page' = page
      /\ summary' = summary /\ summaries' = summaries
      /\ refreshing' = refreshing /\ disabled' = disabled
  BY DEF vars, requests, refresh
<1>2. (Waits' <=> Waits) /\ (Newest' <=> Newest) BY <1>1 DEF Waits, Newest
<1>3. StatsType' BY <1>1 DEF StatsInv, StatsType
<1>4. RequestsOK' BY <1>1, <1>2 DEF StatsInv, RequestsOK
<1>5. Charts(page)' BY <1>1, <1>2 DEF StatsInv, Charts
<1>6. Settled(page)' BY <1>1, <1>2 DEF StatsInv, Settled, StoredOf
<1>7. Strip(page)' BY <1>1 DEF StatsInv, Strip, Selection, Hours
<1>8. MapsOK' BY <1>1, <1>2 DEF StatsInv, MapsOK, NewestGeoShown, LevelShown
<1>9. RefreshOK' BY <1>1 DEF StatsInv, RefreshOK
<1> QED BY <1>3, <1>4, <1>5, <1>6, <1>7, <1>8, <1>9 DEF StatsInv

LEMMA NextStats == StatsInv /\ [Next]_vars => StatsInv'
<1> SUFFICES ASSUME StatsInv, [Next]_vars PROVE StatsInv' OBVIOUS
<1>1. CASE ChangeRange BY <1>1, ChangeRangeOK
<1>2. CASE RetryPanel BY <1>2, RetryPanelOK
<1>3. CASE RefreshAll BY <1>3, RefreshAllOK
<1>4. CASE \E r \in Request : Settle(r)
  <2>1. PICK r \in Request : Settle(r) BY <1>4
  <2>2. CASE Dropped(r) BY <2>1, <2>2, DroppedOK
  <2>3. ASSUME NEW got \in SUBSET Fetch, GeoFails(r, got) PROVE StatsInv'
    BY <2>1, <2>3, GeoFailsOK
  <2>4. ASSUME NEW got \in SUBSET Fetch, GeoDrawn(r, got) PROVE StatsInv'
    BY <2>1, <2>4, GeoDrawnOK
  <2>5. ASSUME NEW got \in SUBSET Fetch, GeoAwaitsMaps(r, got) PROVE StatsInv'
    BY <2>1, <2>5, GeoAwaitsMapsOK
  <2>6. Dropped(r) \/ \E got \in SUBSET Fetch : GeoFails(r, got) \/ GeoDrawn(r, got) \/ GeoAwaitsMaps(r, got)
    BY <2>1 DEF Settle
  <2> QED BY <2>2, <2>3, <2>4, <2>5, <2>6
<1>5. CASE \E r \in Request, ok \in BOOLEAN : SummarySettles(r, ok) BY <1>5, SummarySettlesOK
<1>6. CASE \E ok \in BOOLEAN : MapsSettle(ok) BY <1>6, MapsSettleOK
<1>7. CASE DrillDown BY <1>7, DrillDownOK
<1>8. CASE WorldCrumb BY <1>8, WorldCrumbOK
<1>9. CASE ChangeMetric BY <1>9, ChangeMetricOK
<1>10. CASE Sort BY <1>10, SortOK
<1>11. CASE SelectAvailability BY <1>11, SelectAvailabilityOK
<1>12. CASE RerenderForTheme BY <1>12, RerenderForThemeOK
<1>13. CASE UNCHANGED vars BY <1>13, StutterOK
<1> QED BY <1>1, <1>2, <1>3, <1>4, <1>5, <1>6, <1>7, <1>8, <1>9, <1>10, <1>11, <1>12, <1>13 DEF Next

-----------------------------------------------------------------------------
(* The theorems.                                                             *)

\* The invariant holds of every reachable page.
THEOREM StatsInvariant == Spec => []StatsInv
<1>1. Init => StatsInv BY InitStats
<1>2. StatsInv /\ [Next]_vars => StatsInv' BY NextStats
<1> QED BY <1>1, <1>2, PTL DEF Spec

\* Once the newest request is answered, no curve, map or table is left from an older
\* answer: what settles later is dropped, or waits its turn and draws what is stored.
THEOREM ChartsNeverStale == Spec => []NoStaleCharts
<1>1. StatsInv => NoStaleCharts
  <2> SUFFICES ASSUME StatsInv, Newest, NEW p \in {"timeline", "map", "table"},
                      page.panel[p].state = "ready"
               PROVE  page.panel[p].of = requestId
    BY DEF NoStaleCharts
  <2>1. ~Waits BY DEF Newest, Waits
  <2>2. \A f \in {"timeline", "geo"} : page.rows[f] = StoredOf(requestId, f)
    BY DEF StatsInv, Settled, Newest
  <2>3. CASE p = "timeline"
    <3>1. page.panel[p].of = page.rows["timeline"] /\ page.rows["timeline"] # 0
      BY <2>3 DEF StatsInv, Charts
    <3> QED BY <2>2, <3>1 DEF StoredOf
  <2>4. CASE p \in {"map", "table"}
    <3>1. page.panel[p].of = page.rows["geo"] /\ page.rows["geo"] # 0
      BY <2>1, <2>4 DEF StatsInv, Charts
    <3> QED BY <2>2, <3>1 DEF StoredOf
  <2> QED BY <2>3, <2>4
<1> QED BY <1>1, StatsInvariant, PTL

\* When the newest request had geo rows, the table shows them, and the map does, or it
\* says that the maps could not be loaded.
THEOREM NewestGeoAlwaysShown == Spec => []NewestGeoShown
<1>1. StatsInv => NewestGeoShown BY DEF StatsInv, MapsOK
<1> QED BY <1>1, StatsInvariant, PTL

\* The map and the table are drawn for the level in the title as soon as there are maps.
THEOREM LevelAlwaysShown == Spec => []LevelShown
<1>1. StatsInv => LevelShown BY DEF StatsInv, MapsOK
<1> QED BY <1>1, StatsInvariant, PTL

\* The text under the strip names the selected hour, and that hour is in the strip.
THEOREM SelectionAlwaysShown == Spec => []SelectionShown
<1>1. StatsInv => SelectionShown BY DEF StatsInv, Strip, SelectionShown
<1> QED BY <1>1, StatsInvariant, PTL

\* When every fetch is settled nothing on the page is loading, and the button works.
THEOREM LoadingAlwaysEnds == Spec => []LoadingEnds
<1>1. StatsInv => LoadingEnds
  <2> SUFFICES ASSUME StatsInv, Quiet
               PROVE  /\ \A p \in Panel : page.panel[p].state # "loading"
                      /\ summary.state # "loading" /\ page.line.is # "loading"
                      /\ ~disabled /\ maps # "loading"
    BY DEF LoadingEnds
  <2>1. requestId > 0 /\ summaries = {} /\ \A r \in 1 .. requestId : stage[r] = "over"
    BY DEF Quiet
  <2>2. requestId \in 1 .. requestId /\ 1 .. requestId \subseteq Request
    BY <2>1, StatsPageAssumption DEF StatsInv, StatsType, Request
  <2>3. Newest BY <2>1, <2>2 DEF Newest
  <2>4. \A p \in Panel : page.panel[p].state # "loading" BY <2>3 DEF StatsInv, Settled
  <2>5. page.line.is # "loading" BY <2>3 DEF StatsInv, Settled
  <2>6. summary.state # "loading" BY <2>1 DEF StatsInv, RefreshOK
  <2>7. ~disabled
    <3>1. \A r \in refreshing : FALSE
      BY <2>1 DEF StatsInv, StatsType, RefreshOK
    <3> QED BY <3>1 DEF StatsInv, RefreshOK
  <2>8. maps # "loading"
    <3> SUFFICES ASSUME maps = "loading" PROVE FALSE OBVIOUS
    <3>1. waiters # <<>> BY DEF StatsInv, RequestsOK
    <3>2. 1 \in 1 .. Len(waiters) BY <3>1 DEF StatsInv, StatsType
    <3>3. waiters[1] \in Request /\ stage[waiters[1]] = "maps"
      BY <3>2, WaitersFacts DEF StatsInv
    <3>4. waiters[1] \in 1 .. requestId BY <3>3, WaitersFacts DEF StatsInv
    <3> QED BY <2>1, <3>3, <3>4
  <2> QED BY <2>4, <2>5, <2>6, <2>7, <2>8
<1> QED BY <1>1, StatsInvariant, PTL

================================================================================
