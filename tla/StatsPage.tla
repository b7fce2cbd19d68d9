------------------------------ MODULE StatsPage -------------------------------
(***************************************************************************)
(* The statistics page in the browser (src/web/stats.ts): loadRangeData,   *)
(* started again with every change of the range, a retry or a refresh, the *)
(* maps it loads on the first need, loadSummary, which a refresh calls     *)
(* besides, and the controls that redraw a panel from `state`.             *)
(*                                                                         *)
(* A request is one call of loadRangeData: three fetches, and when geo     *)
(* rows have come a wait for the maps.  What a panel shows is the number   *)
(* of the request it shows the answer of; an answer has rows, of countries *)
(* and of provinces.  A panel is "empty" without rows, also when it draws  *)
(* the provinces all the same, with zeros.  The promise callbacks of one   *)
(* event run together; nothing comes between them.                         *)
(*                                                                         *)
(* The controls may be used at any time they can be seen.  A map that is   *)
(* not registered yet makes echarts throw, and nothing worse: a chart that *)
(* threw draws again when it is called again.                              *)
(***************************************************************************)
EXTENDS Integers, Sequences, FiniteSets

CONSTANT MaxRequests   \* bound: calls of loadRangeData

ASSUME StatsPageAssumption == MaxRequests \in Nat \ {0}

Fetch   == {"timeline", "geo", "availability"}
Request == 1 .. MaxRequests
Level   == {"world", "china"}

\* Two of the ranges: a range is the number of hours its availability answer has.
RangeKey == 1 .. 2

VARIABLES
    requestId,  \* state.requestId
    asked,      \* of each request: its range; the newest one's is state.range
    stage,      \* of each request: "none", "fetching", "maps" (awaits them), "over"
    answered,   \* of each request: which fetches were fulfilled
    maps,       \* mapsReady: "none", "loading", "ready"
    waiters,    \* the requests that await the maps, in the order they came
    mapLevel,   \* state.mapLevel, which is also the title over the table
    page,       \* [panel, drawn, rows, selected, line]: what each panel shows,
                \* [state, of], the level that map and table were drawn for, the
                \* request that state.timeline, countries (geo) and availability
                \* are from, selectedAvailabilityIndex + 1, and the text under the strip
    summary,    \* [state, notice]: of the cards, and whether #fatal-error is shown
    summaries,  \* the refreshes, by their requests, whose summary is not answered
    refreshing, \* the calls of refreshAll, by their requests, that have not ended
    disabled    \* of the refresh button

requests == <<requestId, asked, stage, answered, maps, waiters>>
refresh  == <<summary, summaries, refreshing, disabled>>
vars     == <<requests, mapLevel, page, refresh>>

\* Every panel, and the fetch its rows are from.
Panel == {"timeline", "map", "table", "availability"}
Source(p) == IF p \in {"map", "table"} THEN "geo" ELSE p

Text(is) == [is |-> is, of |-> 0, hour |-> 0]

Init ==
    /\ requestId = 0
    /\ asked = [r \in Request |-> 1]
    /\ stage = [r \in Request |-> "none"] /\ answered = [r \in Request |-> {}]
    /\ maps = "none" /\ waiters = <<>>
    /\ mapLevel = "world"
    /\ page = [panel    |-> [p \in Panel |-> [state |-> "loading", of |-> 0]],
               drawn    |-> [p \in {"map", "table"} |-> "world"],
               rows     |-> [f \in Fetch |-> 0],
               selected |-> 0,
               line     |-> Text("loading")]
    /\ summary = [state |-> "loading", notice |-> FALSE]
    /\ summaries = {} /\ refreshing = {} /\ disabled = FALSE

-----------------------------------------------------------------------------
(* Painting.  Each operator takes the page and returns it repainted; `got` *)
(* are the fulfilled fetches of request r.                                 *)

Drawn(view, p) ==
    LET from == view.rows[Source(p)]
    IN  [view EXCEPT !.panel[p] = [state |-> IF from = 0 THEN "empty" ELSE "ready", of |-> from]]

RenderTimeline(view) == Drawn(view, "timeline")
RenderMap(view)      == [Drawn(view, "map") EXCEPT !.drawn["map"] = mapLevel]
RenderGeoTable(view) == [Drawn(view, "table") EXCEPT !.drawn["table"] = mapLevel]

\* The hours of state.availability, and the label of the selected one.
Hours(view) == IF view.rows["availability"] = 0 THEN 0 ELSE asked[view.rows["availability"]]
Selection(view) == [is |-> "hour", of |-> view.rows["availability"], hour |-> view.selected]

\* The strip is drawn with its last hour selected; mutant: the selection is kept.
SelectLastKept(view) == IF view.selected = 0 THEN Hours(view) ELSE view.selected
SelectLast(view) == Hours(view)
RenderAvailability(view) ==
    IF Hours(view) = 0
    THEN [Drawn(view, "availability") EXCEPT !.line = Text("empty")]
    ELSE LET strip == [Drawn(view, "availability") EXCEPT !.selected = SelectLast(view)]
         IN  [strip EXCEPT !.line = Selection(strip)]

Fail(view, p, r) == [view EXCEPT !.panel[p] = [state |-> "error", of |-> r]]
Store(view, f, r, got) == [view EXCEPT !.rows[f] = IF f \in got THEN r ELSE 0]

\* The timeline's and the availability's part of a settled request.
PaintTimeline(view, r, got) ==
    LET stored == Store(view, "timeline", r, got)
    IN  IF "timeline" \in got THEN RenderTimeline(stored) ELSE Fail(stored, "timeline", r)
PaintAvailability(view, r, got) ==
    LET stored == Store(view, "availability", r, got)
    IN  IF "availability" \in got THEN RenderAvailability(stored)
        ELSE [Fail(stored, "availability", r) EXCEPT !.line = Text("error")]

\* What a request does after `await ensureMapsReady()`: the map, the table and,
\* without looking at the request number again, its availability.
\* Mutants: a failure is not shown; the table is drawn like the map.
DrawMapSilent(view, r, ok) == IF ok /\ r = requestId THEN RenderMap(view) ELSE view
DrawMap(view, r, ok) ==
    CASE ~ok                    -> Fail(view, "map", r)
      [] ok /\ r = requestId    -> RenderMap(view)
      [] ok /\ r # requestId    -> view
AfterMapsIfNewest(view, r, got, ok) ==
    LET drawn == DrawMap(view, r, ok)
    IN  PaintAvailability(IF r = requestId THEN RenderGeoTable(drawn) ELSE drawn, r, got)
AfterMaps(view, r, got, ok) ==
    PaintAvailability(RenderGeoTable(DrawMap(view, r, ok)), r, got)

\* The waiting requests go on, one after the other.
\* Mutant: only the one that started the download does.
ResumeFirst(ok) == AfterMaps(page, Head(waiters), answered[Head(waiters)], ok)
Resume(ok) ==
    LET after[i \in 0 .. Len(waiters)] ==
          IF i = 0 THEN page
          ELSE AfterMaps(after[i - 1], waiters[i], answered[waiters[i]], ok)
    IN  after[Len(waiters)]

-----------------------------------------------------------------------------
(* Requests.                                                               *)

\* loadRangeData up to its await.
LoadRangeData(range) ==
    /\ requestId < MaxRequests
    /\ requestId' = requestId + 1
    /\ asked' = [asked EXCEPT ![requestId'] = range]
    /\ stage' = [stage EXCEPT ![requestId'] = "fetching"]
    /\ page' = [page EXCEPT !.panel = [p \in Panel |-> [state |-> "loading", of |-> requestId']],
                            !.line = Text("loading")]
    /\ UNCHANGED <<answered, maps, waiters, mapLevel>>

\* The buttons of the ranges, and those in a panel that shows an error.
ChangeRange ==
    /\ requestId > 0
    /\ \E range \in RangeKey \ {asked[requestId]} : LoadRangeData(range)
    /\ UNCHANGED refresh
RetryPanel ==
    /\ \E p \in Panel \ {"table"} : page.panel[p].state = "error"
    /\ LoadRangeData(asked[requestId])
    /\ UNCHANGED refresh

\* refreshAll, of main, of the refresh button or of the one in the notice, which
\* stays there while another refresh is under way; with loadSummary up to its await.
RefreshAll ==
    /\ ~disabled \/ summary.notice
    /\ LoadRangeData(IF requestId = 0 THEN 1 ELSE asked[requestId])
    /\ summary' = [summary EXCEPT !.state = "loading"]
    /\ summaries' = summaries \union {requestId'}
    /\ refreshing' = refreshing \union {requestId'}
    /\ disabled' = TRUE

\* Promise.allSettled of a refresh, and its `finally`.
RefreshesEnd ==
    /\ refreshing' = {r \in refreshing : r \in summaries' \/ stage'[r] # "over"}
    /\ disabled' = (disabled /\ refreshing' = refreshing)

\* loadSummary goes on; its answers are not told apart by a request number.
SummarySettles(r, ok) ==
    /\ r \in summaries
    /\ summaries' = summaries \ {r}
    /\ summary' = [state |-> IF ok THEN "ready" ELSE "error", notice |-> ~ok]
    /\ UNCHANGED <<requests, mapLevel, page>>
    /\ RefreshesEnd

\* `requestId !== state.requestId || signal.aborted`; mutant: not looked at.
IsCurrentUnchecked(r) == TRUE
IsCurrent(r) == r = requestId

\* The three fetches are settled, but the request is not the newest one.
Dropped(r) ==
    /\ stage[r] = "fetching" /\ ~IsCurrent(r)
    /\ stage' = [stage EXCEPT ![r] = "over"]
    /\ UNCHANGED <<answered, maps, waiters, page>>

\* Settled without geo rows.
GeoFails(r, got) ==
    /\ stage[r] = "fetching" /\ IsCurrent(r) /\ "geo" \notin got
    /\ answered' = [answered EXCEPT ![r] = got]
    /\ stage' = [stage EXCEPT ![r] = "over"]
    /\ LET curves == Store(PaintTimeline(page, r, got), "geo", r, got)
       IN  page' = PaintAvailability(Fail(Fail(curves, "map", r), "table", r), r, got)
    /\ UNCHANGED <<maps, waiters>>

\* Settled with geo rows, and the maps are there.
GeoDrawn(r, got) ==
    /\ stage[r] = "fetching" /\ IsCurrent(r) /\ "geo" \in got /\ maps = "ready"
    /\ answered' = [answered EXCEPT ![r] = got]
    /\ stage' = [stage EXCEPT ![r] = "over"]
    /\ page' = AfterMaps(Store(PaintTimeline(page, r, got), "geo", r, got), r, got, TRUE)
    /\ UNCHANGED <<maps, waiters>>

\* Settled with geo rows: ensureMapsReady loads the maps, once for all requests.
GeoAwaitsMaps(r, got) ==
    /\ stage[r] = "fetching" /\ IsCurrent(r) /\ "geo" \in got /\ maps # "ready"
    /\ answered' = [answered EXCEPT ![r] = got]
    /\ stage' = [stage EXCEPT ![r] = "maps"]
    /\ page' = Store(PaintTimeline(page, r, got), "geo", r, got)
    /\ maps' = "loading" /\ waiters' = Append(waiters, r)

Settle(r) ==
    /\ \/ Dropped(r)
       \/ \E got \in SUBSET Fetch : GeoFails(r, got) \/ GeoDrawn(r, got) \/ GeoAwaitsMaps(r, got)
    /\ UNCHANGED <<requestId, asked, mapLevel, summary, summaries>>
    /\ RefreshesEnd

\* The maps are loaded and registered, or they are not and will be asked for again.
MapsSettle(ok) ==
    /\ maps = "loading"
    /\ maps' = IF ok THEN "ready" ELSE "none"
    /\ page' = Resume(ok)
    /\ stage' = [r \in Request |-> IF stage[r] = "maps" THEN "over" ELSE stage[r]]
    /\ waiters' = <<>>
    /\ UNCHANGED <<requestId, asked, answered, mapLevel, summary, summaries>>
    /\ RefreshesEnd

-----------------------------------------------------------------------------
(* Controls that redraw.                                                   *)

\* setMapLevel; while there is no map, renderMap throws before the table is drawn.
SetMapLevel(level) ==
    /\ mapLevel' = level
    /\ page' = IF maps # "ready" THEN page
               ELSE [RenderGeoTable(RenderMap(page)) EXCEPT
                       !.drawn = [p \in {"map", "table"} |-> level]]
    /\ UNCHANGED <<requests, refresh>>

\* China on the map or in the table of countries, and the way back.
DrillDown ==
    /\ mapLevel = "world"
    /\ \E p \in {"map", "table"} : page.panel[p].state = "ready" /\ page.drawn[p] = "world"
    /\ SetMapLevel("china")
WorldCrumb == SetMapLevel("world")

\* The buttons of the map's metric, and the headers of the table.
ChangeMetric ==
    /\ maps = "ready"
    /\ page' = RenderMap(page)
    /\ UNCHANGED <<requests, mapLevel, refresh>>
Sort ==
    /\ page' = RenderGeoTable(page)
    /\ UNCHANGED <<requests, mapLevel, refresh>>

\* A click on an hour of the strip, or its arrow keys; the hours of an earlier
\* answer are there until the next one is painted.
SelectAvailability ==
    /\ \E hour \in 1 .. Hours(page) :
         LET chosen == [page EXCEPT !.selected = hour]
         IN  page' = [chosen EXCEPT !.line = Selection(chosen)]
    /\ UNCHANGED <<requests, mapLevel, refresh>>

\* A change of the colour scheme draws what has rows, up to what throws.
RerenderForTheme ==
    LET HasRows(p) == page.rows[Source(p)] # 0
        curves == IF HasRows("timeline") THEN RenderTimeline(page) ELSE page
        throws == HasRows("map") /\ maps # "ready"
        map    == IF HasRows("map") THEN RenderMap(curves) ELSE curves
    IN  /\ page' = CASE throws -> curves
                     [] ~throws /\ HasRows("availability") -> RenderAvailability(map)
                     [] ~throws /\ ~HasRows("availability") -> map
        /\ UNCHANGED <<requests, mapLevel, refresh>>

Next ==
    \/ ChangeRange \/ RetryPanel \/ RefreshAll
    \/ \E r \in Request : Settle(r)
    \/ \E r \in Request, ok \in BOOLEAN : SummarySettles(r, ok)
    \/ \E ok \in BOOLEAN : MapsSettle(ok)
    \/ DrillDown \/ WorldCrumb \/ ChangeMetric \/ Sort \/ SelectAvailability \/ RerenderForTheme

Spec == Init /\ [][Next]_vars

-----------------------------------------------------------------------------
(* Properties.                                                             *)

Newest == requestId > 0 /\ stage[requestId] = "over"

\* Once the newest request is answered no curve, map or table is an older one's, in
\* whatever order the answers and the maps came and whatever was redrawn meanwhile.
NoStaleCharts ==
    \A p \in {"timeline", "map", "table"} :
        Newest /\ page.panel[p].state = "ready" => page.panel[p].of = requestId

\* When the newest request is over and had geo rows, the table shows them, and so
\* does the map, unless the maps could not be loaded, which it then says.
NewestGeoShown ==
    Newest /\ "geo" \in answered[requestId] =>
        /\ page.panel["table"] = [state |-> "ready", of |-> requestId]
        /\ page.panel["map"].state = IF maps = "ready" THEN "ready" ELSE "error"

\* As soon as there are maps, the map and the table show the level that stands in
\* the title, also when the level was changed while there were none, which leaves
\* the table behind (setMapLevel throws before it reaches the table).
LevelShown ==
    \A p \in {"map", "table"} :
        maps = "ready" /\ page.panel[p].state = "ready" => page.drawn[p] = mapLevel

\* The text under the strip, when it names an hour, names the selected one of the
\* hours that are in the strip: not one of another range or of an older answer.
SelectionShown ==
    /\ page.line.is = "hour" => page.line = Selection(page) /\ page.selected \in 1 .. Hours(page)
    /\ page.panel["availability"].state = "ready" /\ Newest => page.line.is = "hour"

\* A page whose fetches are all settled, and whose maps are not being loaded, does
\* not say it is loading, in a panel, over the cards or with a disabled refresh
\* button: whatever failed or was overtaken, nothing loads for ever.
Quiet == requestId > 0 /\ summaries = {} /\ \A r \in 1 .. requestId : stage[r] = "over"
LoadingEnds ==
    Quiet => /\ \A p \in Panel : page.panel[p].state # "loading"
             /\ summary.state # "loading" /\ page.line.is # "loading"
             /\ ~disabled /\ maps # "loading"

\* "After a change of the range, calls, map and availability are updated together"
\* (public/stats.html:75).  Not so: a request that waited for the maps paints its
\* availability without looking whether a newer request has been answered since.
AvailabilityIsNewest ==
    Newest /\ page.panel["availability"].state = "ready" =>
        page.panel["availability"].of = requestId
===============================================================================
