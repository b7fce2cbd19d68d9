# Verification of simple-live-sync-site

TLA+ specifications of the sync server, its metrics and its statistics page,
their TLC runs, and theorems checked by TLAPS. Source paths are relative to the
repository (`src/index.ts` is the server's, `web/stats.ts` the page's).
PROJECT.json maps every definition to the lines it models.

## The system

Devices open a WebSocket to `/sync`, create a room or join one by its code, and
send each other favourites, history, block words and account data. A room lives
in memory for ten minutes, or until its creator leaves. The server counts what
happens in a SQLite database (Node) or a Durable Object (Cloudflare), probes its
own availability, and shows both on a statistics page.

| Component | State | Operations | Hard behaviour | What makes it correct |
|---|---|---|---|---|
| RoomHubCore (`src/index.ts`) | six maps: sessions, rooms, roomCreators, roomExpiresAt, lastSeen, connectionContexts; one interval timer | attachSocket, handleSocketMessage (ping, create, join, send, leave), removeSocket, the sweep, dispose | a `send` that throws removes the socket, which broadcasts, from inside the loop that was broadcasting; late messages of removed sockets; expiry between sweeps | the maps agree after every handler; bounded rooms; supervision of exactly the open connections; rooms end |
| WebSocket front (`src/server.ts`) | the `ws` sockets | connection, message, close, error listeners | events in any order until `close` | is the environment of the hub |
| Metrics queue (`src/metrics-node.ts`) | queue, timer, closed | record, flush, close | failed writes, a full queue, a flush queued before close, crash | nothing vanishes unreported, order, no lost wake-up, no double count |
| Store (`src/metrics-store.ts`) | usage tables (total, hourly, daily, geography, visitors), availability ledger, meta | write, cleanup, queries | two transactions per write; late, repeated and overtaking records; upgrade from schema 1 | every answer is the history; a slot's state does not depend on order |
| Metrics rules (`src/metrics.ts`) | none | normalisation, buckets, ranges, fail-open sink | boundaries of hours, days, ranges | whole buckets, exact lengths, nothing behind a cleanup |
| Probe and life cycle (`src/server.ts`) | probeTimer, probesStopped, stopping | start, stop, probe | a probe in flight when stop() is called; clients that do not let go | one chain of probes, none after stop; stop ends, metrics close last |
| HTTP routing and statistics API (`src/server.ts`, `src/index.ts`, `src/stats-api.ts`) | none | GET and HEAD handlers, upgrades | two routers over one API and a store that may be off, unusable or failing | one answer in both deployments; no failure is kept by a cache |
| Cloudflare objects (`src/index.ts`, `src/metrics-do.ts`, `src/metrics-cloudflare.ts`) | Durable Object storage | fetch, scheduled, record | metric requests unordered and not retried, answers lost | what is lost is reported, what is acknowledged counts once |
| Statistics page (`web/stats.ts`) | range, request number, maps, level, selection, panels | load, refresh, retry, change range, drill down, select, redraw | answers that overtake each other; maps loaded once for all that wait; overlapping refreshes | the newest request wins; title, selection and panels agree; nothing loads for ever |
| Status page HTML, deployment scripts, assets | none | | | not modelled |

The front calls the hub; the hub calls the metrics sink (synchronously, and
shielded by `createFailOpenMetricsSink`); the queue calls the store; the API
reads the store and the page reads the API. Nothing flows back: the queue cannot
disturb the hub, so the two are specified apart.

## The modules

**HubState** holds the six maps as one record and the net effect of the hub's
helpers. JavaScript runs a handler to completion, and within it time stands still
and the set of sockets whose `send` throws is fixed (`broken`). Under that
assumption a whole cascade of failing sends has a closed form: a set of sockets
leaves (`gone`), a set of rooms ends (`EndedBy`), and `Clear` removes both from
every map. Times are distances from now, which is all the code reads of them:
`ttl` is `roomExpiresAt - Date.now()` cut off at 0, `idle` is `Date.now() -
lastSeen` cut off one tick beyond the timeout.

**RoomHub** has one action per handler: AttachSocket, CloseEvent, ErrorEvent, one
per outcome of handleSocketMessage (InvalidMessage, Answered, LeaveRoom,
CreateRoom, CreateRoomFails, RoomExpired, JoinRoom, ForwardContent), Sweep,
Dispose. Early returns that answer with an error and change nothing else are
`Answered`: they count as a sign of life and their reply may fail. Degrade is the
network; Tick is time. `usage` is the metric that the last step recorded.

**RoomHubCalls** is the same class one call at a time. `todo` is the call stack;
a loop over a room's Set visits it in insertion order, skips what was deleted
ahead of it, and goes on over the Set object of a room that was deleted from the
map. The user list of a broadcast is computed once before its loop, as in the
code. `view` is what the messages told each client. At every return to the event
loop, `rest` remembers the maps; RoomHub is instantiated over `rest`
(`RefinesHandlers`): however the sends of a handler fail, and in whatever order
the loops meet the broken sockets, the handler is exactly one action of RoomHub.
This is what justifies HubState's closed form.

**MetricsQueue** models NodeMetricsService over a store that may fail in either of
its two transactions, the process that closes, dies and starts again, and the
disk. Records are numbered in the order they are made; `stored[r]` says how often
record r is in the totals. Actions: RecordEvent (with the flush of a full batch),
TimerFires, Microtask, Close / CloseFlushes / CloseEnds, Die, Restart; the
environment is DiskChanges and CleanupFallsDue. `closing` states are split only
to make each flush of close()'s loop a step of its own: nothing but a crash or a
change of the disk comes between, as close() is synchronous. A crash may also
fall between two statements of a flush; the store's transactions make that the
same as a crash before or after it.

**MetricsRules** has the pure part of `src/metrics.ts` that the store and the
queries rest on: buckets, parseMetricsRange with every optional field, its
refusals (`Accepted`), parseMetricsTimelineRange's "all", and the two corrections
`metrics-store.ts` makes to a range. It has no state. Its properties
(PresetRangeHolds, PresetOutlivesCleanup, DaysContainHours, CustomRangeHolds) say
what a range is, without saying how it is computed; UsageStore checks them at
every tick of its clock, and UsageStoreProofs proves them for every time.

**UsageStore** is the usage half of the store: total, hourly, daily, geography and
visitor tables as functions and sets, Write as a transaction with the cleanup that
may follow or throw, and the queries as operators over the ranges of MetricsRules.
Records reach it in the two ways the deployments have: on Node by Flush, a batch of
what waits, kept for another try when the write throws; on Cloudflare by one
request for each record, in any order, written and answered, written with the
answer lost or refused (RequestWritten, RequestHalfDone), or not written
(RequestFails), and never repeated. `log` is the bag of all records ever written,
`acknowledged` and `failed` are what the sender believes. The properties compare
every answer with `log`. Init opens a new database, one that version 1 wrote to
(daily rows only), or one that an early version 2 went on with (hourly rows, but no
watermark): `Coverage` sets the watermark that decides whether the last 24 hours
are read from hourly rows or from the days that overlap them.

**Availability** is the ledger: one row per hour with the best status any check
of it had, one row per day into which hours are settled once they are over. A
check is stamped by Probe, with what the prober of each deployment may find
(NodeResult, CloudflareResult), and written later: by NodeFlush (a batch from the front
of the queue), by NodeFlushFails (its cleanup throws after the commit, so the
batch is written again) or by ObjectWrites (on Cloudflare every probe writes its
own, in any order, once). Lose drops it. CleanupByUsage is a write without checks
that deletes old hours, settled or not. `written`, `erased` and `begun` are
history. Not counted against the code: a record older than the first one, which
only Cloudflare's order can bring, moves the start of monitoring back without
the hours between being added to any day (`begun` keeps the start they are
counted from), and hours a usage write's cleanup deleted before they were settled
(`erased`; the server had not written a check for ninety days then). No check
waits as long as its hour is kept.

**HttpRoutes** is what each deployment answers to a request, as a status and a
cache-control: queryStatsApi with its checks in their order, handleHttpRequest and
the upgrade handler of the Node server, the Worker's fetch and MetricsHub's.
`Service` is what may have become of the statistics: switched off, a database that
cannot be opened, one whose queries throw, one that works. OneAnswer says that the
deployments agree on the statistics and on what both make in their own code. It says
nothing of files and upgrades, where they do not agree and where the answer comes
from outside of `src/`: HandleUpgrade (the handshake of `ws`) and Assets (Cloudflare's
asset server) are external, and no property rests on them.

**ServerLifecycle** is the Node server from Listening to StopEnds: the timer
(TimerFires, ProbeEnds), connections and requests of others, and Signal, which is
stop() up to its `await`. A second start() of a stopped server is impossible in
the code (its HTTP server and metrics are closed) and is left out. It extends
HttpRoutes: AnswersAgree asks every question in every state, with the statistics as
that state may have them (closed metrics can only fail).

**StatsPage** is the page as the event loop sees it. A request (LoadRangeData, by
ChangeRange, RetryPanel or RefreshAll) begins, its fetches settle (Dropped,
GeoFails, GeoDrawn, GeoAwaitsMaps), the maps settle and all requests that wait for
them go on in turn (MapsSettle). RefreshAll calls loadSummary besides, which has no
request number (SummarySettles, in any order), and disables the button until the
`finally` of the first refresh that ends. ChangeMetric, DrillDown, WorldCrumb, Sort,
SelectAvailability and RerenderForTheme redraw from what is stored. A panel shows
the number of the request its data came from, map and table also the level they
were drawn for, the strip its selected hour. Ranges differ in the hours of their
availability. The answers have rows; echarts throws when a map is not registered,
which stops the handler where it stands. A chart that threw is taken to draw again at
the next call; whether the echarts of `package.json` does so after every exception in
setOption cannot be seen in `src/`, and where it does not, NewestGeoShown and
LevelShown tell what the page asked its charts to draw.

**RoomHubProofs**, **RoomHubCallsProofs**, **MetricsQueueProofs**,
**UsageStoreProofs** (with those about MetricsRules), **AvailabilityProofs**,
**ServerLifecycleProofs** and **StatsPageProofs** hold the theorems, **SumTheorems** those about sums over sets that
the two halves of the store need. **MCRoomHub** and **MCRoomHubCalls** add symmetry
for TLC, **MCRoomHubCalls** and **MCAvailability** also bounds, **MCUsageStore** the
contexts of connections and the lengths of presets.

## The runs

| Run | Instance | States | Shows |
|---|---|---|---|
| hub | 3 sockets, 2 codes, rooms of 2, ttl 2, timeout 1 | 52,205 | safety and action properties of the hub |
| hub_liveness | 2 sockets, 1 code, fairness | 3,247 | RoomsEnd, SilentClientsRemoved, TimerStops |
| calls | 3 sockets with 1 code in use, 2 sockets with 2 | 1,238,633 | refinement, bounded recursion, what clients believe, who is shown and who gets content |
| queue | batches of 2, queue of 4, 6 records, 2 rewrites, fairness | 175,134 | safety of the queue, QueueDrains |
| availability | 5 hours, days of 2, kept for 2; Node: 2 checks, 3 writes of each; Cloudflare: 3 checks | 633,943 | days and what is shown against the checks |
| usage_store | 7 hours of 2 ticks, days of 2, kept for 2 days; presets of 1 and 2 days; 2 records; Node and Cloudflare | 210,385 | ranges; answers against the history; losses against what the sender knows |
| lifecycle | 2 connections, 2 requests, fairness; every question of HttpRoutes in each state | 536 | the chain of probes, the end of stop(), the answers of both deployments |
| stats_page | 3 requests, 2 ranges | 978,660 | the newest request wins, panels agree with title and selection, nothing loads for ever |
| calls_content, calls_movers, queue_retry, stats_page_availability | as above, smaller | | the four disagreements below |

Why these bounds are enough.

* *Hub.* Three sockets are a creator, a member and one that joins, breaks or moves
  meanwhile, which is enough for a failing send before, at and behind the creator
  in a loop. Two codes are enough for a move and for the collision of a code with
  a living room (with one code taken by the client itself it may be drawn again).
  A room of two of three sockets is full while someone waits. A ttl of two ticks
  has a fresh, an old and an expired room. In `calls` three connections and two
  codes are not combined (`Uncrowded`, a constraint on the states): loops need the
  former, moves the latter.
* *Queue.* Six records (`LastRecord`) fill a queue of four, drop two, and leave a
  remainder after each batch of two; two writes whose cleanup fails
  (`MaxRewrites`) repeat a batch and its repetition.
* *Availability.* Five hours (`LastHour`) are three days of two, so an hour is
  settled on its own day, on the next and after it was deleted; two checks
  (`MaxChecks`) meet in one hour or on both sides of the cursor, a third one
  corrects between two writes that settle. `MaxWrites` lets one batch be written
  three times.
* *Usage.* An hour of two ticks (`HOUR_MS`) has a first moment and one inside, so a
  range ends on a boundary and between two. The shorter preset is as long as
  `HourlyHours` and is shown by the hour, the longer one by the day, as in the code.
  Seven hours (`LastHour`) reach past the first cleanup of a day's rows and past the
  transition after an upgrade. Two records (`MaxRecords`), opened with or written,
  are two of one hour, one visitor in two places, one on each side of the watermark,
  or two requests that overtake each other; one waits as long as TLC likes and is
  written late. The three contexts are a visitor in a province, the same one abroad,
  and a connection without visitor in a country without region.
* *Life cycle.* Connections and requests do not touch each other: two of each are
  one that ends before and one that ends after the other. The questions have a path
  of every kind, every method that is treated differently, and no, one good, one bad
  or two values of a parameter.
* *Page.* Three requests (`MaxRequests`): one waits for the maps, one is answered
  without them, one is outdated before its answer. Two ranges are one with more hours
  than the other, so a selection can point behind the shorter strip. A refresh is a
  request, so three refreshes overlap.

Deadlock is checked in every run but lifecycle, stats_page and
stats_page_availability: a stopped server and a page nobody touches really stop.

### Properties, by the hazard they watch

* *Cascades.* HubConsistent (maps agree), RefinesHandlers, CascadesBounded.
* *Ghosts.* A socket removed by a failed send may still hand over messages:
  SupervisionExact, UnwatchedRoomsAreDying.
* *Expiry and identity of rooms.* NoEntryAfterExpiry, NoRenewal, RoomsBounded.
* *Who sees what.* BeliefsMatch, NoInvisibleMember, ContentStaysInRoom.
* *Counting.* UsageAttributed; OvercountBounded, NothingVanishes, InOrder.
* *Requests without order or retry.* LossIsReported, and all of UsageStore's
  answers, which hold whatever order the requests arrive in.
* *Lost wake-ups.* FlushIsComing, QueueDrains, ClosedIsFinal.
* *Late, repeated and overtaking checks.* DaysAddUp (hours up, latencies, and on
  Node a ratio of at most one), TotalHoursAddUp, ShownIsWhatWasSeen.
* *Boundaries of ranges.* RangesHold, TimelineIsHistory.
* *Retention and upgrade.* TimelineIsHistory, GeoIsHistory, VisitorsAreHistory.
* *Stop against probes and clients.* OneProbeChain, ProbesGoOn, StopCompletes,
  MetricsCloseLast.
* *Two routers, one API.* AnswersAgree.
* *Answers that overtake each other.* NoStaleCharts, NewestGeoShown.
* *State that outlives what it points to.* LevelShown, SelectionShown.
* *Parts that fail one by one.* LoadingEnds.

One hazard has no property: answers to loadSummary may overtake each other
(`web/stats.ts:629`), so that an older summary replaces a newer one. Nothing in the
repository says which must win, and they are at most a cache's minute apart.

NoRenewal has an exception the code really has: a creator that opens a new room
may draw the code of the room it just destroyed.

### Fairness

FairSpec of RoomHub: time passes (Tick), an armed interval timer fires in the end
(Sweep), and ws delivers the close event of a connection that is going down
(it does, after its own timeout of 30 s). Nothing is assumed of clients. RoomsEnd
is stated for a room that has begun to age, because a client may in principle
open a fresh room under the same code for ever. FairSpec of MetricsQueue: the
event loop runs microtasks and the flush timer, and close() to its end; QueueDrains
also assumes that the disk in the end works, without which it does not hold.
FairSpec of ServerLifecycle: timers fire, a probe ends (each of its parts has a
timeout of ten seconds), ws ends a connection thirty seconds after the close frame
(`ws` does so for clients that never answer), and Node answers or times out a
request; a client that was not closed may stay for ever. StatsPage needs none:
LoadingEnds is an invariant over the states in which every fetch is settled, and
so says the same of a page whose fetches never end.

## Where code and documentation disagree

1. **calls_content** (`src/index.ts:360`). The page promises that data is
   forwarded only inside a room, which is destroyed when its creator disconnects.
   If the creator's send fails inside the forwarding loop, the members behind it
   get the content after they were told that the room is gone.
2. **calls_movers** (`src/index.ts:322`). A member that moves to another
   room without leaving first is not announced as gone.
3. **queue_retry** (`src/metrics-store.ts:329`, `src/metrics-node.ts:141`). The
   cleanup runs after the batch was committed; if it throws, the batch is put back
   and counted again with every retry. OvercountBounded says that this is the
   only way a record is counted twice.
4. **stats_page_availability** (`web/stats.ts:711`). After `await
   ensureMapsReady()` a request paints its availability without looking whether a
   newer one has been answered; if the newer one had no geo rows, and so did not
   wait, the older availability stays on the page. NoStaleCharts says that this
   cannot happen to the other panels.

Smaller things met while modelling, without a run of their own:

* A creation or join whose reply cannot be sent is counted, though the client was
  removed again (`src/index.ts:284`); and a send that fails inside a broadcast sends
  the shorter list first, after which the outer loop goes on with the older one
  (`src/index.ts:432`), so that a list may show a member that is gone until the next
  change. NoInvisibleMember says that it never hides one that is there.
* The deployments differ outside of the statistics. Caches keep `app.js` for 120 s
  on Node and 300 s behind the Worker, and the HTML health page for 120 s behind the
  Worker only. Only Node answers 404 to an upgrade that is not for `/sync` and leaves
  the method of one that is to `ws` (GET only), while the Worker and its RoomHub look
  at no method (`src/index.ts:128`, `src/index.ts:569`). Files are served to any method
  on Node, if their type is listed (`src/server.ts:341`); the Worker passes the method on
  (`src/index.ts:1173`) to the asset server, which takes GET and HEAD. The Worker asks it
  for `/stats.html` when the browser asks for `/stats` (`src/index.ts:88`), and
  `wrangler.toml:8` leaves html_handling at its default, under which that server
  redirects `/stats.html` to `/stats`. What it really answers is not in `src/`, so this is
  noted and no finding.
* `README.md:33` speaks of six counted actions; `src/metrics.ts` has nine event
  types, the accounts of three more sites among them.
* At the very moment a bucket begins it is not yet part of a range: a preset ends
  with the bucket before, and the range "all" with the day before (RangesHold and
  TimelineIsHistory are stated accordingly). Ranges with both ends given are parsed
  and proved, but the API never passes one on.
* On the page, the card of the place selected on the map keeps the numbers of the
  former range; China chosen while the maps are missing leaves the table of countries
  under the provinces' title until the maps come (LevelShown says: no longer); and a
  retry from the notice may end the older of two refreshes first, so that the button
  comes back while one is still under way.

## The proofs

TLAPS proves the following for every value of the constants that satisfies the
modules' assumptions (finitely many sockets; positive room size, ttl, batch and
queue size; hours, days and presets of any positive length, none longer than the
retention, and of the presets exactly the one of a day shown by the hour, as in
`src/metrics.ts`; any number of requests of the page).

**RoomHubProofs**: TypeCorrect, MapsStayConsistent, RoomsStayBounded,
SupervisionStaysExact; UnwatchedRoomsDie, UsageStaysAttributed, RoomsAreNotRenewed,
ExpiredRoomsAdmitNobody. The inductive invariant `Inv` is the conjunction of the
first four (supervision has two halves, open and closed sockets); none is inductive
alone, since for example the size of a room is bounded only because the member
lists agree with the sessions. The argument: every helper of HubState maps a
consistent record to a consistent one and only takes away (`Shrinks`: sessions,
seats, rooms); a helper that is in the middle of a detachment leaves the maps
consistent except for the rooms being ended (`Part`). Handlers are compositions of
helpers, so a step's proof cites lemmas and never opens a cascade.

The last four rest on that invariant. All handlers but two only thin
rooms out (`Thins`: the rooms that stay keep creator and time, and gain nobody);
createRoom and joinRoom thin out every room but one (`ThinsBut`), so that the two
action properties (`RoomStep`) look at one room and two actions. UsageAttributed is
inductive beside `Inv`: what a handler records after its sends is true of the maps as
the sends have left them, because a socket that still has its session is in its room
(`SendKeepsSeat`, `WelcomeKeepsSeat`).

**RoomHubCallsProofs**: CallsInvariant, BeliefsAlwaysMatch, NobodyReadsUnseen,
ContentAlwaysStaysInRoom, CascadesAlwaysBounded, for any number of connections, codes
and members, and whichever sends fail, in whatever order. The properties speak of the
hub at rest, but a handler gets there through a stack of calls of any depth, so `Inv`
says what every waiting call relies on when its turn comes. It is stated of a `World`:
the maps with a room's Set as a plain set, what clients believe, and `todo`. Two kinds
of conjuncts:

* The state and the stack together (`RoomsAgree`, `SessionsAgree`, `SeenFromRooms`,
  `BeliefsPending`, `ListsPending`, `Unattached`, `Supervised`). The maps may disagree
  in the middle of a handler, and a client may be wrong, but then a call that puts it
  right is on the stack: the endSession of the loop that destroys the room, the message
  not sent yet, the broadcast, or the loop with the newer list.
* One frame and what is above it (`FrameGood`): a loop over a room still has only
  sockets of that room before it (`LoopGood`); a forget is of a socket that is cut off,
  or will be by a call above it (`CutOff`); a list that is being sent out names all who
  are in the room now (`TellGood`); a socket that is about to enter a room has left the
  former one, or leaves it by a call above, and nothing above touches the room it
  enters (`EntryGood`, `Elsewhere`).

A frame's condition survives what is made above it because inside of a handler things
are only taken away (`Fades`: sessions, members, rooms, open connections). The one
exception is the entry of createRoom and joinRoom, which is why it must be the last of
its handler's calls (`EntryLast`): when it is made nothing waits that could be
disturbed. Every call therefore has a lemma of the same shape, from what it changes
(`Ran`), what it makes (`Ready`) and what it delivers. At rest the stack is empty, so a
client that is wrong would have no call to wait for: BeliefsMatch and NoInvisibleMember.

CascadesBounded has an invariant of its own, `Depth`, about the order of the waiting
removals: a removal begins with the detachment, so below it the socket has no session
(`DetachFirst`, `ForgetLast`); a detachment without session calls nothing; hence a
second removal of the same socket is the innermost call, and cannot be interrupted by a
third (`Innermost`). Only a sweep, after its failed send, has a further one to come to
(`Swept`).

**MetricsQueueProofs**: QueueTypeCorrect, QueueStaysInOrder, NothingEverVanishes,
OvercountStaysBounded, FlushStaysScheduled, ClosedStaysFinal. `Inv` adds two
facts that make the conjunction inductive: the store counts no record that is not
made yet (`Fresh`), and a closed service has no timer, a dead one no queue
(`Stopped`). `FlushGuarantees` says once what a flush does to any queue,
`PushedGuarantees` what record() hands to it; every action is one of the two or
leaves the queue alone. A by-product is `RequeuedIsWhole`: since flush is
synchronous, a failed batch always fits, and the queue is what it was before.

**UsageStoreProofs**, about the rules: PresetRanges, PresetsOutliveCleanup,
DaysStandIn and CustomRanges: the four parts of RangesHold for every time, every preset and every
request. They rest on three facts about FloorBucket (it is a multiple, the greatest
not above its argument, and monotone) and their mirror image for CeilBucket.

**SumTheorems**: SumIsCount and what follows from it: a sum over a finite set of
naturals is the cardinality of the set of its copies. The library's fold is recursive
and its induction theorems cannot be instantiated (see below), so the value is found
another way: the function that counts copies solves the fold's recursion, and any two
solutions agree, since a least subset on which they differ (the strict subset ordering
of a finite set is well-founded) has an element to take out. Additivity, monotonicity
and sums of sums are then facts about finite sets.

**UsageStoreProofs**, about the store: UsageInvariant, RangesAlwaysHold, TimelineStaysHistory,
GeoStaysHistory, VisitorsStayHistory, LossStaysReported, for any number of records.
The inductive invariant `UsageInv` says what each table holds: total, days and their
places count the whole log; hours count it from the last cleanup's cutoff on
(`CutHour`), and hours with places or visitors, also from the coverage watermark on.
It is inductive because a batch adds to a table exactly its records (`Count` is
additive over bags), and a cleanup deletes only what the next invariant no longer
speaks about. An answer sums rows of a range: the rows are those of disjoint sets of
records, and PresetOutlivesCleanup and `coverage` say that the range reaches into none
that were deleted or never written. LossStaysReported has an invariant of its own
(`Inv`): what is acknowledged is part of the log, and the log part of what is
acknowledged or failed; a request that ends adds its record to two of the three bags
or to `failed` alone (`RequestKeeps`).

**AvailabilityProofs**: TotalsAlwaysAddUp, UpHoursStayExact, DaysAlwaysAddUp,
PageShowsWhatWasSeen. The inductive invariant `Inv` adds to the two sums: no check is
from the future and none waits longer than its hour is kept (`ChecksOK`); once hours
were settled neither the start nor the first settled hour is behind the cursor, which
keeps an earlier start from settling hours again (`CursorOK`); and the row of an hour
holds the best rank ever written for it, as long as no cleanup can have taken it, or
the hour is not settled yet and nothing of it was lost (`RowsTrue`, `Known`). Every
write has the one form `Write`, so one lemma for each conjunct covers flushes,
repeated flushes and Cloudflare's single writes; the sums are cardinalities of sets
that a write extends by disjoint pieces (late hours that turn up, hours settled now).
DaysAlwaysAddUp needs more (`DaysInv`): a row has the latencies of its hour as often
as they were written (`SamplesTrue`), and a day has no more hours up than there were
(`UpsSeen`). The ratio on Node follows from the order of Node's writes (`InOrder`): a
check earlier than the first settled hour can no longer come, so every hour up is one
of the hours counted.

**StatsPageProofs**: StatsInvariant, ChartsNeverStale, NewestGeoAlwaysShown,
LevelAlwaysShown, SelectionAlwaysShown, LoadingAlwaysEnds, for any number of requests.
The five properties are not inductive: a redraw shows what is stored, so the invariant
`StatsInv` says what that is. Requests wait for the maps in the order of their numbers
(`RequestsOK`); a chart that is drawn shows the stored rows, except for map and table
while the newest request waits (`Charts`); the rows stored are the newest answer's,
which may still have its map and availability to paint (`Settled`); text and selection
agree whenever the strip is ready (`Strip`); and a refresh holds the button only as
long as one of its parts is not over (`RefreshOK`). Each painting operator has a lemma
that says what it leaves alone; `Resumed` says what stands on the page when all
waiting requests have gone on, one after another: the table is drawn by the last, the
map by the newest or not at all. All controls that redraw share one lemma (`Redraw`).

**ServerLifecycleProofs**: LifecycleTypeCorrect, ProbesStayOneChain,
MetricsAreClosedLast, for any finite sets of connections and requests. OneProbeChain is
inductive only together with what each phase means (`PhasesAgree`: nobody stopped
the probes of a server that is up) and with `ProbesNeedMetrics`. MetricsCloseLast
follows from `StoppedIsEmpty`: metrics are closed only in the last phase, in which
nobody is connected and nobody connects. DeploymentsAgree is the equality of the two
routers for every question about the statistics, whatever its method and parameters,
every condition of the statistics, and what both deployments make in their own code
(not for files and upgrades); ServerAnswersAsWorker is the same in every state of the
server, by LifecycleTypeCorrect.

Only model-checked: RefinesHandlers (every other safety and action property of the
runs that pass is a theorem), and all liveness, which needs fairness and is outside of what the
prover handles. RefinesHandlers compares a whole cascade with HubState's closed form; its
proof would carry the effect of all calls that wait through every step, on top of
`Inv`, and has not been made. Recursion over data is proved about only in the two forms above: as the size
of a set (SumTheorems), and as a function whose values are found by looking at the
least argument for which they are not (`Unfolds`, `Resumed`); StatsPage's `Resume` is
therefore a recursive function.

## How the project grew, and what is left

The hub came first, in two grains, then the queue, both halves of the store, the life
cycle, the page, the rules of ranges and the routes; proofs followed the models in the
same order, those about sums over bags and about the page last. What could be added:
UsageStore composed with MetricsQueue, whose store would become its abstraction (each
models the other by its outcomes now); RefinesHandlers as a theorem.

## What is not modelled, and why

Rendering (status page, summary cards, tooltips, the card of the selected place, how
charts are drawn), bodies of answers, TLS and proxies, hashing of addresses, message
encodings and wording, the adapters to the two SQL drivers, deployment scripts: no
state that the properties above could speak about. Of the store: the event type (a
dimension like the others), a visitor's first and last time,
usage_monitoring_started_at, and settleAvailability and querySnapshot
(`src/metrics-store.ts:573` and `609`), which nobody calls. Of the rules: the
validation of single fields of an event. A server whose port is taken never starts.
Within the hub, users are their sockets, payloads are opaque, and message size and
syntax only decide between InvalidMessage and the rest.
