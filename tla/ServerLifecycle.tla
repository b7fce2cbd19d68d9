--------------------------- MODULE ServerLifecycle ----------------------------
(***************************************************************************)
(* The life of a Node server (createSyncServer and the main program of     *)
(* src/src/server.ts): start, the chain of hourly availability probes,     *)
(* connections and requests, and a stop that waits for both.               *)
(*                                                                         *)
(* stop() does everything up to its await in one turn of the event loop.   *)
(* Connections are those of clients and of the probe itself.  What is      *)
(* answered to a request is in HttpRoutes.                                 *)
(***************************************************************************)
EXTENDS HttpRoutes, FiniteSets

CONSTANTS
    Client,     \* connections
    Request     \* HTTP requests

ASSUME LifecycleAssumption == IsFiniteSet(Client) /\ IsFiniteSet(Request)

VARIABLES
    phase,          \* "starting", "up", "stopping" (in stop's await), "stopped"
    stopping,       \* main's flag: stop() was called
    probesStopped,
    timer,          \* the probe timer is pending
    probing,        \* probes in flight
    conn,           \* "none", "open", "closing" (close frame sent), "gone"
    request,        \* "none", "running", "done"
    metrics         \* "none" (disabled or unusable), "open", "closed"

vars == <<phase, stopping, probesStopped, timer, probing, conn, request, metrics>>

\* createSyncServer goes on without metrics when the database cannot be opened.
Init ==
    /\ phase = "starting" /\ stopping = FALSE /\ probesStopped = FALSE
    /\ timer = FALSE /\ probing = 0
    /\ conn = [c \in Client |-> "none"] /\ request = [r \in Request |-> "none"]
    /\ metrics \in {"none", "open"}

Connected == {c \in Client : conn[c] \in {"open", "closing"}}
Running   == {r \in Request : request[r] = "running"}

\* scheduleAvailabilityProbe; mutant: it does not look at probesStopped.
ScheduleAlways(stopped) == metrics # "none"
ScheduleAvailabilityProbe(stopped) == timer \/ (metrics # "none" /\ ~stopped)

\* The callback of listen().  (probesStopped is FALSE before, with or without metrics.)
Listening ==
    /\ phase = "starting"
    /\ phase' = "up"
    /\ probesStopped' = FALSE
    /\ timer' = ScheduleAvailabilityProbe(FALSE)
    /\ UNCHANGED <<stopping, probing, conn, request, metrics>>

\* The hourly timer; its callback awaits the probe.
TimerFires ==
    /\ timer
    /\ timer' = FALSE /\ probing' = probing + 1
    /\ UNCHANGED <<phase, stopping, probesStopped, conn, request, metrics>>

\* The rest of the callback: record, which a closed service ignores, and the
\* next probe, whether this one worked or threw.
\* Mutant: a probe that throws does not schedule the next.
ProbeEndsBroken ==
    /\ probing > 0
    /\ probing' = probing - 1
    /\ timer' \in {timer, ScheduleAvailabilityProbe(probesStopped)}
    /\ UNCHANGED <<phase, stopping, probesStopped, conn, request, metrics>>
ProbeEnds ==
    /\ probing > 0
    /\ probing' = probing - 1
    /\ timer' = ScheduleAvailabilityProbe(probesStopped)
    /\ UNCHANGED <<phase, stopping, probesStopped, conn, request, metrics>>

\* The upgrade handler; once closed, the WebSocket server answers 503.
Connect(c) ==
    /\ phase = "up" /\ conn[c] = "none"
    /\ conn' = [conn EXCEPT ![c] = "open"]
    /\ UNCHANGED <<phase, stopping, probesStopped, timer, probing, request, metrics>>

\* A connection ends: the client left, answered the close frame, or did not in time.
Disconnect(c) ==
    /\ c \in Connected
    /\ conn' = [conn EXCEPT ![c] = "gone"]
    /\ UNCHANGED <<phase, stopping, probesStopped, timer, probing, request, metrics>>

\* A request comes in on a connection of its own.
RequestBegins(r) ==
    /\ phase = "up" /\ request[r] = "none"
    /\ request' = [request EXCEPT ![r] = "running"]
    /\ UNCHANGED <<phase, stopping, probesStopped, timer, probing, conn, metrics>>

RequestEnds(r) ==
    /\ r \in Running
    /\ request' = [request EXCEPT ![r] = "done"]
    /\ UNCHANGED <<phase, stopping, probesStopped, timer, probing, conn, metrics>>

\* SIGINT or SIGTERM: stop() up to its await.
\* Mutant: the open clients are left to themselves.
LeavesClients == conn
ClosesClients == [c \in Client |-> IF conn[c] = "open" THEN "closing" ELSE conn[c]]
Signal ==
    /\ phase = "up" /\ ~stopping
    /\ stopping' = TRUE
    /\ phase' = "stopping"
    /\ probesStopped' = TRUE /\ timer' = FALSE
    /\ conn' = ClosesClients
    /\ UNCHANGED <<probing, request, metrics>>

\* Promise.all of the two close callbacks: the WebSocket server's waits for its
\* clients, the HTTP server's for every connection.
\* Mutant: only the WebSocket server's is awaited.
ClientsGone == Connected = {}
ServersClosed == Connected = {} /\ Running = {}
StopEnds ==
    /\ phase = "stopping" /\ ServersClosed
    /\ phase' = "stopped"
    /\ metrics' = IF metrics = "open" THEN "closed" ELSE metrics
    /\ UNCHANGED <<stopping, probesStopped, timer, probing, conn, request>>

Next ==
    \/ Listening \/ TimerFires \/ ProbeEnds \/ Signal \/ StopEnds
    \/ \E c \in Client : Connect(c) \/ Disconnect(c)
    \/ \E r \in Request : RequestBegins(r) \/ RequestEnds(r)

Spec == Init /\ [][Next]_vars

\* Timers fire and probes end (each part has a timeout of ten seconds); ws ends
\* a connection thirty seconds after the close frame, and Node answers or times
\* out a request.  Nothing else is asked of clients that were not closed.
FairSpec ==
    /\ Spec
    /\ WF_vars(Listening) /\ WF_vars(TimerFires) /\ WF_vars(ProbeEnds) /\ WF_vars(StopEnds)
    /\ \A c \in Client : WF_vars(conn[c] = "closing" /\ Disconnect(c))
    /\ \A r \in Request : WF_vars(RequestEnds(r))

-----------------------------------------------------------------------------
(* Properties.                                                             *)

\* The state is well formed.
TypeOK ==
    /\ phase \in {"starting", "up", "stopping", "stopped"}
    /\ stopping \in BOOLEAN /\ probesStopped \in BOOLEAN /\ timer \in BOOLEAN
    /\ probing \in Nat
    /\ conn \in [Client -> {"none", "open", "closing", "gone"}]
    /\ request \in [Request -> {"none", "running", "done"}]
    /\ metrics \in {"none", "open", "closed"}

\* While a server with metrics is up it has exactly one probe, waiting or in
\* flight: the chain neither breaks when a probe fails nor doubles.  Once stop()
\* was called no probe is scheduled again, not even by one that was in flight.
OneProbeChain ==
    /\ phase = "up" /\ metrics # "none" => probing = IF timer THEN 0 ELSE 1
    /\ stopping => ~timer /\ probing <= 1

\* The metrics service is closed after everyone who uses it: no client can still
\* cause a usage event that it would ignore, no request reads a closed database.
MetricsCloseLast == metrics = "closed" => Connected = {} /\ Running = {}

\* The statistics as they may be in this state of the server.
ServiceNow ==
    CASE metrics = "none"   -> {"disabled", "unusable"}
      [] metrics = "open"   -> {"failing", "working"}
      [] metrics = "closed" -> {"failing"}

\* Whatever has become of the metrics, this server answers every request about the
\* statistics, and for the pages made in the code, as a Worker with such metrics
\* would, and only good statistics are kept by caches.
AnswersAgree ==
    \A q \in Question, service \in ServiceNow :
        OneAnswer(q, service) /\ OnlyGoodAnswersCached(q, service)

\* stop() ends, although it waits for connections of others.
StopCompletes == stopping ~> phase = "stopped"

\* The server is probed again and again until it is stopped.
ProbesGoOn == (phase = "up" /\ metrics = "open") ~> (probing > 0 \/ stopping)
===============================================================================
