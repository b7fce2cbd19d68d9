------------------------- MODULE ServerLifecycleProofs -------------------------
(***************************************************************************)
(* Theorems about ServerLifecycle, for any set of connections and of       *)
(* requests.                                                               *)
(***************************************************************************)
EXTENDS ServerLifecycle, TLAPS

(* Before it listens the server probes nothing and is not stopped.  While  *)
(* it is up nobody has stopped the probes; after the signal they stay      *)
(* stopped.                                                                *)
PhasesAgree ==
    /\ phase = "starting" => ~stopping /\ ~timer /\ probing = 0
    /\ phase = "up" => ~stopping /\ ~probesStopped
    /\ phase \in {"stopping", "stopped"} => stopping /\ probesStopped

(* Without a metrics service there are no probes.                          *)
ProbesNeedMetrics == metrics = "none" => ~timer /\ probing = 0

(* stop() closes the metrics last, and nobody comes back after it.         *)
StoppedIsEmpty ==
    /\ metrics = "closed" => phase = "stopped"
    /\ phase = "stopped" => Connected = {} /\ Running = {}

Inv == TypeOK /\ OneProbeChain /\ PhasesAgree /\ ProbesNeedMetrics /\ StoppedIsEmpty

\* The invariant holds at first.
LEMMA InitInv == Init => Inv
<1> SUFFICES ASSUME Init PROVE Inv
  OBVIOUS
<1>1. TypeOK BY DEF Init, TypeOK
<1>2. OneProbeChain /\ PhasesAgree /\ ProbesNeedMetrics /\ StoppedIsEmpty
  BY DEF Init, OneProbeChain, PhasesAgree, ProbesNeedMetrics, StoppedIsEmpty
<1> QED BY <1>1, <1>2 DEF Inv

\* The callback of listen() begins the chain of probes.
LEMMA ListeningInv == ASSUME Inv, Listening PROVE Inv'
BY DEF Listening, ScheduleAvailabilityProbe, Inv, TypeOK, OneProbeChain, PhasesAgree,
       ProbesNeedMetrics, StoppedIsEmpty, Connected, Running

\* A timer that fires hands the chain to a probe in flight.
LEMMA TimerInv == ASSUME Inv, TimerFires PROVE Inv'
<1>1. /\ probing \in Nat /\ probing' = probing + 1
      /\ timer' = FALSE /\ UNCHANGED <<phase, stopping, probesStopped, conn, request, metrics>>
  BY DEF TimerFires, Inv, TypeOK
<1>2. probing' \in Nat BY <1>1
<1>3. TypeOK' BY <1>1, <1>2, Zenon DEF Inv, TypeOK
<1>4. phase = "up" /\ metrics # "none" /\ ~stopping
  BY DEF TimerFires, Inv, TypeOK, OneProbeChain, PhasesAgree, ProbesNeedMetrics
<1>5. timer' = FALSE /\ probing' = 1
  BY <1>4 DEF TimerFires, Inv, OneProbeChain
<1>6. OneProbeChain' BY <1>4, <1>5 DEF TimerFires, OneProbeChain
<1>7. PhasesAgree' /\ ProbesNeedMetrics' /\ StoppedIsEmpty'
  BY <1>4, <1>5 DEF TimerFires, Inv, PhasesAgree, ProbesNeedMetrics, StoppedIsEmpty
<1> QED BY <1>3, <1>6, <1>7 DEF Inv

\* A probe that ends hands it back, unless the server is being stopped.
LEMMA ProbeInv == ASSUME Inv, ProbeEnds PROVE Inv'
<1>1. /\ probing \in Nat /\ probing > 0
      /\ phase \in {"starting", "up", "stopping", "stopped"}
  BY DEF ProbeEnds, Inv, TypeOK
<1>2. metrics # "none" /\ phase # "starting"
  BY <1>1 DEF Inv, ProbesNeedMetrics, PhasesAgree
<1>3. ~timer /\ probing = 1
  BY <1>1, <1>2 DEF Inv, OneProbeChain, PhasesAgree
<1>4. probing' = probing - 1 BY DEF ProbeEnds
<1>5. probing' = 0 BY <1>3, <1>4
<1>6. timer' \in BOOLEAN /\ (timer' <=> ~probesStopped)
  BY <1>2, <1>3, Zenon DEF ProbeEnds, ScheduleAvailabilityProbe
<1>7. UNCHANGED <<phase, stopping, probesStopped, conn, request, metrics>> BY DEF ProbeEnds
<1>8. probing' \in Nat BY <1>5
<1>9. TypeOK' BY <1>7, <1>6, <1>8, Zenon DEF Inv, TypeOK
<1>10. OneProbeChain'
  BY <1>1, <1>2, <1>7, <1>5, <1>6 DEF Inv, OneProbeChain, PhasesAgree
<1>11. PhasesAgree' /\ ProbesNeedMetrics' /\ StoppedIsEmpty'
  BY <1>2, <1>7 DEF Inv, PhasesAgree, ProbesNeedMetrics, StoppedIsEmpty, Connected, Running
<1> QED BY <1>9, <1>10, <1>11 DEF Inv

\* Clients and requests come only while the server is up.
LEMMA TrafficInv ==
    ASSUME Inv,
           \/ \E c \in Client : Connect(c) \/ Disconnect(c)
           \/ \E r \in Request : RequestBegins(r) \/ RequestEnds(r)
    PROVE  Inv'
<1>1. ASSUME NEW c \in Client, Connect(c) \/ Disconnect(c) PROVE Inv'
  <2>1. /\ UNCHANGED <<phase, stopping, probesStopped, timer, probing, request, metrics>>
        /\ conn' \in [Client -> {"none", "open", "closing", "gone"}]
    BY <1>1 DEF Connect, Disconnect, Inv, TypeOK
  <2>2. phase = "stopped" => Connected' = {}
    BY <1>1 DEF Connect, Disconnect, Connected, Inv, StoppedIsEmpty
  <2> QED
    BY <2>1, <2>2 DEF Inv, TypeOK, OneProbeChain, PhasesAgree, ProbesNeedMetrics,
                      StoppedIsEmpty, Running
<1>2. ASSUME NEW r \in Request, RequestBegins(r) \/ RequestEnds(r) PROVE Inv'
  <2>1. /\ UNCHANGED <<phase, stopping, probesStopped, timer, probing, conn, metrics>>
        /\ request' \in [Request -> {"none", "running", "done"}]
    BY <1>2 DEF RequestBegins, RequestEnds, Inv, TypeOK
  <2>2. phase = "stopped" => Running' = {}
    BY <1>2 DEF RequestBegins, RequestEnds, Running, Inv, StoppedIsEmpty
  <2> QED
    BY <2>1, <2>2 DEF Inv, TypeOK, OneProbeChain, PhasesAgree, ProbesNeedMetrics,
                      StoppedIsEmpty, Connected
<1> QED BY <1>1, <1>2

\* stop() up to its await ends the chain; a probe in flight is all that is left.
LEMMA SignalInv == ASSUME Inv, Signal PROVE Inv'
<1>1. conn' \in [Client -> {"none", "open", "closing", "gone"}]
  BY DEF Signal, ClosesClients, Inv, TypeOK
<1>2. phase' = "stopping" /\ metrics # "closed"
  BY DEF Signal, Inv, StoppedIsEmpty
<1>3. probing \in Nat /\ probing <= 1
  BY DEF Signal, Inv, TypeOK, OneProbeChain, ProbesNeedMetrics
<1> QED
  BY <1>1, <1>2, <1>3 DEF Signal, Inv, TypeOK, OneProbeChain, PhasesAgree, ProbesNeedMetrics,
                          StoppedIsEmpty

\* The rest of stop() runs when both servers are closed.
LEMMA StopInv == ASSUME Inv, StopEnds PROVE Inv'
BY DEF StopEnds, ServersClosed, Inv, TypeOK, OneProbeChain, PhasesAgree,
       ProbesNeedMetrics, StoppedIsEmpty, Connected, Running

\* Every step preserves the invariant.
LEMMA NextInv == Inv /\ [Next]_vars => Inv'
<1> SUFFICES ASSUME Inv, [Next]_vars PROVE Inv'
  OBVIOUS
<1>1. CASE UNCHANGED vars
  BY <1>1 DEF vars, Inv, TypeOK, OneProbeChain, PhasesAgree, ProbesNeedMetrics,
              StoppedIsEmpty, Connected, Running
<1>2. CASE Next
  BY <1>2, ListeningInv, TimerInv, ProbeInv, TrafficInv, SignalInv, StopInv DEF Next
<1> QED BY <1>1, <1>2

\* The invariant holds of every reachable state.
LEMMA Invariance == Spec => []Inv
BY InitInv, NextInv, PTL DEF Spec

\* The state of the server is well formed.
THEOREM LifecycleTypeCorrect == Spec => []TypeOK
<1>1. Inv => TypeOK BY DEF Inv
<1> QED BY <1>1, Invariance, PTL

\* A server with metrics has one probe, waiting or in flight; after stop() was
\* called none is scheduled again.
THEOREM ProbesStayOneChain == Spec => []OneProbeChain
<1>1. Inv => OneProbeChain BY DEF Inv
<1> QED BY <1>1, Invariance, PTL

\* The metrics service is closed after everyone who uses it.
THEOREM MetricsAreClosedLast == Spec => []MetricsCloseLast
<1>1. Inv => MetricsCloseLast BY DEF Inv, StoppedIsEmpty, MetricsCloseLast
<1> QED BY <1>1, Invariance, PTL

(***************************************************************************)
(* Answers.                                                                *)
(***************************************************************************)

\* Any request at all, not only those of the runs, with any method and parameters
\* (of the paths of assets, the four kinds that AssetPath tells apart).
IsQuestion(q) ==
    q.other \in BOOLEAN /\ q.acceptsHtml \in BOOLEAN /\ q.upgrade \in BOOLEAN

\* Node and the Worker treat a statistics request alike, step by step.
LEMMA StatsAlike ==
    ASSUME NEW q, IsQuestion(q), NEW service \in Service
    PROVE  NodeStats(q, service) = WorkerStats(q, service)
<1> DEFINE answer == QueryStatsApi(q, service)
<1>1. CASE ~IsStatsMethod(q.method) BY <1>1 DEF NodeStats, WorkerStats
<1>2. CASE IsStatsMethod(q.method) /\ service = "disabled"
  BY <1>2 DEF NodeStats, WorkerStats
<1>3. CASE IsStatsMethod(q.method) /\ service = "unusable"
  <2>1. Throws(MetricsHubFetch(q, service)) BY <1>3 DEF MetricsHubFetch, Throws
  <2> QED BY <1>3, <2>1 DEF NodeStats, WorkerStats
<1>4. CASE IsStatsMethod(q.method) /\ service \in {"failing", "working"}
  <2>1. MetricsHubFetch(q, service) = answer BY <1>4 DEF MetricsHubFetch
  <2> QED BY <1>4, <2>1 DEF NodeStats, WorkerStats
<1> QED BY <1>1, <1>2, <1>3, <1>4 DEF Service

\* What a good answer takes.
LEMMA StatsCached ==
    ASSUME NEW q, IsQuestion(q), NEW service \in Service
    PROVE  LET answer == NodeStats(q, service)
           IN  /\ answer.cache # "no-store" <=> answer.status = 200
               /\ answer.status = 200 => service = "working" /\ q.path \in ApiPath
BY DEF NodeStats, QueryStatsApi, Throws, WrongMethod, Unavailable, NotFound, Json, Cached, Service

\* The two deployments give one answer to any request about the statistics, however
\* the database fails, and for the pages that both make themselves; and only good
\* statistics are kept by caches.
THEOREM DeploymentsAgree ==
    ASSUME NEW q, IsQuestion(q), NEW service \in Service
    PROVE  OneAnswer(q, service) /\ OnlyGoodAnswersCached(q, service)
<1>1. NodeStats(q, service) = WorkerStats(q, service) BY StatsAlike
<1>2. q.path \in StatsPath /\ ~q.upgrade =>
        /\ NodeAnswer(q, service) = NodeStats(q, service)
        /\ WorkerAnswer(q, service) = NodeStats(q, service)
  BY <1>1 DEF NodeAnswer, WorkerAnswer, handleHttpRequest, StatsPath, ApiPath, AssetPath
<1>3. OnlyGoodAnswersCached(q, service)
  BY <1>2, StatsCached DEF OnlyGoodAnswersCached
<1>4. q.path \in {"/", "/sync", "/other"} /\ ~q.upgrade =>
        NodeAnswer(q, service) = WorkerAnswer(q, service)
  BY DEF NodeAnswer, WorkerAnswer, handleHttpRequest, StatsPath, ApiPath, AssetPath
<1>5. NodeWantsHtml(q) = WorkerWantsHtml(q)
  BY DEF NodeWantsHtml, WorkerWantsHtml, IsQuestion
<1>6. q.path \in {"/assets/app.js", "/health"} /\ ~q.upgrade =>
        NodeAnswer(q, service).status = WorkerAnswer(q, service).status
  BY DEF NodeAnswer, WorkerAnswer, handleHttpRequest, StatsPath, ApiPath, AssetPath, Json, Cached
<1> QED BY <1>2, <1>3, <1>4, <1>5, <1>6 DEF OneAnswer

\* Whatever has become of the metrics, the server answers about its statistics, and
\* for the pages made in the code, as a Worker with such metrics would.
THEOREM ServerAnswersAsWorker == Spec => []AnswersAgree
<1>1. ASSUME NEW q \in Question PROVE IsQuestion(q)
  BY DEF Question, IsQuestion
<1>2. TypeOK => ServiceNow \subseteq Service BY DEF TypeOK, ServiceNow, Service
<1>3. TypeOK => AnswersAgree BY <1>1, <1>2, DeploymentsAgree DEF AnswersAgree
<1> QED BY <1>3, LifecycleTypeCorrect, PTL
================================================================================
