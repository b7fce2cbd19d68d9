------------------------------ MODULE HttpRoutes -------------------------------
(***************************************************************************)
(* What a deployment answers to an HTTP request: the Node server           *)
(* (handleHttpRequest and the upgrade handler of src/src/server.ts), and   *)
(* the Worker with the MetricsHub object behind it (src/src/index.ts),     *)
(* both over queryStatsApi (src/src/stats-api.ts).                         *)
(*                                                                         *)
(* An answer is its status and its cache-control; bodies are left out.     *)
(* External are the handshake of ws, which the Node server hands upgrades  *)
(* of /sync to, and Cloudflare's ASSETS, which the Worker hands the paths  *)
(* of files to: no property rests on either.                               *)
(***************************************************************************)
EXTENDS Integers, Sequences

ApiPath == {"/api/stats/summary", "/api/stats/timeline", "/api/stats/geo",
            "/api/stats/availability"}
StatsPath == ApiPath \union {"/api/stats/other"}     \* isStatsApiPath
\* A name that is not safe, a file, none, and a file of a type that Node does not serve.
AssetPath == {"/assets/unsafe", "/assets/file", "/assets/missing", "/assets/noType"}
OtherPath == {"/", "/stats", "/stats.html", "/assets/app.js", "/health", "/sync", "/other"}

DETAIL_RANGES == {"24h", "7d", "30d", "90d"}
TIMELINE_RANGES == DETAIL_RANGES \union {"all"}

\* A request: the values of its range parameter in order, its format parameter, and
\* whether there is any other; whether it accepts HTML and asks for an upgrade to
\* WebSocket.
Question ==
    [path : StatsPath, method : {"GET", "HEAD", "POST"},
     ranges : {<<>>, <<"90d">>, <<"all">>, <<"1d">>, <<"24h", "24h">>},
     format : {"none"}, other : BOOLEAN, acceptsHtml : {FALSE}, upgrade : {FALSE}]
    \union
    [path : OtherPath \union AssetPath, method : {"GET", "POST"}, ranges : {<<>>},
     format : {"none", "json", "html"}, other : {FALSE}, acceptsHtml : BOOLEAN,
     upgrade : BOOLEAN]

\* The statistics: switched off, a database that cannot be opened, one whose queries
\* throw, or one that works.
Service == {"disabled", "unusable", "failing", "working"}

Json(status)        == [status |-> status, cache |-> "no-store"]
Cached(status, age) == [status |-> status, cache |-> age]
NotFound    == Json(404)
Unavailable == Json(503)
WrongMethod == Json(405)

-----------------------------------------------------------------------------
(* stats-api.ts.                                                           *)

\* rejectUnexpectedParameters and readRange; summary takes no parameter at all.
AllowedRanges(path) == IF path = "/api/stats/timeline" THEN TIMELINE_RANGES ELSE DETAIL_RANGES
BadParameters(q) ==
    \/ q.other \/ q.format # "none"
    \/ q.path = "/api/stats/summary" /\ q.ranges # <<>>
    \/ Len(q.ranges) > 1
    \/ \E i \in 1 .. Len(q.ranges) : q.ranges[i] \notin AllowedRanges(q.path)

\* queryStatsApi: unknown paths, then bad parameters, then the store, which may throw.
QueryStatsApi(q, service) ==
    CASE q.path \notin ApiPath -> NotFound
      [] q.path \in ApiPath /\ BadParameters(q) -> Json(400)
      [] q.path \in ApiPath /\ ~BadParameters(q) /\ service = "working" ->
           Cached(200, "STATS_CACHE_CONTROL")
      [] OTHER -> [status |-> 0, cache |-> "throws"]

Throws(answer) == answer.cache = "throws"

IsStatsMethod(method) == method \in {"GET", "HEAD"}

-----------------------------------------------------------------------------
(* The Node server.                                                        *)

\* The statistics part of handleHttpRequest.
\* Mutant: a server without metrics answers before it looks at the method.
NodeStatsUnordered(q, service) ==
    IF service \in {"disabled", "unusable"} THEN Unavailable
    ELSE IF ~IsStatsMethod(q.method) THEN WrongMethod
    ELSE LET answer == QueryStatsApi(q, service)
         IN  IF Throws(answer) THEN Unavailable ELSE answer
NodeStats(q, service) ==
    IF ~IsStatsMethod(q.method) THEN WrongMethod
    ELSE IF service \in {"disabled", "unusable"} THEN Unavailable
    ELSE LET answer == QueryStatsApi(q, service)
         IN  IF Throws(answer) THEN Unavailable ELSE answer

\* isSafeStaticPath, contentTypeFor and sendStaticFile.
NodeAsset(path) == IF path = "/assets/file" THEN Cached(200, "300") ELSE NotFound

NodeWantsHtml(q) == q.format = "html" \/ (q.format # "json" /\ q.acceptsHtml)

handleHttpRequest(q, service) ==
    CASE q.path \in {"/", "/assets/app.js"} -> Cached(200, "120")
      [] q.path \in {"/stats", "/stats.html"} -> Cached(200, "120")
      [] q.path \in AssetPath -> NodeAsset(q.path)
      [] q.path = "/health" -> Json(200)
      [] q.path \in StatsPath -> NodeStats(q, service)
      [] q.path = "/sync" -> Json(426)
      [] OTHER -> NotFound

\* webSocketServer.handleUpgrade: a handshake is a GET.
HandleUpgrade(q) == IF q.method = "GET" THEN Cached(101, "none") ELSE Cached(405, "none")

\* A request that asks for an upgrade never reaches handleHttpRequest.
NodeAnswer(q, service) ==
    IF ~q.upgrade THEN handleHttpRequest(q, service)
    ELSE IF q.path = "/sync" THEN HandleUpgrade(q) ELSE Cached(404, "none")

-----------------------------------------------------------------------------
(* The Worker and its objects.                                             *)

\* MetricsHub.fetch on a statistics path: it opens the store before it asks it.
MetricsHubFetch(q, service) ==
    IF ~IsStatsMethod(q.method) THEN WrongMethod
    ELSE IF service = "disabled" THEN Unavailable
    ELSE IF service = "unusable" THEN [status |-> 0, cache |-> "throws"]
    ELSE QueryStatsApi(q, service)

\* The statistics part of fetch; the stub's promise rejects when the object throws.
WorkerStats(q, service) ==
    IF ~IsStatsMethod(q.method) THEN WrongMethod
    ELSE IF service = "disabled" THEN Unavailable
    ELSE LET answer == MetricsHubFetch(q, service)
         IN  IF Throws(answer) THEN Unavailable ELSE answer

\* env.ASSETS.fetch: the files of ./public, to GET and HEAD; with the html_handling
\* that wrangler.toml leaves as it is, a page is found without its .html and a request
\* for /stats.html is sent to /stats.
Assets(path, method) ==
    CASE path \notin {"/stats.html", "/assets/file", "/assets/noType"} -> Cached(404, "assets")
      [] path \in {"/stats.html", "/assets/file", "/assets/noType"}
         /\ method \notin {"GET", "HEAD"} -> Cached(405, "assets")
      [] path = "/stats.html" /\ method \in {"GET", "HEAD"} -> Cached(307, "assets")
      [] OTHER -> Cached(200, "assets")

WorkerWantsHtml(q) == q.format # "json" /\ (q.format = "html" \/ q.acceptsHtml)

WorkerAnswer(q, service) ==
    CASE q.path = "/" -> Cached(200, "120")
      [] q.path = "/stats" -> Assets("/stats.html", q.method)
      [] q.path = "/assets/app.js" -> Cached(200, "300")
      [] q.path \in AssetPath -> Assets(q.path, q.method)
      [] q.path = "/health" -> IF WorkerWantsHtml(q) THEN Cached(200, "120") ELSE Json(200)
      [] q.path \in StatsPath -> WorkerStats(q, service)
      [] q.path = "/sync" -> IF q.upgrade THEN Cached(101, "none") ELSE Json(426)
      [] OTHER -> NotFound

-----------------------------------------------------------------------------
(* Properties.                                                             *)

\* The deployments give one answer, with one life in caches, to every question about
\* the statistics, whatever its method and parameters and however the database
\* fails; and so they do to every request for what they make themselves, except that
\* caches may keep the script and the health page for different times.  Nothing is
\* said of files, which Cloudflare serves its own way, nor of upgrades.
OneAnswer(q, service) ==
    LET node == NodeAnswer(q, service) worker == WorkerAnswer(q, service)
    IN  ~q.upgrade =>
          /\ q.path \in StatsPath \union {"/", "/sync", "/other"} => node = worker
          /\ q.path \in {"/assets/app.js", "/health"} => node.status = worker.status
          /\ q.path = "/health" => NodeWantsHtml(q) = WorkerWantsHtml(q)

\* Only a good answer about the statistics is kept by caches, and a deployment
\* without a working database gives none.
OnlyGoodAnswersCached(q, service) ==
    q.path \in StatsPath /\ ~q.upgrade =>
        \A answer \in {NodeAnswer(q, service), WorkerAnswer(q, service)} :
            /\ answer.cache # "no-store" <=> answer.status = 200
            /\ answer.status = 200 => service = "working" /\ q.path \in ApiPath
================================================================================
