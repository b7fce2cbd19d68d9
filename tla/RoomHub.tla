------------------------------- MODULE RoomHub -------------------------------
(***************************************************************************)
(* RoomHubCore (src/src/index.ts) at the granularity of its handlers: the  *)
(* JavaScript event loop runs one handler to completion, so each handler   *)
(* is one action.  The environment opens connections, breaks them, closes  *)
(* them and lets time pass, in any order.                                  *)
(*                                                                         *)
(* A member of Socket is a slot for connections: after its close event the *)
(* slot may be used by a new connection.                                   *)
(***************************************************************************)
EXTENDS HubState

VARIABLES
    hub,        \* the maps of the hub (HubType)
    timer,      \* heartbeatTimer is set
    transport,  \* the state of each connection, below
    usage       \* the metric recorded by the last step, or NoUsage

vars == <<hub, timer, transport, usage>>

(* absent : no connection, or its close event was delivered                *)
(* open   : send() delivers                                                *)
(* closing: a close was begun; send() drops silently, frames that arrived  *)
(*          before may still be handed to the hub                          *)
(* broken : send() throws; frames may still be handed to the hub           *)
Transport == {"absent", "open", "closing", "broken"}

NoUsage == [event |-> "none"]

UsageType ==
    {NoUsage} \cup [event : {"room_created", "room_joined", "send"}, by : Socket, room : RoomId]

Broken == {s \in Socket : transport[s] = "broken"}

\* Sockets whose listeners may still fire.
Listening == {s \in Socket : transport[s] # "absent"}

Init ==
    /\ hub = EmptyHub
    /\ timer = FALSE
    /\ transport = [s \in Socket |-> "absent"]
    /\ usage = NoUsage

-----------------------------------------------------------------------------
(* Connections.                                                            *)

AttachSocket(s) ==
    /\ transport[s] = "absent"
    /\ transport' = [transport EXCEPT ![s] = "open"]
    /\ hub' = [Heard(hub, s) EXCEPT !.known = @ \cup {s}]
    /\ timer' = TRUE
    /\ usage' = NoUsage

\* Mutant: the close listener takes the socket out of its room only.
CloseEventDetaches(s) ==
    /\ s \in Listening
    /\ transport' = [transport EXCEPT ![s] = "absent"]
    /\ hub' = DetachSocketFromRoom(hub, s, TRUE, Broken)
    /\ usage' = NoUsage
    /\ UNCHANGED timer

\* The "close" listener, the last event of a socket.
CloseEvent(s) ==
    /\ s \in Listening
    /\ transport' = [transport EXCEPT ![s] = "absent"]
    /\ hub' = RemoveSocket(hub, s, Broken)
    /\ usage' = NoUsage
    /\ UNCHANGED timer

\* The "error" listener; the close event follows later.
ErrorEvent(s) ==
    /\ s \in Listening
    /\ transport' = [transport EXCEPT ![s] = IF @ = "open" THEN "closing" ELSE @]
    /\ hub' = RemoveSocket(hub, s, Broken)
    /\ usage' = NoUsage
    /\ UNCHANGED timer

\* The peer starts the closing handshake, or send() starts to throw.
Degrade(s) ==
    /\ \/ transport[s] = "open"    /\ transport' = [transport EXCEPT ![s] = "closing"]
       \/ transport[s] = "open"    /\ transport' = [transport EXCEPT ![s] = "broken"]
       \/ transport[s] = "closing" /\ transport' = [transport EXCEPT ![s] = "broken"]
    /\ usage' = NoUsage
    /\ UNCHANGED <<hub, timer>>

-----------------------------------------------------------------------------
(* Messages.                                                               *)

\* What every message handler has in common: `h` is the hub it leaves behind.
Handles(s, h, recorded) ==
    /\ s \in Listening
    /\ hub' = h
    /\ usage' = recorded
    /\ UNCHANGED <<timer, transport>>

\* Not a string, too large, not JSON, not an object: an error reply, and no
\* sign of life.
InvalidMessage(s) == Handles(s, Send(hub, {s}, Broken), NoUsage)

\* ping, an unknown type, or a request refused without a change of state.
Answered(s) == Handles(s, Send(Heard(hub, s), {s}, Broken), NoUsage)

\* Mutant: leaving a room ends the heartbeat supervision.
LeaveRoomForgets(s) == Handles(s, RemoveSocket(Heard(hub, s), s, Broken), NoUsage)

LeaveRoom(s) ==
    Handles(s, DetachSocketFromRoom(Heard(hub, s), s, TRUE, Broken), NoUsage)

\* Mutant: switching rooms removes the socket and tracks it anew.
MovedByRemoval(s) == Heard(RemoveSocket(Heard(hub, s), s, Broken), s)

\* createRoom after the client leaves its former room, and before
\* generateRoomId; the second lastSeen.set re-tracks a socket that send() lost.
Moved(s) == Heard(DetachSocketFromRoom(Heard(hub, s), s, FALSE, Broken), s)

CreateRoom(s, r) ==
    /\ r \notin Moved(s).rooms
    /\ Handles(s, Welcome(OpenRoom(Moved(s), s, r), s, r, Broken),
               [event |-> "room_created", by |-> s, room |-> r])

\* 100 draws of a code all collided: the exception is logged by the Node server's
\* listener, and answered with serverError by the one attachSocket installs.
CreateRoomFails(s) ==
    /\ Moved(s).rooms # {}
    /\ \E h \in {Moved(s), Send(Moved(s), {s}, Broken)} : Handles(s, h, NoUsage)

\* joinRoom and forwardContent on an expired room.
RoomExpired(s, r) ==
    /\ r \in hub.rooms
    /\ IsRoomExpired(hub, r)
    /\ Handles(s, Send(DestroyRoom(Heard(hub, s), r, Broken), {s}, Broken), NoUsage)

\* Mutant: `room.size > maxRoomClients`.
HasSeatOffByOne(r) == Cardinality(hub.members[r]) <= MaxRoomClients

\* Not `room.size >= maxRoomClients`.
HasSeat(r) == Cardinality(hub.members[r]) < MaxRoomClients

\* joinRoom past its early returns; all the others are Answered.
JoinRoom(s, r) ==
    /\ r \in hub.rooms
    /\ ~IsRoomExpired(hub, r)
    /\ ~(hub.session[s] = r /\ s \in hub.members[r])
    /\ HasSeat(r)
    /\ Handles(s, Welcome(EnterRoom(Moved(s), s, r), s, r, Broken),
               [event |-> "room_joined", by |-> s, room |-> r])

\* forwardContent past its early returns: the content to every other member,
\* then the ack to the sender.
ForwardContent(s, r) ==
    /\ r \in hub.rooms
    /\ ~IsRoomExpired(hub, r)
    /\ hub.session[s] # NoRoom
    /\ s \in hub.members[r]
    /\ Handles(s, Send(Send(Heard(hub, s), hub.members[r] \ {s}, Broken), {s}, Broken),
               [event |-> "send", by |-> s, room |-> r])

HandleSocketMessage(s) ==
    \/ InvalidMessage(s)
    \/ Answered(s)
    \/ LeaveRoom(s)
    \/ CreateRoomFails(s)
    \/ \E r \in RoomId :
          CreateRoom(s, r) \/ RoomExpired(s, r) \/ JoinRoom(s, r) \/ ForwardContent(s, r)

-----------------------------------------------------------------------------
(* The heartbeat timer, shutdown and time.                                 *)

CloseAll(S) ==
    [s \in Socket |-> IF s \in S /\ transport[s] = "open" THEN "closing" ELSE transport[s]]

\* Mutant: the sweep spares the rooms that still have members.
ExpiredRoomsUnused(h) == {r \in h.rooms : IsRoomExpired(h, r) /\ h.members[r] = {}}

ExpiredRooms(h) == {r \in h.rooms : IsRoomExpired(h, r)}

\* Mutant: the timer stops as soon as there is no room.
TimerNeededForRooms(h) == h.rooms # {}

\* Mutant: the timer never stops.
TimerNeededAlways(h) == TRUE

\* Not `this.lastSeen.size === 0`.
TimerNeeded(h) == Tracked(h) # {}

\* The timer callback: timed-out sockets are told, closed and removed, then
\* expired rooms are destroyed; the timer stops when nothing is tracked.
Sweep ==
    /\ timer
    /\ \E h \in {RemoveSockets(hub, TimedOut(hub), Broken)} :
          hub' \in {DestroyRooms(h, ExpiredRooms(h), Broken)}
    /\ timer' = TimerNeeded(hub')
    /\ transport' = CloseAll(TimedOut(hub))
    /\ usage' = NoUsage

\* dispose: the tracked sockets are closed and every map is cleared.
Dispose ==
    /\ hub' = EmptyHub
    /\ transport' = CloseAll(Tracked(hub))
    /\ timer' = FALSE
    /\ usage' = NoUsage

Tick ==
    /\ hub' = [hub EXCEPT
         !.ttl  = [r \in RoomId |-> IF @[r] > 0 THEN @[r] - 1 ELSE @[r]],
         !.idle = [s \in Socket |->
                     IF @[s] # Missing /\ @[s] <= HeartbeatTimeout THEN @[s] + 1 ELSE @[s]]]
    /\ usage' = NoUsage
    /\ UNCHANGED <<timer, transport>>

-----------------------------------------------------------------------------
Next ==
    \/ \E s \in Socket :
          AttachSocket(s) \/ CloseEvent(s) \/ ErrorEvent(s) \/ Degrade(s) \/ HandleSocketMessage(s)
    \/ Sweep
    \/ Dispose
    \/ Tick

Spec == Init /\ [][Next]_vars

\* Time passes, an armed interval timer fires, and a connection that is going
\* down is in the end reported closed.
Fairness ==
    /\ WF_vars(Tick)
    /\ WF_vars(Sweep)
    /\ \A s \in Socket : WF_vars(transport[s] \in {"closing", "broken"} /\ CloseEvent(s))

FairSpec == Spec /\ Fairness

-----------------------------------------------------------------------------
(* Safety.                                                                 *)

\* Type invariant: the maps, the timer, the connections and the last metric
\* are well formed.
TypeOK ==
    /\ hub \in HubType
    /\ timer \in BOOLEAN
    /\ transport \in [Socket -> Transport]
    /\ usage \in UsageType

SameKeys(h) ==
    \A r \in RoomId :
        /\ r \in h.rooms <=> h.creator[r] # NoSocket
        /\ r \in h.rooms <=> h.ttl[r] # Missing
        /\ r \in h.rooms <=> h.members[r] # {}

MembersMatchSessions(h) ==
    \A s \in Socket, r \in RoomId : s \in h.members[r] <=> h.session[s] = r

CreatorIsMember(h) == \A r \in h.rooms : h.creator[r] \in h.members[r]

SessionsAreTracked(h) == \A s \in Socket : h.session[s] # NoRoom => h.idle[s] # Missing

Consistent(h) ==
    /\ SameKeys(h)
    /\ MembersMatchSessions(h)
    /\ CreatorIsMember(h)
    /\ SessionsAreTracked(h)

\* The five maps agree after every handler, however sends fail inside it: rooms,
\* roomCreators and roomExpiresAt have the same keys, a socket is in exactly the
\* room its session names, a living room contains its creator (so the branch of
\* detachSocketFromRoom for an emptied room is never needed), and every member is
\* under heartbeat supervision.
HubConsistent == Consistent(hub)

\* joinRoom's size check bounds every room, also when a client switches rooms.
RoomsBounded == \A r \in RoomId : Cardinality(hub.members[r]) <= MaxRoomClients

\* An open connection keeps its lastSeen entry, its connection context and an
\* armed timer whatever rooms it left, lost or never joined.
OpenSocketsSupervised ==
    \A s \in Socket : transport[s] = "open" => timer /\ s \in Tracked(hub) /\ s \in hub.known

\* After the close event nothing in the hub remembers the socket: no session,
\* no seat in a room, no creator entry, no lastSeen and no context.
ClosedSocketsForgotten ==
    \A s \in Socket : transport[s] = "absent" =>
        /\ hub.session[s] = NoRoom
        /\ s \notin Tracked(hub) \cup hub.known
        /\ \A r \in RoomId : s \notin hub.members[r] /\ hub.creator[r] # s

\* The hub remembers exactly the connections there are: both of the above.
SupervisionExact == OpenSocketsSupervised /\ ClosedSocketsForgotten

\* Messages that arrive while a connection goes down may track it again and even
\* open a room after the timer stopped; such a room has only members whose close
\* event is still due, and so does not outlive them.
UnwatchedRoomsAreDying ==
    ~timer => \A r \in RoomId : \A s \in hub.members[r] : transport[s] \in {"closing", "broken"}

\* A metric recorded for an open connection carries that connection's context,
\* and names the room the client is in, unless that room ended in the same step.
UsageAttributed ==
    usage # NoUsage /\ transport[usage.by] = "open" =>
        /\ usage.by \in hub.known
        /\ \/ usage.room \in hub.rooms /\ hub.session[usage.by] = usage.room
           \/ usage.room \notin hub.rooms /\ hub.session[usage.by] = NoRoom
        /\ usage.event = "room_created" => hub.creator[usage.room] = usage.by

-----------------------------------------------------------------------------
(* What a step may never do.                                               *)

\* A room's remaining time never grows, except when its own creator leaves it for
\* a new one that happens to draw the same code, which starts with no one else in.
NoRenewal ==
    [][\A r \in hub.rooms \cap hub'.rooms :
          hub'.ttl[r] > hub.ttl[r] => hub'.members[r] = {hub.creator[r]}]_vars

\* A room whose time is up admits nobody, even before a sweep removes it.
NoEntryAfterExpiry ==
    [][\A r \in hub.rooms \cap hub'.rooms :
          hub.ttl[r] = 0 /\ hub'.ttl[r] <= hub.ttl[r] =>
              /\ hub'.members[r] \subseteq hub.members[r]
              /\ ~(usage'.event = "send" /\ usage'.room = r)]_vars

-----------------------------------------------------------------------------
(* Liveness.                                                               *)

\* Every room comes to its end: whatever its members do, a room that has begun to
\* age is gone (or its creator opened another under the same code) some time later.
RoomsEnd ==
    \A r \in RoomId :
        r \in hub.rooms /\ hub.ttl[r] < RoomTtl ~> r \notin hub.rooms \/ hub.ttl[r] = RoomTtl

\* A silent client is forgotten: no one stays in the hub past the heartbeat
\* timeout without being heard again.
SilentClientsRemoved ==
    \A s \in Socket : hub.idle[s] > HeartbeatTimeout ~> hub.idle[s] <= HeartbeatTimeout

\* When connections stop coming for good, the interval timer is cleared for good.
TimerStops ==
    <>[](Listening = {}) => <>[](~timer)
=============================================================================
