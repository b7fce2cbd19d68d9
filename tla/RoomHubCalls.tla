----------------------------- MODULE RoomHubCalls -----------------------------
(***************************************************************************)
(* RoomHubCore one call at a time.  A handler runs to completion, but      *)
(* while it runs a send() that throws calls removeSocket, which broadcasts,*)
(* which may throw again, all from inside the loop that was broadcasting.  *)
(* `todo` holds the calls still to be made, the innermost first; the hub   *)
(* is at rest when it is empty.  A for..of over a room's Set follows the   *)
(* insertion order, skips what is deleted ahead of it, and goes on over    *)
(* the same Set object after the room was deleted from the map.            *)
(*                                                                         *)
(* RoomHub is what this module does between two rests; RefinesHandlers     *)
(* says so.  `view` is what the messages a client received tell it.        *)
(***************************************************************************)
EXTENDS HubState, Sequences, SequencesExt

VARIABLES
    maps,       \* the maps, as HubState has them, a room's Set as a sequence
    todo,       \* the calls still to make
    timer,
    transport,
    view,       \* per socket: the room it believes it is in, and its last user list
    rest        \* maps, timer, transport and metric when the hub was last at rest

vars == <<maps, todo, timer, transport, view, rest>>

NoView  == [room |-> NoRoom, users |-> {}]
NoUsage == [event |-> "none"]

AtRest == todo = <<>>
Listening == {s \in Socket : transport[s] # "absent"}

SetOf(m) == [r \in RoomId |-> IF r \in m.rooms THEN ToSet(m.members[r]) ELSE {}]
HubOf(m) == [m EXCEPT !.members = SetOf(m)]

\* A room's Set object that nothing refers to any more.
Collected(m) == [m EXCEPT !.members = [r \in RoomId |-> IF r \in m.rooms THEN @[r] ELSE <<>>]]

Init ==
    /\ maps = [EmptyHub EXCEPT !.members = [r \in RoomId |-> <<>>]]
    /\ todo = <<>>
    /\ timer = FALSE
    /\ transport = [s \in Socket |-> "absent"]
    /\ view = [s \in Socket |-> NoView]
    /\ rest = [hub |-> EmptyHub, timer |-> FALSE, transport |-> transport, usage |-> NoUsage]

-----------------------------------------------------------------------------
(* Calls and messages.                                                     *)

SendTo(s, m)        == [call |-> "send", socket |-> s, msg |-> m]
Detach(s, notify)   == [call |-> "detachSocketFromRoom", socket |-> s, notify |-> notify]
Forget(s)           == [call |-> "forget", socket |-> s]
EndSession(s)       == [call |-> "endSession", socket |-> s]
Close(s)            == [call |-> "safeClose", socket |-> s]
Destroy(r)          == [call |-> "destroyRoom", room |-> r]
DestroyNext(r, did) == [call |-> "destroyNext", room |-> r, did |-> did]
Broadcast(r)        == [call |-> "broadcastUserUpdated", room |-> r]
TellNext(r, m, did) == [call |-> "tellNext", room |-> r, msg |-> m, did |-> did]
Generate(s)         == [call |-> "generateRoomId", socket |-> s]
Enter(s, r)         == [call |-> "enterRoom", socket |-> s, room |-> r]
Record(e, s, r)     == [call |-> "recordMetric", usage |-> [event |-> e, by |-> s, room |-> r]]
SweepSockets        == [call |-> "sweepSockets"]
SweepRooms          == [call |-> "sweepRooms"]
DisposeNext(S)      == [call |-> "disposeNext", sockets |-> S]

\* removeSocket
RemovalOf(s) == <<Detach(s, TRUE), Forget(s)>>

Reply              == [type |-> "reply"]
ServerError        == [type |-> "serverError"]
Entered(r)         == [type |-> "entered", room |-> r]       \* roomCreated, roomJoined
Destroyed(r)       == [type |-> "roomDestroyed", room |-> r]
ConnectionEnds     == [type |-> "connectionEnds"]            \* roomDestroyed without a room
UserUpdated(r, us) == [type |-> "userUpdated", room |-> r, users |-> us]
Content(r, from)   == [type |-> "content", room |-> r, from |-> from]

\* What a client believes after message m: it follows what is said of its room.
Reads(v, m) ==
    CASE m.type = "entered" /\ m.room # v.room           -> [room |-> m.room, users |-> {}]
      [] m.type = "userUpdated" /\ m.room = v.room       -> [v EXCEPT !.users = m.users]
      [] m.type = "roomDestroyed" /\ m.room = v.room     -> NoView
      [] m.type \in {"connectionEnds", "serverError"}    -> NoView
      [] OTHER                                           -> v

\* The step leaves maps m and the calls cs; a rest is recorded with metric u.
Leaves(m, cs, u) ==
    /\ todo' = cs
    /\ maps' = IF cs = <<>> THEN Collected(m) ELSE m
    /\ rest' = IF cs = <<>>
               THEN [hub |-> HubOf(m), timer |-> timer', transport |-> transport', usage |-> u]
               ELSE rest

\* A handler starts.
Begin(m, cs) == AtRest /\ Leaves(m, cs, NoUsage)

\* The innermost call is made: it leaves maps m and makes the calls cs itself.
Calling(name) == todo # <<>> /\ Head(todo).call = name
Continue(m, cs) == Leaves(m, cs \o Tail(todo), NoUsage)

Arg == Head(todo)
Same == UNCHANGED <<timer, transport, view>>

\* The places of a room's Set that a loop which visited `did` still has before it,
\* and the socket it comes to next.
Unvisited(r, did) == {i \in DOMAIN maps.members[r] : maps.members[r][i] \notin did}
NextOf(r, did)    == maps.members[r][Min(Unvisited(r, did))]

-----------------------------------------------------------------------------
(* The helpers of the class, one call each.                                *)

\* Mutant: a send that throws is ignored.
SendsOrIgnores(s, m, cs) ==
    /\ UNCHANGED <<timer, transport>>
    /\ view' = IF transport[s] = "open" THEN [view EXCEPT ![s] = Reads(@, m)] ELSE view
    /\ Continue(maps, cs)

\* send(s, m) and then the calls cs.
Sends(s, m, cs) ==
    /\ UNCHANGED <<timer, transport>>
    /\ view' = IF transport[s] = "open" THEN [view EXCEPT ![s] = Reads(@, m)] ELSE view
    /\ Continue(maps, IF transport[s] = "broken" THEN RemovalOf(s) \o cs ELSE cs)

RunSend == Calling("send") /\ Sends(Arg.socket, Arg.msg, <<>>)

\* Mutant: removeSocket forgets to drop the connection context.
RunForgetKeepsContext ==
    /\ Calling("forget")
    /\ Same
    /\ Continue([maps EXCEPT !.idle[Arg.socket] = Missing], <<>>)

RunForget ==
    /\ Calling("forget")
    /\ Same
    /\ Continue([maps EXCEPT !.idle[Arg.socket] = Missing, !.known = @ \ {Arg.socket}], <<>>)

RunEndSession ==
    /\ Calling("endSession")
    /\ Same
    /\ Continue([maps EXCEPT !.session[Arg.socket] = NoRoom], <<>>)

DeleteRoom(m, r) ==
    [m EXCEPT !.rooms = @ \ {r}, !.creator[r] = NoSocket, !.ttl[r] = Missing]

\* Mutant: the session is deleted last.
RunDetachSessionLast ==
    /\ Calling("detachSocketFromRoom")
    /\ Same
    /\ LET s == Arg.socket
           r == maps.session[s]
       IN  Continue(maps, IF r = NoRoom THEN <<>>
                          ELSE IF maps.creator[r] = s THEN <<Destroy(r), EndSession(s)>>
                          ELSE <<Broadcast(r), EndSession(s)>>)

\* Mutant: a creator that moves to another room destroys its room unannounced.
RunDetachQuietly ==
    /\ Calling("detachSocketFromRoom")
    /\ Same
    /\ LET s == Arg.socket
           r == maps.session[s]
       IN  Continue(IF r = NoRoom THEN maps ELSE [DeleteRoom(maps, r) EXCEPT
                        !.session = [x \in Socket |-> IF @[x] = r THEN NoRoom ELSE @[x]]], <<>>)

RunDetach ==
    /\ Calling("detachSocketFromRoom")
    /\ Same
    /\ LET s   == Arg.socket
           r   == maps.session[s]
           cut == [maps EXCEPT !.session[s] = NoRoom]
           out == [cut EXCEPT !.members[r] = RemoveFirst(@, s)]
       IN  \/ r = NoRoom /\ Continue(cut, <<>>)
           \/ r # NoRoom /\ cut.creator[r] = s /\ Continue(cut, <<Destroy(r)>>)
           \/ /\ r # NoRoom /\ cut.creator[r] # s
              /\ Continue(IF out.members[r] = <<>> THEN DeleteRoom(out, r) ELSE out,
                          IF Arg.notify THEN <<Broadcast(r)>> ELSE <<>>)

RunDestroy ==
    /\ Calling("destroyRoom")
    /\ Same
    /\ Continue(maps, IF Arg.room \in maps.rooms THEN <<DestroyNext(Arg.room, {})>> ELSE <<>>)

RunDestroyNext ==
    /\ Calling("destroyNext")
    /\ LET r    == Arg.room
           left == Unvisited(r, Arg.did)
           s    == NextOf(r, Arg.did)
       IN  \/ left = {} /\ Same /\ Continue(DeleteRoom(maps, r), <<>>)
           \/ /\ left # {}
              /\ Sends(s, Destroyed(r), <<EndSession(s), DestroyNext(r, Arg.did \cup {s})>>)

\* The user list is computed once, before the first send.
RunBroadcast ==
    /\ Calling("broadcastUserUpdated")
    /\ Same
    /\ LET r     == Arg.room
           users == {s \in ToSet(maps.members[r]) : maps.session[s] # NoRoom}
       IN  Continue(maps, IF r \in maps.rooms
                          THEN <<TellNext(r, UserUpdated(r, users), {})>> ELSE <<>>)

\* One turn of a loop that sends a message to the sockets of a room.
RunTellNext ==
    /\ Calling("tellNext")
    /\ LET left == Unvisited(Arg.room, Arg.did)
           s    == NextOf(Arg.room, Arg.did)
       IN  \/ left = {} /\ Same /\ Continue(maps, <<>>)
           \/ left # {} /\ Sends(s, Arg.msg, <<TellNext(Arg.room, Arg.msg, Arg.did \cup {s})>>)

\* createRoom from its second lastSeen.set on: generateRoomId and what is done
\* with the code, or its exception.
RunGenerate ==
    /\ Calling("generateRoomId")
    /\ UNCHANGED <<timer, transport>>
    /\ LET s == Arg.socket
           m == Heard(maps, s)
       IN  \/ \E r \in RoomId \ maps.rooms :
                 /\ UNCHANGED view
                 /\ Continue([OpenRoom(m, s, r) EXCEPT !.members[r] = <<s>>],
                             <<SendTo(s, Entered(r)), Broadcast(r), Record("room_created", s, r)>>)
           \/ maps.rooms # {} /\ UNCHANGED view /\ Continue(m, <<SendTo(s, ServerError)>>)
           \/ /\ maps.rooms # {}   \* the client gives up waiting for an answer
              /\ view' = [view EXCEPT ![s] = NoView]
              /\ Continue(m, <<>>)

\* joinRoom from its second lastSeen.set on.
\* Mutant: the newcomer alone is told that it joined.
RunEnterUnannounced ==
    /\ Calling("enterRoom")
    /\ Same
    /\ LET s == Arg.socket
           r == Arg.room
       IN  Continue([Heard(maps, s) EXCEPT !.session[s] = r, !.members[r] = Append(@, s)],
                    <<SendTo(s, Entered(r)), Record("room_joined", s, r)>>)

RunEnter ==
    /\ Calling("enterRoom")
    /\ Same
    /\ LET s == Arg.socket
           r == Arg.room
       IN  Continue([Heard(maps, s) EXCEPT !.session[s] = r, !.members[r] = Append(@, s)],
                    <<SendTo(s, Entered(r)), Broadcast(r), Record("room_joined", s, r)>>)

RunRecord ==
    /\ Calling("recordMetric")
    /\ Same
    /\ Leaves(maps, Tail(todo), Arg.usage)

RunClose ==
    /\ Calling("safeClose")
    /\ transport' = [transport EXCEPT ![Arg.socket] = IF @ = "open" THEN "closing" ELSE @]
    /\ view' = [view EXCEPT ![Arg.socket] = NoView]
    /\ UNCHANGED timer
    /\ Continue(maps, <<>>)

\* The timer callback's loops over lastSeen and rooms, in any order of the keys.
RunSweepSockets ==
    /\ Calling("sweepSockets")
    /\ Same
    /\ \/ TimedOut(maps) = {} /\ Continue(maps, <<SweepRooms>>)
       \/ \E s \in TimedOut(maps) :
             Continue(maps, <<SendTo(s, ConnectionEnds), Close(s)>> \o RemovalOf(s) \o <<SweepSockets>>)

RunSweepRooms ==
    /\ Calling("sweepRooms")
    /\ UNCHANGED <<transport, view>>
    /\ LET expired == {r \in maps.rooms : IsRoomExpired(maps, r)}
       IN  \/ /\ expired = {}
              /\ timer' = (Tracked(maps) # {})
              /\ Continue(maps, <<>>)
           \/ \E r \in expired :
                 timer' = timer /\ Continue(maps, <<Destroy(r), SweepRooms>>)

\* dispose's loop over a copy of lastSeen's keys; then every map is cleared.
RunDispose ==
    /\ Calling("disposeNext")
    /\ Same
    /\ \/ Arg.sockets = {} /\ Continue([EmptyHub EXCEPT !.members = [r \in RoomId |-> <<>>]], <<>>)
       \/ \E s \in Arg.sockets :
             Continue(maps, <<SendTo(s, ConnectionEnds), Close(s), DisposeNext(Arg.sockets \ {s})>>)

-----------------------------------------------------------------------------
(* Connections, messages and timers: what starts when the hub is at rest.  *)

AttachSocket(s) ==
    /\ transport[s] = "absent"
    /\ transport' = [transport EXCEPT ![s] = "open"]
    /\ timer' = TRUE
    /\ view' = [view EXCEPT ![s] = NoView]
    /\ Begin([Heard(maps, s) EXCEPT !.known = @ \cup {s}], <<>>)

CloseEvent(s) ==
    /\ s \in Listening
    /\ transport' = [transport EXCEPT ![s] = "absent"]
    /\ view' = [view EXCEPT ![s] = NoView]
    /\ UNCHANGED timer
    /\ Begin(maps, RemovalOf(s))

ErrorEvent(s) ==
    /\ s \in Listening
    /\ transport' = [transport EXCEPT ![s] = IF @ = "open" THEN "closing" ELSE @]
    /\ view' = [view EXCEPT ![s] = NoView]
    /\ UNCHANGED timer
    /\ Begin(maps, RemovalOf(s))

Degrade(s) ==
    /\ \/ transport[s] = "open"    /\ transport' = [transport EXCEPT ![s] = "closing"]
       \/ transport[s] = "open"    /\ transport' = [transport EXCEPT ![s] = "broken"]
       \/ transport[s] = "closing" /\ transport' = [transport EXCEPT ![s] = "broken"]
    /\ view' = [view EXCEPT ![s] = NoView]
    /\ UNCHANGED timer
    /\ Begin(maps, <<>>)

Handles(s, m, cs) ==
    /\ s \in Listening
    /\ Same
    /\ Begin(m, cs)

InvalidMessage(s) == Handles(s, maps, <<SendTo(s, Reply)>>)
Answered(s)       == Handles(s, Heard(maps, s), <<SendTo(s, Reply)>>)

\* The client that leaves knows that it left.
LeaveRoom(s) ==
    /\ s \in Listening
    /\ view' = [view EXCEPT ![s] = NoView]
    /\ UNCHANGED <<timer, transport>>
    /\ Begin(Heard(maps, s), <<Detach(s, TRUE)>>)

CreateRoom(s) == Handles(s, Heard(maps, s), <<Detach(s, FALSE), Generate(s)>>)

RoomExpired(s, r) ==
    /\ r \in maps.rooms
    /\ IsRoomExpired(maps, r)
    /\ Handles(s, Heard(maps, s), <<Destroy(r), SendTo(s, Reply)>>)

JoinRoom(s, r) ==
    /\ r \in maps.rooms
    /\ ~IsRoomExpired(maps, r)
    /\ ~(maps.session[s] = r /\ Contains(maps.members[r], s))
    /\ Len(maps.members[r]) < MaxRoomClients
    /\ Handles(s, Heard(maps, s), <<Detach(s, FALSE), Enter(s, r)>>)

\* Mutant: nobody looks whether the sender is in the room.
ForwardContentFromAnyone(s, r) ==
    /\ r \in maps.rooms
    /\ ~IsRoomExpired(maps, r)
    /\ Handles(s, Heard(maps, s),
               <<TellNext(r, Content(r, s), {s}), SendTo(s, Reply), Record("send", s, r)>>)

ForwardContent(s, r) ==
    /\ r \in maps.rooms
    /\ ~IsRoomExpired(maps, r)
    /\ maps.session[s] # NoRoom
    /\ Contains(maps.members[r], s)
    /\ Handles(s, Heard(maps, s),
               <<TellNext(r, Content(r, s), {s}), SendTo(s, Reply), Record("send", s, r)>>)

Sweep ==
    /\ timer
    /\ Same
    /\ Begin(maps, <<SweepSockets>>)

Dispose ==
    /\ timer' = FALSE
    /\ UNCHANGED <<transport, view>>
    /\ Begin(maps, <<DisposeNext(Tracked(maps))>>)

Tick ==
    /\ Same
    /\ Begin([maps EXCEPT
                !.ttl  = [r \in RoomId |-> IF @[r] > 0 THEN @[r] - 1 ELSE @[r]],
                !.idle = [s \in Socket |->
                            IF @[s] # Missing /\ @[s] <= HeartbeatTimeout THEN @[s] + 1 ELSE @[s]]],
             <<>>)

-----------------------------------------------------------------------------
Run ==
    \/ RunSend \/ RunForget \/ RunEndSession \/ RunDetach
    \/ RunDestroy \/ RunDestroyNext \/ RunBroadcast \/ RunTellNext
    \/ RunGenerate \/ RunEnter \/ RunRecord \/ RunClose
    \/ RunSweepSockets \/ RunSweepRooms \/ RunDispose

Start ==
    \/ \E s \in Socket :
          \/ AttachSocket(s) \/ CloseEvent(s) \/ ErrorEvent(s) \/ Degrade(s)
          \/ InvalidMessage(s) \/ Answered(s) \/ LeaveRoom(s) \/ CreateRoom(s)
          \/ \E r \in RoomId : RoomExpired(s, r) \/ JoinRoom(s, r) \/ ForwardContent(s, r)
    \/ Sweep \/ Dispose \/ Tick

Next == Run \/ Start

Spec == Init /\ [][Next]_vars

-----------------------------------------------------------------------------
(* Properties.                                                             *)

\* The hub of RoomHub, as it stands between two handlers.
Handler == INSTANCE RoomHub WITH
    hub <- rest.hub, timer <- rest.timer, transport <- rest.transport, usage <- rest.usage

\* However the sends of a handler fail, and in whatever order the loops meet the
\* broken sockets, the handler as a whole is one step of RoomHub.  This is
\* Handler!Spec with the stutter, which most steps are, tried first.
RefinesHandlers == Handler!Init /\ [][UNCHANGED rest \/ Handler!Next]_rest

\* The recursion is bounded: while a socket's removal is under way it is removed
\* at most once more from inside (and once more by a sweep, after its failed send),
\* so the call stack grows with the room's size only.
CascadesBounded ==
    \A s \in Socket :
        Cardinality({i \in DOMAIN todo : todo[i] = Forget(s)}) <=
            IF Contains(todo, SweepSockets) THEN 3 ELSE 2

\* Between handlers every open client believes it is in exactly the room the hub
\* has it in: it was told of every room it entered and of every one that ended.
BeliefsMatch ==
    AtRest => \A s \in Socket : transport[s] = "open" => view[s].room = maps.session[s]

\* The last user list an open member received names every present member: nobody
\* reads the room without being shown to it.
NoInvisibleMember ==
    AtRest => \A s \in Socket :
        transport[s] = "open" /\ maps.session[s] # NoRoom =>
            ToSet(maps.members[maps.session[s]]) \subseteq view[s].users

\* The open socket that the innermost loop sends a message of this type to next.
Receiver == NextOf(Arg.room, Arg.did)
Delivers(type) ==
    /\ Calling("tellNext") /\ Arg.msg.type = type
    /\ Unvisited(Arg.room, Arg.did) # {} /\ transport[Receiver] = "open"

\* Content goes from a member of an unexpired room to the others who were its
\* members when the sender's message arrived, and to nobody else.
ContentStaysInRoom ==
    Delivers("content") =>
        /\ rest.hub.session[Receiver] = Arg.msg.room
        /\ rest.hub.session[Arg.msg.from] = Arg.msg.room
        /\ Receiver # Arg.msg.from
        /\ rest.hub.ttl[Arg.msg.room] > 0

\* index.ts:899, the privacy note: the data is forwarded inside a temporary room,
\* which is destroyed "as soon as it expired or its creator disconnected".
ContentOnlyInLivingRoom ==
    Delivers("content") => Arg.msg.room \in maps.rooms

\* room-hub.test.ts:85: the latest userUpdated lists the users of the room.  Here,
\* for a member that moved to another room: the list of the room it left no longer
\* shows it.
MoversLeaveTheList ==
    AtRest => \A s, x \in Socket :
        transport[s] = "open" /\ maps.session[s] # NoRoom /\ x \in view[s].users =>
            maps.session[x] \in {maps.session[s], NoRoom}
=============================================================================
