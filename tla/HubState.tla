------------------------------ MODULE HubState ------------------------------
(***************************************************************************)
(* The six maps of RoomHubCore (src/src/index.ts) as one record, and the   *)
(* net effect on them of the hub's helpers.                                *)
(*                                                                         *)
(* A write to a socket whose send() throws makes the hub remove that       *)
(* socket from inside send(); the removal tells the room-mates, whose      *)
(* sends may throw in turn.  The operators below say where such a cascade  *)
(* ends; `broken` is the set of sockets whose send() throws.  Module       *)
(* RoomHubCalls models the cascade one call at a time, and TLC checks that *)
(* it ends where this module says.                                         *)
(*                                                                         *)
(* The two timestamps are kept as distances from the current time, which   *)
(* is all the code ever reads of them: `ttl` is roomExpiresAt minus now,   *)
(* not below 0, and `idle` is now minus lastSeen, not above                *)
(* HeartbeatTimeout + 1.                                                   *)
(***************************************************************************)
EXTENDS Integers, FiniteSets

CONSTANTS
    Socket,            \* the WebSocket connections the hub may be given
    RoomId,            \* the room codes generateRoomId may draw
    NoSocket, NoRoom,  \* Map.get on a missing key
    MaxRoomClients,    \* options.maxRoomClients
    RoomTtl,           \* options.roomTtlMs, in ticks
    HeartbeatTimeout   \* options.heartbeatTimeoutMs, in ticks

ASSUME SocketAssumption == IsFiniteSet(Socket) /\ NoSocket \notin Socket
ASSUME RoomAssumption   == NoRoom \notin RoomId
ASSUME LimitAssumption  ==
    /\ MaxRoomClients \in Nat \ {0}
    /\ RoomTtl \in Nat \ {0}
    /\ HeartbeatTimeout \in Nat

Missing == -1          \* a missing roomExpiresAt or lastSeen entry

HubType ==
    [ session : [Socket -> RoomId \cup {NoRoom}],          \* sessions
      rooms   : SUBSET RoomId,                             \* the keys of rooms
      members : [RoomId -> SUBSET Socket],                 \* the values of rooms
      creator : [RoomId -> Socket \cup {NoSocket}],        \* roomCreators
      ttl     : [RoomId -> (0 .. RoomTtl) \cup {Missing}], \* roomExpiresAt
      idle    : [Socket -> (0 .. HeartbeatTimeout + 1) \cup {Missing}], \* lastSeen
      known   : SUBSET Socket ]                            \* connectionContexts

EmptyHub ==
    [ session |-> [s \in Socket |-> NoRoom],
      rooms   |-> {},
      members |-> [r \in RoomId |-> {}],
      creator |-> [r \in RoomId |-> NoSocket],
      ttl     |-> [r \in RoomId |-> Missing],
      idle    |-> [s \in Socket |-> Missing],
      known   |-> {} ]

Tracked(h) == {s \in Socket : h.idle[s] # Missing}

\* Mutant: a room is expired only after its last moment.
IsRoomExpiredLate(h, r) == h.ttl[r] < 0

\* `(this.roomExpiresAt.get(roomId) ?? 0) <= Date.now()`
IsRoomExpired(h, r) == h.ttl[r] <= 0

\* Mutant: only members of rooms are supervised.
TimedOutInRooms(h) == {s \in Socket : h.session[s] # NoRoom /\ h.idle[s] > HeartbeatTimeout}

TimedOut(h) == {s \in Socket : h.idle[s] > HeartbeatTimeout}

Heard(h, s) == [h EXCEPT !.idle[s] = 0]

-----------------------------------------------------------------------------
(* Leaving rooms, closing rooms.                                           *)

\* The sockets of `gone` leave the hub, and the rooms of `dead` are deleted
\* with every session that points into them.
Clear(h, gone, dead) ==
    [ session |-> [s \in Socket |->
                     IF s \in gone \/ h.session[s] \in dead THEN NoRoom ELSE h.session[s]],
      rooms   |-> h.rooms \ dead,
      members |-> [r \in RoomId |-> IF r \in dead THEN {} ELSE h.members[r] \ gone],
      creator |-> [r \in RoomId |-> IF r \in dead THEN NoSocket ELSE h.creator[r]],
      ttl     |-> [r \in RoomId |-> IF r \in dead THEN Missing ELSE h.ttl[r]],
      idle    |-> [s \in Socket |-> IF s \in gone THEN Missing ELSE h.idle[s]],
      known   |-> h.known \ gone ]

\* The rooms that end when the sockets of `gone` are detached: the creator's,
\* and one that would be left without a member.
EndedBy(h, gone) ==
    {r \in h.rooms :
        \/ h.creator[r] \in gone
        \/ h.members[r] \cap gone # {} /\ h.members[r] \subseteq gone}

RoomsOf(h, S) == {h.session[s] : s \in S} \ {NoRoom}

\* removeSocket of every socket of S, each followed by the broadcast (or the
\* roomDestroyed messages) to its room, which removes the broken room-mates.
RemoveSockets(h, S, broken) ==
    LET gone == S \cup {b \in broken : h.session[b] \in RoomsOf(h, S)}
    IN  Clear(h, gone, EndedBy(h, gone))

RemoveSocket(h, s, broken) == RemoveSockets(h, {s}, broken)

\* send() to every socket of S.
Send(h, S, broken) == RemoveSockets(h, S \cap broken, broken)

BroadcastUserUpdated(h, r, broken) == Send(h, h.members[r], broken)

\* destroyRoom of every room of R.
DestroyRooms(h, R, broken) ==
    Clear(Send(h, UNION {h.members[r] : r \in R}, broken), {}, R)

DestroyRoom(h, r, broken) == DestroyRooms(h, {r}, broken)

\* Mutant: a departure that is not announced leaves the seat taken.
DetachKeepsSeat(h, s, notify, broken) ==
    IF notify THEN RemoveSocket(h, s, broken) ELSE [h EXCEPT !.session[s] = NoRoom]

\* detachSocketFromRoom: the session goes first; a creator's departure destroys
\* the room, anybody else's shrinks it and, if `notify`, is broadcast.
DetachSocketFromRoom(h, s, notify, broken) ==
    LET r   == h.session[s]
        cut == [h EXCEPT !.session[s] = NoRoom]
        out == [h EXCEPT !.session[s] = NoRoom, !.members[r] = @ \ {s}]
    IN  IF r = NoRoom THEN cut
        ELSE IF h.creator[r] = s THEN DestroyRoom(cut, r, broken)
        ELSE IF out.members[r] = {} THEN Clear(out, {}, {r})
        ELSE IF notify THEN BroadcastUserUpdated(out, r, broken)
        ELSE out

-----------------------------------------------------------------------------
(* Entering rooms.                                                         *)

\* Mutant: the room is given more time than roomTtlMs.
OpenRoomLonger(h, s, r) ==
    [h EXCEPT !.session[s] = r, !.rooms = @ \cup {r}, !.members[r] = {s}, !.creator[r] = s,
              !.ttl[r] = RoomTtl + 1]

OpenRoom(h, s, r) ==
    [ session |-> [h.session EXCEPT ![s] = r],
      rooms   |-> h.rooms \cup {r},
      members |-> [h.members EXCEPT ![r] = {s}],
      creator |-> [h.creator EXCEPT ![r] = s],
      ttl     |-> [h.ttl EXCEPT ![r] = RoomTtl],
      idle    |-> h.idle,
      known   |-> h.known ]

\* Mutant: every newcomer renews the room.
EnterRoomRenews(h, s, r) ==
    [h EXCEPT !.session[s] = r, !.members[r] = @ \cup {s}, !.ttl[r] = RoomTtl]

EnterRoom(h, s, r) ==
    [h EXCEPT !.session[s] = r, !.members[r] = @ \cup {s}]

\* The reply to the newcomer, then the new user list to the whole room.
Welcome(h, s, r, broken) ==
    BroadcastUserUpdated(Send(h, {s}, broken), r, broken)
=============================================================================
