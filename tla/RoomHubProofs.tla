---------------------------- MODULE RoomHubProofs ----------------------------
(***************************************************************************)
(* Theorems about RoomHub, for every number of sockets and rooms, every    *)
(* room capacity, time to live and heartbeat timeout.                      *)
(*                                                                         *)
(* The helpers of HubState are handled first: each leaves the maps         *)
(* consistent (Part) and only ever takes things away (Shrinks).  Every     *)
(* handler is a composition of them, so the step proofs cite the lemmas    *)
(* and never look inside a cascade of failing sends.                       *)
(***************************************************************************)
EXTENDS RoomHub, FiniteSetTheorems, TLAPS

USE DEF Missing

(* The maps agree, except perhaps about who is in the rooms of R: the state *)
(* while detachSocketFromRoom has dropped a creator's session but not yet   *)
(* destroyed the room.                                                      *)
Part(h, R) ==
    /\ h \in HubType
    /\ SameKeys(h)
    /\ SessionsAreTracked(h)
    /\ \A s \in Socket, r \in RoomId \ R : s \in h.members[r] <=> h.session[s] = r
    /\ \A r \in h.rooms \ R : h.creator[r] \in h.members[r]

Good(h) == h \in HubType /\ Consistent(h)

(* k is h after some sockets left the hub, all of them in S, and after some *)
(* sessions and rooms ended.                                                *)
Shrinks(h, k, S) ==
    /\ \A s \in Socket :
          /\ k.session[s] \in {h.session[s], NoRoom}
          /\ k.idle[s] \in {h.idle[s], Missing}
          /\ s \in k.known => s \in h.known
          /\ s \notin S => k.idle[s] = h.idle[s] /\ (s \in h.known => s \in k.known)
    /\ \A r \in RoomId :
          /\ k.members[r] \subseteq h.members[r]
          /\ r \in k.rooms => /\ r \in h.rooms
                              /\ k.creator[r] = h.creator[r]
                              /\ k.ttl[r] = h.ttl[r]

\* Good is Part with no room excepted.
LEMMA GoodIsPart ==
    ASSUME NEW h
    PROVE  Good(h) <=> Part(h, {})
BY DEF Good, Part, Consistent, MembersMatchSessions, CreatorIsMember, HubType

\* Shrinking twice is shrinking.
LEMMA ShrinksTransitive ==
    ASSUME NEW h, NEW k, NEW m, NEW S, NEW T, NEW U,
           Shrinks(h, k, S), Shrinks(k, m, T), S \cup T \subseteq U
    PROVE  Shrinks(h, m, U)
BY DEF Shrinks

\* Clear keeps the maps well formed.
LEMMA ClearType ==
    ASSUME NEW h \in HubType, NEW gone, NEW dead
    PROVE  Clear(h, gone, dead) \in HubType
<1> DEFINE k == Clear(h, gone, dead)
<1>1. k.session \in [Socket -> RoomId \cup {NoRoom}]
  BY DEF HubType, Clear
<1>2. k.members \in [RoomId -> SUBSET Socket]
  BY DEF HubType, Clear
<1>3. k.creator \in [RoomId -> Socket \cup {NoSocket}]
  BY DEF HubType, Clear
<1>4. k.ttl \in [RoomId -> (0 .. RoomTtl) \cup {Missing}]
  BY DEF HubType, Clear
<1>5. k.idle \in [Socket -> (0 .. HeartbeatTimeout + 1) \cup {Missing}]
  BY DEF HubType, Clear
<1>6. k.rooms \in SUBSET RoomId /\ k.known \in SUBSET Socket
  BY DEF HubType, Clear
<1> QED BY <1>1, <1>2, <1>3, <1>4, <1>5, <1>6 DEF HubType, Clear

\* Clear only takes away.
LEMMA ClearShrinks ==
    ASSUME NEW h \in HubType, NEW gone, NEW dead
    PROVE  Shrinks(h, Clear(h, gone, dead), gone)
BY DEF Shrinks, Clear, HubType

\* Clear leaves the maps consistent when it ends the rooms whose creators go.
LEMMA ClearPart ==
    ASSUME NEW h, NEW R, Part(h, R),
           NEW gone \in SUBSET Socket, NEW dead \in SUBSET RoomId,
           EndedBy(h, gone) \subseteq dead
    PROVE  Part(Clear(h, gone, dead), R \ dead)
<1> DEFINE k == Clear(h, gone, dead)
<1>1. h \in HubType BY DEF Part
<1>2. k \in HubType BY <1>1, ClearType
<1>3. SameKeys(k)
  BY <1>1, SocketAssumption, RoomAssumption DEF Clear, Part, SameKeys, EndedBy, HubType
<1>4. SessionsAreTracked(k)
  BY <1>1 DEF Clear, Part, SessionsAreTracked, HubType
<1>5. \A s \in Socket, r \in RoomId \ (R \ dead) : s \in k.members[r] <=> k.session[s] = r
  BY <1>1, RoomAssumption DEF Clear, Part, HubType
<1>6. \A r \in k.rooms \ (R \ dead) : k.creator[r] \in k.members[r]
  BY <1>1 DEF Clear, Part, EndedBy, HubType
<1> QED BY <1>2, <1>3, <1>4, <1>5, <1>6 DEF Part

\* removeSocket, with the cascade of failing sends it sets off.
LEMMA RemoveSocketsPart ==
    ASSUME NEW h, NEW R, Part(h, R),
           NEW S \in SUBSET Socket, NEW broken \in SUBSET Socket
    PROVE  /\ Part(RemoveSockets(h, S, broken), R)
           /\ Shrinks(h, RemoveSockets(h, S, broken), S \cup broken)
<1> DEFINE gone == S \cup {b \in broken : h.session[b] \in RoomsOf(h, S)}
           k    == Clear(h, gone, EndedBy(h, gone))
<1>1. gone \in SUBSET Socket /\ EndedBy(h, gone) \in SUBSET RoomId
  BY DEF Part, HubType, EndedBy
<1>2. Part(k, R \ EndedBy(h, gone)) BY <1>1, ClearPart
<1>3. Part(k, R) BY <1>2 DEF Part
<1>4. Shrinks(h, k, gone) BY ClearShrinks DEF Part
<1>5. Shrinks(h, k, S \cup broken) BY <1>4 DEF Shrinks
<1> QED BY <1>3, <1>5 DEF RemoveSockets

\* send to some sockets, and the removal of those it fails on.
LEMMA SendPart ==
    ASSUME NEW h, NEW R, Part(h, R), NEW S, NEW broken \in SUBSET Socket
    PROVE  /\ Part(Send(h, S, broken), R)
           /\ Shrinks(h, Send(h, S, broken), broken)
<1>1. S \cap broken \in SUBSET Socket OBVIOUS
<1>2. (S \cap broken) \cup broken = broken OBVIOUS
<1> QED BY <1>1, <1>2, RemoveSocketsPart DEF Send

\* destroyRoom: the rooms that were excepted are gone.
LEMMA DestroyRoomsPart ==
    ASSUME NEW h, NEW R, Part(h, R), NEW D \in SUBSET RoomId, NEW broken \in SUBSET Socket
    PROVE  /\ Part(DestroyRooms(h, D, broken), R \ D)
           /\ Shrinks(h, DestroyRooms(h, D, broken), broken)
<1> DEFINE k == Send(h, UNION {h.members[r] : r \in D}, broken)
<1>1. Part(k, R) /\ Shrinks(h, k, broken) BY SendPart
<1>2. EndedBy(k, {}) \subseteq D
  BY <1>1, SocketAssumption DEF EndedBy, Part, SameKeys, HubType
<1>3. Part(Clear(k, {}, D), R \ D) BY <1>1, <1>2, ClearPart
<1>4. Shrinks(k, Clear(k, {}, D), {}) BY <1>1, ClearShrinks DEF Part
<1>5. Shrinks(h, Clear(k, {}, D), broken) BY <1>1, <1>4, ShrinksTransitive
<1> QED BY <1>3, <1>5 DEF DestroyRooms

\* detachSocketFromRoom leaves the socket without a session.
LEMMA DetachGood ==
    ASSUME NEW h, Good(h), NEW s \in Socket, NEW notify \in BOOLEAN,
           NEW broken \in SUBSET Socket
    PROVE  LET k == DetachSocketFromRoom(h, s, notify, broken)
           IN  Good(k) /\ Shrinks(h, k, broken) /\ k.session[s] = NoRoom
<1> DEFINE r   == h.session[s]
           cut == [h EXCEPT !.session[s] = NoRoom]
           out == [h EXCEPT !.session[s] = NoRoom, !.members[r] = @ \ {s}]
           k   == DetachSocketFromRoom(h, s, notify, broken)
<1>1. h \in HubType /\ Part(h, {}) BY GoodIsPart DEF Part
<1>2. /\ cut = [session |-> [h.session EXCEPT ![s] = NoRoom], rooms |-> h.rooms,
                members |-> h.members, creator |-> h.creator, ttl |-> h.ttl,
                idle |-> h.idle, known |-> h.known]
      /\ cut \in HubType
  BY <1>1 DEF HubType
<1>3. Shrinks(h, cut, {}) BY <1>1, <1>2 DEF Shrinks, HubType
<1>4. CASE r = NoRoom
  <2>1. Part(cut, {}) BY <1>1, <1>2, <1>4, RoomAssumption
    DEF Part, SameKeys, SessionsAreTracked, HubType
  <2>2. k = cut BY <1>4 DEF DetachSocketFromRoom
  <2>3. Shrinks(h, cut, broken) BY <1>3 DEF Shrinks
  <2> QED BY <1>1, <1>2, <2>1, <2>2, <2>3, GoodIsPart DEF HubType
<1>5. CASE r # NoRoom /\ h.creator[r] = s
  <2>1. r \in RoomId BY <1>1, <1>5 DEF HubType
  <2>2. Part(cut, {r})
    <3>1. SameKeys(cut) /\ SessionsAreTracked(cut)
      BY <1>1, <1>2 DEF Part, SameKeys, SessionsAreTracked, HubType
    <3>2. \A q \in Socket, p \in RoomId \ {r} : q \in cut.members[p] <=> cut.session[q] = p
      BY <1>1, <1>2, RoomAssumption DEF Part, HubType
    <3>3. \A p \in cut.rooms \ {r} : cut.creator[p] \in cut.members[p]
      BY <1>1, <1>2 DEF Part
    <3> QED BY <1>2, <3>1, <3>2, <3>3 DEF Part
  <2>3. k = DestroyRooms(cut, {r}, broken)
    BY <1>5 DEF DetachSocketFromRoom, DestroyRoom
  <2>4. Part(k, {r} \ {r}) /\ Shrinks(cut, k, broken) BY <2>1, <2>2, <2>3, DestroyRoomsPart
  <2>5. Part(k, {}) /\ Shrinks(h, k, broken)
    BY <1>3, <2>4, ShrinksTransitive, {r} \ {r} = {}
  <2>6. k.session[s] = NoRoom BY <1>1, <1>2, <2>4 DEF Shrinks, HubType
  <2> QED BY <2>5, <2>6, GoodIsPart
<1>6. CASE r # NoRoom /\ h.creator[r] # s
  <2>1. r \in RoomId BY <1>1, <1>6 DEF HubType
  <2>2. /\ out.session = [h.session EXCEPT ![s] = NoRoom]
        /\ out.members = [h.members EXCEPT ![r] = @ \ {s}]
        /\ out.rooms = h.rooms /\ out.creator = h.creator /\ out.ttl = h.ttl
        /\ out.idle = h.idle /\ out.known = h.known
        /\ out \in HubType
    BY <1>1, <2>1 DEF HubType
  <2>3. s \in h.members[r] /\ r \in h.rooms /\ h.creator[r] \in out.members[r]
    BY <1>1, <1>6, <2>1, <2>2 DEF Part, SameKeys, HubType
  <2>4. Part(out, {})
    <3>1. SameKeys(out) BY <1>1, <2>2, <2>3 DEF Part, SameKeys, HubType
    <3>2. SessionsAreTracked(out)
      BY <1>1, <2>2 DEF Part, SessionsAreTracked, HubType
    <3>3. \A q \in Socket, p \in RoomId : q \in out.members[p] <=> out.session[q] = p
      BY <1>1, <2>1, <2>2, RoomAssumption DEF Part, HubType
    <3>4. \A p \in out.rooms : out.creator[p] \in out.members[p]
      BY <1>1, <1>6, <2>1, <2>2 DEF Part, HubType
    <3> QED BY <2>2, <3>1, <3>2, <3>3, <3>4 DEF Part
  <2>5. Shrinks(h, out, broken) BY <1>1, <2>2 DEF Shrinks, HubType
  <2>6. k = IF notify THEN Send(out, out.members[r], broken) ELSE out
    BY <1>6, <2>3 DEF DetachSocketFromRoom, BroadcastUserUpdated
  <2>7. Part(k, {}) /\ Shrinks(out, k, broken)
    <3>1. CASE notify BY <2>4, <2>6, <3>1, SendPart
    <3>2. CASE ~notify BY <2>4, <2>6, <3>2 DEF Shrinks
    <3> QED BY <3>1, <3>2
  <2>8. Shrinks(h, k, broken) BY <2>5, <2>7, ShrinksTransitive
  <2>9. k.session[s] = NoRoom BY <1>1, <2>2, <2>7 DEF Shrinks, HubType
  <2> QED BY <2>7, <2>8, <2>9, GoodIsPart
<1> QED BY <1>4, <1>5, <1>6

-----------------------------------------------------------------------------
(* What every handler owes the sockets other than the one it serves: k is h *)
(* after a message of s, when the sends of B may have failed.               *)
Serves(h, k, s, B) ==
    \A x \in Socket :
        /\ x \notin B => /\ h.idle[x] # Missing => k.idle[x] # Missing
                         /\ x \in h.known => x \in k.known
        /\ x # s => /\ h.session[x] = NoRoom => k.session[x] = NoRoom
                    /\ h.idle[x] = Missing => k.idle[x] = Missing
        /\ x \notin h.known => x \notin k.known

Bounded(h) == \A r \in RoomId : Cardinality(h.members[r]) <= MaxRoomClients

\* Two parts of a handler that serve a socket serve it together.
LEMMA ServesTransitive ==
    ASSUME NEW h, NEW k, NEW m, NEW s, NEW B, Serves(h, k, s, B), Serves(k, m, s, B)
    PROVE  Serves(h, m, s, B)
BY DEF Serves

\* What only takes away serves every socket.
LEMMA ShrinksServes ==
    ASSUME NEW h, NEW k, NEW s, NEW B, Shrinks(h, k, B)
    PROVE  Serves(h, k, s, B)
BY DEF Serves, Shrinks

\* What only takes away never makes a room larger.
LEMMA ShrinksBounded ==
    ASSUME NEW h \in HubType, NEW k \in HubType, NEW S, Shrinks(h, k, S), Bounded(h)
    PROVE  Bounded(k)
<1> SUFFICES ASSUME NEW r \in RoomId PROVE Cardinality(k.members[r]) <= MaxRoomClients
  BY DEF Bounded
<1>1. h.members[r] \subseteq Socket /\ k.members[r] \subseteq h.members[r]
  BY DEF Shrinks, HubType
<1>2. IsFiniteSet(h.members[r]) BY <1>1, FS_Subset, SocketAssumption
<1>3. /\ Cardinality(k.members[r]) <= Cardinality(h.members[r])
      /\ Cardinality(h.members[r]) \in Nat /\ Cardinality(k.members[r]) \in Nat
  BY <1>1, <1>2, FS_Subset, FS_CardinalityType
<1> QED BY <1>3, LimitAssumption DEF Bounded

\* lastSeen.set at the head of handleSocketMessage.
LEMMA HeardGood ==
    ASSUME NEW h, Good(h), NEW s \in Socket
    PROVE  /\ Good(Heard(h, s))
           /\ Serves(h, Heard(h, s), s, {})
           /\ Bounded(h) => Bounded(Heard(h, s))
           /\ Heard(h, s).idle[s] = 0
           /\ Heard(h, s).session = h.session
           /\ Heard(h, s).rooms = h.rooms
           /\ Heard(h, s).members = h.members
<1> DEFINE k == Heard(h, s)
<1>1. /\ k = [session |-> h.session, rooms |-> h.rooms, members |-> h.members,
              creator |-> h.creator, ttl |-> h.ttl, idle |-> [h.idle EXCEPT ![s] = 0],
              known |-> h.known]
      /\ k \in HubType
  BY LimitAssumption DEF Good, HubType, Heard
<1>2. Consistent(k)
  BY <1>1 DEF Good, Consistent, SameKeys, MembersMatchSessions, CreatorIsMember,
              SessionsAreTracked, HubType
<1> QED BY <1>1, <1>2 DEF Good, Serves, Bounded, HubType

\* send between two consistent states.
LEMMA SendGood ==
    ASSUME NEW h, Good(h), NEW S, NEW B \in SUBSET Socket
    PROVE  /\ Good(Send(h, S, B))
           /\ Shrinks(h, Send(h, S, B), B)
           /\ Bounded(h) => Bounded(Send(h, S, B))
BY GoodIsPart, SendPart, ShrinksBounded DEF Good

\* destroyRoom between two consistent states.
LEMMA DestroyGood ==
    ASSUME NEW h, Good(h), NEW D \in SUBSET RoomId, NEW B \in SUBSET Socket
    PROVE  /\ Good(DestroyRooms(h, D, B))
           /\ Shrinks(h, DestroyRooms(h, D, B), B)
           /\ Bounded(h) => Bounded(DestroyRooms(h, D, B))
BY {} \ D = {}, GoodIsPart, DestroyRoomsPart, ShrinksBounded DEF Good

\* removeSocket between two consistent states.
LEMMA RemoveGood ==
    ASSUME NEW h, Good(h), NEW S \in SUBSET Socket, NEW B \in SUBSET Socket
    PROVE  /\ Good(RemoveSockets(h, S, B))
           /\ Shrinks(h, RemoveSockets(h, S, B), S \cup B)
           /\ Bounded(h) => Bounded(RemoveSockets(h, S, B))
BY GoodIsPart, RemoveSocketsPart, ShrinksBounded DEF Good

(* The socket is in no room, and tracked: ready to enter one.               *)
LEMMA OpenGood ==
    ASSUME NEW h, Good(h), NEW s \in Socket, NEW r \in RoomId \ h.rooms,
           h.session[s] = NoRoom, h.idle[s] # Missing
    PROVE  LET k == OpenRoom(h, s, r)
           IN  Good(k) /\ Serves(h, k, s, {}) /\ (Bounded(h) => Bounded(k))
<1> DEFINE k == OpenRoom(h, s, r)
<1>1. h \in HubType /\ Consistent(h) BY DEF Good
<1>2. k = [session |-> [h.session EXCEPT ![s] = r], rooms |-> h.rooms \cup {r},
           members |-> [h.members EXCEPT ![r] = {s}],
           creator |-> [h.creator EXCEPT ![r] = s],
           ttl |-> [h.ttl EXCEPT ![r] = RoomTtl], idle |-> h.idle, known |-> h.known]
  BY <1>1 DEF OpenRoom, HubType
<1>3. k \in HubType BY <1>1, <1>2, LimitAssumption DEF HubType
<1>4. h.members[r] = {} BY <1>1 DEF Consistent, SameKeys
<1>5. SameKeys(k)
  <2> SUFFICES ASSUME NEW p \in RoomId
               PROVE  /\ p \in k.rooms <=> k.creator[p] # NoSocket
                      /\ p \in k.rooms <=> k.ttl[p] # Missing
                      /\ p \in k.rooms <=> k.members[p] # {}
    BY DEF SameKeys
  <2>1. CASE p = r
    <3>1. k.creator[p] = s /\ k.ttl[p] = RoomTtl /\ k.members[p] = {s}
      BY <1>1, <1>2, <2>1 DEF HubType
    <3>2. RoomTtl # Missing /\ s # NoSocket BY LimitAssumption, SocketAssumption
    <3> QED BY <1>2, <2>1, <3>1, <3>2
  <2>2. CASE p # r BY <1>1, <1>2, <2>2 DEF Consistent, SameKeys, HubType
  <2> QED BY <2>1, <2>2
<1>6. MembersMatchSessions(k)
  BY <1>1, <1>2, <1>4, RoomAssumption DEF Consistent, MembersMatchSessions, HubType
<1>7. CreatorIsMember(k) /\ SessionsAreTracked(k)
  BY <1>1, <1>2 DEF Consistent, CreatorIsMember, SessionsAreTracked, HubType
<1>8. Serves(h, k, s, {}) BY <1>1, <1>2 DEF Serves, HubType
<1>9. Bounded(h) => Bounded(k)
  <2>1. Cardinality({s}) = 1 BY FS_Singleton
  <2>2. 1 <= MaxRoomClients BY LimitAssumption
  <2> QED BY <1>1, <1>2, <2>1, <2>2 DEF Bounded, HubType
<1> QED BY <1>3, <1>5, <1>6, <1>7, <1>8, <1>9 DEF Good, Consistent

\* joinRoom's room.add, when the room has a free seat.
LEMMA EnterGood ==
    ASSUME NEW h, Good(h), NEW s \in Socket, NEW r \in h.rooms,
           h.session[s] = NoRoom, h.idle[s] # Missing,
           Cardinality(h.members[r]) < MaxRoomClients
    PROVE  LET k == EnterRoom(h, s, r)
           IN  Good(k) /\ Serves(h, k, s, {}) /\ (Bounded(h) => Bounded(k))
<1> DEFINE k == EnterRoom(h, s, r)
<1>1. h \in HubType /\ Consistent(h) /\ r \in RoomId BY DEF Good, HubType
<1>2. /\ k.session = [h.session EXCEPT ![s] = r]
      /\ k.members = [h.members EXCEPT ![r] = @ \cup {s}]
      /\ k.rooms = h.rooms /\ k.creator = h.creator /\ k.ttl = h.ttl
      /\ k.idle = h.idle /\ k.known = h.known
  BY <1>1 DEF EnterRoom, HubType
<1>3. k \in HubType BY <1>1 DEF EnterRoom, HubType
<1>4. SameKeys(k) BY <1>1, <1>2 DEF Consistent, SameKeys, HubType
<1>5. MembersMatchSessions(k)
  BY <1>1, <1>2, RoomAssumption DEF Consistent, MembersMatchSessions, HubType
<1>6. CreatorIsMember(k) /\ SessionsAreTracked(k)
  BY <1>1, <1>2 DEF Consistent, CreatorIsMember, SessionsAreTracked, HubType
<1>7. Serves(h, k, s, {}) BY <1>1, <1>2 DEF Serves, HubType
<1>8. Bounded(h) => Bounded(k)
  <2>1. h.members[r] \subseteq Socket BY <1>1 DEF HubType
  <2>2. IsFiniteSet(h.members[r]) BY <2>1, FS_Subset, SocketAssumption
  <2>3. /\ Cardinality(h.members[r]) \in Nat
        /\ Cardinality(h.members[r] \cup {s}) \in {Cardinality(h.members[r]),
                                                  Cardinality(h.members[r]) + 1}
    BY <2>2, FS_CardinalityType, FS_AddElement
  <2>4. Cardinality(h.members[r] \cup {s}) <= MaxRoomClients BY <2>3, LimitAssumption
  <2> QED BY <1>1, <1>2, <2>4 DEF Bounded, HubType
<1> QED BY <1>3, <1>4, <1>5, <1>6, <1>7, <1>8 DEF Good, Consistent

\* The reply and the broadcast at the end of createRoom and joinRoom.
LEMMA WelcomeGood ==
    ASSUME NEW h, Good(h), NEW s, NEW r, NEW B \in SUBSET Socket
    PROVE  LET k == Welcome(h, s, r, B)
           IN  Good(k) /\ Serves(h, k, s, B) /\ (Bounded(h) => Bounded(k))
BY SendGood, ShrinksServes, ServesTransitive DEF Welcome, BroadcastUserUpdated

-----------------------------------------------------------------------------
(* A room's trouble stays in the room: when a client moves, the cascade in  *)
(* the room it leaves ends no other room.                                   *)
LEMMA SendToRoomIsLocal ==
    ASSUME NEW h \in HubType, NEW q \in RoomId, NEW B \in SUBSET Socket,
           \A x \in Socket : /\ x \in h.members[q] => h.session[x] \in {q, NoRoom}
                             /\ h.session[x] = q => x \in h.members[q],
           \A p \in h.rooms \ {q} : /\ h.creator[p] \in h.members[p]
                                    /\ h.members[p] \cap h.members[q] = {}
    PROVE  h.rooms \ {q} \subseteq Send(h, h.members[q], B).rooms
<1> DEFINE S    == h.members[q] \cap B
           gone == S \cup {b \in B : h.session[b] \in RoomsOf(h, S)}
<1>1. RoomsOf(h, S) \subseteq {q} BY DEF RoomsOf, HubType
<1>2. gone \subseteq h.members[q] BY <1>1 DEF HubType
<1>3. EndedBy(h, gone) \subseteq {q} BY <1>2 DEF EndedBy
<1>4. Send(h, h.members[q], B).rooms = h.rooms \ EndedBy(h, gone)
  BY DEF Send, RemoveSockets, Clear
<1> QED BY <1>3, <1>4

\* The rooms that Clear leaves.
LEMMA ClearRooms ==
    ASSUME NEW h, NEW gone, NEW dead
    PROVE  Clear(h, gone, dead).rooms = h.rooms \ dead
BY DEF Clear

\* A client that moves does not end another room than its own.
LEMMA DetachIsLocal ==
    ASSUME NEW h, Good(h), NEW s \in Socket, NEW B \in SUBSET Socket,
           NEW r \in h.rooms, h.session[s] # r
    PROVE  r \in DetachSocketFromRoom(h, s, FALSE, B).rooms
<1> DEFINE q   == h.session[s]
           cut == [h EXCEPT !.session[s] = NoRoom]
           out == [h EXCEPT !.session[s] = NoRoom, !.members[q] = @ \ {s}]
           k   == DetachSocketFromRoom(h, s, FALSE, B)
<1>1. h \in HubType /\ Consistent(h) BY DEF Good
<1>2. /\ cut.session = [h.session EXCEPT ![s] = NoRoom]
      /\ cut.rooms = h.rooms /\ cut.members = h.members /\ cut.creator = h.creator
      /\ cut \in HubType
  BY <1>1 DEF HubType
<1>3. CASE q = NoRoom BY <1>2, <1>3 DEF DetachSocketFromRoom
<1>4. CASE q # NoRoom /\ h.creator[q] = s
  <2>1. q \in RoomId BY <1>1, <1>4 DEF HubType
  <2>2. \A x \in Socket : /\ x \in cut.members[q] => cut.session[x] \in {q, NoRoom}
                          /\ cut.session[x] = q => x \in cut.members[q]
    BY <1>1, <1>2, <2>1, RoomAssumption DEF Consistent, MembersMatchSessions, HubType
  <2>3. \A p \in cut.rooms \ {q} : /\ cut.creator[p] \in cut.members[p]
                                   /\ cut.members[p] \cap cut.members[q] = {}
    BY <1>1, <1>2, <2>1 DEF Consistent, MembersMatchSessions, CreatorIsMember, HubType
  <2>4. r \in Send(cut, cut.members[q], B).rooms
    BY <1>2, <2>1, <2>2, <2>3, SendToRoomIsLocal
  <2>5. UNION {cut.members[p] : p \in {q}} = cut.members[q] OBVIOUS
  <2>6. k = DestroyRoom(cut, q, B) BY <1>4 DEF DetachSocketFromRoom
  <2>7. k = Clear(Send(cut, cut.members[q], B), {}, {q})
    BY <2>5, <2>6 DEF DestroyRoom, DestroyRooms
  <2> HIDE DEF k
  <2>8. k.rooms = Send(cut, cut.members[q], B).rooms \ {q} BY <2>7, ClearRooms
  <2>9. r \in k.rooms BY <2>4, <2>8
  <2> QED BY <2>9 DEF k
<1>5. CASE q # NoRoom /\ h.creator[q] # s
  <2>1. out.rooms = h.rooms BY <1>1 DEF HubType
  <2>2. Clear(out, {}, {q}).rooms = out.rooms \ {q} BY DEF Clear
  <2>3. k = out \/ k = Clear(out, {}, {q}) BY <1>5 DEF DetachSocketFromRoom
  <2> QED BY <2>1, <2>2, <2>3
<1> QED BY <1>3, <1>4, <1>5

-----------------------------------------------------------------------------
(* The inductive invariant: the five properties together.  Consistency is   *)
(* what the helpers need, supervision and oblivion are what makes a socket  *)
(* that enters a room a tracked one.                                        *)
Inv ==
    /\ TypeOK
    /\ HubConsistent
    /\ RoomsBounded
    /\ OpenSocketsSupervised
    /\ ClosedSocketsForgotten

\* The invariant in the terms of the lemmas above.
LEMMA InvIsGood ==
    Inv => Good(hub) /\ Bounded(hub) /\ Broken \in SUBSET Socket /\ Listening \in SUBSET Socket
BY DEF Inv, TypeOK, HubConsistent, RoomsBounded, Good, Bounded, Broken, Listening

(* Whatever the step, a good hub makes a forgotten socket of one without    *)
(* session, lastSeen and context.                                           *)
LEMMA Forgotten ==
    ASSUME Good(hub'), 
           \A x \in Socket : transport'[x] = "absent" =>
               /\ hub'.session[x] = NoRoom
               /\ hub'.idle[x] = Missing
               /\ x \notin hub'.known
    PROVE  ClosedSocketsForgotten'
<1> SUFFICES ASSUME NEW x \in Socket, transport'[x] = "absent", NEW r \in RoomId
             PROVE  x \notin hub'.members[r] /\ hub'.creator[r] # x
  BY DEF ClosedSocketsForgotten, Tracked
<1>1. x \notin hub'.members[r]
  BY RoomAssumption DEF Good, Consistent, MembersMatchSessions
<1>2. r \in hub'.rooms => hub'.creator[r] \in hub'.members[r]
  BY DEF Good, Consistent, CreatorIsMember
<1>3. r \notin hub'.rooms => hub'.creator[r] = NoSocket
  BY DEF Good, Consistent, SameKeys
<1> QED BY <1>1, <1>2, <1>3, SocketAssumption

\* A handler whose parts serve its socket preserves the invariant.
LEMMA HandlesInv ==
    ASSUME Inv, NEW s \in Socket, NEW k, NEW u \in UsageType, Handles(s, k, u),
           Good(k), Serves(hub, k, s, Broken), Bounded(k)
    PROVE  Inv'
<1>1. /\ hub' = k /\ timer' = timer /\ transport' = transport /\ usage' = u
      /\ s \in Listening
  BY DEF Handles
<1>2. TypeOK' BY <1>1 DEF Inv, TypeOK, Good
<1>3. HubConsistent' /\ RoomsBounded' BY <1>1 DEF HubConsistent, RoomsBounded, Good, Bounded
<1>4. OpenSocketsSupervised'
  BY <1>1 DEF Inv, OpenSocketsSupervised, Serves, Broken, Tracked
<1>5. \A x \in Socket : transport'[x] = "absent" =>
          hub'.session[x] = NoRoom /\ hub'.idle[x] = Missing /\ x \notin hub'.known
  BY <1>1 DEF Inv, ClosedSocketsForgotten, Serves, Listening, Tracked
<1>6. ClosedSocketsForgotten' BY <1>1, <1>5, Forgotten
<1> QED BY <1>2, <1>3, <1>4, <1>6 DEF Inv

\* The departure from the former room, at the head of createRoom and joinRoom.
LEMMA MovedGood ==
    ASSUME Inv, NEW s \in Socket
    PROVE  /\ Good(Moved(s)) /\ Bounded(Moved(s))
           /\ Serves(hub, Moved(s), s, Broken)
           /\ Moved(s).session[s] = NoRoom
           /\ Moved(s).idle[s] # Missing
           /\ \A r \in RoomId : Moved(s).members[r] \subseteq hub.members[r]
           /\ \A r \in hub.rooms : hub.session[s] # r => r \in Moved(s).rooms
<1> DEFINE h == Heard(hub, s)
           d == DetachSocketFromRoom(h, s, FALSE, Broken)
<1>1. Good(hub) /\ Bounded(hub) /\ Broken \in SUBSET Socket BY InvIsGood
<1>2. /\ Good(h) /\ Bounded(h) /\ Serves(hub, h, s, {})
      /\ h.session = hub.session /\ h.rooms = hub.rooms /\ h.members = hub.members
  BY <1>1, HeardGood
<1>3. Good(d) /\ Shrinks(h, d, Broken) /\ d.session[s] = NoRoom
  BY <1>1, <1>2, DetachGood
<1>4. Bounded(d) BY <1>2, <1>3, ShrinksBounded DEF Good
<1>5. Serves(h, d, s, Broken) BY <1>3, ShrinksServes
<1>6. /\ Good(Heard(d, s)) /\ Bounded(Heard(d, s)) /\ Serves(d, Heard(d, s), s, {})
      /\ Heard(d, s).session = d.session /\ Heard(d, s).idle[s] = 0
      /\ Heard(d, s).members = d.members /\ Heard(d, s).rooms = d.rooms
  BY <1>3, <1>4, HeardGood
<1>7. Serves(hub, h, s, Broken) /\ Serves(d, Heard(d, s), s, Broken)
  BY <1>2, <1>6 DEF Serves
<1>8. Serves(hub, Heard(d, s), s, Broken)
  <2>1. Serves(hub, d, s, Broken) BY <1>5, <1>7, ServesTransitive
  <2> QED BY <2>1, <1>7, ServesTransitive
<1>9. \A r \in RoomId : d.members[r] \subseteq h.members[r] BY <1>3 DEF Shrinks
<1>10. \A r \in hub.rooms : hub.session[s] # r => r \in d.rooms
  BY <1>1, <1>2, DetachIsLocal
<1>11. Moved(s) = Heard(d, s) BY DEF Moved
<1> HIDE DEF h, d
<1> QED BY <1>2, <1>3, <1>6, <1>8, <1>9, <1>10, <1>11

\* removeSocket leaves nothing of the socket.
LEMMA RemoveForgets ==
    ASSUME NEW h, NEW S, NEW B, NEW x \in Socket, x \in S
    PROVE  LET k == RemoveSockets(h, S, B)
           IN  k.session[x] = NoRoom /\ k.idle[x] = Missing /\ x \notin k.known
BY DEF RemoveSockets, Clear

\* The maps after construction and after dispose.
LEMMA EmptyHubGood == Good(EmptyHub) /\ Bounded(EmptyHub)
<1>1. EmptyHub \in HubType BY DEF EmptyHub, HubType
<1>2. Consistent(EmptyHub)
  BY RoomAssumption DEF EmptyHub, Consistent, SameKeys, MembersMatchSessions,
                        CreatorIsMember, SessionsAreTracked
<1>3. Cardinality({}) <= MaxRoomClients BY FS_EmptySet, LimitAssumption
<1>4. Bounded(EmptyHub) BY <1>3 DEF Bounded, EmptyHub
<1> QED BY <1>1, <1>2, <1>4 DEF Good

\* The invariant holds at first.
LEMMA InitInv == Init => Inv
<1> SUFFICES ASSUME Init PROVE Inv
  OBVIOUS
<1>1. TypeOK BY EmptyHubGood DEF Init, TypeOK, Good, Transport, UsageType
<1>2. HubConsistent /\ RoomsBounded
  BY EmptyHubGood DEF Init, HubConsistent, RoomsBounded, Good, Bounded
<1>3. OpenSocketsSupervised BY DEF Init, OpenSocketsSupervised
<1>4. ClosedSocketsForgotten
  BY SocketAssumption DEF Init, ClosedSocketsForgotten, EmptyHub, Tracked
<1> QED BY <1>1, <1>2, <1>3, <1>4 DEF Inv

\* attachSocket preserves the invariant.
LEMMA AttachInv ==
    ASSUME Inv, NEW s \in Socket, AttachSocket(s)
    PROVE  Inv'
<1> DEFINE h == Heard(hub, s)
<1>1. Good(hub) /\ Bounded(hub) BY InvIsGood
<1>2. Good(h) /\ Bounded(h) /\ Serves(hub, h, s, {}) /\ h.idle[s] = 0
  BY <1>1, HeardGood
<1> HIDE DEF h
<1>3. hub' = [h EXCEPT !.known = @ \cup {s}] BY DEF AttachSocket, h
<1>4. hub' = [session |-> h.session, rooms |-> h.rooms, members |-> h.members,
              creator |-> h.creator, ttl |-> h.ttl, idle |-> h.idle,
              known |-> h.known \cup {s}]
  BY <1>2, <1>3 DEF Good, HubType
<1>5. Good(hub') /\ Bounded(hub')
  BY <1>2, <1>4 DEF Good, HubType, Bounded, Consistent, SameKeys, MembersMatchSessions,
                    CreatorIsMember, SessionsAreTracked
<1>6. transport' = [transport EXCEPT ![s] = "open"] /\ timer' = TRUE /\ usage' = NoUsage
  BY DEF AttachSocket
<1>7. TypeOK' BY <1>5, <1>6 DEF Inv, TypeOK, Good, Transport, UsageType
<1>8. HubConsistent' /\ RoomsBounded' BY <1>5 DEF HubConsistent, RoomsBounded, Good, Bounded
<1>9. OpenSocketsSupervised'
  BY <1>2, <1>4, <1>6 DEF Inv, TypeOK, OpenSocketsSupervised, Tracked, Serves
<1>10. ClosedSocketsForgotten'
  <2>1. \A x \in Socket : transport'[x] = "absent" =>
            hub'.session[x] = NoRoom /\ hub'.idle[x] = Missing /\ x \notin hub'.known
    BY <1>2, <1>4, <1>6 DEF Inv, TypeOK, ClosedSocketsForgotten, Tracked, Serves
  <2> QED BY <1>5, <2>1, Forgotten
<1> QED BY <1>7, <1>8, <1>9, <1>10 DEF Inv

\* The close and error listeners preserve the invariant.
LEMMA EventInv ==
    ASSUME Inv, NEW s \in Socket, CloseEvent(s) \/ ErrorEvent(s)
    PROVE  Inv'
<1>1. /\ Good(hub) /\ Bounded(hub) /\ Broken \in SUBSET Socket
      /\ hub' = RemoveSockets(hub, {s}, Broken)
  BY InvIsGood DEF CloseEvent, ErrorEvent, RemoveSocket
<1>2. Good(hub') /\ Bounded(hub') /\ Shrinks(hub, hub', {s} \cup Broken)
  BY <1>1, RemoveGood
<1>3. hub'.session[s] = NoRoom /\ hub'.idle[s] = Missing /\ s \notin hub'.known
  BY <1>1, RemoveForgets
<1>4. /\ transport' \in [Socket -> Transport]
      /\ \A x \in Socket \ {s} : transport'[x] = transport[x]
      /\ transport'[s] # "open"
      /\ timer' = timer /\ usage' = NoUsage
  BY DEF Inv, TypeOK, CloseEvent, ErrorEvent, Transport
<1>5. TypeOK' BY <1>2, <1>4 DEF Inv, TypeOK, Good, UsageType
<1>6. HubConsistent' /\ RoomsBounded' BY <1>2 DEF HubConsistent, RoomsBounded, Good, Bounded
<1>7. OpenSocketsSupervised'
  BY <1>2, <1>4 DEF Inv, OpenSocketsSupervised, Tracked, Shrinks, Broken
<1>8. \A x \in Socket : transport'[x] = "absent" =>
          hub'.session[x] = NoRoom /\ hub'.idle[x] = Missing /\ x \notin hub'.known
  BY <1>2, <1>3, <1>4 DEF Inv, ClosedSocketsForgotten, Tracked, Shrinks
<1>9. ClosedSocketsForgotten' BY <1>2, <1>8, Forgotten
<1> QED BY <1>5, <1>6, <1>7, <1>9 DEF Inv

\* A connection that goes down preserves the invariant.
LEMMA DegradeInv ==
    ASSUME Inv, NEW s \in Socket, Degrade(s)
    PROVE  Inv'
<1>1. /\ hub' = hub /\ timer' = timer /\ usage' = NoUsage
      /\ transport' \in [Socket -> Transport]
      /\ \A x \in Socket : /\ transport'[x] = "open" => transport[x] = "open"
                           /\ transport'[x] = "absent" => transport[x] = "absent"
  BY DEF Inv, TypeOK, Degrade, Transport
<1>2. TypeOK' BY <1>1 DEF Inv, TypeOK, UsageType
<1>3. HubConsistent' /\ RoomsBounded' BY <1>1 DEF Inv, HubConsistent, RoomsBounded
<1>4. OpenSocketsSupervised' BY <1>1 DEF Inv, OpenSocketsSupervised, Tracked
<1>5. ClosedSocketsForgotten' BY <1>1 DEF Inv, ClosedSocketsForgotten, Tracked
<1> QED BY <1>2, <1>3, <1>4, <1>5 DEF Inv

\* handleSocketMessage, whatever the message, preserves the invariant.
LEMMA MessageInv ==
    ASSUME Inv, NEW s \in Socket, HandleSocketMessage(s)
    PROVE  Inv'
<1> DEFINE heard == Heard(hub, s)
           moved == Moved(s)
<1>1. Good(hub) /\ Bounded(hub) /\ Broken \in SUBSET Socket BY InvIsGood
<1>2. /\ Good(heard) /\ Bounded(heard) /\ Serves(hub, heard, s, Broken)
      /\ heard.session = hub.session /\ heard.members = hub.members
  BY <1>1, HeardGood DEF Serves
<1>3. /\ Good(moved) /\ Bounded(moved) /\ Serves(hub, moved, s, Broken)
      /\ moved.session[s] = NoRoom /\ moved.idle[s] # Missing
      /\ \A r \in RoomId : moved.members[r] \subseteq hub.members[r]
      /\ \A r \in hub.rooms : hub.session[s] # r => r \in moved.rooms
  BY MovedGood
<1> HIDE DEF heard, moved
<1>4. NoUsage \in UsageType BY DEF UsageType
<1>5. ASSUME NEW h, Good(h), Bounded(h), Serves(hub, h, s, Broken), NEW S
      PROVE  LET k == Send(h, S, Broken)
             IN  Good(k) /\ Bounded(k) /\ Serves(hub, k, s, Broken)
  <2>1. Shrinks(h, Send(h, S, Broken), Broken) BY <1>1, <1>5, SendGood
  <2>2. Serves(h, Send(h, S, Broken), s, Broken) BY <2>1, ShrinksServes
  <2>3. Serves(hub, Send(h, S, Broken), s, Broken) BY <1>5, <2>2, ServesTransitive
  <2> QED BY <1>1, <1>5, <2>3, SendGood
<1>6. CASE InvalidMessage(s)
  <2>1. Serves(hub, hub, s, Broken) BY DEF Serves
  <2> QED BY <1>1, <1>4, <1>5, <1>6, <2>1, HandlesInv DEF InvalidMessage
<1>7. CASE Answered(s)
  BY <1>2, <1>4, <1>5, <1>7, HandlesInv DEF Answered, heard
<1>8. CASE LeaveRoom(s)
  <2> DEFINE k == DetachSocketFromRoom(heard, s, TRUE, Broken)
  <2>1. Good(k) /\ Shrinks(heard, k, Broken) BY <1>1, <1>2, DetachGood
  <2>2. Bounded(k) BY <1>2, <2>1, ShrinksBounded DEF Good
  <2>3. Serves(heard, k, s, Broken) BY <2>1, ShrinksServes
  <2>4. Serves(hub, k, s, Broken) BY <1>2, <2>3, ServesTransitive
  <2>5. Handles(s, k, NoUsage) BY <1>8 DEF LeaveRoom, heard
  <2> HIDE DEF k
  <2> QED BY <1>4, <2>1, <2>2, <2>4, <2>5, HandlesInv
<1>9. CASE CreateRoomFails(s)
  <2>1. CASE Handles(s, moved, NoUsage)
    BY <1>3, <1>4, <2>1, HandlesInv
  <2>2. CASE Handles(s, Send(moved, {s}, Broken), NoUsage)
    BY <1>3, <1>4, <1>5, <2>2, HandlesInv
  <2> QED BY <1>9, <2>1, <2>2 DEF CreateRoomFails, moved
<1>10. ASSUME NEW h, Good(h), Bounded(h), Serves(hub, h, s, Broken), NEW r
       PROVE  LET k == Welcome(h, s, r, Broken)
              IN  Good(k) /\ Bounded(k) /\ Serves(hub, k, s, Broken)
  <2>1. Serves(h, Welcome(h, s, r, Broken), s, Broken) BY <1>1, <1>10, WelcomeGood
  <2>2. Serves(hub, Welcome(h, s, r, Broken), s, Broken) BY <1>10, <2>1, ServesTransitive
  <2> QED BY <1>1, <1>10, <2>2, WelcomeGood
<1>11. ASSUME NEW r \in RoomId, CreateRoom(s, r) PROVE Inv'
  <2> DEFINE h == OpenRoom(moved, s, r)
             u == [event |-> "room_created", by |-> s, room |-> r]
  <2>1. r \notin moved.rooms /\ Handles(s, Welcome(h, s, r, Broken), u)
    BY <1>11 DEF CreateRoom, moved
  <2>2. Good(h) /\ Bounded(h) /\ Serves(moved, h, s, {}) BY <1>3, <2>1, OpenGood
  <2>3. Serves(moved, h, s, Broken) BY <2>2 DEF Serves
  <2>4. Serves(hub, h, s, Broken) BY <1>3, <2>3, ServesTransitive
  <2>5. u \in UsageType BY DEF UsageType
  <2> HIDE DEF h, u
  <2> QED BY <1>10, <2>1, <2>2, <2>4, <2>5, HandlesInv
<1>12. ASSUME NEW r \in RoomId, RoomExpired(s, r) PROVE Inv'
  <2> DEFINE d == DestroyRooms(heard, {r}, Broken)
  <2>1. Good(d) /\ Bounded(d) /\ Shrinks(heard, d, Broken) BY <1>1, <1>2, DestroyGood
  <2>2. Serves(heard, d, s, Broken) BY <2>1, ShrinksServes
  <2>3. Serves(hub, d, s, Broken) BY <1>2, <2>2, ServesTransitive
  <2>4. Handles(s, Send(d, {s}, Broken), NoUsage)
    BY <1>12 DEF RoomExpired, DestroyRoom, heard
  <2> HIDE DEF d
  <2> QED BY <1>4, <1>5, <2>1, <2>3, <2>4, HandlesInv
<1>13. ASSUME NEW r \in RoomId, JoinRoom(s, r) PROVE Inv'
  <2> DEFINE h == EnterRoom(moved, s, r)
             u == [event |-> "room_joined", by |-> s, room |-> r]
  <2>1. /\ r \in hub.rooms /\ Cardinality(hub.members[r]) < MaxRoomClients
        /\ ~(hub.session[s] = r /\ s \in hub.members[r])
        /\ Handles(s, Welcome(h, s, r, Broken), u)
    BY <1>13 DEF JoinRoom, HasSeat, moved
  <2>2. hub.session[s] # r
    BY <1>1, <2>1 DEF Good, Consistent, MembersMatchSessions
  <2>3. r \in moved.rooms BY <1>3, <2>1, <2>2
  <2>4. Cardinality(moved.members[r]) < MaxRoomClients
    <3>1. hub.members[r] \subseteq Socket BY <1>1 DEF Good, HubType
    <3>2. IsFiniteSet(hub.members[r]) BY <3>1, FS_Subset, SocketAssumption
    <3>3. /\ Cardinality(moved.members[r]) <= Cardinality(hub.members[r])
          /\ Cardinality(moved.members[r]) \in Nat /\ Cardinality(hub.members[r]) \in Nat
      BY <1>3, <3>2, FS_Subset, FS_CardinalityType
    <3> QED BY <2>1, <3>3, LimitAssumption
  <2>5. Good(h) /\ Bounded(h) /\ Serves(moved, h, s, {}) BY <1>3, <2>3, <2>4, EnterGood
  <2>6. Serves(moved, h, s, Broken) BY <2>5 DEF Serves
  <2>7. Serves(hub, h, s, Broken) BY <1>3, <2>6, ServesTransitive
  <2>8. u \in UsageType BY DEF UsageType
  <2> HIDE DEF h, u
  <2> QED BY <1>10, <2>1, <2>5, <2>7, <2>8, HandlesInv
<1>14. ASSUME NEW r \in RoomId, ForwardContent(s, r) PROVE Inv'
  <2> DEFINE d == Send(heard, hub.members[r] \ {s}, Broken)
             u == [event |-> "send", by |-> s, room |-> r]
  <2>1. Good(d) /\ Bounded(d) /\ Serves(hub, d, s, Broken) BY <1>2, <1>5
  <2>2. Handles(s, Send(d, {s}, Broken), u) BY <1>14 DEF ForwardContent, heard
  <2>3. u \in UsageType BY DEF UsageType
  <2> HIDE DEF d, u
  <2> QED BY <1>5, <2>1, <2>2, <2>3, HandlesInv
<1> QED BY <1>6, <1>7, <1>8, <1>9, <1>11, <1>12, <1>13, <1>14 DEF HandleSocketMessage

\* The interval timer's callback preserves the invariant.
LEMMA SweepInv == ASSUME Inv, Sweep PROVE Inv'
<1> DEFINE h == RemoveSockets(hub, TimedOut(hub), Broken)
           R == ExpiredRooms(h)
<1>1. /\ Good(hub) /\ Bounded(hub) /\ Broken \in SUBSET Socket
      /\ TimedOut(hub) \in SUBSET Socket
  BY InvIsGood DEF TimedOut
<1>2. Good(h) /\ Bounded(h) /\ Shrinks(hub, h, TimedOut(hub) \cup Broken)
  BY <1>1, RemoveGood
<1>3. R \in SUBSET RoomId BY <1>2 DEF ExpiredRooms, Good, HubType
<1>4. /\ hub' = DestroyRooms(h, R, Broken) /\ timer' = (Tracked(hub') # {})
      /\ transport' = CloseAll(TimedOut(hub)) /\ usage' = NoUsage /\ timer
  BY DEF Sweep, TimerNeeded
<1> HIDE DEF h, R
<1>5. Good(hub') /\ Bounded(hub') /\ Shrinks(h, hub', Broken)
  BY <1>1, <1>2, <1>3, <1>4, DestroyGood
<1>6. Shrinks(hub, hub', TimedOut(hub) \cup Broken)
  BY <1>2, <1>5, ShrinksTransitive
<1>7. /\ transport' \in [Socket -> Transport]
      /\ \A x \in Socket : /\ transport'[x] = "open" => transport[x] = "open" /\ x \notin TimedOut(hub)
                           /\ transport'[x] = "absent" => transport[x] = "absent"
  BY <1>4 DEF Inv, TypeOK, CloseAll, Transport
<1>8. TypeOK' BY <1>4, <1>5, <1>7 DEF TypeOK, Good, UsageType
<1>9. HubConsistent' /\ RoomsBounded' BY <1>5 DEF HubConsistent, RoomsBounded, Good, Bounded
<1>10. OpenSocketsSupervised'
  BY <1>4, <1>6, <1>7 DEF Inv, OpenSocketsSupervised, Tracked, Shrinks, Broken
<1>11. \A x \in Socket : transport'[x] = "absent" =>
           hub'.session[x] = NoRoom /\ hub'.idle[x] = Missing /\ x \notin hub'.known
  BY <1>6, <1>7 DEF Inv, ClosedSocketsForgotten, Tracked, Shrinks
<1>12. ClosedSocketsForgotten' BY <1>5, <1>11, Forgotten
<1> QED BY <1>8, <1>9, <1>10, <1>12 DEF Inv

\* dispose preserves the invariant.
LEMMA DisposeInv == ASSUME Inv, Dispose PROVE Inv'
<1>1. /\ hub' = EmptyHub /\ transport' = CloseAll(Tracked(hub))
      /\ timer' = FALSE /\ usage' = NoUsage
  BY DEF Dispose
<1>2. Good(hub') /\ Bounded(hub') BY <1>1, EmptyHubGood
<1>3. /\ transport' \in [Socket -> Transport]
      /\ \A x \in Socket : transport'[x] # "open"
  BY <1>1 DEF Inv, TypeOK, OpenSocketsSupervised, CloseAll, Transport
<1>4. TypeOK' BY <1>1, <1>2, <1>3 DEF TypeOK, Good, UsageType
<1>5. HubConsistent' /\ RoomsBounded' BY <1>2 DEF HubConsistent, RoomsBounded, Good, Bounded
<1>6. OpenSocketsSupervised' BY <1>3 DEF OpenSocketsSupervised
<1>7. ClosedSocketsForgotten' BY <1>1, <1>2, Forgotten DEF EmptyHub
<1> QED BY <1>4, <1>5, <1>6, <1>7 DEF Inv

\* The passing of time preserves the invariant.
LEMMA TickInv == ASSUME Inv, Tick PROVE Inv'
<1> DEFINE ttl  == [r \in RoomId |-> IF hub.ttl[r] > 0 THEN hub.ttl[r] - 1 ELSE hub.ttl[r]]
           idle == [s \in Socket |->
                      IF hub.idle[s] # Missing /\ hub.idle[s] <= HeartbeatTimeout
                      THEN hub.idle[s] + 1 ELSE hub.idle[s]]
<1>1. Good(hub) /\ Bounded(hub) BY InvIsGood
<1>2. /\ hub' = [hub EXCEPT !.ttl = ttl, !.idle = idle]
      /\ timer' = timer /\ transport' = transport /\ usage' = NoUsage
  BY DEF Tick
<1>3. /\ ttl \in [RoomId -> (0 .. RoomTtl) \cup {Missing}]
      /\ \A r \in RoomId : ttl[r] = Missing <=> hub.ttl[r] = Missing
  BY <1>1, LimitAssumption DEF Good, HubType
<1>4. /\ idle \in [Socket -> (0 .. HeartbeatTimeout + 1) \cup {Missing}]
      /\ \A s \in Socket : idle[s] = Missing <=> hub.idle[s] = Missing
  BY <1>1, LimitAssumption DEF Good, HubType
<1> HIDE DEF ttl, idle
<1>5. /\ hub'.session = hub.session /\ hub'.rooms = hub.rooms /\ hub'.members = hub.members
      /\ hub'.creator = hub.creator /\ hub'.known = hub.known
      /\ hub'.ttl = ttl /\ hub'.idle = idle
      /\ hub' \in HubType
  BY <1>1, <1>2, <1>3, <1>4 DEF Good, HubType
<1>6. Good(hub') /\ Bounded(hub')
  BY <1>1, <1>3, <1>4, <1>5 DEF Good, Bounded, Consistent, SameKeys,
        MembersMatchSessions, CreatorIsMember, SessionsAreTracked
<1>7. TypeOK' BY <1>2, <1>5 DEF Inv, TypeOK, UsageType
<1>8. HubConsistent' /\ RoomsBounded' BY <1>6 DEF HubConsistent, RoomsBounded, Good, Bounded
<1>9. OpenSocketsSupervised' BY <1>2, <1>4, <1>5 DEF Inv, OpenSocketsSupervised, Tracked
<1>10. ClosedSocketsForgotten' BY <1>2, <1>4, <1>5 DEF Inv, ClosedSocketsForgotten, Tracked
<1> QED BY <1>7, <1>8, <1>9, <1>10 DEF Inv

\* Every step preserves the invariant.
LEMMA NextInv == Inv /\ [Next]_vars => Inv'
<1> SUFFICES ASSUME Inv, [Next]_vars PROVE Inv'
  OBVIOUS
<1>1. CASE UNCHANGED vars
  BY <1>1 DEF Inv, TypeOK, HubConsistent, RoomsBounded, OpenSocketsSupervised,
              ClosedSocketsForgotten, vars, Tracked
<1>2. CASE Next
  BY <1>2, AttachInv, EventInv, DegradeInv, MessageInv, SweepInv, DisposeInv, TickInv DEF Next
<1> QED BY <1>1, <1>2

(* The strengthened invariant holds in every reachable state.               *)
THEOREM SpecInv == Spec => []Inv
BY InitInv, NextInv, PTL DEF Spec

(* The maps, the timer and the connections are always well formed.          *)
THEOREM TypeCorrect == Spec => []TypeOK
BY SpecInv, PTL DEF Inv

(* rooms, roomCreators, roomExpiresAt, sessions and lastSeen agree after    *)
(* every handler, whichever sends failed inside it.                         *)
THEOREM MapsStayConsistent == Spec => []HubConsistent
BY SpecInv, PTL DEF Inv

(* joinRoom never lets a room outgrow maxRoomClients.                       *)
THEOREM RoomsStayBounded == Spec => []RoomsBounded
BY SpecInv, PTL DEF Inv

(* An open connection never falls out of heartbeat supervision; the close   *)
(* event leaves nothing of the socket behind, and nothing done for other    *)
(* sockets brings it back.                                                  *)
THEOREM SupervisionStaysExact == Spec => []SupervisionExact
BY SpecInv, PTL DEF Inv, SupervisionExact

-----------------------------------------------------------------------------
(* What a step of the hub may record, and what it may never do to a room.    *)
(*                                                                           *)
(* All but three actions only thin rooms out (Thins).  Time passing makes    *)
(* them older; createRoom and joinRoom thin out every room but one, so each  *)
(* theorem has to look only at that one room.                                *)

(* Of the rooms of h some are left in k, with the same creator and time,    *)
(* and with no new member.                                                  *)
ThinsBut(h, k, R) ==
    \A p \in RoomId \ R : p \in k.rooms =>
        /\ p \in h.rooms
        /\ k.ttl[p] = h.ttl[p] /\ k.creator[p] = h.creator[p]
        /\ k.members[p] \subseteq h.members[p]

Thins(h, k) == ThinsBut(h, k, {})

\* Thinning out twice is thinning out.
LEMMA ThinsTransitive ==
    ASSUME NEW h, NEW k, NEW m, NEW R, ThinsBut(h, k, R), ThinsBut(k, m, R)
    PROVE  ThinsBut(h, m, R)
BY DEF ThinsBut

\* What thins out every room thins out all but some.
LEMMA ThinsAll ==
    ASSUME NEW h, NEW k, NEW R, Thins(h, k)
    PROVE  ThinsBut(h, k, R)
BY DEF Thins, ThinsBut

\* What only takes away thins out.
LEMMA ShrinksThins ==
    ASSUME NEW h, NEW k, NEW S, Shrinks(h, k, S)
    PROVE  Thins(h, k)
BY DEF Shrinks, Thins, ThinsBut

\* A sign of life touches no room.
LEMMA HeardThins ==
    ASSUME NEW h \in HubType, NEW s \in Socket
    PROVE  Thins(h, Heard(h, s))
BY DEF HubType, Heard, Thins, ThinsBut

\* The reply and the broadcast at the end of createRoom and joinRoom.
LEMMA WelcomeThins ==
    ASSUME NEW h, Good(h), NEW s, NEW r, NEW B \in SUBSET Socket
    PROVE  Thins(h, Welcome(h, s, r, B))
<1> DEFINE k == Send(h, {s}, B)
<1>1. Good(k) /\ Thins(h, k) BY SendGood, ShrinksThins
<1>2. Thins(k, Send(k, k.members[r], B)) BY <1>1, SendGood, ShrinksThins
<1>3. Welcome(h, s, r, B) = Send(k, k.members[r], B) BY DEF Welcome, BroadcastUserUpdated
<1> HIDE DEF k
<1> QED BY <1>1, <1>2, <1>3, ThinsTransitive DEF Thins

\* removeSocket thins out.
LEMMA RemoveThins ==
    ASSUME NEW h, Good(h), NEW S \in SUBSET Socket, NEW B \in SUBSET Socket
    PROVE  Good(RemoveSockets(h, S, B)) /\ Thins(h, RemoveSockets(h, S, B))
<1>1. Shrinks(h, RemoveSockets(h, S, B), S \cup B) BY RemoveGood
<1> QED BY <1>1, RemoveGood, ShrinksThins

-----------------------------------------------------------------------------
(* The room a client leaves.                                                *)

\* A member that is not the creator does not end its room by leaving it silently.
LEMMA DetachSparesRoom ==
    ASSUME NEW h, Good(h), NEW s \in Socket, NEW B \in SUBSET Socket,
           NEW r \in h.rooms, h.creator[r] # s
    PROVE  r \in DetachSocketFromRoom(h, s, FALSE, B).rooms
<1>1. h \in HubType /\ Consistent(h) BY DEF Good
<1>2. CASE h.session[s] # r BY <1>2, DetachIsLocal
<1>3. CASE h.session[s] = r
  <2> DEFINE out == [h EXCEPT !.session[s] = NoRoom, !.members[r] = @ \ {s}]
  <2>1. r \in RoomId /\ r # NoRoom BY <1>1, RoomAssumption DEF HubType
  <2>2. out.rooms = h.rooms /\ out.members[r] = h.members[r] \ {s}
    BY <1>1, <2>1 DEF HubType
  <2>3. h.creator[r] \in out.members[r] BY <1>1, <2>2 DEF Consistent, CreatorIsMember
  <2>4. DetachSocketFromRoom(h, s, FALSE, B) = out
    BY <1>3, <2>1, <2>3 DEF DetachSocketFromRoom
  <2> QED BY <2>2, <2>4
<1> QED BY <1>2, <1>3

\* The state createRoom and joinRoom begin to build on: the room they are about may
\* be missing only if the client was its creator.
LEMMA MovedThins ==
    ASSUME Inv, NEW s \in Socket
    PROVE  /\ Thins(hub, Moved(s))
           /\ \A r \in hub.rooms : hub.creator[r] # s => r \in Moved(s).rooms
<1> DEFINE h == Heard(hub, s)
           d == DetachSocketFromRoom(h, s, FALSE, Broken)
<1>1. Good(hub) /\ Broken \in SUBSET Socket BY InvIsGood
<1>2. /\ Good(h) /\ Thins(hub, h) /\ h.rooms = hub.rooms /\ h.creator = hub.creator
  BY <1>1, HeardGood, HeardThins DEF Good, Heard, HubType
<1>3. Good(d) /\ Thins(h, d) BY <1>1, <1>2, DetachGood, ShrinksThins
<1>4. Thins(d, Heard(d, s)) /\ Heard(d, s).rooms = d.rooms
  BY <1>3, HeardThins, HeardGood DEF Good
<1>5. \A r \in hub.rooms : hub.creator[r] # s => r \in d.rooms
  BY <1>1, <1>2, DetachSparesRoom
<1>6. Moved(s) = Heard(d, s) BY DEF Moved
<1> HIDE DEF h, d
<1>7. Thins(hub, d) BY <1>2, <1>3, ThinsTransitive DEF Thins
<1>8. Thins(hub, Heard(d, s)) BY <1>4, <1>7, ThinsTransitive DEF Thins
<1> QED BY <1>4, <1>5, <1>6, <1>8

-----------------------------------------------------------------------------
(* What a message does to the rooms.                                        *)

\* Sends after a part that thins out thin out too.
LEMMA SendThins ==
    ASSUME NEW h, Good(h), Thins(hub, h), NEW S, Inv
    PROVE  Good(Send(h, S, Broken)) /\ Thins(hub, Send(h, S, Broken))
<1>1. Broken \in SUBSET Socket BY InvIsGood
<1>2. Good(Send(h, S, Broken)) /\ Thins(h, Send(h, S, Broken))
  BY <1>1, SendGood, ShrinksThins
<1> QED BY <1>2, ThinsTransitive DEF Thins

\* Every message but createRoom and joinRoom only thins rooms out, and content is
\* recorded for a room that still has time.
LEMMA MessageThins ==
    ASSUME Inv, NEW s \in Socket, HandleSocketMessage(s),
           ~ \E r \in RoomId : CreateRoom(s, r) \/ JoinRoom(s, r)
    PROVE  /\ Thins(hub, hub')
           /\ usage' # NoUsage => usage'.room \in hub.rooms /\ hub.ttl[usage'.room] > 0
<1> DEFINE heard == Heard(hub, s)
<1>1. Good(hub) /\ Broken \in SUBSET Socket /\ Thins(hub, hub)
  BY InvIsGood DEF Thins, ThinsBut
<1>2. Good(heard) /\ Thins(hub, heard) BY <1>1, HeardGood, HeardThins DEF Good
<1>3. Good(Moved(s)) /\ Thins(hub, Moved(s)) BY MovedGood, MovedThins
<1> HIDE DEF heard
<1>4. CASE InvalidMessage(s)
  BY <1>1, <1>4, SendThins DEF InvalidMessage, Handles
<1>5. CASE Answered(s)
  BY <1>2, <1>5, SendThins DEF Answered, Handles, heard
<1>6. CASE LeaveRoom(s)
  <2> DEFINE k == DetachSocketFromRoom(heard, s, TRUE, Broken)
  <2>1. Thins(heard, k) BY <1>1, <1>2, DetachGood, ShrinksThins
  <2>2. hub' = k /\ usage' = NoUsage BY <1>6 DEF LeaveRoom, Handles, heard
  <2> HIDE DEF k
  <2> QED BY <1>2, <2>1, <2>2, ThinsTransitive DEF Thins
<1>7. CASE CreateRoomFails(s)
  <2>1. hub' \in {Moved(s), Send(Moved(s), {s}, Broken)} /\ usage' = NoUsage
    BY <1>7 DEF CreateRoomFails, Handles
  <2> QED BY <1>3, <2>1, SendThins
<1>8. ASSUME NEW r \in RoomId, RoomExpired(s, r)
      PROVE  Thins(hub, hub') /\ usage' = NoUsage
  <2> DEFINE d == DestroyRooms(heard, {r}, Broken)
  <2>1. Good(d) /\ Thins(heard, d) BY <1>1, <1>2, DestroyGood, ShrinksThins
  <2>2. hub' = Send(d, {s}, Broken) /\ usage' = NoUsage
    BY <1>8 DEF RoomExpired, DestroyRoom, Handles, heard
  <2> HIDE DEF d
  <2>3. Thins(hub, d) BY <1>2, <2>1, ThinsTransitive DEF Thins
  <2> QED BY <2>1, <2>2, <2>3, SendThins
<1>9. ASSUME NEW r \in RoomId, ForwardContent(s, r)
      PROVE  /\ Thins(hub, hub')
             /\ usage'.room \in hub.rooms /\ hub.ttl[usage'.room] > 0
  <2> DEFINE d == Send(heard, hub.members[r] \ {s}, Broken)
  <2>1. Good(d) /\ Thins(hub, d) BY <1>2, SendThins
  <2>2. hub' = Send(d, {s}, Broken) BY <1>9 DEF ForwardContent, Handles, heard
  <2>3. usage'.room = r /\ r \in hub.rooms /\ ~(hub.ttl[r] <= 0)
    BY <1>9 DEF ForwardContent, Handles, IsRoomExpired
  <2>4. hub.ttl[r] \in (0 .. RoomTtl) \cup {Missing} BY <1>1 DEF Good, HubType
  <2> HIDE DEF d
  <2>5. Thins(hub, hub') BY <2>1, <2>2, SendThins
  <2>6. hub.ttl[r] > 0 BY <2>3, <2>4, LimitAssumption DEF Missing
  <2> QED BY <2>3, <2>5, <2>6
<1> QED BY <1>4, <1>5, <1>6, <1>7, <1>8, <1>9 DEF HandleSocketMessage

\* So does every other step, but for the passing of time.
LEMMA StepThins ==
    ASSUME Inv, Next, ~Tick,
           ~ \E s \in Socket, r \in RoomId : CreateRoom(s, r) \/ JoinRoom(s, r)
    PROVE  /\ Thins(hub, hub')
           /\ usage' # NoUsage => usage'.room \in hub.rooms /\ hub.ttl[usage'.room] > 0
<1>1. Good(hub) /\ Broken \in SUBSET Socket /\ Thins(hub, hub)
  BY InvIsGood DEF Thins, ThinsBut
<1>2. ASSUME NEW s \in Socket, AttachSocket(s) PROVE Thins(hub, hub') /\ usage' = NoUsage
  <2> DEFINE h == Heard(hub, s)
  <2>1. Good(h) /\ Thins(hub, h) BY <1>1, HeardGood, HeardThins DEF Good
  <2> HIDE DEF h
  <2>2. hub' = [h EXCEPT !.known = @ \cup {s}] /\ usage' = NoUsage
    BY <1>2 DEF AttachSocket, h
  <2>3. hub'.rooms = h.rooms /\ hub'.ttl = h.ttl /\ hub'.creator = h.creator /\ hub'.members = h.members
    BY <2>1, <2>2 DEF Good, HubType
  <2> QED BY <2>1, <2>2, <2>3 DEF Thins, ThinsBut
<1>3. ASSUME NEW s \in Socket, CloseEvent(s) \/ ErrorEvent(s)
      PROVE  Thins(hub, hub') /\ usage' = NoUsage
  <2>1. hub' = RemoveSockets(hub, {s}, Broken) /\ usage' = NoUsage
    BY <1>3 DEF CloseEvent, ErrorEvent, RemoveSocket
  <2>2. {s} \in SUBSET Socket OBVIOUS
  <2> QED BY <1>1, <2>1, <2>2, RemoveThins
<1>4. ASSUME NEW s \in Socket, Degrade(s) PROVE Thins(hub, hub') /\ usage' = NoUsage
  BY <1>1, <1>4 DEF Degrade
<1>5. CASE Sweep
  <2> DEFINE h == RemoveSockets(hub, TimedOut(hub), Broken)
  <2>1. TimedOut(hub) \in SUBSET Socket BY DEF TimedOut
  <2>2. Good(h) /\ Thins(hub, h) BY <1>1, <2>1, RemoveThins
  <2>3. hub' = DestroyRooms(h, ExpiredRooms(h), Broken) /\ usage' = NoUsage
    BY <1>5 DEF Sweep
  <2> HIDE DEF h
  <2>4. ExpiredRooms(h) \in SUBSET RoomId BY <2>2 DEF ExpiredRooms, Good, HubType
  <2>5. Thins(h, hub') BY <1>1, <2>2, <2>3, <2>4, DestroyGood, ShrinksThins
  <2> QED BY <2>2, <2>3, <2>5, ThinsTransitive DEF Thins
<1>6. CASE Dispose BY <1>6 DEF Dispose, EmptyHub, Thins, ThinsBut
<1>7. ASSUME NEW s \in Socket, HandleSocketMessage(s)
      PROVE  /\ Thins(hub, hub')
             /\ usage' # NoUsage => usage'.room \in hub.rooms /\ hub.ttl[usage'.room] > 0
  BY <1>7, MessageThins
<1> QED BY <1>2, <1>3, <1>4, <1>5, <1>6, <1>7 DEF Next

-----------------------------------------------------------------------------
(* createRoom and joinRoom.                                                 *)

\* createRoom opens a room with all its time and nobody else in; if the room was
\* there before, it was the client's own.
LEMMA CreateRoomThins ==
    ASSUME Inv, NEW s \in Socket, NEW r \in RoomId, CreateRoom(s, r)
    PROVE  /\ ThinsBut(hub, hub', {r})
           /\ r \in hub'.rooms => /\ hub'.ttl[r] = RoomTtl /\ hub'.creator[r] = s
                                  /\ hub'.members[r] \subseteq {s}
           /\ r \in hub.rooms => hub.creator[r] = s
<1> DEFINE m == Moved(s)
           h == OpenRoom(m, s, r)
<1>1. /\ Good(m) /\ Thins(hub, m) /\ m.session[s] = NoRoom /\ m.idle[s] # Missing
      /\ r \in hub.rooms /\ hub.creator[r] # s => r \in m.rooms
      /\ Broken \in SUBSET Socket
  BY MovedGood, MovedThins, InvIsGood
<1>2. r \notin m.rooms /\ hub' = Welcome(h, s, r, Broken) BY DEF CreateRoom, Handles
<1>3. Good(h) BY <1>1, <1>2, OpenGood
<1>4. /\ h.rooms = m.rooms \cup {r}
      /\ h.members = [m.members EXCEPT ![r] = {s}]
      /\ h.creator = [m.creator EXCEPT ![r] = s]
      /\ h.ttl = [m.ttl EXCEPT ![r] = RoomTtl]
      /\ m \in HubType
  BY <1>1 DEF OpenRoom, Good
<1> HIDE DEF m, h
<1>5. ThinsBut(m, h, {r}) BY <1>4 DEF ThinsBut, HubType
<1>6. Thins(h, hub') BY <1>1, <1>2, <1>3, WelcomeThins
<1>7. ThinsBut(hub, hub', {r})
  <2>1. ThinsBut(hub, m, {r}) /\ ThinsBut(h, hub', {r}) BY <1>1, <1>6, ThinsAll
  <2>2. ThinsBut(hub, h, {r}) BY <1>5, <2>1, ThinsTransitive
  <2> QED BY <2>1, <2>2, ThinsTransitive
<1>8. h.ttl[r] = RoomTtl /\ h.creator[r] = s /\ h.members[r] = {s} BY <1>4 DEF HubType
<1> QED BY <1>1, <1>2, <1>6, <1>7, <1>8 DEF Thins, ThinsBut

\* joinRoom's room is still there when the client has left its former one, with a
\* seat for it.
LEMMA EnteredGood ==
    ASSUME Inv, NEW s \in Socket, NEW r \in RoomId, JoinRoom(s, r)
    PROVE  /\ r \in Moved(s).rooms /\ r \in EnterRoom(Moved(s), s, r).rooms
           /\ Good(EnterRoom(Moved(s), s, r))
<1> DEFINE m == Moved(s)
<1>1. Good(hub) BY InvIsGood
<1>2. /\ Good(m) /\ m.session[s] = NoRoom /\ m.idle[s] # Missing
      /\ \A p \in RoomId : m.members[p] \subseteq hub.members[p]
      /\ \A p \in hub.rooms : hub.session[s] # p => p \in m.rooms
  BY MovedGood
<1>3. /\ r \in hub.rooms /\ Cardinality(hub.members[r]) < MaxRoomClients
      /\ ~(hub.session[s] = r /\ s \in hub.members[r])
  BY DEF JoinRoom, HasSeat
<1>4. hub.session[s] # r BY <1>1, <1>3 DEF Good, Consistent, MembersMatchSessions
<1>5. r \in m.rooms BY <1>2, <1>3, <1>4
<1>6. Cardinality(m.members[r]) < MaxRoomClients
  <2>1. hub.members[r] \subseteq Socket BY <1>1 DEF Good, HubType
  <2>2. IsFiniteSet(hub.members[r]) BY <2>1, FS_Subset, SocketAssumption
  <2>3. /\ Cardinality(m.members[r]) <= Cardinality(hub.members[r])
        /\ Cardinality(m.members[r]) \in Nat /\ Cardinality(hub.members[r]) \in Nat
    BY <1>2, <2>2, FS_Subset, FS_CardinalityType
  <2> QED BY <1>3, <2>3, LimitAssumption
<1>7. Good(EnterRoom(m, s, r)) BY <1>2, <1>5, <1>6, EnterGood
<1>8. EnterRoom(m, s, r).rooms = m.rooms BY <1>2 DEF EnterRoom, Good, HubType
<1> HIDE DEF m
<1> QED BY <1>5, <1>7, <1>8 DEF m

\* joinRoom enters a room that has time left, and gives it no more.
LEMMA JoinRoomThins ==
    ASSUME Inv, NEW s \in Socket, NEW r \in RoomId, JoinRoom(s, r)
    PROVE  /\ ThinsBut(hub, hub', {r})
           /\ r \in hub'.rooms => hub'.ttl[r] = hub.ttl[r]
           /\ r \in hub.rooms /\ hub.ttl[r] > 0
<1> DEFINE m == Moved(s)
           h == EnterRoom(m, s, r)
<1>1. Good(hub) /\ Broken \in SUBSET Socket BY InvIsGood
<1>2. Good(m) /\ Thins(hub, m) BY MovedGood, MovedThins
<1>3. /\ r \in hub.rooms /\ ~(hub.ttl[r] <= 0) /\ hub' = Welcome(h, s, r, Broken)
  BY DEF JoinRoom, Handles, IsRoomExpired
<1>4. r \in m.rooms /\ Good(h) BY EnteredGood
<1>5. /\ h.rooms = m.rooms /\ h.creator = m.creator /\ h.ttl = m.ttl
      /\ \A p \in RoomId \ {r} : h.members[p] = m.members[p]
  BY <1>2 DEF EnterRoom, Good, HubType
<1> HIDE DEF m, h
<1>6. ThinsBut(m, h, {r}) BY <1>5 DEF ThinsBut
<1>7. Thins(h, hub') BY <1>1, <1>3, <1>4, WelcomeThins
<1>8. ThinsBut(hub, hub', {r})
  <2>1. ThinsBut(hub, m, {r}) /\ ThinsBut(h, hub', {r}) BY <1>2, <1>7, ThinsAll
  <2>2. ThinsBut(hub, h, {r}) BY <1>6, <2>1, ThinsTransitive
  <2> QED BY <2>1, <2>2, ThinsTransitive
<1>9. r \in hub'.rooms => hub'.ttl[r] = hub.ttl[r]
  BY <1>2, <1>4, <1>5, <1>7 DEF Thins, ThinsBut
<1>10. hub.ttl[r] > 0
  <2>1. hub.ttl[r] \in (0 .. RoomTtl) \cup {Missing} BY <1>1 DEF Good, HubType
  <2>2. hub.ttl[r] # Missing BY <1>1, <1>3 DEF Good, Consistent, SameKeys
  <2> QED BY <1>3, <2>1, <2>2, LimitAssumption DEF Missing
<1> QED BY <1>3, <1>8, <1>9, <1>10

-----------------------------------------------------------------------------
(* What a metric says of the client.                                        *)

\* A socket whose sends do not fail keeps its seat as long as its room is there,
\* and a creator whose sends do not fail keeps its room.
LEMMA SendKeepsSeat ==
    ASSUME NEW h, Good(h), NEW s \in Socket, NEW B \in SUBSET Socket, s \notin B,
           NEW r \in RoomId, h.session[s] = r, NEW S
    PROVE  LET k == Send(h, S, B)
           IN  /\ Good(k) /\ Thins(h, k)
               /\ r \in k.rooms => k.session[s] = r
               /\ r \in h.rooms /\ h.creator[r] = s => r \in k.rooms
<1> DEFINE gone == (S \cap B) \cup {b \in B : h.session[b] \in RoomsOf(h, S \cap B)}
           dead == EndedBy(h, gone)
           k    == Clear(h, gone, dead)
<1>1. gone \subseteq B /\ s \notin gone OBVIOUS
<1>2. Send(h, S, B) = k BY DEF Send, RemoveSockets
<1>3. k.rooms = h.rooms \ dead /\ (h.session[s] \notin dead => k.session[s] = h.session[s])
  BY <1>1 DEF Clear
<1>4. s \in h.members[r] BY DEF Good, Consistent, MembersMatchSessions
<1>5. h.creator[r] = s => r \notin dead BY <1>1, <1>4 DEF EndedBy
<1>6. Good(k) /\ Thins(h, k)
  <2>1. Good(Send(h, S, B)) /\ Shrinks(h, Send(h, S, B), B) BY SendGood
  <2> QED BY <1>2, <2>1, ShrinksThins
<1> QED BY <1>2, <1>3, <1>5, <1>6

\* In a good hub a session is in a room that exists, and a seat is nowhere else.
LEMMA SeatOrNone ==
    ASSUME NEW h, Good(h), NEW k, Good(k), Thins(h, k),
           NEW s \in Socket, NEW r \in RoomId, h.session[s] = r, r \notin k.rooms
    PROVE  k.session[s] = NoRoom
<1> DEFINE p == k.session[s]
<1> SUFFICES ASSUME p # NoRoom PROVE FALSE OBVIOUS
<1>1. p \in RoomId /\ s \in k.members[p]
  BY DEF Good, HubType, Consistent, MembersMatchSessions
<1>2. p \in k.rooms BY <1>1 DEF Good, Consistent, SameKeys
<1>3. s \in h.members[p] BY <1>1, <1>2 DEF Thins, ThinsBut
<1>4. h.session[s] = p BY <1>1, <1>3 DEF Good, Consistent, MembersMatchSessions
<1> QED BY <1>2, <1>4

\* The same of the two rounds of sends that end the handlers.
LEMMA SendsKeepSeat ==
    ASSUME NEW h, Good(h), NEW s \in Socket, NEW B \in SUBSET Socket, s \notin B,
           NEW r \in RoomId, r \in h.rooms, h.session[s] = r, NEW S, NEW T
    PROVE  LET k == Send(Send(h, S, B), T, B)
           IN  /\ \/ r \in k.rooms /\ k.session[s] = r
                  \/ r \notin k.rooms /\ k.session[s] = NoRoom
               /\ h.creator[r] = s => r \in k.rooms /\ k.creator[r] = s
<1> DEFINE m == Send(h, S, B)
           k == Send(m, T, B)
<1>1. /\ Good(m) /\ Thins(h, m) /\ (r \in m.rooms => m.session[s] = r)
      /\ h.creator[r] = s => r \in m.rooms
  BY SendKeepsSeat
<1>2. Good(k) /\ Thins(m, k)
  <2>1. Good(k) /\ Shrinks(m, k, B) BY <1>1, SendGood
  <2> QED BY <2>1, ShrinksThins
<1>3. m.session[s] = r =>
          /\ r \in k.rooms => k.session[s] = r
          /\ r \in m.rooms /\ m.creator[r] = s => r \in k.rooms
  BY <1>1, SendKeepsSeat
<1> HIDE DEF m, k
<1>4. Thins(h, k) BY <1>1, <1>2, ThinsTransitive DEF Thins
<1>5. r \in k.rooms => r \in m.rooms BY <1>2 DEF Thins, ThinsBut
<1>6. r \notin k.rooms => k.session[s] = NoRoom BY <1>2, <1>4, SeatOrNone
<1>7. r \in k.rooms => k.session[s] = r BY <1>1, <1>3, <1>5
<1>8. h.creator[r] = s => r \in k.rooms /\ k.creator[r] = s
  BY <1>1, <1>2, <1>3, <1>4 DEF Thins, ThinsBut
<1> QED BY <1>6, <1>7, <1>8 DEF m, k

\* In particular of the reply and the broadcast of createRoom and joinRoom.
LEMMA WelcomeKeepsSeat ==
    ASSUME NEW h, Good(h), NEW s \in Socket, NEW B \in SUBSET Socket, s \notin B,
           NEW r \in RoomId, r \in h.rooms, h.session[s] = r
    PROVE  LET k == Welcome(h, s, r, B)
           IN  /\ \/ r \in k.rooms /\ k.session[s] = r
                  \/ r \notin k.rooms /\ k.session[s] = NoRoom
               /\ h.creator[r] = s => r \in k.rooms /\ k.creator[r] = s
BY SendsKeepSeat DEF Welcome, BroadcastUserUpdated

\* What a metric says of the room its client is in.
Attributed(h, s, r) ==
    \/ r \in h.rooms /\ h.session[s] = r
    \/ r \notin h.rooms /\ h.session[s] = NoRoom

\* createRoom of a client whose sends do not fail.
LEMMA CreateAttributed ==
    ASSUME Inv, NEW s \in Socket, NEW r \in RoomId, CreateRoom(s, r), s \notin Broken
    PROVE  Attributed(hub', s, r) /\ hub'.creator[r] = s
<1> DEFINE m == Moved(s)
           h == OpenRoom(m, s, r)
<1>1. Good(m) /\ m.session[s] = NoRoom /\ m.idle[s] # Missing /\ Broken \in SUBSET Socket
  BY MovedGood, InvIsGood
<1>2. r \notin m.rooms /\ hub' = Welcome(h, s, r, Broken) BY DEF CreateRoom, Handles
<1>3. Good(h) BY <1>1, <1>2, OpenGood
<1>4. r \in h.rooms /\ h.session[s] = r /\ h.creator[r] = s
  BY <1>1 DEF OpenRoom, Good, HubType
<1> HIDE DEF m, h
<1> QED BY <1>1, <1>2, <1>3, <1>4, WelcomeKeepsSeat DEF Attributed

\* joinRoom of a client whose sends do not fail.
LEMMA JoinAttributed ==
    ASSUME Inv, NEW s \in Socket, NEW r \in RoomId, JoinRoom(s, r), s \notin Broken
    PROVE  Attributed(hub', s, r)
<1> DEFINE m == Moved(s)
           h == EnterRoom(m, s, r)
<1>1. Broken \in SUBSET Socket BY InvIsGood
<1>2. r \in h.rooms /\ Good(h) BY EnteredGood
<1>3. h.session[s] = r BY MovedGood DEF EnterRoom, Good, HubType
<1>4. hub' = Welcome(h, s, r, Broken) BY DEF JoinRoom, Handles
<1> HIDE DEF m, h
<1> QED BY <1>1, <1>2, <1>3, <1>4, WelcomeKeepsSeat DEF Attributed

\* forwardContent of a client whose sends do not fail.
LEMMA ForwardAttributed ==
    ASSUME Inv, NEW s \in Socket, NEW r \in RoomId, ForwardContent(s, r), s \notin Broken
    PROVE  Attributed(hub', s, r)
<1> DEFINE h == Heard(hub, s)
<1>1. Good(hub) /\ Broken \in SUBSET Socket BY InvIsGood
<1>2. Good(h) /\ h.session = hub.session /\ h.rooms = hub.rooms BY <1>1, HeardGood
<1>3. /\ r \in hub.rooms /\ s \in hub.members[r]
      /\ hub' = Send(Send(h, hub.members[r] \ {s}, Broken), {s}, Broken)
  BY DEF ForwardContent, Handles
<1>4. hub.session[s] = r BY <1>1, <1>3 DEF Good, Consistent, MembersMatchSessions
<1> HIDE DEF h
<1> QED BY <1>1, <1>2, <1>3, <1>4, SendsKeepSeat DEF Attributed

\* Every step leaves a metric that is true of its client.
LEMMA UsageStep ==
    ASSUME Inv, Next
    PROVE  UsageAttributed'
<1> SUFFICES ASSUME usage' # NoUsage, transport'[usage'.by] = "open"
             PROVE  /\ usage'.by \in hub'.known
                    /\ \/ usage'.room \in hub'.rooms /\ hub'.session[usage'.by] = usage'.room
                       \/ usage'.room \notin hub'.rooms /\ hub'.session[usage'.by] = NoRoom
                    /\ usage'.event = "room_created" => hub'.creator[usage'.room] = usage'.by
  BY DEF UsageAttributed
<1>1. Good(hub) /\ Broken \in SUBSET Socket BY InvIsGood
<1>2. Inv' BY NextInv
<1>3. Good(hub') BY <1>2 DEF Inv, TypeOK, HubConsistent, Good
<1>4. ASSUME NEW s \in Socket, NEW r \in RoomId,
             CreateRoom(s, r) \/ JoinRoom(s, r) \/ ForwardContent(s, r)
      PROVE  /\ usage'.by = s /\ usage'.room = r
             /\ usage'.event = "room_created" => CreateRoom(s, r)
             /\ transport' = transport
  BY <1>4 DEF CreateRoom, JoinRoom, ForwardContent, Handles
<1>5. PICK s \in Socket, r \in RoomId :
          CreateRoom(s, r) \/ JoinRoom(s, r) \/ ForwardContent(s, r)
  BY DEF Next, AttachSocket, CloseEvent, ErrorEvent, Degrade, HandleSocketMessage,
         InvalidMessage, Answered, LeaveRoom, CreateRoomFails, RoomExpired, Handles,
         Sweep, Dispose, Tick
<1>6. /\ usage'.by = s /\ usage'.room = r /\ transport[s] = "open" /\ s \notin Broken
      /\ transport'[s] = "open"
  BY <1>4, <1>5 DEF Broken
<1>7. s \in hub'.known BY <1>2, <1>6 DEF Inv, OpenSocketsSupervised
<1>8. Attributed(hub', s, r)
  BY <1>5, <1>6, CreateAttributed, JoinAttributed, ForwardAttributed
<1>9. usage'.event = "room_created" => hub'.creator[r] = s
  BY <1>4, <1>5, <1>6, CreateAttributed
<1> QED BY <1>6, <1>7, <1>8, <1>9 DEF Attributed

-----------------------------------------------------------------------------
(* What a step does to the rooms that stay.                                 *)

\* The three exceptions put together: how old and how full a room may be after a
\* step, and whether something was sent in it.
LEMMA RoomStep ==
    ASSUME Inv, Next, NEW r \in hub.rooms \cap hub'.rooms
    PROVE  /\ hub'.ttl[r] > hub.ttl[r] => hub'.members[r] = {hub.creator[r]}
           /\ hub.ttl[r] = 0 /\ hub'.ttl[r] <= hub.ttl[r] =>
                 /\ hub'.members[r] \subseteq hub.members[r]
                 /\ ~(usage'.event = "send" /\ usage'.room = r)
<1>1. Good(hub) BY InvIsGood
<1>2. Good(hub')
  <2>1. Inv' BY NextInv
  <2> QED BY <2>1 DEF Inv, TypeOK, HubConsistent, Good
<1>3. r \in RoomId /\ hub.ttl[r] \in 0 .. RoomTtl
  BY <1>1 DEF Good, HubType, Consistent, SameKeys
<1>4. NoUsage.event # "send" BY DEF NoUsage
<1>5. CASE Tick
  <2>1. /\ hub'.ttl[r] = IF hub.ttl[r] > 0 THEN hub.ttl[r] - 1 ELSE hub.ttl[r]
        /\ hub'.members = hub.members /\ usage' = NoUsage
    BY <1>1, <1>3, <1>5 DEF Tick, Good, HubType
  <2> QED BY <1>3, <1>4, <2>1
<1>6. ASSUME NEW s \in Socket, NEW p \in RoomId, CreateRoom(s, p), r = p
      PROVE  /\ hub'.members[r] = {hub.creator[r]}
             /\ hub'.ttl[r] = RoomTtl
  <2>1. /\ hub'.ttl[r] = RoomTtl /\ hub'.members[r] \subseteq {s} /\ hub.creator[r] = s
    BY <1>6, CreateRoomThins
  <2>2. hub'.members[r] # {} BY <1>2, <1>3 DEF Good, Consistent, SameKeys
  <2> QED BY <2>1, <2>2
<1>7. ASSUME NEW s \in Socket, NEW p \in RoomId, CreateRoom(s, p), r # p
      PROVE  /\ hub'.ttl[r] = hub.ttl[r] /\ hub'.members[r] \subseteq hub.members[r]
             /\ usage'.event = "room_created"
  <2>1. ThinsBut(hub, hub', {p}) BY <1>7, CreateRoomThins
  <2>2. usage'.event = "room_created" BY <1>7 DEF CreateRoom, Handles
  <2> QED BY <1>3, <1>7, <2>1, <2>2 DEF ThinsBut
<1>8. ASSUME NEW s \in Socket, NEW p \in RoomId, JoinRoom(s, p)
      PROVE  /\ hub'.ttl[r] = hub.ttl[r]
             /\ r # p => hub'.members[r] \subseteq hub.members[r]
             /\ r = p => hub.ttl[r] > 0
             /\ usage'.event = "room_joined"
  <2>1. /\ ThinsBut(hub, hub', {p}) /\ (p \in hub'.rooms => hub'.ttl[p] = hub.ttl[p])
        /\ hub.ttl[p] > 0
    BY <1>8, JoinRoomThins
  <2>2. usage'.event = "room_joined" BY <1>8 DEF JoinRoom, Handles
  <2> QED BY <1>3, <2>1, <2>2 DEF ThinsBut
<1>9. CASE ~Tick /\ ~ \E s \in Socket, p \in RoomId : CreateRoom(s, p) \/ JoinRoom(s, p)
  <2>1. /\ Thins(hub, hub')
        /\ usage' # NoUsage => usage'.room \in hub.rooms /\ hub.ttl[usage'.room] > 0
    BY <1>9, StepThins
  <2>2. hub'.ttl[r] = hub.ttl[r] /\ hub'.members[r] \subseteq hub.members[r]
    BY <1>3, <2>1 DEF Thins, ThinsBut
  <2> QED BY <1>3, <1>4, <2>1, <2>2
<1>10. ASSUME NEW s \in Socket, NEW p \in RoomId, CreateRoom(s, p) \/ JoinRoom(s, p)
       PROVE  /\ hub'.ttl[r] > hub.ttl[r] => hub'.members[r] = {hub.creator[r]}
              /\ hub.ttl[r] = 0 /\ hub'.ttl[r] <= hub.ttl[r] =>
                    /\ hub'.members[r] \subseteq hub.members[r]
                    /\ ~(usage'.event = "send" /\ usage'.room = r)
  <2>1. CASE CreateRoom(s, p) /\ r = p BY <1>3, <1>6, <2>1, LimitAssumption
  <2>2. CASE CreateRoom(s, p) /\ r # p BY <1>3, <1>7, <2>2
  <2>3. CASE JoinRoom(s, p) BY <1>3, <1>8, <2>3
  <2> QED BY <1>10, <2>1, <2>2, <2>3
<1> QED BY <1>5, <1>9, <1>10

-----------------------------------------------------------------------------
(* The theorems.                                                            *)

(* When the heartbeat timer does not run, every member of every room is on  *)
(* its way out: its close event is due.                                     *)
THEOREM UnwatchedRoomsDie == Spec => []UnwatchedRoomsAreDying
<1>1. Inv => UnwatchedRoomsAreDying
  <2> SUFFICES ASSUME Inv, ~timer, NEW r \in RoomId, NEW s \in hub.members[r]
               PROVE  transport[s] \in {"closing", "broken"}
    BY DEF UnwatchedRoomsAreDying
  <2>1. s \in Socket /\ transport[s] \in Transport BY DEF Inv, TypeOK, HubType
  <2>2. transport[s] # "open" BY <2>1 DEF Inv, OpenSocketsSupervised
  <2>3. transport[s] # "absent" BY <2>1 DEF Inv, ClosedSocketsForgotten
  <2> QED BY <2>1, <2>2, <2>3 DEF Transport
<1> QED BY <1>1, SpecInv, PTL

(* A metric is recorded only for a client that is where the metric says,    *)
(* unless the room ended in the same step.                                  *)
THEOREM UsageStaysAttributed == Spec => []UsageAttributed
<1>1. Init => UsageAttributed BY DEF Init, UsageAttributed
<1>2. Inv /\ UsageAttributed /\ [Next]_vars => UsageAttributed'
  <2>1. Inv /\ Next => UsageAttributed' BY UsageStep
  <2>2. UsageAttributed /\ UNCHANGED vars => UsageAttributed'
    BY DEF UsageAttributed, vars
  <2> QED BY <2>1, <2>2
<1> QED BY <1>1, <1>2, SpecInv, PTL DEF Spec

(* No message, join or move gives a room more time; a creator that draws    *)
(* the code of its former room opens it with no one else in.                *)
THEOREM RoomsAreNotRenewed == Spec => NoRenewal
<1>1. Inv /\ [Next]_vars =>
          [\A r \in hub.rooms \cap hub'.rooms :
              hub'.ttl[r] > hub.ttl[r] => hub'.members[r] = {hub.creator[r]}]_vars
  BY RoomStep
<1> QED BY <1>1, SpecInv, PTL DEF Spec, NoRenewal

(* Between its end and the sweep that removes it a room admits nobody and   *)
(* carries no content.                                                      *)
THEOREM ExpiredRoomsAdmitNobody == Spec => NoEntryAfterExpiry
<1>1. Inv /\ [Next]_vars =>
          [\A r \in hub.rooms \cap hub'.rooms :
              hub.ttl[r] = 0 /\ hub'.ttl[r] <= hub.ttl[r] =>
                  /\ hub'.members[r] \subseteq hub.members[r]
                  /\ ~(usage'.event = "send" /\ usage'.room = r)]_vars
  BY RoomStep
<1> QED BY <1>1, SpecInv, PTL DEF Spec, NoEntryAfterExpiry
=============================================================================
