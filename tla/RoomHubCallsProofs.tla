--------------------------- MODULE RoomHubCallsProofs ---------------------------
(***************************************************************************)
(* Theorems about RoomHubCalls, for any number of connections, codes and   *)
(* members of a room, and whichever sends fail, in whatever order.         *)
(*                                                                         *)
(* The invariant goes through the calls that wait in `todo`: what each of  *)
(* them relies on when its turn comes, whatever the calls above it do in   *)
(* the meantime.  That can be said frame by frame because what happens     *)
(* inside a handler only takes away (sessions, members, rooms, open        *)
(* connections), but for the one entry at the bottom of the stack.         *)
(* A second invariant, at the end, bounds how often one socket's removal   *)
(* waits on the stack.                                                     *)
(***************************************************************************)
EXTENDS RoomHubCalls, SumTheorems, SequenceTheorems

(***************************************************************************)
(* The invariant, about a world: what it looks at of a state, with the     *)
(* members of a room as a set.                                             *)
(***************************************************************************)

Mem(m, r) == {m.members[r][i] : i \in DOMAIN m.members[r]}

WorldOf(m, calls, t, v, old) ==
    [ session |-> m.session,
      rooms   |-> m.rooms,
      members |-> [r \in RoomId |-> Mem(m, r)],
      ttl     |-> m.ttl,
      tracked |-> Tracked(m),
      open    |-> {s \in Socket : t[s] = "open"},
      absent  |-> {s \in Socket : t[s] = "absent"},
      view    |-> v,
      hub     |-> old.hub,
      todo    |-> calls ]

World == WorldOf(maps, todo, transport, view, rest)

Stacked(w)     == {w.todo[i] : i \in DOMAIN w.todo}
Above(w, i)    == {w.todo[j] : j \in 1 .. i - 1}
Is(f, call, s) == f.call = call /\ f.socket = s

\* A call that waits for its turn: that room ends, that socket enters a room.
Ending(f, r)   == f.call \in {"destroyRoom", "destroyNext"} /\ f.room = r
Entering(f, s) == f.call \in {"generateRoomId", "enterRoom"} /\ f.socket = s
Destroying(w, r) == \E f \in Stacked(w) : Ending(f, r)

OfSocket == {"send", "detachSocketFromRoom", "forget", "endSession", "safeClose",
             "generateRoomId", "enterRoom"}
OfRoom   == {"destroyRoom", "destroyNext", "broadcastUserUpdated", "tellNext"}
Others   == {"recordMetric", "sweepSockets", "sweepRooms", "disposeNext"}

MapsType ==
    [ session : [Socket -> RoomId \cup {NoRoom}],
      rooms   : SUBSET RoomId,
      members : [RoomId -> Seq(Socket)],
      creator : [RoomId -> Socket \cup {NoSocket}],
      ttl     : [RoomId -> Int],
      idle    : [Socket -> Nat \cup {Missing}],
      known   : SUBSET Socket ]

ViewType == [room : RoomId \cup {NoRoom}, users : SUBSET Socket]

FrameType(f) ==
    /\ f.call \in OfSocket \cup OfRoom \cup Others
    /\ f.call \in OfSocket => f.socket \in Socket
    /\ f.call \in OfRoom \cup {"enterRoom"} => f.room \in RoomId
    /\ f.call = "detachSocketFromRoom" => f.notify \in BOOLEAN
    /\ f.call \in {"destroyNext", "tellNext"} => f.did \in SUBSET Socket
    /\ f.call = "send" =>
          /\ f.msg.type \in {"reply", "serverError", "entered", "connectionEnds"}
          /\ f.msg.type = "entered" => f.msg.room \in RoomId
    /\ f.call = "tellNext" =>
          /\ f.msg.type \in {"userUpdated", "content"}
          /\ f.msg.room = f.room
          /\ f.msg.type = "userUpdated" => f.msg.users \in SUBSET Socket
          /\ f.msg.type = "content" => f.msg.from \in Socket
    /\ f.call = "sweepSockets" => f = SweepSockets
    /\ f.call = "disposeNext" => f.sockets \in SUBSET Socket

\* A room's Set names nobody twice.
Distinct(m) ==
    \A r \in RoomId : \A i, j \in DOMAIN m.members[r] :
        m.members[r][i] = m.members[r][j] => i = j

Types(m, calls, t, v) ==
    /\ m \in MapsType
    /\ Distinct(m)
    /\ calls \in Seq({calls[i] : i \in DOMAIN calls})
    /\ \A i \in DOMAIN calls : FrameType(calls[i])
    /\ t \in [Socket -> {"absent", "open", "closing", "broken"}]
    /\ v \in [Socket -> ViewType]

-----------------------------------------------------------------------------
\* Who is in a room's Set has its session there, unless the room is ending.
RoomsAgree(w) ==
    \A r \in w.rooms : \A s \in w.members[r] :
        \/ w.session[s] = r
        \/ w.session[s] = NoRoom /\ Destroying(w, r)

\* Whose session is in a room is in its Set.
SessionsAgree(w) ==
    \A s \in Socket : w.session[s] # NoRoom =>
        w.session[s] \in w.rooms /\ s \in w.members[w.session[s]]

\* A client in a room's Set believes so, or that it is in none, or it is just
\* being told.
Welcomed(f, s) == Is(f, "send", s) /\ f.msg.type = "entered"
SeenFromRooms(w) ==
    \A r \in w.rooms : \A s \in w.members[r] \cap w.open :
        \/ w.view[s].room \in {r, NoRoom}
        \/ \E f \in Stacked(w) : Welcomed(f, s)

\* An open client whose belief is not the hub's is about to be told, or cut off.
BeliefPending(w, s) ==
    \/ w.view[s].room = w.session[s]
    \/ /\ w.view[s].room = NoRoom
       /\ \E f \in Stacked(w) : f.call \in {"endSession", "safeClose", "detachSocketFromRoom"}
                                /\ f.socket = s
    \/ \E f \in Stacked(w) : Entering(f, s)
    \/ \E f \in Stacked(w) : Is(f, "send", s) /\ f.msg.type \in {"serverError", "entered"}

BeliefsPending(w) == \A s \in w.open : BeliefPending(w, s)

\* And in a room that goes on it has, or is about to get, a list with every member.
Broadcasts(f, r) == f.call = "broadcastUserUpdated" /\ f.room = r
Lists(w, f, s) ==
    /\ f.call = "tellNext" /\ f.msg.type = "userUpdated" /\ f.room = w.session[s]
    /\ w.members[f.room] \subseteq f.msg.users
    /\ s \notin f.did

ListPending(w, s) ==
    w.session[s] # NoRoom /\ w.view[s].room = w.session[s] =>
        \/ Destroying(w, w.session[s])
        \/ w.members[w.session[s]] \subseteq w.view[s].users
        \/ \E f \in Stacked(w) : Broadcasts(f, w.session[s])
        \/ \E f \in Stacked(w) : Lists(w, f, s)

ListsPending(w) == \A s \in w.open : ListPending(w, s)

\* A connection without events is without a session.
Unattached(w) ==
    \A s \in w.absent :
        \/ w.session[s] = NoRoom
        \/ \E f \in Stacked(w) : Is(f, "detachSocketFromRoom", s)

Supervised(w) == w.open \subseteq w.tracked

Rests(w) == w.todo = <<>> => w.hub.session = w.session /\ w.hub.ttl = w.ttl

-----------------------------------------------------------------------------
\* What a loop over room r relies on: whoever is left is of this room.
LoopGood(w, r) ==
    /\ \A s \in w.members[r] : w.session[s] \in {r, NoRoom}
    /\ \A s \in w.members[r] \cap w.open : w.view[s].room \in {r, NoRoom}

DestroyNextGood(w, f, above) ==
    \A s \in f.did : w.session[s] # f.room \/ \E g \in above : Is(g, "endSession", s)

EndSessionGood(w, s) ==
    /\ w.session[s] = NoRoom \/ Destroying(w, w.session[s])
    /\ s \in w.open => w.view[s].room = NoRoom

CutOff(w, s, above) == s \notin w.open \/ \E g \in above : Is(g, "safeClose", s)

DetachGood(w, f, above) ==
    IF f.notify THEN CutOff(w, f.socket, above) \/ w.view[f.socket].room = NoRoom
    ELSE \E g \in Stacked(w) : Entering(g, f.socket)

DisposeGood(w, f, above) == \A s \in Socket : s \in f.sockets \/ CutOff(w, s, above)

WelcomeGood(w, s, r) ==
    /\ w.session[s] = r
    /\ \E g \in Stacked(w) : Broadcasts(g, r)
    /\ \A g \in Stacked(w) : g.call \in {"send", "broadcastUserUpdated", "recordMetric"}

SendGood(w, f, above) ==
    /\ f.msg.type # "reply" => above = {}
    /\ f.msg.type = "serverError" => w.session[f.socket] = NoRoom
    /\ f.msg.type = "connectionEnds" => \E g \in Stacked(w) : Is(g, "safeClose", f.socket)
    /\ f.msg.type = "entered" => WelcomeGood(w, f.socket, f.msg.room)

\* What a departure calls leaves room r alone.
Elsewhere(w, g, r) ==
    /\ g.call \in {"detachSocketFromRoom", "forget", "endSession"} \cup OfRoom
    /\ g.call \in OfRoom => g.room # r
    /\ g.call = "detachSocketFromRoom" => w.session[g.socket] # r

EntryGood(w, f, above) ==
    /\ f.socket \notin w.absent
    /\ \/ w.session[f.socket] = NoRoom
       \/ \E g \in above : Is(g, "detachSocketFromRoom", f.socket)
    /\ f.call = "enterRoom" =>
          /\ f.room \in w.rooms
          /\ w.session[f.socket] # f.room
          /\ \A g \in above : Elsewhere(w, g, f.room)

TellGood(w, f) ==
    IF f.msg.type = "userUpdated"
    THEN \/ Destroying(w, f.room)
         \/ f.room \notin w.rooms
         \/ w.members[f.room] \subseteq f.msg.users
    ELSE /\ f.msg.from \in f.did
         /\ w.hub.session[f.msg.from] = f.room
         /\ w.hub.ttl[f.room] > 0
         /\ \A s \in w.members[f.room] : w.hub.session[s] = f.room

FrameGood(w, f, above) ==
    /\ f.call \in {"destroyNext", "tellNext"} => LoopGood(w, f.room)
    /\ f.call = "destroyNext"          => DestroyNextGood(w, f, above)
    /\ f.call = "endSession"           => EndSessionGood(w, f.socket)
    /\ f.call = "detachSocketFromRoom" => DetachGood(w, f, above)
    /\ f.call = "forget"               => CutOff(w, f.socket, above)
    /\ f.call = "disposeNext"          => DisposeGood(w, f, above)
    /\ f.call = "send"                 => SendGood(w, f, above)
    /\ f.call \in {"generateRoomId", "enterRoom"} => EntryGood(w, f, above)
    /\ f.call = "tellNext"             => TellGood(w, f)

FramesGood(w) == \A i \in DOMAIN w.todo : FrameGood(w, w.todo[i], Above(w, i))

\* The entry into a room is the last call of its handler but for what follows it.
EntryLast(w) ==
    \A i \in DOMAIN w.todo :
        w.todo[i].call \in {"generateRoomId", "enterRoom"} => i = Len(w.todo)

Holds(w) ==
    /\ RoomsAgree(w)
    /\ SessionsAgree(w)
    /\ SeenFromRooms(w)
    /\ BeliefsPending(w)
    /\ ListsPending(w)
    /\ Unattached(w)
    /\ Supervised(w)
    /\ Rests(w)
    /\ FramesGood(w)
    /\ EntryLast(w)

Inv == Types(maps, todo, transport, view) /\ Holds(World)

(***************************************************************************)
(* The stack.                                                              *)
(***************************************************************************)

\* Two sequences, one after the other.
LEMMA Concatenated ==
    ASSUME NEW S, NEW a \in Seq(S), NEW b \in Seq(S), NEW q, q = a \o b
    PROVE  /\ q \in Seq(S) /\ Len(q) = Len(a) + Len(b)
           /\ \A i \in 1 .. Len(a) + Len(b) : q[i] = IF i <= Len(a) THEN a[i] ELSE b[i - Len(a)]
BY ConcatProperties

\* A call is made: the calls cs it makes itself take its place.
LEMMA Stacking ==
    ASSUME NEW A, NEW B, NEW q \in Seq(A), q # <<>>, NEW cs \in Seq(B),
           NEW p, p = cs \o Tail(q)
    PROVE  /\ p \in Seq(A \cup B)
           /\ Len(p) = Len(cs) + Len(q) - 1
           /\ \A k \in 1 .. Len(cs) : k \in DOMAIN p /\ p[k] = cs[k]
           /\ \A i \in 2 .. Len(q) :
                 i + Len(cs) - 1 \in DOMAIN p /\ p[i + Len(cs) - 1] = q[i]
           /\ DOMAIN p = 1 .. Len(p)
           /\ DOMAIN q = 1 .. Len(q) /\ 1 \in DOMAIN q
<1>1. Tail(q) \in Seq(A) /\ Len(Tail(q)) = Len(q) - 1
  BY HeadTailProperties
<1>2. \A i \in 1 .. Len(q) - 1 : Tail(q)[i] = q[i + 1]
  BY HeadTailProperties
<1>3. Len(q) \in Nat \ {0} /\ DOMAIN q = 1 .. Len(q)
  BY EmptySeq, LenProperties
<1>4. Len(cs) \in Nat BY LenProperties
<1>5. cs \in Seq(A \cup B) /\ Tail(q) \in Seq(A \cup B)
  BY <1>1, SeqMonotonic, A \subseteq A \cup B, B \subseteq A \cup B
<1>6. p \in Seq(A \cup B) /\ Len(p) = Len(cs) + Len(Tail(q))
  BY <1>5, ConcatProperties
<1>7. \A i \in 1 .. Len(cs) + Len(Tail(q)) :
         p[i] = IF i <= Len(cs) THEN cs[i] ELSE Tail(q)[i - Len(cs)]
  BY <1>5, ConcatProperties
<1>8. DOMAIN p = 1 .. Len(p) BY <1>6, LenProperties
<1>9. \A k \in 1 .. Len(cs) : k \in DOMAIN p /\ p[k] = cs[k]
  BY <1>1, <1>3, <1>4, <1>6, <1>7, <1>8
<1>10. ASSUME NEW i \in 2 .. Len(q)
       PROVE  i + Len(cs) - 1 \in DOMAIN p /\ p[i + Len(cs) - 1] = q[i]
  <2> DEFINE k == i + Len(cs) - 1
  <2>1. k \in 1 .. Len(cs) + Len(Tail(q)) /\ ~(k <= Len(cs)) /\ k - Len(cs) = i - 1
    BY <1>1, <1>3, <1>4
  <2>2. p[k] = Tail(q)[i - 1] BY <1>7, <2>1
  <2>3. i - 1 \in 1 .. Len(q) - 1 /\ (i - 1) + 1 = i BY <1>3
  <2>4. Tail(q)[i - 1] = q[i] BY <1>2, <2>3
  <2> QED BY <1>6, <1>8, <2>1, <2>2, <2>4
<1> QED BY <1>1, <1>3, <1>6, <1>8, <1>9, <1>10

NewCalls(cs) == {cs[k] : k \in 1 .. Len(cs)}

\* Where a frame of the new stack comes from, and what is above it.
Origin(w, w2, cs, k) ==
    \/ /\ k \in 1 .. Len(cs) /\ w2.todo[k] = cs[k]
       /\ Above(w2, k) = {cs[j] : j \in 1 .. k - 1}
    \/ \E i \in 2 .. Len(w.todo) :
          /\ w2.todo[k] = w.todo[i] /\ k = i + Len(cs) - 1
          /\ i \in DOMAIN w.todo
          /\ w.todo[1] \in Above(w, i)
          /\ Above(w, i) \subseteq Above(w2, k) \cup {w.todo[1]}
          /\ Above(w2, k) \subseteq Above(w, i) \cup NewCalls(cs)

StackOf(w, w2, cs) ==
    /\ w.todo[1] \in Stacked(w)
    /\ Stacked(w) \subseteq Stacked(w2) \cup {w.todo[1]}
    /\ Stacked(w2) \subseteq Stacked(w) \cup NewCalls(cs)
    /\ NewCalls(cs) \subseteq Stacked(w2)
    /\ w2.todo \in Seq(Stacked(w2))
    /\ \A k \in DOMAIN w2.todo : Origin(w, w2, cs, k)

LEMMA Origins ==
    ASSUME NEW A, NEW B, NEW w, NEW w2, w.todo \in Seq(A), w.todo # <<>>,
           NEW cs \in Seq(B), w2.todo = cs \o Tail(w.todo)
    PROVE  StackOf(w, w2, cs)
<1> DEFINE q == w.todo
           p == w2.todo
           n == Len(cs)
<1>0. /\ p \in Seq(A \cup B)
      /\ Len(p) = n + Len(q) - 1
      /\ \A k \in 1 .. n : k \in DOMAIN p /\ p[k] = cs[k]
      /\ \A i \in 2 .. Len(q) : i + n - 1 \in DOMAIN p /\ p[i + n - 1] = q[i]
      /\ DOMAIN p = 1 .. Len(p)
      /\ DOMAIN q = 1 .. Len(q) /\ 1 \in DOMAIN q
  <2>1. q \in Seq(A) BY DEF q
  <2>2. q # <<>> /\ p = cs \o Tail(q) OBVIOUS
  <2> HIDE DEF q, p
  <2> QED BY SMTT(30), <2>1, <2>2, Stacking
<1>1. n \in Nat /\ Len(q) \in Nat BY LenProperties
<1> HIDE DEF q, p, n
<1>2. ASSUME NEW k \in DOMAIN p, k \notin 1 .. n
      PROVE  k - n + 1 \in 2 .. Len(q) /\ k = (k - n + 1) + n - 1 /\ p[k] = q[k - n + 1]
  <2>1. k \in 1 .. n + Len(q) - 1 BY <1>0, <1>2
  <2>2. k - n + 1 \in 2 .. Len(q) /\ k = (k - n + 1) + n - 1 BY <1>1, <1>2, <2>1
  <2> QED BY <1>0, <2>2
<1>3. q[1] \in Stacked(w) BY <1>0 DEF Stacked, q
<1>4. Stacked(w) \subseteq Stacked(w2) \cup {q[1]}
  <2> SUFFICES ASSUME NEW i \in DOMAIN q, i # 1 PROVE q[i] \in Stacked(w2)
    BY DEF Stacked, q
  <2>1. i \in 2 .. Len(q) BY <1>0, <1>1
  <2> QED BY <1>0, <2>1 DEF Stacked, p
<1>5. Stacked(w2) \subseteq Stacked(w) \cup NewCalls(cs)
  <2> SUFFICES ASSUME NEW k \in DOMAIN p PROVE p[k] \in Stacked(w) \cup NewCalls(cs)
    BY DEF Stacked, p
  <2>1. CASE k \in 1 .. n BY <1>0, <2>1 DEF NewCalls, n
  <2>2. CASE k \notin 1 .. n
    <3>1. k - n + 1 \in DOMAIN q BY SMTT(30), <1>0, <1>1, <1>2, <2>2
    <3> QED BY <1>2, <2>2, <3>1 DEF Stacked, q
  <2> QED BY <2>1, <2>2
<1>6. NewCalls(cs) \subseteq Stacked(w2) BY <1>0 DEF NewCalls, Stacked, n, p
<1>7. p \in Seq(Stacked(w2))
  <2>1. p \in [1 .. Len(p) -> Stacked(w2)]
    <3>1. p \in [1 .. Len(p) -> A \cup B] BY <1>0, LenProperties
    <3> QED BY <1>0, <3>1 DEF Stacked, p
  <2>2. Len(p) \in Nat BY <1>0, LenProperties
  <2> QED BY <2>1, <2>2
<1>8. ASSUME NEW k \in DOMAIN p, k \in 1 .. n
      PROVE  p[k] = cs[k] /\ Above(w2, k) = {cs[j] : j \in 1 .. k - 1}
  <2>1. 1 .. k - 1 \subseteq 1 .. n BY <1>1, <1>8
  <2>2. \A j \in 1 .. k - 1 : p[j] = cs[j] BY <1>0, <2>1
  <2>3. Above(w2, k) = {p[j] : j \in 1 .. k - 1} BY DEF Above, p
  <2>4. p[k] = cs[k] BY <1>0, <1>8
  <2> QED BY <2>2, <2>3, <2>4
<1>9. ASSUME NEW k \in DOMAIN p, k \notin 1 .. n
      PROVE  \E i \in 2 .. Len(q) :
                /\ p[k] = q[i] /\ k = i + n - 1
                /\ i \in DOMAIN q
                /\ q[1] \in Above(w, i)
                /\ Above(w, i) \subseteq Above(w2, k) \cup {q[1]}
                /\ Above(w2, k) \subseteq Above(w, i) \cup NewCalls(cs)
  <2> DEFINE i == k - n + 1
  <2>1. i \in 2 .. Len(q) /\ k = i + n - 1 /\ p[k] = q[i] BY <1>2, <1>9
  <2> HIDE DEF i
  <2>2. i \in DOMAIN q BY <1>0, <1>1, <2>1
  <2>3. q[1] \in Above(w, i) BY <1>1, <2>1 DEF Above, q
  <2>4. ASSUME NEW j \in 1 .. i - 1, j # 1 PROVE q[j] \in Above(w2, k)
    <3>1. j \in 2 .. Len(q) /\ j + n - 1 \in 1 .. k - 1 BY <1>1, <2>1, <2>4
    <3>2. p[j + n - 1] = q[j] BY <1>0, <3>1
    <3> QED BY <3>1, <3>2 DEF Above, p
  <2>5. Above(w, i) \subseteq Above(w2, k) \cup {q[1]} BY <2>4 DEF Above, q
  <2>6. ASSUME NEW j \in 1 .. k - 1 PROVE p[j] \in Above(w, i) \cup NewCalls(cs)
    <3>1. j \in DOMAIN p BY <1>0, <1>1, <1>9
    <3>2. CASE j \in 1 .. n BY <1>0, <3>2 DEF NewCalls, n
    <3>3. CASE j \notin 1 .. n
      <4>1. j - n + 1 \in 2 .. Len(q) /\ p[j] = q[j - n + 1] BY <1>2, <3>1, <3>3
      <4>2. j - n + 1 \in 1 .. i - 1 BY <1>1, <2>1, <4>1
      <4> QED BY <4>1, <4>2 DEF Above, q
    <3> QED BY <3>2, <3>3
  <2>7. Above(w2, k) \subseteq Above(w, i) \cup NewCalls(cs) BY <2>6 DEF Above, p
  <2> QED BY <2>1, <2>2, <2>3, <2>5, <2>7
<1>10. \A k \in DOMAIN p :
                 \/ /\ k \in 1 .. n /\ p[k] = cs[k]
                    /\ Above(w2, k) = {cs[j] : j \in 1 .. k - 1}
                 \/ \E i \in 2 .. Len(q) :
                       /\ p[k] = q[i] /\ k = i + n - 1
                       /\ i \in DOMAIN q
                       /\ q[1] \in Above(w, i)
                       /\ Above(w, i) \subseteq Above(w2, k) \cup {q[1]}
                       /\ Above(w2, k) \subseteq Above(w, i) \cup NewCalls(cs)
  BY <1>8, <1>9
<1> QED BY <1>3, <1>4, <1>5, <1>6, <1>7, <1>10 DEF StackOf, Origin, q, p, n

(***************************************************************************)
(* What every call but an entry does: it takes away.                       *)
(***************************************************************************)

WorldType(w) ==
    /\ w.session \in [Socket -> RoomId \cup {NoRoom}]
    /\ w.rooms \in SUBSET RoomId
    /\ w.members \in [RoomId -> SUBSET Socket]
    /\ w.open \in SUBSET Socket
    /\ w.absent \in SUBSET Socket
    /\ w.view \in [Socket -> ViewType]
    /\ \A f \in Stacked(w) : FrameType(f)

\* Nobody enters, connects or is told of a new room.
Fades(w, w2) ==
    /\ \A s \in Socket : w2.session[s] \in {w.session[s], NoRoom}
    /\ w2.rooms \subseteq w.rooms
    /\ \A r \in RoomId : w2.members[r] \subseteq w.members[r]
    /\ w2.open \subseteq w.open
    /\ \A s \in Socket : w2.view[s].room \in {w.view[s].room, NoRoom}

\* A call h that leaves the stack did what the frames below it wait for.
Passes(w, w2, h) ==
    /\ h.call \in {"endSession", "detachSocketFromRoom"} => w2.session[h.socket] = NoRoom
    /\ h.call = "safeClose" => h.socket \notin w2.open
    /\ h.call \notin {"generateRoomId", "enterRoom"}
    /\ Stacked(w) \subseteq Stacked(w2) \cup {h}
    /\ \A r \in w2.rooms : Destroying(w, r) => Destroying(w2, r)

\* The frames below stay good.
LEMMA BuriedFrame ==
    ASSUME NEW w, NEW w2, NEW f, NEW h, NEW A, NEW A2, NEW B,
           WorldType(w), WorldType(w2), FrameType(f), \A g \in A : FrameType(g),
           Fades(w, w2), Passes(w, w2, h), SessionsAgree(w2),
           w2.hub = w.hub, w2.absent \subseteq w.absent,
           FrameGood(w, f, A), h \in A, A \subseteq A2 \cup {h}, A2 \subseteq A \cup B,
           f.call = "enterRoom" => f.room \in w2.rooms /\ \A g \in B : Elsewhere(w2, g, f.room)
    PROVE  FrameGood(w2, f, A2)
<1>1. f.call \in OfSocket => f.socket \in Socket BY DEF FrameType
<1>2. f.call \in OfRoom => f.room \in RoomId BY DEF FrameType
<1>3. ASSUME NEW s \in Socket, CutOff(w, s, A) PROVE CutOff(w2, s, A2)
  BY <1>3 DEF CutOff, Passes, Fades, Is
<1>4. ASSUME f.call \in {"destroyNext", "tellNext"} PROVE LoopGood(w2, f.room)
  <2>1. f.room \in RoomId BY <1>2, <1>4 DEF OfRoom
  <2>2. LoopGood(w, f.room) BY <1>4 DEF FrameGood
  <2>3. w.members[f.room] \subseteq Socket BY <2>1 DEF WorldType
  <2> QED BY <2>1, <2>2, <2>3 DEF LoopGood, Fades
<1>5. ASSUME f.call = "destroyNext" PROVE DestroyNextGood(w2, f, A2)
  <2>1. f.room \in RoomId BY <1>2, <1>5 DEF OfRoom
  <2>2. DestroyNextGood(w, f, A) BY <1>5 DEF FrameGood
  <2> SUFFICES ASSUME NEW s \in f.did, ~ \E g \in A2 : Is(g, "endSession", s)
               PROVE  w2.session[s] # f.room
    BY DEF DestroyNextGood
  <2>3. CASE w.session[s] # f.room
    <3>1. s \in Socket BY <1>5 DEF FrameType
    <3> QED BY <2>1, <2>3, <3>1, RoomAssumption DEF Fades
  <2>4. CASE \E g \in A : Is(g, "endSession", s)
    <3>1. Is(h, "endSession", s) BY <2>4
    <3>2. w2.session[s] = NoRoom BY <3>1 DEF Passes, Is
    <3> QED BY <2>1, <3>2, RoomAssumption
  <2> QED BY <2>2, <2>3, <2>4 DEF DestroyNextGood
<1>6. ASSUME f.call = "endSession" PROVE EndSessionGood(w2, f.socket)
  <2>1. f.socket \in Socket BY <1>1, <1>6 DEF OfSocket
  <2>2. EndSessionGood(w, f.socket) BY <1>6 DEF FrameGood
  <2>3. w2.session[f.socket] = NoRoom \/ w2.session[f.socket] \in w2.rooms
    BY <2>1 DEF SessionsAgree
  <2> QED BY <2>1, <2>2, <2>3 DEF EndSessionGood, Fades, Passes
<1>7. ASSUME f.call = "detachSocketFromRoom" PROVE DetachGood(w2, f, A2)
  <2>1. f.socket \in Socket BY <1>1, <1>7 DEF OfSocket
  <2>2. DetachGood(w, f, A) BY <1>7 DEF FrameGood
  <2> QED BY <1>3, <2>1, <2>2 DEF DetachGood, Fades, Passes, Entering
<1>8. ASSUME f.call = "forget" PROVE CutOff(w2, f.socket, A2)
  BY <1>1, <1>3, <1>8 DEF FrameGood, OfSocket
<1>9. ASSUME f.call = "disposeNext" PROVE DisposeGood(w2, f, A2)
  BY <1>3, <1>9 DEF FrameGood, DisposeGood
<1>10. ASSUME f.call = "send" PROVE SendGood(w2, f, A2)
  BY <1>10 DEF FrameGood, SendGood, FrameType
<1>11. ASSUME f.call \in {"generateRoomId", "enterRoom"} PROVE EntryGood(w2, f, A2)
  <2>1. f.socket \in Socket BY <1>1, <1>11 DEF OfSocket
  <2>2. EntryGood(w, f, A) BY <1>11 DEF FrameGood
  <2>3. f.socket \notin w2.absent BY <2>2 DEF EntryGood
  <2>4. \/ w2.session[f.socket] = NoRoom
        \/ \E g \in A2 : Is(g, "detachSocketFromRoom", f.socket)
    BY <2>1, <2>2 DEF EntryGood, Passes, Fades, Is
  <2>5. ASSUME f.call = "enterRoom"
        PROVE  /\ f.room \in w2.rooms
               /\ w2.session[f.socket] # f.room
               /\ \A g \in A2 : Elsewhere(w2, g, f.room)
    <3>1. f.room \in RoomId /\ f.room # NoRoom BY <2>5, RoomAssumption DEF FrameType
    <3>2. w2.session[f.socket] # f.room BY <2>1, <2>2, <2>5, <3>1 DEF EntryGood, Fades
    <3>3. ASSUME NEW g \in A PROVE Elsewhere(w2, g, f.room)
      <4>1. Elsewhere(w, g, f.room) BY <2>2, <2>5 DEF EntryGood
      <4>2. g.call = "detachSocketFromRoom" => g.socket \in Socket BY DEF FrameType, OfSocket
      <4> QED BY <3>1, <4>1, <4>2 DEF Elsewhere, Fades
    <3> QED BY <2>5, <3>2, <3>3
  <2> QED BY <2>3, <2>4, <2>5 DEF EntryGood
<1>12. ASSUME f.call = "tellNext" PROVE TellGood(w2, f)
  <2>1. f.room \in RoomId BY <1>2, <1>12 DEF OfRoom
  <2>2. TellGood(w, f) BY <1>12 DEF FrameGood
  <2>3. w2.members[f.room] \subseteq w.members[f.room] BY <2>1 DEF Fades
  <2>4. CASE f.msg.type = "userUpdated"
    BY <2>2, <2>3, <2>4 DEF TellGood, Fades, Passes
  <2>5. CASE f.msg.type # "userUpdated"
    BY <2>2, <2>3, <2>5 DEF TellGood
  <2> QED BY <2>4, <2>5
<1> QED BY <1>4, <1>5, <1>6, <1>7, <1>8, <1>9, <1>10, <1>11, <1>12 DEF FrameGood

\* A call h other than an entry is made, and makes the calls cs.
Makes(w, w2, h, cs) ==
    /\ h = w.todo[1]
    /\ h.call \notin {"generateRoomId", "enterRoom"}
    /\ h.call = "send" => h.msg.type # "entered"
    /\ w2.todo = cs \o Tail(w.todo)
    /\ w2.absent = w.absent
    /\ w2.todo # <<>> => w2.hub = w.hub
    /\ Fades(w, w2)

\* What is to be shown of it: what it does for the frames below, ...
Delivered(w, w2, h, cs) ==
    /\ h.call \in {"endSession", "detachSocketFromRoom"} => w2.session[h.socket] = NoRoom
    /\ h.call = "safeClose" => h.socket \notin w2.open
    /\ h.call \in {"destroyRoom", "destroyNext"} /\ h.room \in w2.rooms =>
          \E f \in NewCalls(cs) : Ending(f, h.room)
    /\ \A s \in Socket : w2.session[s] # w.session[s] =>
          \/ w.session[s] \notin w2.rooms
          \/ s \notin w2.members[w.session[s]]
          \/ Destroying(w2, w.session[s])
    /\ \A f \in Stacked(w) : f.call = "enterRoom" =>
          f.room \in w2.rooms /\ \A g \in NewCalls(cs) : Elsewhere(w2, g, f.room)

\* ... of the new frames, ...
Ready(w2, cs) ==
    \A k \in 1 .. Len(cs) :
        /\ FrameGood(w2, cs[k], {cs[j] : j \in 1 .. k - 1})
        /\ cs[k].call \notin {"generateRoomId", "enterRoom"}

\* ... and of the clients it concerns.
Concerned(w, w2, h) ==
    /\ \A s \in w2.open :
          \/ w2.session[s] # w.session[s] \/ w2.view[s].room # w.view[s].room
          \/ h.call \in OfSocket /\ h.socket = s
          => BeliefPending(w2, s)
    /\ \A s \in w2.open :
          \/ w2.view[s].users # w.view[s].users
          \/ h.call \in {"broadcastUserUpdated", "tellNext"}
          => ListPending(w2, s)

LEMMA QuietStep ==
    ASSUME NEW w, NEW w2, NEW h, NEW B, NEW cs \in Seq(B),
           WorldType(w), WorldType(w2), Holds(w),
           w.todo \in Seq(Stacked(w)), w.todo # <<>>,
           Makes(w, w2, h, cs), Delivered(w, w2, h, cs), Ready(w2, cs), Concerned(w, w2, h),
           SessionsAgree(w2), Supervised(w2), Rests(w2)
    PROVE  Holds(w2)
<1>0. w2.todo = cs \o Tail(w.todo) /\ h = w.todo[1] BY DEF Makes
<1>a. StackOf(w, w2, cs) BY <1>0, Origins
<1>1. /\ h \in Stacked(w)
      /\ Stacked(w) \subseteq Stacked(w2) \cup {h}
      /\ Stacked(w2) \subseteq Stacked(w) \cup NewCalls(cs)
      /\ NewCalls(cs) \subseteq Stacked(w2)
      /\ w2.todo \in Seq(Stacked(w2))
      /\ \A k \in DOMAIN w2.todo :
            \/ /\ k \in 1 .. Len(cs) /\ w2.todo[k] = cs[k]
               /\ Above(w2, k) = {cs[j] : j \in 1 .. k - 1}
            \/ \E i \in 2 .. Len(w.todo) :
                  /\ w2.todo[k] = w.todo[i] /\ k = i + Len(cs) - 1
                  /\ i \in DOMAIN w.todo
                  /\ h \in Above(w, i)
                  /\ Above(w, i) \subseteq Above(w2, k) \cup {h}
                  /\ Above(w2, k) \subseteq Above(w, i) \cup NewCalls(cs)
  BY <1>0, <1>a DEF StackOf, Origin
<1>2. Fades(w, w2) BY DEF Makes
<1>3. ASSUME NEW r \in w2.rooms, Destroying(w, r) PROVE Destroying(w2, r)
  <2>1. PICK f \in Stacked(w) : Ending(f, r) BY <1>3 DEF Destroying
  <2>2. CASE f = h
    <3>1. \E g \in NewCalls(cs) : Ending(g, r) BY <2>1, <2>2 DEF Delivered, Ending
    <3> QED BY <1>1, <3>1 DEF Destroying
  <2>3. CASE f # h BY <1>1, <2>1, <2>3 DEF Destroying
  <2> QED BY <2>2, <2>3
<1>4. Passes(w, w2, h) BY <1>1, <1>3 DEF Passes, Delivered, Makes
<1>5. RoomsAgree(w2)
  <2> SUFFICES ASSUME NEW r \in w2.rooms, NEW s \in w2.members[r]
               PROVE  w2.session[s] = r \/ (w2.session[s] = NoRoom /\ Destroying(w2, r))
    BY DEF RoomsAgree
  <2>1. r \in RoomId /\ r \in w.rooms /\ s \in Socket /\ s \in w.members[r]
    BY <1>2 DEF WorldType, Fades
  <2>2. w.session[s] = r \/ (w.session[s] = NoRoom /\ Destroying(w, r))
    BY <2>1 DEF Holds, RoomsAgree
  <2>3. w2.session[s] = w.session[s] \/ w2.session[s] = NoRoom BY <1>2, <2>1 DEF Fades
  <2>4. CASE w2.session[s] = w.session[s] BY <1>3, <2>2, <2>4
  <2>5. CASE w2.session[s] # w.session[s]
    <3>1. w.session[s] = r BY <2>2, <2>3, <2>5
    <3>2. Destroying(w2, r) BY <2>1, <2>5, <3>1 DEF Delivered
    <3> QED BY <2>3, <2>5, <3>2
  <2> QED BY <2>4, <2>5
<1>6. SeenFromRooms(w2)
  <2> SUFFICES ASSUME NEW r \in w2.rooms, NEW s \in w2.members[r] \cap w2.open
               PROVE  w2.view[s].room \in {r, NoRoom}
    BY DEF SeenFromRooms
  <2>1. r \in RoomId /\ r \in w.rooms /\ s \in Socket /\ s \in w.members[r] /\ s \in w.open
    BY <1>2 DEF WorldType, Fades
  <2>2. w.view[s].room \in {r, NoRoom} \/ \E f \in Stacked(w) : Welcomed(f, s)
    BY <2>1 DEF Holds, SeenFromRooms
  <2>3. ASSUME NEW i \in DOMAIN w.todo, Welcomed(w.todo[i], s) PROVE FALSE
    <3>1. FrameGood(w, w.todo[i], Above(w, i)) BY DEF Holds, FramesGood
    <3>2. Above(w, i) = {} BY <2>3, <3>1 DEF FrameGood, SendGood, Welcomed, Is
    <3>3. i \in 1 .. Len(w.todo) /\ Len(w.todo) \in Nat BY LenProperties
    <3>4. i = 1
      <4>1. 1 \notin 1 .. i - 1 BY <3>2 DEF Above
      <4> QED BY <3>3, <4>1
    <3> QED BY <2>3, <3>4 DEF Makes, Welcomed, Is
  <2> QED BY <1>2, <2>1, <2>2, <2>3 DEF Fades, Stacked
<1>7. BeliefsPending(w2)
  <2> SUFFICES ASSUME NEW s \in w2.open,
                      w2.session[s] = w.session[s], w2.view[s].room = w.view[s].room,
                      ~(h.call \in OfSocket /\ h.socket = s)
               PROVE  BeliefPending(w2, s)
    BY DEF BeliefsPending, Concerned
  <2>1. s \in w.open BY <1>2 DEF Fades
  <2>2. BeliefPending(w, s) BY <2>1 DEF Holds, BeliefsPending
  <2>3. \A f \in Stacked(w) : f.call \in OfSocket /\ f.socket = s => f \in Stacked(w2)
    BY <1>1
  <2> QED BY <2>2, <2>3 DEF BeliefPending, OfSocket, Is, Entering
<1>8. ListsPending(w2)
  <2> SUFFICES ASSUME NEW s \in w2.open,
                      w2.view[s].users = w.view[s].users,
                      h.call \notin {"broadcastUserUpdated", "tellNext"},
                      w2.session[s] # NoRoom, w2.view[s].room = w2.session[s]
               PROVE  \/ Destroying(w2, w2.session[s])
                      \/ w2.members[w2.session[s]] \subseteq w2.view[s].users
                      \/ \E f \in Stacked(w2) : Broadcasts(f, w2.session[s])
                      \/ \E f \in Stacked(w2) : Lists(w2, f, s)
    BY DEF ListsPending, ListPending, Concerned
  <2>1. s \in Socket /\ s \in w.open BY <1>2 DEF Fades, WorldType
  <2>2. w2.session[s] = w.session[s] /\ w.view[s].room = w.session[s]
    BY <1>2, <2>1 DEF Fades
  <2>3. w2.session[s] \in w2.rooms /\ w2.session[s] \in RoomId
    BY <2>1 DEF SessionsAgree, WorldType
  <2>4. w2.members[w2.session[s]] \subseteq w.members[w.session[s]]
    BY <1>2, <2>2, <2>3 DEF Fades
  <2>5. ListPending(w, s) BY <2>1 DEF Holds, ListsPending
  <2>6. \A f \in Stacked(w) : Broadcasts(f, w.session[s]) => f \in Stacked(w2)
    BY <1>1 DEF Broadcasts
  <2>7. \A f \in Stacked(w) : Lists(w, f, s) => f \in Stacked(w2) /\ Lists(w2, f, s)
    BY <1>1, <2>2, <2>4 DEF Lists
  <2> QED BY <1>3, <2>2, <2>3, <2>4, <2>5, <2>6, <2>7 DEF ListPending
<1>9. Unattached(w2)
  <2> SUFFICES ASSUME NEW s \in w2.absent
               PROVE  \/ w2.session[s] = NoRoom
                      \/ \E f \in Stacked(w2) : Is(f, "detachSocketFromRoom", s)
    BY DEF Unattached
  <2>1. s \in Socket /\ s \in w.absent BY DEF WorldType, Makes
  <2>2. w.session[s] = NoRoom \/ \E f \in Stacked(w) : Is(f, "detachSocketFromRoom", s)
    BY <2>1 DEF Holds, Unattached
  <2> QED BY <1>1, <1>2, <2>1, <2>2 DEF Fades, Delivered, Is
<1>10. FramesGood(w2)
  <2> SUFFICES ASSUME NEW k \in DOMAIN w2.todo
               PROVE  FrameGood(w2, w2.todo[k], Above(w2, k))
    BY DEF FramesGood
  <2>1. CASE k \in 1 .. Len(cs) /\ w2.todo[k] = cs[k] /\ Above(w2, k) = {cs[j] : j \in 1 .. k - 1}
    BY <2>1 DEF Ready
  <2>2. ASSUME NEW i \in 2 .. Len(w.todo),
               w2.todo[k] = w.todo[i], i \in DOMAIN w.todo, h \in Above(w, i),
               Above(w, i) \subseteq Above(w2, k) \cup {h},
               Above(w2, k) \subseteq Above(w, i) \cup NewCalls(cs)
        PROVE  FrameGood(w2, w2.todo[k], Above(w2, k))
    <3>1. FrameGood(w, w.todo[i], Above(w, i)) BY <2>2 DEF Holds, FramesGood
    <3>2. w.todo[i] \in Stacked(w) BY <2>2 DEF Stacked
    <3>3. FrameType(w.todo[i]) BY <3>2 DEF WorldType
    <3>4. DOMAIN w.todo = 1 .. Len(w.todo) /\ Len(w.todo) \in Nat BY LenProperties
    <3>5. Above(w, i) \subseteq Stacked(w)
      <4>1. \A j \in 1 .. i - 1 : j \in DOMAIN w.todo BY <2>2, <3>4
      <4> QED BY <4>1 DEF Above, Stacked
    <3>6. \A g \in Above(w, i) : FrameType(g) BY <3>5 DEF WorldType
    <3>7. w.todo[i].call = "enterRoom" =>
             w.todo[i].room \in w2.rooms /\ \A g \in NewCalls(cs) : Elsewhere(w2, g, w.todo[i].room)
      BY <3>2 DEF Delivered
    <3>8. w2.todo # <<>>
      <4>1. DOMAIN w2.todo = 1 .. Len(w2.todo) BY <1>1, LenProperties
      <4>2. Len(<<>>) = 0 BY EmptySeq
      <4> QED BY <4>1, <4>2
    <3>9. w2.hub = w.hub /\ w2.absent \subseteq w.absent BY <3>8 DEF Makes
    <3> DEFINE f == w.todo[i]
               A == Above(w, i)
               A2 == Above(w2, k)
               N == NewCalls(cs)
    <3>10. /\ FrameType(f) /\ \A g \in A : FrameType(g)
           /\ FrameGood(w, f, A) /\ h \in A /\ A \subseteq A2 \cup {h} /\ A2 \subseteq A \cup N
           /\ f.call = "enterRoom" => f.room \in w2.rooms /\ \A g \in N : Elsewhere(w2, g, f.room)
      BY <2>2, <3>1, <3>3, <3>6, <3>7
    <3> HIDE DEF f, A, A2, N
    <3>11. FrameGood(w2, f, A2) BY <1>2, <1>4, <3>9, <3>10, BuriedFrame
    <3> QED BY <2>2, <3>11 DEF f, A2
  <2> QED BY <1>1, <2>1, <2>2
<1>11. EntryLast(w2)
  <2> SUFFICES ASSUME NEW k \in DOMAIN w2.todo,
                      w2.todo[k].call \in {"generateRoomId", "enterRoom"}
               PROVE  k = Len(w2.todo)
    BY DEF EntryLast
  <2>1. PICK i \in 2 .. Len(w.todo) :
           w2.todo[k] = w.todo[i] /\ i \in DOMAIN w.todo /\ k = i + Len(cs) - 1
    BY <1>1 DEF Ready
  <2>2. i = Len(w.todo) BY <2>1 DEF Holds, EntryLast
  <2>3. Len(w2.todo) = Len(cs) + Len(w.todo) - 1 BY <1>0, Stacking
  <2>4. Len(cs) \in Nat /\ Len(w.todo) \in Nat BY LenProperties
  <2> QED BY <2>1, <2>2, <2>3, <2>4
<1> QED BY <1>5, <1>6, <1>7, <1>8, <1>9, <1>10, <1>11 DEF Holds

(***************************************************************************)
(* A step of the module as a step of the world.                            *)
(***************************************************************************)

LEMMA TypedWorld ==
    ASSUME NEW m, NEW calls, NEW t, NEW v, NEW old, Types(m, calls, t, v)
    PROVE  WorldType(WorldOf(m, calls, t, v, old))
<1> DEFINE w == WorldOf(m, calls, t, v, old)
<1>1. /\ w.session = m.session /\ w.rooms = m.rooms
      /\ w.members = [r \in RoomId |-> Mem(m, r)]
      /\ w.open = {s \in Socket : t[s] = "open"}
      /\ w.absent = {s \in Socket : t[s] = "absent"}
      /\ w.view = v /\ w.todo = calls
  BY DEF WorldOf
<1> HIDE DEF w
<1>2. /\ m.session \in [Socket -> RoomId \cup {NoRoom}] /\ m.rooms \in SUBSET RoomId
      /\ m.members \in [RoomId -> Seq(Socket)]
  BY DEF Types, MapsType
<1>3. ASSUME NEW r \in RoomId PROVE Mem(m, r) \in SUBSET Socket
  <2>1. m.members[r] \in Seq(Socket) BY <1>2
  <2>2. \A i \in DOMAIN m.members[r] : m.members[r][i] \in Socket
    BY <2>1, LenProperties, ElementOfSeq
  <2> QED BY <2>2 DEF Mem
<1>4. \A f \in Stacked(w) : FrameType(f) BY <1>1 DEF Types, Stacked
<1>5. WorldType(w) BY <1>1, <1>2, <1>3, <1>4 DEF WorldType, Types
<1> QED BY <1>5 DEF w

\* What a step that leaves maps m and the calls q makes of the world.
After(m, q, w, w2) ==
    /\ w2.session = m.session /\ w2.rooms = m.rooms /\ w2.todo = q
    /\ w2.tracked = Tracked(m)
    /\ \A r \in RoomId : w2.members[r] \subseteq Mem(m, r)
    /\ \A r \in RoomId : r \in m.rooms \/ q # <<>> => w2.members[r] = Mem(m, r)
    /\ q # <<>> => w2.hub = w.hub
    /\ Rests(w2)

LEMMA Collecting ==
    ASSUME NEW m \in MapsType, Distinct(m)
    PROVE  /\ Collected(m) \in MapsType /\ Distinct(Collected(m))
           /\ Collected(m).session = m.session /\ Collected(m).rooms = m.rooms
           /\ Collected(m).ttl = m.ttl /\ Collected(m).idle = m.idle
           /\ HubOf(m).session = m.session /\ HubOf(m).ttl = m.ttl
           /\ \A r \in RoomId : Mem(Collected(m), r) = IF r \in m.rooms THEN Mem(m, r) ELSE {}
<1> DEFINE c == Collected(m)
           f == [r \in RoomId |-> IF r \in m.rooms THEN m.members[r] ELSE <<>>]
<1>1. /\ c.session = m.session /\ c.rooms = m.rooms /\ c.ttl = m.ttl /\ c.idle = m.idle
      /\ c.creator = m.creator /\ c.known = m.known /\ c.members = f
      /\ c = [m EXCEPT !.members = f]
  BY DEF Collected, MapsType
<1>2. f \in [RoomId -> Seq(Socket)]
  <2>1. <<>> \in Seq(Socket) BY EmptySeq
  <2>2. m.members \in [RoomId -> Seq(Socket)] BY DEF MapsType
  <2> QED BY <2>1, <2>2
<1>3. c \in MapsType BY <1>1, <1>2 DEF MapsType
<1>4. DOMAIN <<>> = {} OBVIOUS
<1>5. ASSUME NEW r \in RoomId
      PROVE  /\ Mem(c, r) = IF r \in m.rooms THEN Mem(m, r) ELSE {}
             /\ \A i, j \in DOMAIN c.members[r] : c.members[r][i] = c.members[r][j] => i = j
  <2>1. c.members[r] = IF r \in m.rooms THEN m.members[r] ELSE <<>> BY <1>1
  <2> HIDE DEF c
  <2> QED BY <1>4, <2>1 DEF Mem, Distinct
<1>6. HubOf(m).session = m.session /\ HubOf(m).ttl = m.ttl
  BY DEF HubOf, MapsType
<1> HIDE DEF f, c
<1>7. Distinct(c) BY <1>5 DEF Distinct
<1> QED BY <1>1, <1>3, <1>5, <1>6, <1>7 DEF c

LEMMA Leaving ==
    ASSUME NEW m \in MapsType, Distinct(m), NEW q, NEW u, Leaves(m, q, u),
           q \in Seq({q[i] : i \in DOMAIN q}), \A i \in DOMAIN q : FrameType(q[i]),
           transport' \in [Socket -> {"absent", "open", "closing", "broken"}],
           view' \in [Socket -> ViewType]
    PROVE  /\ Types(maps', todo', transport', view')
           /\ After(m, q, World, World')
<1>1. /\ todo' = q
      /\ maps' = IF q = <<>> THEN Collected(m) ELSE m
      /\ q # <<>> => rest' = rest
      /\ q = <<>> => rest'.hub = HubOf(m)
  BY DEF Leaves
<1>2. /\ Collected(m) \in MapsType /\ Distinct(Collected(m))
      /\ Collected(m).session = m.session /\ Collected(m).rooms = m.rooms
      /\ Collected(m).ttl = m.ttl /\ Collected(m).idle = m.idle
      /\ HubOf(m).session = m.session /\ HubOf(m).ttl = m.ttl
      /\ \A r \in RoomId : Mem(Collected(m), r) = IF r \in m.rooms THEN Mem(m, r) ELSE {}
  BY Collecting
<1>3. Types(maps', todo', transport', view') BY <1>1, <1>2 DEF Types
<1>4. /\ World'.session = maps'.session /\ World'.rooms = maps'.rooms /\ World'.todo = todo'
      /\ World'.members = [r \in RoomId |-> Mem(maps', r)] /\ World'.ttl = maps'.ttl
      /\ World'.tracked = Tracked(maps') /\ World'.hub = rest'.hub
  BY DEF World, WorldOf
<1>5. World.hub = rest.hub BY DEF World, WorldOf
<1> DEFINE w == World
           w2 == World'
<1> HIDE DEF w, w2
<1>6. w2.session = m.session /\ w2.rooms = m.rooms /\ w2.todo = q /\ w2.ttl = m.ttl
  BY <1>1, <1>2, <1>4 DEF w2
<1>7. w2.tracked = Tracked(m) BY <1>1, <1>2, <1>4 DEF w2, Tracked
<1>8. \A r \in RoomId : w2.members[r] = Mem(maps', r) BY <1>4 DEF w2
<1>9. \A r \in RoomId : /\ w2.members[r] \subseteq Mem(m, r)
                        /\ r \in m.rooms \/ q # <<>> => w2.members[r] = Mem(m, r)
  BY <1>1, <1>2, <1>8
<1>10. q # <<>> => w2.hub = w.hub BY <1>1, <1>4, <1>5 DEF w, w2
<1>11. Rests(w2) BY <1>1, <1>2, <1>4, <1>6 DEF Rests, w2
<1>12. After(m, q, w, w2) BY <1>6, <1>7, <1>9, <1>10, <1>11 DEF After
<1> QED BY <1>3, <1>12 DEF w, w2

\* What a call made at the top of the stack has to go on, and leaves: w is the
\* world, w2 the next one.
Ran(m, cs, w, w2) ==
    /\ WorldType(w) /\ WorldType(w2) /\ Holds(w)
    /\ w.todo = todo /\ w.todo \in Seq(Stacked(w)) /\ w.todo # <<>>
    /\ w.session = maps.session /\ w.rooms = maps.rooms /\ w.tracked = Tracked(maps)
    /\ \A r \in RoomId : w.members[r] = Mem(maps, r)
    /\ w.view = view /\ w2.view = view'
    /\ w.open = {s \in Socket : transport[s] = "open"}
    /\ w2.open = {s \in Socket : transport'[s] = "open"}
    /\ w.absent = {s \in Socket : transport[s] = "absent"}
    /\ w2.absent = {s \in Socket : transport'[s] = "absent"}
    /\ After(m, cs \o Tail(todo), w, w2)
    /\ StackOf(w, w2, cs)
    /\ Head(todo) = w.todo[1] /\ FrameType(Head(todo)) /\ FrameGood(w, Head(todo), {})
    /\ cs # <<>> => w2.todo # <<>>

LEMMA Running ==
    ASSUME Inv, todo # <<>>, NEW m \in MapsType, Distinct(m), NEW S, NEW cs \in Seq(S),
           \A k \in 1 .. Len(cs) : FrameType(cs[k]), NEW u, Leaves(m, cs \o Tail(todo), u),
           transport' \in [Socket -> {"absent", "open", "closing", "broken"}],
           view' \in [Socket -> ViewType]
    PROVE  Types(maps', todo', transport', view') /\ Ran(m, cs, World, World')
<1> DEFINE A == {todo[i] : i \in DOMAIN todo}
           q == cs \o Tail(todo)
           w == World
           w2 == World'
<1>1. todo \in Seq(A) /\ \A f \in A : FrameType(f) BY DEF Inv, Types
<1>2. /\ q \in Seq(A \cup S)
      /\ Len(q) = Len(cs) + Len(todo) - 1
      /\ \A k \in 1 .. Len(cs) : k \in DOMAIN q /\ q[k] = cs[k]
      /\ \A i \in 2 .. Len(todo) : i + Len(cs) - 1 \in DOMAIN q /\ q[i + Len(cs) - 1] = todo[i]
      /\ DOMAIN q = 1 .. Len(q)
      /\ DOMAIN todo = 1 .. Len(todo) /\ 1 \in DOMAIN todo
  <2>1. todo \in Seq(A) BY <1>1
  <2> HIDE DEF A
  <2>2. q = cs \o Tail(todo) OBVIOUS
  <2> HIDE DEF q
  <2> QED BY <2>1, <2>2, Stacking
<1>3. Len(cs) \in Nat /\ Len(todo) \in Nat BY <1>1, LenProperties
<1> HIDE DEF q
<1>4. ASSUME NEW k \in DOMAIN q
      PROVE  FrameType(q[k])
  <2>1. CASE k \in 1 .. Len(cs) BY <1>2, <2>1
  <2>2. CASE k \notin 1 .. Len(cs)
    <3>1. k \in 1 .. Len(cs) + Len(todo) - 1 BY <1>2
    <3>2. k - Len(cs) + 1 \in 2 .. Len(todo) /\ k = (k - Len(cs) + 1) + Len(cs) - 1
      BY <1>3, <2>2, <3>1
    <3>3. q[k] = todo[k - Len(cs) + 1] BY <1>2, <3>2
    <3>4. k - Len(cs) + 1 \in DOMAIN todo BY <1>2, <1>3, <3>2
    <3> QED BY <1>1, <3>3, <3>4
  <2> QED BY <2>1, <2>2
<1>5. q \in Seq({q[i] : i \in DOMAIN q})
  <2>1. q \in [1 .. Len(q) -> A \cup S] /\ Len(q) \in Nat BY <1>2, LenProperties
  <2>2. q \in [1 .. Len(q) -> {q[i] : i \in DOMAIN q}] BY <1>2, <2>1
  <2> QED BY <2>1, <2>2
<1>6. Types(maps', todo', transport', view') /\ After(m, q, w, w2)
  <2>1. Leaves(m, q, u) BY DEF q
  <2> QED BY <1>4, <1>5, <2>1, Leaving
<1>7. /\ w.todo = todo /\ w.session = maps.session /\ w.rooms = maps.rooms
      /\ w.tracked = Tracked(maps)
      /\ \A r \in RoomId : w.members[r] = Mem(maps, r)
      /\ w.view = view /\ w2.view = view'
      /\ w.open = {s \in Socket : transport[s] = "open"}
      /\ w2.open = {s \in Socket : transport'[s] = "open"}
      /\ w.absent = {s \in Socket : transport[s] = "absent"}
      /\ w2.absent = {s \in Socket : transport'[s] = "absent"}
  BY DEF World, WorldOf
<1>8. WorldType(w)
  <2>1. Types(maps, todo, transport, view) BY DEF Inv
  <2> QED BY <2>1, TypedWorld DEF World
<1>9. WorldType(w2)
  <2>1. w2 = WorldOf(maps', todo', transport', view', rest') BY DEF World
  <2> HIDE DEF w2
  <2> QED BY <1>6, <2>1, TypedWorld
<1>10. Holds(w) BY DEF Inv
<1> HIDE DEF w, w2
<1>11. w.todo \in Seq(Stacked(w)) BY <1>1, <1>7 DEF Stacked
<1>12. StackOf(w, w2, cs)
  <2>1. w2.todo = cs \o Tail(w.todo) BY <1>6, <1>7 DEF After, q
  <2> HIDE DEF A
  <2>2. w.todo # <<>> BY <1>7
  <2> QED BY <1>11, <2>1, <2>2, Origins
<1>13. Head(todo) = w.todo[1] BY <1>1, <1>7
<1>14. FrameType(Head(todo)) BY <1>1, <1>2, <1>7, <1>13
<1>15. FrameGood(w, Head(todo), {})
  <2>1. Above(w, 1) = {} BY DEF Above
  <2>2. FrameGood(w, w.todo[1], Above(w, 1)) BY <1>2, <1>7, <1>10 DEF Holds, FramesGood
  <2> QED BY <1>13, <2>1, <2>2
<1>16. cs # <<>> => w2.todo # <<>>
  <2>1. w2.todo = q BY <1>6 DEF After
  <2>2. Len(<<>>) = 0 BY EmptySeq
  <2>3. cs # <<>> => Len(cs) # 0 BY EmptySeq
  <2>4. Len(todo) # 0 BY <1>1, EmptySeq
  <2> QED BY <1>2, <1>3, <2>1, <2>2, <2>3, <2>4
<1>17. Ran(m, cs, w, w2)
  BY <1>6, <1>7, <1>8, <1>9, <1>10, <1>11, <1>12, <1>13, <1>14, <1>15, <1>16 DEF Ran, q
<1> QED BY <1>6, <1>17 DEF w, w2

\* A call that is no entry leaves a good world behind, if it does its part.
LEMMA QuietRun ==
    ASSUME NEW m, NEW S, NEW cs \in Seq(S), NEW w, NEW w2, NEW h, Ran(m, cs, w, w2),
           h = Head(todo), h.call \notin {"generateRoomId", "enterRoom"},
           h.call = "send" => h.msg.type # "entered",
           w2.absent = w.absent, Fades(w, w2), SessionsAgree(w2), Supervised(w2),
           Delivered(w, w2, h, cs), Ready(w2, cs), Concerned(w, w2, h)
    PROVE  Holds(w2)
<1>1. Makes(w, w2, h, cs) BY DEF Makes, Ran, After
<1>2. Rests(w2) BY DEF Ran, After
<1>3. /\ WorldType(w) /\ WorldType(w2) /\ Holds(w)
      /\ w.todo \in Seq(Stacked(w)) /\ w.todo # <<>>
  BY DEF Ran
<1> QED BY <1>1, <1>2, <1>3, QuietStep

\* Most calls leave the maps as they are, or sessions, rooms and members at least.
Kept(m) == m.session = maps.session /\ m.rooms = maps.rooms /\ m.members = maps.members

LEMMA KeptMaps ==
    ASSUME NEW m, NEW cs, NEW w, NEW w2, Ran(m, cs, w, w2), Kept(m)
    PROVE  /\ w2.session = w.session /\ w2.rooms = w.rooms
           /\ \A r \in RoomId : w2.members[r] \subseteq w.members[r]
           /\ \A r \in RoomId : r \in w.rooms \/ w2.todo # <<>> => w2.members[r] = w.members[r]
           /\ SessionsAgree(w2)
           /\ w2.hub = w.hub \/ w2.todo = <<>>
<1>1. \A r \in RoomId : Mem(m, r) = w.members[r] BY DEF Ran, Kept, Mem
<1>2. /\ w2.session = w.session /\ w2.rooms = w.rooms
      /\ \A r \in RoomId : w2.members[r] \subseteq w.members[r]
      /\ \A r \in RoomId : r \in w.rooms \/ w2.todo # <<>> => w2.members[r] = w.members[r]
      /\ w2.hub = w.hub \/ w2.todo = <<>>
  BY <1>1 DEF Ran, After, Kept
<1>3. w.rooms \subseteq RoomId /\ SessionsAgree(w) BY DEF Ran, WorldType, Holds
<1> QED BY <1>2, <1>3 DEF SessionsAgree

\* A call of its own that makes no further call, has nothing to prepare.
LEMMA NoCalls ==
    ASSUME NEW w2 PROVE Ready(w2, <<>>) /\ NewCalls(<<>>) = {} /\ <<>> \in Seq({})
BY EmptySeq DEF Ready, NewCalls

LEMMA MapsTyped == Inv => maps \in MapsType /\ Distinct(maps)
BY DEF Inv, Types

LEMMA StateTyped ==
    Inv => /\ transport \in [Socket -> {"absent", "open", "closing", "broken"}]
           /\ view \in [Socket -> ViewType]
BY DEF Inv, Types

LEMMA RunForgetKeeps == Inv /\ RunForget => Inv'
<1> SUFFICES ASSUME Inv, RunForget PROVE Inv' OBVIOUS
<1> DEFINE s == Arg.socket
           m == [maps EXCEPT !.idle[s] = Missing, !.known = @ \ {s}]
           cs == <<>>
           h == Head(todo)
           w == World
           w2 == World'
<1>0. todo # <<>> /\ h.call = "forget" /\ h.socket = s BY DEF RunForget, Calling, Arg
<1>1. /\ maps \in MapsType /\ Distinct(maps) BY MapsTyped
<1>2. m \in MapsType /\ Distinct(m) /\ Kept(m) /\ m.idle = [maps.idle EXCEPT ![s] = Missing]
  <2>1. /\ m.session = maps.session /\ m.rooms = maps.rooms /\ m.members = maps.members
        /\ m.creator = maps.creator /\ m.ttl = maps.ttl
        /\ m.idle = [maps.idle EXCEPT ![s] = Missing] /\ m.known = maps.known \ {s}
    BY <1>1 DEF MapsType
  <2>2. m.idle \in [Socket -> Nat \cup {Missing}]
    <3>1. maps.idle \in [Socket -> Nat \cup {Missing}] BY <1>1 DEF MapsType
    <3>2. Missing \in Nat \cup {Missing} OBVIOUS
    <3> HIDE DEF m
    <3> QED BY <2>1, <3>1, <3>2
  <2>3. m \in MapsType BY <1>1, <2>1, <2>2 DEF MapsType
  <2> QED BY <1>1, <2>1, <2>3 DEF Distinct, Kept
<1>3. Leaves(m, cs \o Tail(todo), NoUsage) BY DEF RunForget, Continue
<1>4. transport' = transport /\ view' = view BY DEF RunForget, Same
<1>5. cs \in Seq({}) /\ \A k \in 1 .. Len(cs) : FrameType(cs[k]) BY EmptySeq
<1>6. Types(maps', todo', transport', view') /\ Ran(m, cs, w, w2)
  <2> HIDE DEF m, cs
  <2> QED BY <1>0, <1>2, <1>3, <1>4, <1>5, StateTyped, Running
<1>7. Ready(w2, cs) /\ NewCalls(cs) = {} BY NoCalls
<1> HIDE DEF m, cs, w, w2, h
<1>8. /\ w2.session = w.session /\ w2.rooms = w.rooms
      /\ \A r \in RoomId : w2.members[r] \subseteq w.members[r]
      /\ SessionsAgree(w2)
  BY <1>2, <1>6, KeptMaps
<1>9. w2.view = w.view /\ w2.open = w.open /\ w2.absent = w.absent
  BY <1>4, <1>6 DEF Ran
<1>10. Fades(w, w2) BY <1>8, <1>9 DEF Fades
<1>11. s \in Socket /\ s \notin w.open
  BY <1>0, <1>6 DEF Ran, FrameType, FrameGood, CutOff, h, OfSocket
<1>12. Supervised(w2)
  <2>1. w.open \subseteq Tracked(maps) BY <1>6 DEF Ran, Holds, Supervised
  <2>2. \A x \in Tracked(maps) : x # s => x \in Tracked(m) BY <1>1, <1>2, <1>11 DEF Tracked, MapsType
  <2>3. w2.tracked = Tracked(m) BY <1>6 DEF Ran, After
  <2> QED BY <1>9, <1>11, <2>1, <2>2, <2>3 DEF Supervised
<1>13. \A f \in Stacked(w) : f.call = "enterRoom" => f.room \in w.rooms
  BY <1>6 DEF Ran, Holds, FramesGood, FrameGood, EntryGood, Stacked
<1>14. Delivered(w, w2, h, cs) BY <1>0, <1>7, <1>8, <1>13 DEF Delivered
<1>15. Concerned(w, w2, h) BY <1>0, <1>8, <1>9, <1>11 DEF Concerned
<1>16. Holds(w2)
  BY <1>0, <1>5, <1>6, <1>7, <1>8, <1>9, <1>10, <1>12, <1>14, <1>15, QuietRun DEF h
<1> QED BY <1>6, <1>16 DEF Inv, w2

\* A call that touches neither the maps nor the connections.
Still(w, w2) ==
    /\ w2.session = w.session /\ w2.rooms = w.rooms
    /\ \A r \in RoomId : w2.members[r] \subseteq w.members[r]
    /\ \A r \in RoomId : r \in w.rooms \/ w2.todo # <<>> => w2.members[r] = w.members[r]
    /\ w2.view = w.view /\ w2.open = w.open /\ w2.absent = w.absent
    /\ Fades(w, w2) /\ SessionsAgree(w2) /\ Supervised(w2)
    /\ w2.hub = w.hub \/ w2.todo = <<>>
    /\ \A f \in Stacked(w) : f.call = "enterRoom" => f.room \in w.rooms

LEMMA EntryRooms ==
    ASSUME NEW w, Holds(w)
    PROVE  \A f \in Stacked(w) : f.call = "enterRoom" => f.room \in w.rooms
BY DEF Holds, FramesGood, FrameGood, EntryGood, Stacked

LEMMA StillRun ==
    ASSUME Inv, todo # <<>>, NEW S, NEW cs \in Seq(S), \A k \in 1 .. Len(cs) : FrameType(cs[k]),
           NEW u, Leaves(maps, cs \o Tail(todo), u), transport' = transport, view' = view
    PROVE  /\ Types(maps', todo', transport', view')
           /\ Ran(maps, cs, World, World')
           /\ Still(World, World')
<1> DEFINE w == World
           w2 == World'
<1>1. maps \in MapsType /\ Distinct(maps) BY MapsTyped
<1>2. Types(maps', todo', transport', view') /\ Ran(maps, cs, w, w2)
  BY <1>1, StateTyped, Running
<1> HIDE DEF w, w2
<1>3. Kept(maps) BY DEF Kept
<1>4. /\ w2.session = w.session /\ w2.rooms = w.rooms
      /\ \A r \in RoomId : w2.members[r] \subseteq w.members[r]
      /\ \A r \in RoomId : r \in w.rooms \/ w2.todo # <<>> => w2.members[r] = w.members[r]
      /\ SessionsAgree(w2)
      /\ w2.hub = w.hub \/ w2.todo = <<>>
  BY <1>2, <1>3, KeptMaps
<1>5. w2.view = w.view /\ w2.open = w.open /\ w2.absent = w.absent BY <1>2 DEF Ran
<1>6. w2.tracked = w.tracked BY <1>2 DEF Ran, After
<1>7. Supervised(w2) BY <1>2, <1>5, <1>6 DEF Ran, Holds, Supervised
<1>8. Holds(w) BY <1>2 DEF Ran
<1>9. Still(w, w2) BY <1>4, <1>5, <1>7, <1>8, EntryRooms DEF Still, Fades
<1> QED BY <1>2, <1>9 DEF w, w2

\* Nobody is concerned of a call that is neither sent to a client nor about one.
LEMMA StillQuiet ==
    ASSUME NEW S, NEW cs \in Seq(S), NEW w, NEW w2, NEW h, Ran(maps, cs, w, w2), h = Head(todo),
           Still(w, w2), h.call \notin OfSocket,
           h.call \in {"broadcastUserUpdated", "tellNext"} =>
               \A s \in w2.open : ListPending(w2, s),
           h.call \in {"destroyRoom", "destroyNext"} /\ h.room \in w.rooms =>
               \E f \in NewCalls(cs) : Ending(f, h.room),
           \A f \in Stacked(w) : f.call = "enterRoom" =>
               \A g \in NewCalls(cs) : Elsewhere(w2, g, f.room),
           Ready(w2, cs)
    PROVE  Holds(w2)
<1>1. Delivered(w, w2, h, cs) BY DEF Delivered, Still, OfSocket
<1>2. Concerned(w, w2, h) BY DEF Concerned, Still
<1>3. h.call \notin {"generateRoomId", "enterRoom"} /\ (h.call = "send" => h.msg.type # "entered")
  BY DEF OfSocket
<1> QED BY <1>1, <1>2, <1>3, QuietRun DEF Still

LEMMA RunRecordKeeps == Inv /\ RunRecord => Inv'
<1> SUFFICES ASSUME Inv, RunRecord PROVE Inv' OBVIOUS
<1> DEFINE cs == <<>>
           h == Head(todo)
           w == World
           w2 == World'
<1>0. todo # <<>> /\ h.call = "recordMetric" BY DEF RunRecord, Calling
<1>1. todo \in Seq({todo[i] : i \in DOMAIN todo}) BY DEF Inv, Types
<1>2. Leaves(maps, cs \o Tail(todo), Arg.usage)
  <2>1. Tail(todo) \in Seq({todo[i] : i \in DOMAIN todo}) BY <1>0, <1>1, HeadTailProperties
  <2>2. cs \o Tail(todo) = Tail(todo) BY <2>1, ConcatEmptySeq
  <2> QED BY <2>2 DEF RunRecord
<1>3. cs \in Seq({}) /\ \A k \in 1 .. Len(cs) : FrameType(cs[k]) BY EmptySeq
<1>4. transport' = transport /\ view' = view BY DEF RunRecord, Same
<1>5. Ready(w2, cs) /\ NewCalls(cs) = {} BY NoCalls
<1> HIDE DEF cs
<1>6. Types(maps', todo', transport', view') /\ Ran(maps, cs, w, w2) /\ Still(w, w2)
  BY <1>0, <1>2, <1>3, <1>4, StillRun
<1> HIDE DEF w, w2, h
<1>7. Holds(w2) BY <1>0, <1>3, <1>5, <1>6, StillQuiet DEF OfSocket, h
<1> QED BY <1>6, <1>7 DEF Inv, w2

(***************************************************************************)
(* The calls a call makes.                                                 *)
(***************************************************************************)

LEMMA OneCall ==
    ASSUME NEW a
    PROVE  /\ <<a>> \in Seq({a}) /\ Len(<<a>>) = 1 /\ <<a>>[1] = a
           /\ NewCalls(<<a>>) = {a} /\ <<a>> # <<>>
           /\ \A w2 : FrameGood(w2, a, {}) /\ a.call \notin {"generateRoomId", "enterRoom"}
                      => Ready(w2, <<a>>)
<1>1. <<a>> \in Seq({a}) /\ Len(<<a>>) = 1 /\ <<a>>[1] = a OBVIOUS
<1>2. <<a>> # <<>> BY <1>1, EmptySeq
<1> DEFINE c == <<a>>
<1> HIDE DEF c
<1>3. NewCalls(c) = {a} BY <1>1 DEF NewCalls, c
<1>4. {c[j] : j \in 1 .. 1 - 1} = {} OBVIOUS
<1>5. ASSUME NEW w2, FrameGood(w2, a, {}), a.call \notin {"generateRoomId", "enterRoom"}
      PROVE  Ready(w2, c)
  <2>1. \A k \in 1 .. Len(c) : k = 1 BY <1>1 DEF c
  <2>2. c[1] = a BY <1>1 DEF c
  <2> QED BY <1>4, <1>5, <2>1, <2>2 DEF Ready
<1> QED BY <1>1, <1>2, <1>3, <1>5 DEF c

LEMMA TwoCalls ==
    ASSUME NEW a, NEW b
    PROVE  /\ <<a, b>> \in Seq({a, b}) /\ Len(<<a, b>>) = 2
           /\ <<a, b>>[1] = a /\ <<a, b>>[2] = b
           /\ NewCalls(<<a, b>>) = {a, b} /\ <<a, b>> # <<>>
           /\ \A w2 : /\ FrameGood(w2, a, {}) /\ a.call \notin {"generateRoomId", "enterRoom"}
                      /\ FrameGood(w2, b, {a}) /\ b.call \notin {"generateRoomId", "enterRoom"}
                      => Ready(w2, <<a, b>>)
<1>1. <<a, b>> \in Seq({a, b}) /\ Len(<<a, b>>) = 2 /\ <<a, b>>[1] = a /\ <<a, b>>[2] = b
  OBVIOUS
<1>2. <<a, b>> # <<>> BY <1>1, EmptySeq
<1> DEFINE c == <<a, b>>
<1> HIDE DEF c
<1>3. Len(c) = 2 /\ c[1] = a /\ c[2] = b BY <1>1 DEF c
<1>4. NewCalls(c) = {a, b} BY <1>3 DEF NewCalls
<1>5. {c[j] : j \in 1 .. 1 - 1} = {} /\ {c[j] : j \in 1 .. 2 - 1} = {a}
  BY <1>3
<1>6. ASSUME NEW w2,
             FrameGood(w2, a, {}), a.call \notin {"generateRoomId", "enterRoom"},
             FrameGood(w2, b, {a}), b.call \notin {"generateRoomId", "enterRoom"}
      PROVE  Ready(w2, c)
  <2>1. \A k \in 1 .. Len(c) : k = 1 \/ k = 2 BY <1>3
  <2> QED BY <1>3, <1>5, <1>6, <2>1 DEF Ready
<1> QED BY <1>1, <1>2, <1>4, <1>6 DEF c

\* The room a loop begins with is one whose members are its own.
LEMMA LivingRoom ==
    ASSUME NEW w, WorldType(w), Holds(w), w.todo \in Seq(Stacked(w)),
           w.todo[1].call = "send" => w.todo[1].msg.type # "entered",
           NEW r \in w.rooms
    PROVE  LoopGood(w, r)
<1>1. ASSUME NEW s, NEW i \in DOMAIN w.todo, Welcomed(w.todo[i], s) PROVE FALSE
  <2>1. FrameGood(w, w.todo[i], Above(w, i)) BY DEF Holds, FramesGood
  <2>2. Above(w, i) = {} BY <1>1, <2>1 DEF FrameGood, SendGood, Welcomed, Is
  <2>3. i \in 1 .. Len(w.todo) /\ Len(w.todo) \in Nat BY LenProperties
  <2>4. i = 1
    <3>1. 1 \notin 1 .. i - 1 BY <2>2 DEF Above
    <3> QED BY <2>3, <3>1
  <2> QED BY <1>1, <2>4 DEF Welcomed, Is
<1>2. \A s : \A f \in Stacked(w) : ~Welcomed(f, s) BY <1>1 DEF Stacked
<1>3. \A s \in w.members[r] \cap w.open : w.view[s].room \in {r, NoRoom}
  BY <1>2 DEF Holds, SeenFromRooms
<1>4. \A s \in w.members[r] : w.session[s] \in {r, NoRoom} BY DEF Holds, RoomsAgree
<1> QED BY <1>3, <1>4 DEF LoopGood

LEMMA HeadFacts ==
    ASSUME Inv, todo # <<>>
    PROVE  FrameType(Head(todo)) /\ FrameGood(World, Head(todo), {}) /\ Head(todo) \in Stacked(World)
<1>1. todo \in Seq({todo[i] : i \in DOMAIN todo}) BY DEF Inv, Types
<1>2. Head(todo) = todo[1] /\ 1 \in DOMAIN todo BY <1>1, EmptySeq, LenProperties
<1>3. FrameType(Head(todo)) BY <1>2 DEF Inv, Types
<1>4. World.todo = todo BY DEF World, WorldOf
<1>5. Above(World, 1) = {} BY DEF Above
<1>6. FramesGood(World) BY DEF Inv, Holds
<1> DEFINE w == World
<1> HIDE DEF w
<1>7. FrameGood(w, Head(todo), {}) /\ Head(todo) \in Stacked(w)
  BY <1>2, <1>4, <1>5, <1>6 DEF FramesGood, Stacked, w
<1> QED BY <1>3, <1>7 DEF w

\* A call above an entry has nothing to do with its room.
LEMMA EntryBelow ==
    ASSUME NEW m, NEW cs, NEW w, NEW w2, Ran(m, cs, w, w2), NEW h, h = Head(todo),
           h.call # "enterRoom"
    PROVE  \A f \in Stacked(w) : f.call = "enterRoom" => Elsewhere(w, h, f.room)
<1> SUFFICES ASSUME NEW i \in DOMAIN w.todo, w.todo[i].call = "enterRoom"
             PROVE  Elsewhere(w, h, w.todo[i].room)
  BY DEF Stacked
<1>1. FrameGood(w, w.todo[i], Above(w, i)) BY DEF Ran, Holds, FramesGood
<1>2. \A g \in Above(w, i) : Elsewhere(w, g, w.todo[i].room)
  BY <1>1 DEF FrameGood, EntryGood
<1>3. i \in 1 .. Len(w.todo) /\ Len(w.todo) \in Nat /\ i # 1
  BY LenProperties DEF Ran
<1>4. h \in Above(w, i) BY <1>3 DEF Above, Ran
<1> QED BY <1>2, <1>4

LEMMA RunDestroyKeeps == Inv /\ RunDestroy => Inv'
<1> SUFFICES ASSUME Inv, RunDestroy PROVE Inv' OBVIOUS
<1> DEFINE h == Head(todo)
           r == Arg.room
           w == World
           w2 == World'
<1>0. todo # <<>> /\ h.call = "destroyRoom" /\ h.room = r BY DEF RunDestroy, Calling, Arg
<1>1. transport' = transport /\ view' = view BY DEF RunDestroy, Same
<1>2. FrameType(h) BY <1>0, HeadFacts
<1>3. r \in RoomId BY <1>0, <1>2 DEF FrameType, OfRoom
<1>4. CASE r \notin maps.rooms
  <2> DEFINE cs == <<>>
  <2>1. Leaves(maps, cs \o Tail(todo), NoUsage) BY <1>4 DEF RunDestroy, Continue
  <2>2. cs \in Seq({}) /\ \A k \in 1 .. Len(cs) : FrameType(cs[k]) BY EmptySeq
  <2>3. Ready(w2, cs) /\ NewCalls(cs) = {} BY NoCalls
  <2> HIDE DEF cs
  <2>4. Types(maps', todo', transport', view') /\ Ran(maps, cs, w, w2) /\ Still(w, w2)
    BY <1>0, <1>1, <2>1, <2>2, StillRun
  <2>5. h.room \notin w.rooms BY <1>0, <1>4 DEF World, WorldOf
  <2> HIDE DEF w, w2, h
  <2>6. Holds(w2) BY <1>0, <2>2, <2>3, <2>4, <2>5, StillQuiet DEF OfSocket, h
  <2> QED BY <2>4, <2>6 DEF Inv, w2
<1>5. CASE r \in maps.rooms
  <2> DEFINE d == DestroyNext(r, {})
             cs == <<d>>
  <2>1. Leaves(maps, cs \o Tail(todo), NoUsage) BY <1>5 DEF RunDestroy, Continue
  <2>2. d.call = "destroyNext" /\ d.room = r /\ d.did = {} BY DEF DestroyNext
  <2>3. FrameType(d) BY <1>3, <2>2 DEF FrameType, OfSocket, OfRoom
  <2> HIDE DEF d
  <2>4. cs \in Seq({d}) /\ (\A k \in 1 .. Len(cs) : FrameType(cs[k])) /\ NewCalls(cs) = {d} /\ cs # <<>>
    BY <2>3, OneCall
  <2>5. FrameGood(w2, d, {}) => Ready(w2, cs) BY <2>2, OneCall
  <2> HIDE DEF cs
  <2>6. Types(maps', todo', transport', view') /\ Ran(maps, cs, w, w2) /\ Still(w, w2)
    BY <1>0, <1>1, <2>1, <2>4, StillRun
  <2> HIDE DEF w, w2, h
  <2>7. r \in w.rooms BY <1>5, <2>6 DEF Ran
  <2>8. LoopGood(w, r) BY <1>0, <2>6, <2>7, LivingRoom DEF Ran, h
  <2>9. LoopGood(w2, r) BY <1>3, <2>7, <2>8, <2>6 DEF LoopGood, Still
  <2>10. FrameGood(w2, d, {}) BY <2>2, <2>9 DEF FrameGood, DestroyNextGood
  <2>11. \A f \in Stacked(w) : f.call = "enterRoom" => \A g \in NewCalls(cs) : Elsewhere(w2, g, f.room)
    <3>1. \A f \in Stacked(w) : f.call = "enterRoom" => Elsewhere(w, h, f.room)
      BY <1>0, <2>6, EntryBelow DEF h
    <3> QED BY <1>0, <2>2, <2>4, <3>1 DEF Elsewhere, OfRoom
  <2>12. Ending(d, h.room) BY <1>0, <2>2 DEF Ending
  <2>13. Holds(w2) BY <1>0, <2>4, <2>5, <2>6, <2>10, <2>11, <2>12, StillQuiet DEF OfSocket, h
  <2> QED BY <2>6, <2>13 DEF Inv, w2
<1> QED BY <1>4, <1>5

LEMMA RunBroadcastKeeps == Inv /\ RunBroadcast => Inv'
<1> SUFFICES ASSUME Inv, RunBroadcast PROVE Inv' OBVIOUS
<1> DEFINE h == Head(todo)
           r == Arg.room
           us == {s \in ToSet(maps.members[r]) : maps.session[s] # NoRoom}
           w == World
           w2 == World'
<1>0. todo # <<>> /\ h.call = "broadcastUserUpdated" /\ h.room = r
  BY DEF RunBroadcast, Calling, Arg
<1>1. transport' = transport /\ view' = view BY DEF RunBroadcast, Same
<1>2. FrameType(h) BY <1>0, HeadFacts
<1>3. r \in RoomId BY <1>0, <1>2 DEF FrameType, OfRoom
<1>4. CASE r \notin maps.rooms
  <2> DEFINE cs == <<>>
  <2>1. Leaves(maps, cs \o Tail(todo), NoUsage) BY <1>4 DEF RunBroadcast, Continue
  <2>2. cs \in Seq({}) /\ \A k \in 1 .. Len(cs) : FrameType(cs[k]) BY EmptySeq
  <2>3. Ready(w2, cs) /\ NewCalls(cs) = {} BY NoCalls
  <2> HIDE DEF cs
  <2>4. Types(maps', todo', transport', view') /\ Ran(maps, cs, w, w2) /\ Still(w, w2)
    BY <1>0, <1>1, <2>1, <2>2, StillRun
  <2> HIDE DEF w, w2, h
  <2>5. h.room \notin w.rooms BY <1>0, <1>4, <2>4 DEF Ran
  <2>6. ASSUME NEW s \in w2.open PROVE ListPending(w2, s)
    <3> SUFFICES ASSUME w2.session[s] # NoRoom, w2.view[s].room = w2.session[s]
                 PROVE  \/ Destroying(w2, w2.session[s])
                        \/ w2.members[w2.session[s]] \subseteq w2.view[s].users
                        \/ \E f \in Stacked(w2) : Broadcasts(f, w2.session[s])
                        \/ \E f \in Stacked(w2) : Lists(w2, f, s)
      BY DEF ListPending
    <3>1. s \in Socket /\ s \in w.open BY <2>4 DEF Still, Ran, WorldType
    <3>2. w2.session[s] = w.session[s] /\ w2.view[s] = w.view[s] BY <2>4 DEF Still
    <3>3. w.session[s] \in w.rooms /\ w.session[s] \in RoomId
      BY <2>4, <3>1, <3>2 DEF Ran, Holds, SessionsAgree, WorldType
    <3>4. w2.members[w.session[s]] = w.members[w.session[s]] BY <2>4, <3>3 DEF Still
    <3>5. Stacked(w) \subseteq Stacked(w2) \cup {h} BY <2>4 DEF Ran, StackOf, h
    <3>6. ListPending(w, s) BY <2>4, <3>1 DEF Ran, Holds, ListsPending
    <3>7. ~Broadcasts(h, w.session[s]) BY <2>5, <3>3 DEF Broadcasts
    <3>8. ~Ending(h, w.session[s]) /\ ~Lists(w, h, s) BY <1>0 DEF Ending, Lists
    <3>9. \A f : Lists(w, f, s) => Lists(w2, f, s) BY <3>2, <3>4 DEF Lists
    <3> QED BY <3>2, <3>4, <3>5, <3>6, <3>7, <3>8, <3>9 DEF ListPending, Destroying
  <2>7. Holds(w2) BY <1>0, <2>2, <2>3, <2>4, <2>6, StillQuiet DEF OfSocket, h
  <2> QED BY <2>4, <2>7 DEF Inv, w2
<1>5. CASE r \in maps.rooms
  <2> DEFINE d == TellNext(r, UserUpdated(r, us), {})
             cs == <<d>>
  <2>1. Leaves(maps, cs \o Tail(todo), NoUsage) BY <1>5 DEF RunBroadcast, Continue
  <2>2. /\ d.call = "tellNext" /\ d.room = r /\ d.did = {}
        /\ d.msg.type = "userUpdated" /\ d.msg.room = r /\ d.msg.users = us
    BY DEF TellNext, UserUpdated
  <2>3. us = {s \in Mem(maps, r) : maps.session[s] # NoRoom} BY DEF ToSet, Mem
  <2>a. w.members[r] = Mem(maps, r) BY <1>3 DEF World, WorldOf
  <2>b. Types(maps, todo, transport, view) BY DEF Inv
  <2>c. WorldType(w) BY <2>b, TypedWorld DEF World
  <2> HIDE DEF d, us, w
  <2>4. us \in SUBSET Socket BY <1>3, <2>3, <2>a, <2>c DEF WorldType
  <2>5. FrameType(d) BY <1>3, <2>2, <2>4 DEF FrameType, OfSocket, OfRoom
  <2>6. cs \in Seq({d}) /\ (\A k \in 1 .. Len(cs) : FrameType(cs[k])) /\ NewCalls(cs) = {d} /\ cs # <<>>
    BY <2>5, OneCall
  <2>7. FrameGood(w2, d, {}) => Ready(w2, cs) BY <2>2, OneCall
  <2> HIDE DEF cs
  <2>8. Types(maps', todo', transport', view') /\ Ran(maps, cs, w, w2) /\ Still(w, w2)
    BY <1>0, <1>1, <2>1, <2>6, StillRun DEF w
  <2> HIDE DEF w2, h
  <2>9. r \in w.rooms /\ w.session = maps.session BY <1>5, <2>8 DEF Ran
  <2>10. LoopGood(w, r) BY <1>0, <2>8, <2>9, LivingRoom DEF Ran, h
  <2>11. LoopGood(w2, r) BY <1>3, <2>8, <2>9, <2>10 DEF LoopGood, Still
  <2>12. Stacked(w) \subseteq Stacked(w2) \cup {h} /\ d \in Stacked(w2)
    BY <2>6, <2>8 DEF Ran, StackOf, h
  <2>13. \A x : Destroying(w, x) => Destroying(w2, x)
    BY <1>0, <2>12 DEF Destroying, Ending
  <2>14. w2.members[r] = w.members[r] BY <1>3, <2>8, <2>9 DEF Still
  <2>15. Destroying(w, r) \/ w.members[r] \subseteq us
    BY <1>3, <2>3, <2>8, <2>9, <2>a, RoomAssumption DEF Ran, Holds, RoomsAgree
  <2>16. TellGood(w2, d) BY <2>2, <2>13, <2>14, <2>15 DEF TellGood
  <2>17. FrameGood(w2, d, {}) BY <2>2, <2>11, <2>16 DEF FrameGood
  <2>18. \A f \in Stacked(w) : f.call = "enterRoom" => \A g \in NewCalls(cs) : Elsewhere(w2, g, f.room)
    <3>1. \A f \in Stacked(w) : f.call = "enterRoom" => Elsewhere(w, h, f.room)
      BY <1>0, <2>8, EntryBelow DEF h
    <3> QED BY <1>0, <2>2, <2>6, <3>1 DEF Elsewhere, OfRoom
  <2>19. ASSUME NEW s \in w2.open PROVE ListPending(w2, s)
    <3> SUFFICES ASSUME w2.session[s] # NoRoom, w2.view[s].room = w2.session[s]
                 PROVE  \/ Destroying(w2, w2.session[s])
                        \/ w2.members[w2.session[s]] \subseteq w2.view[s].users
                        \/ \E f \in Stacked(w2) : Broadcasts(f, w2.session[s])
                        \/ \E f \in Stacked(w2) : Lists(w2, f, s)
      BY DEF ListPending
    <3>1. s \in Socket /\ s \in w.open BY <2>8 DEF Still, Ran, WorldType
    <3>2. w2.session[s] = w.session[s] /\ w2.view[s] = w.view[s] BY <2>8 DEF Still
    <3>3. w.session[s] \in w.rooms /\ w.session[s] \in RoomId
      BY <2>8, <3>1, <3>2 DEF Ran, Holds, SessionsAgree, WorldType
    <3>4. w2.members[w.session[s]] = w.members[w.session[s]] BY <2>8, <3>3 DEF Still
    <3>5. ListPending(w, s) BY <2>8, <3>1 DEF Ran, Holds, ListsPending
    <3>6. CASE w.session[s] = r
      <4>1. Destroying(w2, r) \/ Lists(w2, d, s)
        BY <2>2, <2>13, <2>14, <2>15, <3>2, <3>6 DEF Lists
      <4> QED BY <2>12, <3>2, <3>6, <4>1
    <3>7. CASE w.session[s] # r
      <4>1. ~Broadcasts(h, w.session[s]) BY <1>0, <3>7 DEF Broadcasts
      <4>2. ~Lists(w, h, s) BY <1>0 DEF Lists
      <4>3. \A f : Lists(w, f, s) => Lists(w2, f, s) BY <3>2, <3>4 DEF Lists
      <4> QED BY <2>12, <2>13, <3>2, <3>4, <3>5, <4>1, <4>2, <4>3 DEF ListPending
    <3> QED BY <3>6, <3>7
  <2>20. Holds(w2) BY <1>0, <2>6, <2>7, <2>8, <2>17, <2>18, <2>19, StillQuiet DEF OfSocket, h
  <2> QED BY <2>8, <2>20 DEF Inv, w2
<1> QED BY <1>4, <1>5

LEMMA ThreeCalls ==
    ASSUME NEW a, NEW b, NEW c
    PROVE  /\ <<a, b, c>> \in Seq({a, b, c}) /\ Len(<<a, b, c>>) = 3
           /\ NewCalls(<<a, b, c>>) = {a, b, c} /\ <<a, b, c>> # <<>>
           /\ \A k \in 1 .. 3 : <<a, b, c>>[k] \in {a, b, c}
           /\ \A w2 : /\ FrameGood(w2, a, {}) /\ a.call \notin {"generateRoomId", "enterRoom"}
                      /\ FrameGood(w2, b, {a}) /\ b.call \notin {"generateRoomId", "enterRoom"}
                      /\ FrameGood(w2, c, {a, b}) /\ c.call \notin {"generateRoomId", "enterRoom"}
                      => Ready(w2, <<a, b, c>>)
<1> DEFINE q == <<a, b, c>>
<1>1. q \in Seq({a, b, c}) /\ Len(q) = 3 OBVIOUS
<1>2. q[1] = a /\ q[2] = b /\ q[3] = c OBVIOUS
<1> HIDE DEF q
<1>3. q # <<>> BY <1>1, EmptySeq
<1>4. \A k \in 1 .. 3 : k = 1 \/ k = 2 \/ k = 3 OBVIOUS
<1>5. NewCalls(q) = {a, b, c} BY <1>1, <1>2, <1>4 DEF NewCalls
<1>6. {q[j] : j \in 1 .. 1 - 1} = {} OBVIOUS
<1>7. {q[j] : j \in 1 .. 2 - 1} = {a}
  <2>1. \A j \in 1 .. 2 - 1 : j = 1 OBVIOUS
  <2>2. 1 \in 1 .. 2 - 1 OBVIOUS
  <2> QED BY <1>2, <2>1, <2>2
<1>8. {q[j] : j \in 1 .. 3 - 1} = {a, b}
  <2>1. \A j \in 1 .. 3 - 1 : j = 1 \/ j = 2 OBVIOUS
  <2>2. 1 \in 1 .. 3 - 1 /\ 2 \in 1 .. 3 - 1 OBVIOUS
  <2> QED BY <1>2, <2>1, <2>2
<1>9. ASSUME NEW w2,
             FrameGood(w2, a, {}), a.call \notin {"generateRoomId", "enterRoom"},
             FrameGood(w2, b, {a}), b.call \notin {"generateRoomId", "enterRoom"},
             FrameGood(w2, c, {a, b}), c.call \notin {"generateRoomId", "enterRoom"}
      PROVE  Ready(w2, q)
  <2> SUFFICES ASSUME NEW k \in 1 .. 3
               PROVE  /\ FrameGood(w2, q[k], {q[j] : j \in 1 .. k - 1})
                      /\ q[k].call \notin {"generateRoomId", "enterRoom"}
    BY <1>1 DEF Ready
  <2>1. CASE k = 1 BY <1>2, <1>6, <1>9, <2>1
  <2>2. CASE k = 2 BY <1>2, <1>7, <1>9, <2>2
  <2>3. CASE k = 3 BY <1>2, <1>8, <1>9, <2>3
  <2> QED BY <1>4, <2>1, <2>2, <2>3
<1>10. \A k \in 1 .. 3 : q[k] \in {a, b, c} BY <1>2, <1>4
<1> QED BY <1>1, <1>3, <1>5, <1>9, <1>10 DEF q

LEMMA FourCalls ==
    ASSUME NEW a, NEW b, NEW c, NEW d
    PROVE  /\ <<a, b, c, d>> \in Seq({a, b, c, d}) /\ Len(<<a, b, c, d>>) = 4
           /\ NewCalls(<<a, b, c, d>>) = {a, b, c, d} /\ <<a, b, c, d>> # <<>>
           /\ \A k \in 1 .. 4 : <<a, b, c, d>>[k] \in {a, b, c, d}
           /\ \A w2 : /\ FrameGood(w2, a, {}) /\ a.call \notin {"generateRoomId", "enterRoom"}
                      /\ FrameGood(w2, b, {a}) /\ b.call \notin {"generateRoomId", "enterRoom"}
                      /\ FrameGood(w2, c, {a, b}) /\ c.call \notin {"generateRoomId", "enterRoom"}
                      /\ FrameGood(w2, d, {a, b, c}) /\ d.call \notin {"generateRoomId", "enterRoom"}
                      => Ready(w2, <<a, b, c, d>>)
<1> DEFINE q == <<a, b, c, d>>
<1>1. q \in Seq({a, b, c, d}) /\ Len(q) = 4 OBVIOUS
<1>2. q[1] = a /\ q[2] = b /\ q[3] = c /\ q[4] = d OBVIOUS
<1> HIDE DEF q
<1>3. q # <<>> BY <1>1, EmptySeq
<1>4. \A k \in 1 .. 4 : k = 1 \/ k = 2 \/ k = 3 \/ k = 4 OBVIOUS
<1>5. NewCalls(q) = {a, b, c, d} BY <1>1, <1>2, <1>4 DEF NewCalls
<1>6. {q[j] : j \in 1 .. 1 - 1} = {} OBVIOUS
<1>7. {q[j] : j \in 1 .. 2 - 1} = {a}
  <2>1. \A j \in 1 .. 2 - 1 : j = 1 OBVIOUS
  <2>2. 1 \in 1 .. 2 - 1 OBVIOUS
  <2> QED BY <1>2, <2>1, <2>2
<1>8. {q[j] : j \in 1 .. 3 - 1} = {a, b}
  <2>1. \A j \in 1 .. 3 - 1 : j = 1 \/ j = 2 OBVIOUS
  <2>2. 1 \in 1 .. 3 - 1 /\ 2 \in 1 .. 3 - 1 OBVIOUS
  <2> QED BY <1>2, <2>1, <2>2
<1>9. {q[j] : j \in 1 .. 4 - 1} = {a, b, c}
  <2>1. \A j \in 1 .. 4 - 1 : j = 1 \/ j = 2 \/ j = 3 OBVIOUS
  <2>2. 1 \in 1 .. 4 - 1 /\ 2 \in 1 .. 4 - 1 /\ 3 \in 1 .. 4 - 1 OBVIOUS
  <2> QED BY <1>2, <2>1, <2>2
<1>10. ASSUME NEW w2,
             FrameGood(w2, a, {}), a.call \notin {"generateRoomId", "enterRoom"},
             FrameGood(w2, b, {a}), b.call \notin {"generateRoomId", "enterRoom"},
             FrameGood(w2, c, {a, b}), c.call \notin {"generateRoomId", "enterRoom"},
             FrameGood(w2, d, {a, b, c}), d.call \notin {"generateRoomId", "enterRoom"}
      PROVE  Ready(w2, q)
  <2> SUFFICES ASSUME NEW k \in 1 .. 4
               PROVE  /\ FrameGood(w2, q[k], {q[j] : j \in 1 .. k - 1})
                      /\ q[k].call \notin {"generateRoomId", "enterRoom"}
    BY <1>1 DEF Ready
  <2>1. CASE k = 1 BY <1>2, <1>6, <1>10, <2>1
  <2>2. CASE k = 2 BY <1>2, <1>7, <1>10, <2>2
  <2>3. CASE k = 3 BY <1>2, <1>8, <1>10, <2>3
  <2>4. CASE k = 4 BY <1>2, <1>9, <1>10, <2>4
  <2> QED BY <1>4, <2>1, <2>2, <2>3, <2>4
<1>11. \A k \in 1 .. 4 : q[k] \in {a, b, c, d} BY <1>2, <1>4
<1> QED BY <1>1, <1>3, <1>5, <1>10, <1>11 DEF q

LEMMA FiveCalls ==
    ASSUME NEW a, NEW b, NEW c, NEW d, NEW e, NEW q, q = <<a, b, c, d, e>>
    PROVE  /\ q \in Seq({a, b, c, d, e}) /\ Len(q) = 5
           /\ NewCalls(q) = {a, b, c, d, e} /\ q # <<>>
           /\ \A k \in 1 .. 5 : q[k] \in {a, b, c, d, e}
           /\ \A w2 : /\ FrameGood(w2, a, {}) /\ a.call \notin {"generateRoomId", "enterRoom"}
                      /\ FrameGood(w2, b, {a}) /\ b.call \notin {"generateRoomId", "enterRoom"}
                      /\ FrameGood(w2, c, {a, b}) /\ c.call \notin {"generateRoomId", "enterRoom"}
                      /\ FrameGood(w2, d, {a, b, c}) /\ d.call \notin {"generateRoomId", "enterRoom"}
                      /\ FrameGood(w2, e, {a, b, c, d}) /\ e.call \notin {"generateRoomId", "enterRoom"}
                      => Ready(w2, q)
<1>1. q \in Seq({a, b, c, d, e}) /\ Len(q) = 5 OBVIOUS
<1>2. q[1] = a /\ q[2] = b /\ q[3] = c /\ q[4] = d /\ q[5] = e OBVIOUS
<1>3. q # <<>> BY <1>1, EmptySeq
<1>4. \A k \in 1 .. 5 : k = 1 \/ k = 2 \/ k = 3 \/ k = 4 \/ k = 5 OBVIOUS
<1>5. NewCalls(q) = {a, b, c, d, e} BY <1>1, <1>2, <1>4 DEF NewCalls
<1>6. {q[j] : j \in 1 .. 1 - 1} = {} OBVIOUS
<1>7. {q[j] : j \in 1 .. 2 - 1} = {a}
  <2>1. \A j \in 1 .. 2 - 1 : j = 1 OBVIOUS
  <2>2. 1 \in 1 .. 2 - 1 OBVIOUS
  <2> QED BY <1>2, <2>1, <2>2
<1>8. {q[j] : j \in 1 .. 3 - 1} = {a, b}
  <2>1. \A j \in 1 .. 3 - 1 : j = 1 \/ j = 2 OBVIOUS
  <2>2. 1 \in 1 .. 3 - 1 /\ 2 \in 1 .. 3 - 1 OBVIOUS
  <2> QED BY <1>2, <2>1, <2>2
<1>9. {q[j] : j \in 1 .. 4 - 1} = {a, b, c}
  <2>1. \A j \in 1 .. 4 - 1 : j = 1 \/ j = 2 \/ j = 3 OBVIOUS
  <2>2. 1 \in 1 .. 4 - 1 /\ 2 \in 1 .. 4 - 1 /\ 3 \in 1 .. 4 - 1 OBVIOUS
  <2> QED BY <1>2, <2>1, <2>2
<1>10. {q[j] : j \in 1 .. 5 - 1} = {a, b, c, d}
  <2>1. \A j \in 1 .. 5 - 1 : j = 1 \/ j = 2 \/ j = 3 \/ j = 4 OBVIOUS
  <2>2. 1 \in 1 .. 5 - 1 /\ 2 \in 1 .. 5 - 1 /\ 3 \in 1 .. 5 - 1 /\ 4 \in 1 .. 5 - 1 OBVIOUS
  <2> QED BY <1>2, <2>1, <2>2
<1>11. ASSUME NEW w2,
             FrameGood(w2, a, {}), a.call \notin {"generateRoomId", "enterRoom"},
             FrameGood(w2, b, {a}), b.call \notin {"generateRoomId", "enterRoom"},
             FrameGood(w2, c, {a, b}), c.call \notin {"generateRoomId", "enterRoom"},
             FrameGood(w2, d, {a, b, c}), d.call \notin {"generateRoomId", "enterRoom"},
             FrameGood(w2, e, {a, b, c, d}), e.call \notin {"generateRoomId", "enterRoom"}
      PROVE  Ready(w2, q)
  <2> SUFFICES ASSUME NEW k \in 1 .. 5
               PROVE  /\ FrameGood(w2, q[k], {q[j] : j \in 1 .. k - 1})
                      /\ q[k].call \notin {"generateRoomId", "enterRoom"}
    BY <1>1 DEF Ready
  <2>1. CASE k = 1 BY <1>2, <1>6, <1>11, <2>1
  <2>2. CASE k = 2 BY <1>2, <1>7, <1>11, <2>2
  <2>3. CASE k = 3 BY <1>2, <1>8, <1>11, <2>3
  <2>4. CASE k = 4 BY <1>2, <1>9, <1>11, <2>4
  <2>5. CASE k = 5 BY <1>2, <1>10, <1>11, <2>5
  <2> QED BY <1>4, <2>1, <2>2, <2>3, <2>4, <2>5
<1>12. \A k \in 1 .. 5 : q[k] \in {a, b, c, d, e} BY <1>2, <1>4
<1> QED BY <1>1, <1>3, <1>5, <1>11, <1>12

LEMMA Joined ==
    ASSUME NEW S, NEW p \in Seq(S), NEW q \in Seq(S), NEW t \in Seq(S),
           Len(t) = Len(p) + Len(q),
           \A i \in 1 .. Len(p) : t[i] = p[i],
           \A i \in 1 .. Len(q) : t[Len(p) + i] = q[i]
    PROVE  p \o q = t
<1>1. /\ p \o q \in Seq(S) /\ Len(p \o q) = Len(p) + Len(q)
      /\ \A i \in 1 .. Len(p) + Len(q) :
            (p \o q)[i] = IF i <= Len(p) THEN p[i] ELSE q[i - Len(p)]
  BY ConcatProperties
<1>2. Len(p) \in Nat /\ Len(q) \in Nat BY LenProperties
<1>3. ASSUME NEW i \in 1 .. Len(p) + Len(q) PROVE (p \o q)[i] = t[i]
  <2>1. CASE i <= Len(p) BY <1>1, <1>2, <2>1
  <2>2. CASE ~(i <= Len(p))
    <3>1. i - Len(p) \in 1 .. Len(q) /\ Len(p) + (i - Len(p)) = i BY <1>2, <2>2
    <3>2. t[i] = q[i - Len(p)] BY <3>1
    <3> QED BY <1>1, <2>2, <3>2
  <2> QED BY <2>1, <2>2
<1> QED BY <1>1, <1>3, SeqEqual

LEMMA JoinOne == \A x, y, a : <<x, y>> \o <<a>> = <<x, y, a>>
<1> TAKE x, y, a
<1> DEFINE S == {x, y, a}
           p == <<x, y>>
           q == <<a>>
           t == <<x, y, a>>
<1>1. p \in Seq(S) /\ q \in Seq(S) /\ t \in Seq(S) OBVIOUS
<1>2. Len(p) = 2 /\ Len(q) = 1 /\ Len(t) = 3 OBVIOUS
<1>3. p[1] = x /\ p[2] = y /\ q[1] = a OBVIOUS
<1>4. t[1] = x /\ t[2] = y /\ t[3] = a OBVIOUS
<1> HIDE DEF S, p, q, t
<1>5. \A i \in 1 .. Len(p) : t[i] = p[i] BY <1>2, <1>3, <1>4
<1>6. \A i \in 1 .. Len(q) : t[Len(p) + i] = q[i] BY <1>2, <1>3, <1>4
<1>7. Len(t) = Len(p) + Len(q) BY <1>2
<1>8. p \o q = t BY <1>1, <1>5, <1>6, <1>7, Joined
<1> QED BY <1>8 DEF p, q, t

LEMMA JoinTwo == \A x, y, a, b : <<x, y>> \o <<a, b>> = <<x, y, a, b>>
<1> TAKE x, y, a, b
<1> DEFINE S == {x, y, a, b}
           p == <<x, y>>
           q == <<a, b>>
           t == <<x, y, a, b>>
<1>1. p \in Seq(S) /\ q \in Seq(S) /\ t \in Seq(S) OBVIOUS
<1>2. Len(p) = 2 /\ Len(q) = 2 /\ Len(t) = 4 OBVIOUS
<1>3. p[1] = x /\ p[2] = y /\ q[1] = a /\ q[2] = b OBVIOUS
<1>4. t[1] = x /\ t[2] = y /\ t[3] = a /\ t[4] = b OBVIOUS
<1> HIDE DEF S, p, q, t
<1>5. \A i \in 1 .. Len(p) : t[i] = p[i] BY <1>2, <1>3, <1>4
<1>6. \A i \in 1 .. Len(q) : t[Len(p) + i] = q[i] BY <1>2, <1>3, <1>4
<1>7. Len(t) = Len(p) + Len(q) BY <1>2
<1>8. p \o q = t BY <1>1, <1>5, <1>6, <1>7, Joined
<1> QED BY <1>8 DEF p, q, t

LEMMA JoinLast == \A x, y, a, b, z : <<x, y, a, b>> \o <<z>> = <<x, y, a, b, z>>
<1> TAKE x, y, a, b, z
<1> DEFINE S == {x, y, a, b, z}
           p == <<x, y, a, b>>
           q == <<z>>
           t == <<x, y, a, b, z>>
<1>1. p \in Seq(S) /\ q \in Seq(S) /\ t \in Seq(S) OBVIOUS
<1>2. Len(p) = 4 /\ Len(q) = 1 /\ Len(t) = 5 OBVIOUS
<1>3. p[1] = x /\ p[2] = y /\ p[3] = a /\ p[4] = b /\ q[1] = z OBVIOUS
<1>4. t[1] = x /\ t[2] = y /\ t[3] = a /\ t[4] = b /\ t[5] = z OBVIOUS
<1> HIDE DEF S, p, q, t
<1>5. \A i \in 1 .. Len(p) : t[i] = p[i] BY <1>2, <1>3, <1>4
<1>6. \A i \in 1 .. Len(q) : t[Len(p) + i] = q[i] BY <1>2, <1>3, <1>4
<1>7. Len(t) = Len(p) + Len(q) BY <1>2
<1>8. p \o q = t BY <1>1, <1>5, <1>6, <1>7, Joined
<1> QED BY <1>8 DEF p, q, t

\* removeSocket, on its own and before other calls.
LEMMA Removals ==
    ASSUME NEW s, NEW a, NEW b
    PROVE  /\ RemovalOf(s) = <<Detach(s, TRUE), Forget(s)>>
           /\ RemovalOf(s) \o <<>> = <<Detach(s, TRUE), Forget(s)>>
           /\ RemovalOf(s) \o <<a>> = <<Detach(s, TRUE), Forget(s), a>>
           /\ RemovalOf(s) \o <<a, b>> = <<Detach(s, TRUE), Forget(s), a, b>>
           /\ <<a, b>> \o RemovalOf(s) \o <<SweepSockets>>
                = <<a, b, Detach(s, TRUE), Forget(s), SweepSockets>>
<1>1. RemovalOf(s) = <<Detach(s, TRUE), Forget(s)>> BY DEF RemovalOf
<1> DEFINE x == Detach(s, TRUE)
           y == Forget(s)
           z == SweepSockets
<1> HIDE DEF x, y, z
<1>2. <<x, y>> \o <<>> = <<x, y>> OBVIOUS
<1>3. <<x, y>> \o <<a>> = <<x, y, a>> BY JoinOne
<1>4. <<x, y>> \o <<a, b>> = <<x, y, a, b>> BY JoinTwo
<1>5. <<a, b>> \o <<x, y>> \o <<z>> = <<a, b, x, y, z>>
  <2>1. <<a, b>> \o <<x, y>> = <<a, b, x, y>> BY JoinTwo
  <2>2. <<a, b, x, y>> \o <<z>> = <<a, b, x, y, z>> BY JoinLast
  <2> QED BY <2>1, <2>2
<1> QED BY <1>1, <1>2, <1>3, <1>4, <1>5 DEF x, y, z

\* A session ends, and nothing else.
Cut(m, s) ==
    /\ m.session = [maps.session EXCEPT ![s] = NoRoom]
    /\ m.rooms = maps.rooms /\ m.members = maps.members
    /\ m.idle = maps.idle

LEMMA CutTyped ==
    ASSUME NEW s \in Socket, maps \in MapsType, Distinct(maps), NEW m,
           m = [maps EXCEPT !.session[s] = NoRoom]
    PROVE  m \in MapsType /\ Distinct(m) /\ Cut(m, s) /\ m.creator = maps.creator /\ m.ttl = maps.ttl
<1>1. /\ m.session = [maps.session EXCEPT ![s] = NoRoom] /\ m.rooms = maps.rooms
      /\ m.members = maps.members /\ m.creator = maps.creator /\ m.ttl = maps.ttl
      /\ m.idle = maps.idle /\ m.known = maps.known
      /\ m = [session |-> m.session, rooms |-> m.rooms, members |-> m.members,
              creator |-> m.creator, ttl |-> m.ttl, idle |-> m.idle, known |-> m.known]
  BY DEF MapsType
<1>2. m.session \in [Socket -> RoomId \cup {NoRoom}] BY <1>1 DEF MapsType
<1>3. m \in MapsType
  <2>1. /\ maps.rooms \in SUBSET RoomId /\ maps.members \in [RoomId -> Seq(Socket)]
        /\ maps.creator \in [RoomId -> Socket \cup {NoSocket}] /\ maps.ttl \in [RoomId -> Int]
        /\ maps.idle \in [Socket -> Nat \cup {Missing}] /\ maps.known \in SUBSET Socket
    BY DEF MapsType
  <2> QED BY <1>1, <1>2, <2>1 DEF MapsType
<1> QED BY <1>1, <1>3 DEF Distinct, Cut

LEMMA CutMaps ==
    ASSUME NEW s \in Socket, NEW m, NEW cs, NEW w, NEW w2, Ran(m, cs, w, w2), Cut(m, s),
           view' = view, transport' = transport
    PROVE  /\ w2.session[s] = NoRoom
           /\ \A x \in Socket : x # s => w2.session[x] = w.session[x]
           /\ w2.rooms = w.rooms
           /\ \A r \in RoomId : w2.members[r] \subseteq w.members[r]
           /\ w2.view = w.view /\ w2.open = w.open /\ w2.absent = w.absent
           /\ Fades(w, w2) /\ SessionsAgree(w2) /\ Supervised(w2)
<1>1. \A r \in RoomId : Mem(m, r) = w.members[r] BY DEF Ran, Cut, Mem
<1>2. /\ w2.session = [w.session EXCEPT ![s] = NoRoom] /\ w2.rooms = w.rooms
      /\ \A r \in RoomId : w2.members[r] \subseteq w.members[r]
      /\ \A r \in w.rooms : w2.members[r] = w.members[r]
  BY <1>1 DEF Ran, After, Cut, WorldType
<1>3. w2.view = w.view /\ w2.open = w.open /\ w2.absent = w.absent BY DEF Ran
<1>4. w.session \in [Socket -> RoomId \cup {NoRoom}] BY DEF Ran, WorldType
<1>5. w2.session[s] = NoRoom /\ \A x \in Socket : x # s => w2.session[x] = w.session[x]
  BY <1>2, <1>4
<1>6. Fades(w, w2) BY <1>2, <1>3, <1>5 DEF Fades
<1>7. SessionsAgree(w) /\ Supervised(w) BY DEF Ran, Holds
<1>8. SessionsAgree(w2) BY <1>2, <1>5, <1>7 DEF SessionsAgree
<1>9. w2.tracked = w.tracked BY DEF Ran, After, Cut, Tracked
<1>10. Supervised(w2) BY <1>3, <1>7, <1>9 DEF Supervised
<1> QED BY <1>2, <1>3, <1>5, <1>6, <1>8, <1>10

LEMMA RunEndSessionKeeps == Inv /\ RunEndSession => Inv'
<1> SUFFICES ASSUME Inv, RunEndSession PROVE Inv' OBVIOUS
<1> DEFINE s == Arg.socket
           m == [maps EXCEPT !.session[s] = NoRoom]
           cs == <<>>
           h == Head(todo)
           w == World
           w2 == World'
<1>0. todo # <<>> /\ h.call = "endSession" /\ h.socket = s
  BY DEF RunEndSession, Calling, Arg
<1>1. maps \in MapsType /\ Distinct(maps) BY MapsTyped
<1>2. s \in Socket
  <2>1. FrameType(h) BY <1>0, HeadFacts
  <2> QED BY <1>0, <2>1 DEF FrameType, OfSocket
<1>3. Leaves(m, cs \o Tail(todo), NoUsage) BY DEF RunEndSession, Continue
<1>4. transport' = transport /\ view' = view BY DEF RunEndSession, Same
<1>5. cs \in Seq({}) /\ \A k \in 1 .. Len(cs) : FrameType(cs[k]) BY EmptySeq
<1>6. m \in MapsType /\ Distinct(m) /\ Cut(m, s)
  <2>1. m = [maps EXCEPT !.session[s] = NoRoom] OBVIOUS
  <2> HIDE DEF m, s
  <2> QED BY <1>1, <1>2, <2>1, CutTyped
<1> HIDE DEF m, s
<1>7. Types(maps', todo', transport', view') /\ Ran(m, cs, w, w2)
  <2> HIDE DEF cs
  <2> QED BY <1>0, <1>3, <1>4, <1>5, <1>6, StateTyped, Running
<1>8. Ready(w2, cs) /\ NewCalls(cs) = {} BY NoCalls
<1> HIDE DEF cs, w, w2, h
<1>9. /\ w2.session[s] = NoRoom
      /\ \A x \in Socket : x # s => w2.session[x] = w.session[x]
      /\ w2.rooms = w.rooms
      /\ w2.view = w.view /\ w2.open = w.open /\ w2.absent = w.absent
      /\ Fades(w, w2) /\ SessionsAgree(w2) /\ Supervised(w2)
  BY <1>2, <1>4, <1>6, <1>7, CutMaps
<1>10. EndSessionGood(w, s) BY <1>0, <1>7 DEF Ran, FrameGood, h
<1>11. w.session[s] = NoRoom \/ Destroying(w2, w.session[s])
  <2>1. Stacked(w) \subseteq Stacked(w2) \cup {h} BY <1>7 DEF Ran, StackOf, h
  <2> QED BY <1>0, <1>10, <2>1 DEF EndSessionGood, Destroying, Ending
<1>12. \A f \in Stacked(w) : f.call = "enterRoom" => f.room \in w.rooms
  BY <1>7, EntryRooms DEF Ran
<1>13. Delivered(w, w2, h, cs) BY <1>0, <1>2, <1>8, <1>9, <1>11, <1>12 DEF Delivered
<1>14. s \in w2.open => BeliefPending(w2, s)
  BY <1>9, <1>10 DEF EndSessionGood, BeliefPending
<1>15. w2.open \subseteq Socket BY <1>7 DEF Ran, WorldType
<1>16. Concerned(w, w2, h) BY <1>0, <1>9, <1>14, <1>15 DEF Concerned
<1>17. Holds(w2)
  BY <1>0, <1>5, <1>7, <1>8, <1>9, <1>13, <1>16, QuietRun DEF h
<1> QED BY <1>7, <1>17 DEF Inv, w2
\* A call that leaves the maps alone and may end connections and beliefs.
Fading(w, w2) ==
    /\ w2.open \subseteq w.open /\ w2.absent = w.absent
    /\ \A x \in Socket : w2.view[x].room \in {w.view[x].room, NoRoom}

LEMMA FadingRun ==
    ASSUME NEW cs, NEW w, NEW w2, Ran(maps, cs, w, w2), Fading(w, w2)
    PROVE  /\ w2.session = w.session /\ w2.rooms = w.rooms
           /\ \A r \in RoomId : w2.members[r] \subseteq w.members[r]
           /\ \A r \in RoomId : r \in w.rooms \/ w2.todo # <<>> => w2.members[r] = w.members[r]
           /\ Fades(w, w2) /\ SessionsAgree(w2) /\ Supervised(w2)
           /\ w2.hub = w.hub \/ w2.todo = <<>>
           /\ \A f \in Stacked(w) : f.call = "enterRoom" => f.room \in w.rooms
<1>1. Kept(maps) BY DEF Kept
<1>2. /\ w2.session = w.session /\ w2.rooms = w.rooms
      /\ \A r \in RoomId : w2.members[r] \subseteq w.members[r]
      /\ \A r \in RoomId : r \in w.rooms \/ w2.todo # <<>> => w2.members[r] = w.members[r]
      /\ SessionsAgree(w2)
      /\ w2.hub = w.hub \/ w2.todo = <<>>
  BY <1>1, KeptMaps
<1>3. Fades(w, w2) BY <1>2 DEF Fades, Fading
<1>4. w2.tracked = w.tracked BY DEF Ran, After
<1>5. Supervised(w2) BY <1>4 DEF Ran, Holds, Supervised, Fading
<1>6. Holds(w) BY DEF Ran
<1> QED BY <1>2, <1>3, <1>5, <1>6, EntryRooms

LEMMA RunCloseKeeps == Inv /\ RunClose => Inv'
<1> SUFFICES ASSUME Inv, RunClose PROVE Inv' OBVIOUS
<1> DEFINE s == Arg.socket
           cs == <<>>
           h == Head(todo)
           w == World
           w2 == World'
<1>0. todo # <<>> /\ h.call = "safeClose" /\ h.socket = s
  BY DEF RunClose, Calling, Arg
<1>1. maps \in MapsType /\ Distinct(maps) BY MapsTyped
<1>2. s \in Socket
  <2>1. FrameType(h) BY <1>0, HeadFacts
  <2> QED BY <1>0, <2>1 DEF FrameType, OfSocket
<1>3. Leaves(maps, cs \o Tail(todo), NoUsage) BY DEF RunClose, Continue
<1>4. /\ transport' = [transport EXCEPT ![s] = IF @ = "open" THEN "closing" ELSE @]
      /\ view' = [view EXCEPT ![s] = NoView]
  BY DEF RunClose
<1>5. cs \in Seq({}) /\ \A k \in 1 .. Len(cs) : FrameType(cs[k]) BY EmptySeq
<1> HIDE DEF s
<1>6. /\ transport \in [Socket -> {"absent", "open", "closing", "broken"}]
      /\ view \in [Socket -> ViewType]
  BY StateTyped
<1>7. NoView \in ViewType /\ NoView.room = NoRoom BY DEF NoView, ViewType
<1>8. /\ transport' \in [Socket -> {"absent", "open", "closing", "broken"}]
      /\ view' \in [Socket -> ViewType]
      /\ \A x \in Socket : x # s => transport'[x] = transport[x] /\ view'[x] = view[x]
      /\ transport'[s] # "open" /\ view'[s] = NoView
      /\ transport'[s] = "absent" <=> transport[s] = "absent"
  BY <1>2, <1>4, <1>6, <1>7
<1>9. Types(maps', todo', transport', view') /\ Ran(maps, cs, w, w2)
  <2> HIDE DEF cs
  <2> QED BY <1>0, <1>1, <1>3, <1>5, <1>8, Running
<1>10. Ready(w2, cs) /\ NewCalls(cs) = {} BY NoCalls
<1> HIDE DEF cs, w, w2, h
<1>11. /\ w2.open \subseteq w.open /\ s \notin w2.open /\ w2.absent = w.absent
       /\ \A x \in Socket : x # s => w2.view[x] = w.view[x]
       /\ w2.view[s].room = NoRoom
  BY <1>2, <1>7, <1>8, <1>9 DEF Ran
<1>12. Fading(w, w2) BY <1>11 DEF Fading
<1>13. /\ w2.session = w.session /\ w2.rooms = w.rooms
       /\ Fades(w, w2) /\ SessionsAgree(w2) /\ Supervised(w2)
       /\ \A f \in Stacked(w) : f.call = "enterRoom" => f.room \in w.rooms
  BY <1>9, <1>12, FadingRun
<1>14. Delivered(w, w2, h, cs) BY <1>0, <1>10, <1>11, <1>13 DEF Delivered
<1>15. w2.open \subseteq Socket BY <1>9 DEF Ran, WorldType
<1>16. Concerned(w, w2, h) BY <1>0, <1>11, <1>13, <1>15 DEF Concerned
<1>17. Holds(w2)
  BY <1>0, <1>5, <1>9, <1>10, <1>11, <1>13, <1>14, <1>16, QuietRun DEF h
<1> QED BY <1>9, <1>17 DEF Inv, w2

\* Nobody is about to enter a room while the hub sweeps or is disposed.
LEMMA NoEntryUnder ==
    ASSUME NEW m, NEW cs, NEW w, NEW w2, Ran(m, cs, w, w2), NEW h, h = Head(todo),
           h.call \notin {"enterRoom", "detachSocketFromRoom", "forget", "endSession"} \cup OfRoom
    PROVE  \A f \in Stacked(w) : f.call # "enterRoom"
BY EntryBelow DEF Elsewhere

LEMMA RunSweepRoomsKeeps == Inv /\ RunSweepRooms => Inv'
<1> SUFFICES ASSUME Inv, RunSweepRooms PROVE Inv' OBVIOUS
<1> DEFINE h == Head(todo)
           w == World
           w2 == World'
<1>0. todo # <<>> /\ h.call = "sweepRooms" BY DEF RunSweepRooms, Calling
<1>1. transport' = transport /\ view' = view BY DEF RunSweepRooms
<1>2. CASE Continue(maps, <<>>)
  <2> DEFINE cs == <<>>
  <2>1. Leaves(maps, cs \o Tail(todo), NoUsage) BY <1>2 DEF Continue
  <2>2. cs \in Seq({}) /\ \A k \in 1 .. Len(cs) : FrameType(cs[k]) BY EmptySeq
  <2>3. Ready(w2, cs) /\ NewCalls(cs) = {} BY NoCalls
  <2> HIDE DEF cs
  <2>4. Types(maps', todo', transport', view') /\ Ran(maps, cs, w, w2) /\ Still(w, w2)
    BY <1>0, <1>1, <2>1, <2>2, StillRun
  <2> HIDE DEF w, w2, h
  <2>5. Holds(w2) BY <1>0, <2>2, <2>3, <2>4, StillQuiet DEF OfSocket, h
  <2> QED BY <2>4, <2>5 DEF Inv, w2
<1>3. ASSUME NEW r \in maps.rooms, Continue(maps, <<Destroy(r), SweepRooms>>) PROVE Inv'
  <2> DEFINE a == Destroy(r)
             b == SweepRooms
             cs == <<a, b>>
  <2>1. Leaves(maps, cs \o Tail(todo), NoUsage) BY <1>3 DEF Continue
  <2>2. r \in RoomId BY MapsTyped DEF MapsType
  <2>3. a.call = "destroyRoom" /\ a.room = r /\ b.call = "sweepRooms"
    BY DEF Destroy, SweepRooms
  <2>4. FrameType(a) /\ FrameType(b)
    BY <2>2, <2>3 DEF FrameType, OfSocket, OfRoom, Others
  <2>5. \A v : FrameGood(v, a, {}) /\ FrameGood(v, b, {a}) BY <2>3 DEF FrameGood
  <2> HIDE DEF a, b
  <2>6. cs \in Seq({a, b}) /\ (\A k \in 1 .. Len(cs) : FrameType(cs[k])) BY <2>4, TwoCalls
  <2>7. Ready(w2, cs) BY <2>3, <2>5, TwoCalls
  <2> HIDE DEF cs
  <2>8. Types(maps', todo', transport', view') /\ Ran(maps, cs, w, w2) /\ Still(w, w2)
    BY <1>0, <1>1, <2>1, <2>6, StillRun
  <2> HIDE DEF w, w2, h
  <2>9. \A f \in Stacked(w) : f.call # "enterRoom"
    BY <1>0, <2>8, NoEntryUnder DEF h, OfRoom
  <2>10. Holds(w2) BY <1>0, <2>6, <2>7, <2>8, <2>9, StillQuiet DEF OfSocket, h
  <2> QED BY <2>8, <2>10 DEF Inv, w2
<1> QED BY <1>2, <1>3 DEF RunSweepRooms

LEMMA RunSweepSocketsKeeps == Inv /\ RunSweepSockets => Inv'
<1> SUFFICES ASSUME Inv, RunSweepSockets PROVE Inv' OBVIOUS
<1> DEFINE h == Head(todo)
           w == World
           w2 == World'
<1>0. todo # <<>> /\ h.call = "sweepSockets" BY DEF RunSweepSockets, Calling
<1>1. transport' = transport /\ view' = view BY DEF RunSweepSockets, Same
<1>2. CASE Continue(maps, <<SweepRooms>>)
  <2> DEFINE a == SweepRooms
             cs == <<a>>
  <2>1. Leaves(maps, cs \o Tail(todo), NoUsage) BY <1>2 DEF Continue
  <2>2. a.call = "sweepRooms" BY DEF SweepRooms
  <2>3. FrameType(a) BY <2>2 DEF FrameType, OfSocket, OfRoom, Others
  <2>4. FrameGood(w2, a, {}) BY <2>2 DEF FrameGood
  <2> HIDE DEF a
  <2>5. cs \in Seq({a}) /\ (\A k \in 1 .. Len(cs) : FrameType(cs[k])) BY <2>3, OneCall
  <2>6. Ready(w2, cs) BY <2>2, <2>4, OneCall
  <2> HIDE DEF cs
  <2>7. Types(maps', todo', transport', view') /\ Ran(maps, cs, w, w2) /\ Still(w, w2)
    BY <1>0, <1>1, <2>1, <2>5, StillRun
  <2> HIDE DEF w, w2, h
  <2>8. \A f \in Stacked(w) : f.call # "enterRoom"
    BY <1>0, <2>7, NoEntryUnder DEF h, OfRoom
  <2>9. Holds(w2) BY <1>0, <2>5, <2>6, <2>7, <2>8, StillQuiet DEF OfSocket, h
  <2> QED BY <2>7, <2>9 DEF Inv, w2
<1>3. ASSUME NEW s \in Socket,
             Continue(maps, <<SendTo(s, ConnectionEnds), Close(s)>> \o RemovalOf(s) \o <<SweepSockets>>)
      PROVE  Inv'
  <2> DEFINE a == SendTo(s, ConnectionEnds)
             b == Close(s)
             c == Detach(s, TRUE)
             d == Forget(s)
             e == SweepSockets
             cs == <<a, b, c, d, e>>
  <2>1. Leaves(maps, cs \o Tail(todo), NoUsage) BY <1>3, Removals DEF Continue
  <2>2. /\ a.call = "send" /\ a.socket = s /\ a.msg.type = "connectionEnds"
        /\ b.call = "safeClose" /\ b.socket = s
        /\ c.call = "detachSocketFromRoom" /\ c.socket = s /\ c.notify = TRUE
        /\ d.call = "forget" /\ d.socket = s
        /\ e = SweepSockets /\ e.call = "sweepSockets"
    BY DEF SendTo, ConnectionEnds, Close, Detach, Forget, SweepSockets
  <2> HIDE DEF a, b, c, d, e
  <2>3. FrameType(a) /\ FrameType(b) /\ FrameType(c) /\ FrameType(d) /\ FrameType(e)
    BY <2>2 DEF FrameType, OfSocket, OfRoom, Others
  <2>4. /\ cs \in Seq({a, b, c, d, e}) /\ (\A k \in 1 .. Len(cs) : FrameType(cs[k]))
        /\ b \in NewCalls(cs) /\ cs # <<>>
    <3>0. cs = <<a, b, c, d, e>> OBVIOUS
    <3> HIDE DEF cs
    <3>1. cs \in Seq({a, b, c, d, e}) BY <3>0, FiveCalls
    <3>2. Len(cs) = 5 BY <3>0, FiveCalls
    <3>3. b \in NewCalls(cs)
      <4>1. cs[2] = b BY <3>0
      <4> QED BY <3>2, <4>1 DEF NewCalls
    <3>4. cs # <<>> BY <3>0, FiveCalls
    <3>5. \A k \in 1 .. 5 : cs[k] \in {a, b, c, d, e} BY <3>0, FiveCalls
    <3> QED BY <2>3, <3>1, <3>2, <3>3, <3>4, <3>5
  <2>5. /\ FrameGood(w2, a, {}) /\ FrameGood(w2, b, {a}) /\ FrameGood(w2, c, {a, b})
        /\ FrameGood(w2, d, {a, b, c}) /\ FrameGood(w2, e, {a, b, c, d})
        => Ready(w2, cs)
    <3>1. cs = <<a, b, c, d, e>> OBVIOUS
    <3> HIDE DEF cs
    <3> QED BY <2>2, <3>1, FiveCalls
  <2> HIDE DEF cs
  <2>6. Types(maps', todo', transport', view') /\ Ran(maps, cs, w, w2) /\ Still(w, w2)
    BY <1>0, <1>1, <2>1, <2>4, StillRun
  <2> HIDE DEF w, w2, h
  <2>7. b \in Stacked(w2) BY <2>4, <2>6 DEF Ran, StackOf
  <2>8. FrameGood(w2, a, {}) BY <2>2, <2>7 DEF FrameGood, SendGood, Is
  <2>9. FrameGood(w2, b, {a}) BY <2>2 DEF FrameGood
  <2>10. FrameGood(w2, c, {a, b}) BY <2>2 DEF FrameGood, DetachGood, CutOff, Is
  <2>11. FrameGood(w2, d, {a, b, c}) BY <2>2 DEF FrameGood, CutOff, Is
  <2>12. FrameGood(w2, e, {a, b, c, d}) BY <2>2 DEF FrameGood
  <2>13. \A f \in Stacked(w) : f.call # "enterRoom"
    BY <1>0, <2>6, NoEntryUnder DEF h, OfRoom
  <2>14. Holds(w2)
    BY <1>0, <2>4, <2>5, <2>6, <2>8, <2>9, <2>10, <2>11, <2>12, <2>13, StillQuiet DEF OfSocket, h
  <2> QED BY <2>6, <2>14 DEF Inv, w2
<1> QED BY <1>2, <1>3 DEF RunSweepSockets, TimedOut

\* The maps when nobody is in them.
LEMMA Emptied ==
    ASSUME NEW none \in [RoomId -> Seq(Socket)], NEW m, m = [EmptyHub EXCEPT !.members = none]
    PROVE  /\ m \in MapsType
           /\ m.session = [s \in Socket |-> NoRoom] /\ m.rooms = {} /\ m.members = none
           /\ m.ttl = [r \in RoomId |-> Missing] /\ m.idle = [s \in Socket |-> Missing]
<1>1. m = [session |-> [s \in Socket |-> NoRoom], rooms |-> {}, members |-> none,
           creator |-> [r \in RoomId |-> NoSocket], ttl |-> [r \in RoomId |-> Missing],
           idle |-> [s \in Socket |-> Missing], known |-> {}]
  BY DEF EmptyHub
<1>2. Missing \in Int BY DEF Missing
<1> DEFINE noSession == [s \in Socket |-> NoRoom]
           noCreator == [r \in RoomId |-> NoSocket]
           noTtl     == [r \in RoomId |-> Missing]
           noIdle    == [s \in Socket |-> Missing]
<1>3. /\ noSession \in [Socket -> RoomId \cup {NoRoom}]
      /\ noCreator \in [RoomId -> Socket \cup {NoSocket}]
      /\ noTtl \in [RoomId -> Int] /\ noIdle \in [Socket -> Nat \cup {Missing}]
  BY <1>2
<1>4. m = [session |-> noSession, rooms |-> {}, members |-> none, creator |-> noCreator,
           ttl |-> noTtl, idle |-> noIdle, known |-> {}]
  BY <1>1
<1> HIDE DEF noSession, noCreator, noTtl, noIdle
<1>5. /\ m.session = noSession /\ m.rooms = {} /\ m.members = none /\ m.creator = noCreator
      /\ m.ttl = noTtl /\ m.idle = noIdle /\ m.known = {}
  BY <1>4
<1>6. m \in MapsType
  <2>1. /\ m.session \in [Socket -> RoomId \cup {NoRoom}]
        /\ m.rooms \in SUBSET RoomId /\ m.members \in [RoomId -> Seq(Socket)]
        /\ m.creator \in [RoomId -> Socket \cup {NoSocket}]
        /\ m.ttl \in [RoomId -> Int] /\ m.idle \in [Socket -> Nat \cup {Missing}] /\ m.known \in SUBSET Socket
    BY <1>3, <1>5
  <2>2. m = [session |-> m.session, rooms |-> m.rooms, members |-> m.members,
             creator |-> m.creator, ttl |-> m.ttl, idle |-> m.idle, known |-> m.known]
    BY <1>4, <1>5
  <2> QED BY <2>1, <2>2 DEF MapsType
<1> QED BY <1>5, <1>6 DEF noSession, noTtl, noIdle

LEMMA RunDisposeKeeps == Inv /\ RunDispose => Inv'
<1> SUFFICES ASSUME Inv, RunDispose PROVE Inv' OBVIOUS
<1> DEFINE h == Head(todo)
           w == World
           w2 == World'
<1>0. todo # <<>> /\ h.call = "disposeNext" /\ Arg = h BY DEF RunDispose, Calling, Arg
<1>1. transport' = transport /\ view' = view BY DEF RunDispose, Same
<1>2. h.sockets \in SUBSET Socket
  <2>1. FrameType(h) BY <1>0, HeadFacts
  <2> QED BY <1>0, <2>1 DEF FrameType
<1>3. ASSUME h.sockets = {}, Continue([EmptyHub EXCEPT !.members = [r \in RoomId |-> <<>>]], <<>>)
      PROVE  Inv'
  <2> DEFINE none == [r \in RoomId |-> <<>>]
             m == [EmptyHub EXCEPT !.members = none]
             cs == <<>>
  <2>0. m = [EmptyHub EXCEPT !.members = none] OBVIOUS
  <2>2. <<>> \in Seq(Socket) /\ DOMAIN <<>> = {} BY EmptySeq
  <2>3. none \in [RoomId -> Seq(Socket)] /\ \A r \in RoomId : DOMAIN none[r] = {} BY <2>2
  <2>4. m \in MapsType /\ m.session = [s \in Socket |-> NoRoom] /\ m.rooms = {} /\ m.members = none
    <3> HIDE DEF m, none
    <3> QED BY <2>0, <2>3, Emptied
  <2>5. Leaves(m, cs \o Tail(todo), NoUsage) BY <1>3 DEF Continue
  <2>6. cs \in Seq({}) /\ \A k \in 1 .. Len(cs) : FrameType(cs[k]) BY EmptySeq
  <2>7. Ready(w2, cs) /\ NewCalls(cs) = {} BY NoCalls
  <2> HIDE DEF cs, m, none
  <2>8. Distinct(m) /\ \A r \in RoomId : Mem(m, r) = {} BY <2>3, <2>4 DEF Distinct, Mem
  <2>9. Types(maps', todo', transport', view') /\ Ran(m, cs, w, w2)
    BY <1>0, <1>1, <2>4, <2>5, <2>6, <2>8, StateTyped, Running
  <2> HIDE DEF w, w2, h
  <2>10. w2.session = [s \in Socket |-> NoRoom] /\ w2.rooms = {} /\ \A r \in RoomId : w2.members[r] = {}
    BY <2>4, <2>8, <2>9 DEF Ran, After
  <2>11. w2.view = w.view /\ w2.open = w.open /\ w2.absent = w.absent BY <1>1, <2>9 DEF Ran
  <2>12. w2.open = {}
    <3>1. DisposeGood(w, h, {}) BY <1>0, <2>9 DEF Ran, FrameGood, h
    <3>2. w.open \subseteq Socket BY <2>9 DEF Ran, WorldType
    <3> QED BY <1>3, <2>11, <3>1, <3>2 DEF DisposeGood, CutOff
  <2>13. Fades(w, w2) /\ SessionsAgree(w2) /\ Supervised(w2)
    BY <2>10, <2>11, <2>12 DEF Fades, SessionsAgree, Supervised
  <2>14. \A f \in Stacked(w) : f.call # "enterRoom"
    BY <1>0, <2>9, NoEntryUnder DEF h, OfRoom
  <2>15. Delivered(w, w2, h, cs) BY <1>0, <2>10, <2>14 DEF Delivered
  <2>16. Concerned(w, w2, h) BY <2>12 DEF Concerned
  <2>17. Holds(w2)
    BY <1>0, <2>6, <2>7, <2>9, <2>11, <2>13, <2>15, <2>16, QuietRun DEF h
  <2> QED BY <2>9, <2>17 DEF Inv, w2
<1>4. ASSUME NEW s \in h.sockets,
             Continue(maps, <<SendTo(s, ConnectionEnds), Close(s), DisposeNext(h.sockets \ {s})>>)
      PROVE  Inv'
  <2> DEFINE S == h.sockets
             a == SendTo(s, ConnectionEnds)
             b == Close(s)
             c == DisposeNext(S \ {s})
             cs == <<a, b, c>>
  <2>1. Leaves(maps, cs \o Tail(todo), NoUsage) BY <1>4 DEF Continue
  <2>2. /\ a.call = "send" /\ a.socket = s /\ a.msg.type = "connectionEnds"
        /\ b.call = "safeClose" /\ b.socket = s
        /\ c.call = "disposeNext" /\ c.sockets = S \ {s}
    BY DEF SendTo, ConnectionEnds, Close, DisposeNext
  <2>s. s \in Socket /\ S \in SUBSET Socket BY <1>2, <1>4
  <2>t. \A x : x \in S => x = s \/ x \in c.sockets BY <2>2
  <2> HIDE DEF a, b, c, S
  <2>3. FrameType(a) /\ FrameType(b) /\ FrameType(c)
    BY <2>2, <2>s DEF FrameType, OfSocket, OfRoom, Others
  <2>4. cs \in Seq({a, b, c}) /\ (\A k \in 1 .. Len(cs) : FrameType(cs[k])) /\ b \in NewCalls(cs)
    <3>1. cs \in Seq({a, b, c}) BY ThreeCalls
    <3>2. Len(cs) = 3 BY ThreeCalls
    <3>3. cs[1] = a /\ cs[2] = b /\ cs[3] = c OBVIOUS
    <3> HIDE DEF cs
    <3>4. \A k \in 1 .. 3 : k = 1 \/ k = 2 \/ k = 3 OBVIOUS
    <3> QED BY <2>3, <3>1, <3>2, <3>3, <3>4 DEF NewCalls
  <2>5. FrameGood(w2, a, {}) /\ FrameGood(w2, b, {a}) /\ FrameGood(w2, c, {a, b}) => Ready(w2, cs)
    BY <2>2, ThreeCalls
  <2> HIDE DEF cs
  <2>6. Types(maps', todo', transport', view') /\ Ran(maps, cs, w, w2) /\ Still(w, w2)
    BY <1>0, <1>1, <2>1, <2>4, StillRun
  <2> HIDE DEF w, w2
  <2>7. b \in Stacked(w2) BY <2>4, <2>6 DEF Ran, StackOf
  <2>8. FrameGood(w2, a, {}) BY <2>2, <2>7 DEF FrameGood, SendGood, Is
  <2>9. FrameGood(w2, b, {a}) BY <2>2 DEF FrameGood
  <2>10. FrameGood(w2, c, {a, b})
    <3>1. DisposeGood(w, h, {}) BY <1>0, <2>6 DEF Ran, FrameGood
    <3>2. \A x \in Socket : x \in S \/ x \notin w2.open
      BY <2>6, <3>1 DEF DisposeGood, CutOff, Still, S
    <3>3. DisposeGood(w2, c, {a, b}) BY <2>2, <2>t, <3>2 DEF DisposeGood, CutOff, Is
    <3> QED BY <2>2, <3>3 DEF FrameGood
  <2> HIDE DEF h
  <2>11. \A f \in Stacked(w) : f.call # "enterRoom"
    BY <1>0, <2>6, NoEntryUnder DEF h, OfRoom
  <2>12. Holds(w2)
    BY <1>0, <2>4, <2>5, <2>6, <2>8, <2>9, <2>10, <2>11, StillQuiet DEF OfSocket, h
  <2> QED BY <2>6, <2>12 DEF Inv, w2
<1> QED BY <1>0, <1>3, <1>4 DEF RunDispose

Lacks(p, q, e, S) ==
    /\ p \in Seq(S)
    /\ \A i, j \in DOMAIN p : p[i] = p[j] => i = j
    /\ {p[i] : i \in DOMAIN p} = {q[i] : i \in DOMAIN q} \ {e}

\* Deleting a socket from a room's Set takes it out and leaves the others.
LEMMA FirstRemoved ==
    ASSUME NEW S, NEW q \in Seq(S), NEW e, \A i, j \in DOMAIN q : q[i] = q[j] => i = j,
           NEW p, p = RemoveFirst(q, e)
    PROVE  Lacks(p, q, e, S)
<1>0. DOMAIN q = 1 .. Len(q) /\ Len(q) \in Nat /\ \A i \in 1 .. Len(q) : q[i] \in S
  BY LenProperties, ElementOfSeq
<1>1. CASE ~ \E i \in 1 .. Len(q) : q[i] = e
  <2>1. p = q BY <1>1 DEF RemoveFirst
  <2> QED BY <1>0, <1>1, <2>1 DEF Lacks
<1>2. CASE \E i \in 1 .. Len(q) : q[i] = e
  <2> DEFINE I == {i \in 1 .. Len(q) : q[i] = e}
             k == Min(I)
             a == SubSeq(q, 1, k - 1)
             b == SubSeq(q, k + 1, Len(q))
  <2>1. I \in SUBSET Nat /\ I # {} BY <1>2
  <2>2. p = a \o b BY <1>2 DEF RemoveFirst, RemoveAt, SelectInSeq
  <2>3. k \in 1 .. Len(q) /\ q[k] = e
    <3>1. k \in I
      <4> HIDE DEF I
      <4> QED BY <2>1, MinOfNaturals
    <3> QED BY <3>1
  <2> HIDE DEF I, k
  <2>4. /\ a \in Seq(S) /\ Len(a) = k - 1
        /\ \A i \in 1 .. k - 1 : a[i] = q[i]
    <3>1. \A i \in 1 .. k - 1 : q[i] \in S BY <1>0, <2>3
    <3>2. k - 1 \in Int /\ 1 \in Int BY <2>3
    <3>3. /\ a \in Seq(S) /\ Len(a) = IF 1 <= k - 1 THEN (k - 1) - 1 + 1 ELSE 0
          /\ \A i \in 1 .. (k - 1) - 1 + 1 : a[i] = q[1 + i - 1]
      BY <3>1, <3>2, SubSeqProperties
    <3> HIDE DEF a
    <3>4. Len(a) = k - 1 BY <2>3, <3>3
    <3>5. ASSUME NEW i \in 1 .. k - 1 PROVE a[i] = q[i]
      <4>1. i \in 1 .. (k - 1) - 1 + 1 /\ 1 + i - 1 = i BY <2>3
      <4> QED BY <3>3, <4>1
    <3> QED BY <3>3, <3>4, <3>5
  <2>5. /\ b \in Seq(S) /\ Len(b) = Len(q) - k
        /\ \A i \in 1 .. Len(q) - k : b[i] = q[k + i]
    <3>1. \A i \in k + 1 .. Len(q) : q[i] \in S BY <1>0, <2>3
    <3>2. k + 1 \in Int /\ Len(q) \in Int BY <1>0, <2>3
    <3>3. /\ b \in Seq(S) /\ Len(b) = IF k + 1 <= Len(q) THEN Len(q) - (k + 1) + 1 ELSE 0
          /\ \A i \in 1 .. Len(q) - (k + 1) + 1 : b[i] = q[(k + 1) + i - 1]
      BY <3>1, <3>2, SubSeqProperties
    <3> HIDE DEF b
    <3>4. Len(b) = Len(q) - k
      <4>1. Len(b) = IF k + 1 <= Len(q) THEN Len(q) - (k + 1) + 1 ELSE 0 BY <3>3
      <4>2. k \in Nat /\ Len(q) \in Nat /\ k <= Len(q) BY <1>0, <2>3
      <4> QED BY <4>1, <4>2
    <3>5. ASSUME NEW i \in 1 .. Len(q) - k PROVE b[i] = q[k + i]
      <4>1. i \in 1 .. Len(q) - (k + 1) + 1 /\ (k + 1) + i - 1 = k + i BY <1>0, <2>3
      <4> QED BY <3>3, <4>1
    <3> QED BY <3>3, <3>4, <3>5
  <2> HIDE DEF a, b
  <2>6. /\ p \in Seq(S) /\ Len(p) = Len(q) - 1
        /\ \A i \in 1 .. Len(q) - 1 : p[i] = IF i <= k - 1 THEN a[i] ELSE b[i - (k - 1)]
    <3>1. /\ a \o b \in Seq(S) /\ Len(a \o b) = Len(a) + Len(b)
          /\ \A i \in 1 .. Len(a) + Len(b) :
                (a \o b)[i] = IF i <= Len(a) THEN a[i] ELSE b[i - Len(a)]
      <4>1. a \in Seq(S) /\ b \in Seq(S) BY <2>4, <2>5
      <4> QED BY <4>1, Concatenated
    <3>2. Len(a) + Len(b) = Len(q) - 1 BY <1>0, <2>3, <2>4, <2>5
    <3> QED BY <2>2, <2>4, <3>1, <3>2
  <2>7. DOMAIN p = 1 .. Len(q) - 1 BY <2>6, LenProperties
  <2> DEFINE at(i) == IF i < k THEN i ELSE i + 1
  <2>8. \A i \in DOMAIN p : at(i) \in DOMAIN q /\ at(i) # k /\ p[i] = q[at(i)]
    <3> SUFFICES ASSUME NEW i \in 1 .. Len(q) - 1
                 PROVE  at(i) \in 1 .. Len(q) /\ at(i) # k /\ p[i] = q[at(i)]
      BY <1>0, <2>7
    <3>1. CASE i < k
      <4>1. i <= k - 1 /\ i \in 1 .. k - 1 BY <1>0, <2>3, <3>1
      <4> QED BY <1>0, <2>3, <2>4, <2>6, <3>1, <4>1
    <3>2. CASE ~(i < k)
      <4>1. ~(i <= k - 1) /\ i - (k - 1) \in 1 .. Len(q) - k /\ k + (i - (k - 1)) = i + 1
        BY <1>0, <2>3, <3>2
      <4>2. p[i] = b[i - (k - 1)] BY <2>6, <4>1
      <4>3. p[i] = q[i + 1] BY <2>5, <4>1, <4>2
      <4>4. i + 1 \in 1 .. Len(q) /\ i + 1 # k BY <1>0, <2>3, <3>2
      <4> QED BY <3>2, <4>3, <4>4
    <3> QED BY <3>1, <3>2
  <2>9. ASSUME NEW i \in DOMAIN p, NEW j \in DOMAIN p, p[i] = p[j] PROVE i = j
    <3>1. at(i) = at(j) BY <2>8, <2>9
    <3>2. i \in Nat /\ j \in Nat BY <1>0, <2>7
    <3> QED BY <2>3, <3>1, <3>2
  <2>10. {p[i] : i \in DOMAIN p} \subseteq {q[i] : i \in DOMAIN q} \ {e}
    <3> SUFFICES ASSUME NEW i \in DOMAIN p
                 PROVE  p[i] \in {q[j] : j \in DOMAIN q} /\ p[i] # e
      OBVIOUS
    <3>1. at(i) \in DOMAIN q /\ at(i) # k /\ p[i] = q[at(i)] BY <2>8
    <3> HIDE DEF at
    <3> QED BY <1>0, <2>3, <3>1
  <2>11. ASSUME NEW j \in DOMAIN q, q[j] # e PROVE \E i \in DOMAIN p : p[i] = q[j]
    <3> DEFINE i == IF j < k THEN j ELSE j - 1
    <3>1. j # k BY <2>3, <2>11
    <3>2. i \in 1 .. Len(q) - 1 /\ at(i) = j BY <1>0, <2>3, <3>1
    <3> QED BY <2>7, <2>8, <3>2
  <2>12. {q[j] : j \in DOMAIN q} \ {e} \subseteq {p[i] : i \in DOMAIN p} BY <2>11
  <2> QED BY <2>6, <2>9, <2>10, <2>12 DEF Lacks
<1> QED BY <1>1, <1>2

\* Maps d are maps m without room r, whose Set a loop may still go over.
Without(d, m, r) ==
    /\ d \in MapsType /\ Distinct(d)
    /\ d.session = m.session /\ d.rooms = m.rooms \ {r} /\ d.members = m.members
    /\ d.idle = m.idle

LEMMA RoomDeleted ==
    ASSUME NEW m \in MapsType, Distinct(m), NEW r \in RoomId, NEW d, d = DeleteRoom(m, r)
    PROVE  Without(d, m, r)
<1> DEFINE creator == [m.creator EXCEPT ![r] = NoSocket]
           ttl     == [m.ttl EXCEPT ![r] = Missing]
<1>1. /\ m.session \in [Socket -> RoomId \cup {NoRoom}] /\ m.rooms \in SUBSET RoomId
      /\ m.members \in [RoomId -> Seq(Socket)] /\ m.creator \in [RoomId -> Socket \cup {NoSocket}]
      /\ m.ttl \in [RoomId -> Int] /\ m.idle \in [Socket -> Nat \cup {Missing}] /\ m.known \in SUBSET Socket
  BY DEF MapsType
<1>2. /\ d.session = m.session /\ d.rooms = m.rooms \ {r} /\ d.members = m.members
      /\ d.creator = creator /\ d.ttl = ttl /\ d.idle = m.idle /\ d.known = m.known
      /\ d = [session |-> d.session, rooms |-> d.rooms, members |-> d.members,
              creator |-> d.creator, ttl |-> d.ttl, idle |-> d.idle, known |-> d.known]
  BY DEF MapsType, DeleteRoom
<1>3. Missing \in Int BY DEF Missing
<1>4. creator \in [RoomId -> Socket \cup {NoSocket}] /\ ttl \in [RoomId -> Int]
  BY <1>1, <1>3
<1> HIDE DEF creator, ttl
<1>5. d \in MapsType BY <1>1, <1>2, <1>4 DEF MapsType
<1> QED BY <1>2, <1>5 DEF Distinct, Without

\* What a departure leaves of the maps.
Left(m, s) ==
    LET r == maps.session[s]
    IN  /\ m \in MapsType /\ Distinct(m)
        /\ m.session = [maps.session EXCEPT ![s] = NoRoom]
        /\ m.idle = maps.idle
        /\ \A x \in RoomId : Mem(m, x) = IF x = r THEN Mem(maps, x) \ {s} ELSE Mem(maps, x)
        /\ m.rooms = IF Mem(m, r) = {} THEN maps.rooms \ {r} ELSE maps.rooms

LEMMA RoomEmptied ==
    ASSUME NEW s \in Socket, NEW r \in RoomId, r = maps.session[s], NEW out, NEW m, Without(m, out, r),
           out.session = [maps.session EXCEPT ![s] = NoRoom],
           out.rooms = maps.rooms, out.idle = maps.idle, Mem(out, r) = {},
           \A x \in RoomId : Mem(out, x) = IF x = r THEN Mem(maps, x) \ {s} ELSE Mem(maps, x)
    PROVE  Left(m, s)
<1>1. m \in MapsType /\ Distinct(m) /\ m.session = out.session BY DEF Without
<1>2. m.rooms = out.rooms \ {r} /\ m.members = out.members /\ m.idle = out.idle BY DEF Without
<1>3. \A x \in RoomId : Mem(m, x) = Mem(out, x) BY <1>2 DEF Mem
<1>4. m.rooms = IF Mem(m, r) = {} THEN maps.rooms \ {r} ELSE maps.rooms BY <1>2, <1>3
<1>5. \A x \in RoomId : Mem(m, x) = IF x = r THEN Mem(maps, x) \ {s} ELSE Mem(maps, x)
  BY <1>3
<1> QED BY <1>1, <1>2, <1>4, <1>5 DEF Left

Departs(cut, out, m, s, r) ==
    /\ cut = [maps EXCEPT !.session[s] = NoRoom]
    /\ out = [cut EXCEPT !.members[r] = RemoveFirst(@, s)]
    /\ m = IF out.members[r] = <<>> THEN DeleteRoom(out, r) ELSE out

LEMMA SocketLeft ==
    ASSUME NEW s \in Socket, maps \in MapsType, Distinct(maps),
           NEW r, r = maps.session[s], r # NoRoom,
           NEW cut, NEW out, NEW m, Departs(cut, out, m, s, r)
    PROVE  Left(m, s)
<1>a. cut = [maps EXCEPT !.session[s] = NoRoom] BY DEF Departs
<1>b. out = [cut EXCEPT !.members[r] = RemoveFirst(@, s)] BY DEF Departs
<1>c. m = IF out.members[r] = <<>> THEN DeleteRoom(out, r) ELSE out BY DEF Departs
<1>1. r \in RoomId /\ maps.members \in [RoomId -> Seq(Socket)] BY DEF MapsType
<1>2. /\ cut \in MapsType /\ Distinct(cut) /\ Cut(cut, s)
      /\ cut.creator = maps.creator /\ cut.ttl = maps.ttl
  BY <1>a, CutTyped
<1> DEFINE q == maps.members[r]
           p == RemoveFirst(q, s)
<1>3. /\ p \in Seq(Socket)
      /\ \A i, j \in DOMAIN p : p[i] = p[j] => i = j
      /\ {p[i] : i \in DOMAIN p} = {q[i] : i \in DOMAIN q} \ {s}
  <2>1. q \in Seq(Socket) /\ \A i, j \in DOMAIN q : q[i] = q[j] => i = j BY <1>1 DEF Distinct
  <2>2. p = RemoveFirst(q, s) OBVIOUS
  <2> HIDE DEF p, q
  <2>3. Lacks(p, q, s, Socket) BY <2>1, <2>2, FirstRemoved
  <2> QED BY <2>3 DEF Lacks
<1>4. Mem(maps, r) = {q[i] : i \in DOMAIN q} BY DEF Mem
<1> HIDE DEF p
<1>5. /\ out.session = cut.session /\ out.rooms = maps.rooms
      /\ out.members = [maps.members EXCEPT ![r] = p]
      /\ out.creator = cut.creator /\ out.ttl = cut.ttl /\ out.idle = maps.idle /\ out.known = cut.known
      /\ out = [session |-> out.session, rooms |-> out.rooms, members |-> out.members,
                creator |-> out.creator, ttl |-> out.ttl, idle |-> out.idle, known |-> out.known]
  <2>1. cut.members[r] = maps.members[r] /\ cut.members = maps.members
    BY <1>2 DEF Cut
  <2>2. out = [cut EXCEPT !.members = [cut.members EXCEPT ![r] = p]] BY <1>b, <2>1 DEF p
  <2>3. out.members = [cut.members EXCEPT ![r] = p] BY <1>2, <2>2 DEF MapsType
  <2>4. /\ out.session = cut.session /\ out.rooms = cut.rooms
        /\ out.creator = cut.creator /\ out.ttl = cut.ttl /\ out.idle = cut.idle /\ out.known = cut.known
        /\ out = [session |-> out.session, rooms |-> out.rooms, members |-> out.members,
                  creator |-> out.creator, ttl |-> out.ttl, idle |-> out.idle, known |-> out.known]
    BY <1>2, <2>2 DEF MapsType
  <2> QED BY <1>2, <2>1, <2>3, <2>4 DEF Cut
<1>6. /\ out.members \in [RoomId -> Seq(Socket)]
      /\ out.members[r] = p
      /\ \A x \in RoomId : x # r => out.members[x] = maps.members[x]
  BY <1>1, <1>3, <1>5
<1>7. out \in MapsType
  <2>1. /\ cut.session \in [Socket -> RoomId \cup {NoRoom}] /\ cut.rooms \in SUBSET RoomId
        /\ cut.creator \in [RoomId -> Socket \cup {NoSocket}]
        /\ cut.ttl \in [RoomId -> Int] /\ cut.idle \in [Socket -> Nat \cup {Missing}] /\ cut.known \in SUBSET Socket
    BY <1>2 DEF MapsType
  <2> QED BY <1>2, <1>5, <1>6, <2>1 DEF MapsType, Cut
<1>8. Distinct(out) BY <1>3, <1>6 DEF Distinct
<1>9. \A x \in RoomId : Mem(out, x) = IF x = r THEN Mem(maps, x) \ {s} ELSE Mem(maps, x)
  <2>1. Mem(out, r) = {p[i] : i \in DOMAIN p} BY <1>6 DEF Mem
  <2>2. Mem(out, r) = Mem(maps, r) \ {s} BY <1>3, <1>4, <2>1
  <2>3. \A x \in RoomId : x # r => Mem(out, x) = Mem(maps, x) BY <1>6 DEF Mem
  <2> QED BY <2>2, <2>3
<1>10. out.members[r] = <<>> <=> Mem(out, r) = {}
  <2>1. DOMAIN p = 1 .. Len(p) /\ Len(p) \in Nat BY <1>3, LenProperties
  <2>2. p = <<>> <=> Len(p) = 0 BY <1>3, EmptySeq
  <2>3. Len(p) # 0 => 1 \in DOMAIN p BY <2>1
  <2>4. Len(p) = 0 => DOMAIN p = {} BY <2>1
  <2>5. Mem(out, r) = {p[i] : i \in DOMAIN p} BY <1>6 DEF Mem
  <2>6. Mem(out, r) = {} <=> DOMAIN p = {} BY <2>5
  <2> QED BY <1>6, <2>2, <2>3, <2>4, <2>6
<1>11. out.session = [maps.session EXCEPT ![s] = NoRoom] BY <1>2, <1>5 DEF Cut
<1>12. CASE out.members[r] = <<>>
  <2>1. m = DeleteRoom(out, r) BY <1>c, <1>12
  <2>2. r \in RoomId BY <1>1
  <2>3. Without(m, out, r) BY <1>7, <1>8, <2>1, <2>2, RoomDeleted
  <2> HIDE DEF p, q
  <2>4. Mem(out, r) = {} BY <1>10, <1>12
  <2>5. out.rooms = maps.rooms /\ out.idle = maps.idle BY <1>5
  <2>6. r = maps.session[s] OBVIOUS
  <2> QED BY <1>9, <1>11, <2>2, <2>3, <2>4, <2>5, <2>6, RoomEmptied
<1>13. CASE out.members[r] # <<>>
  <2>1. m = out BY <1>c, <1>13
  <2>2. out.rooms = IF Mem(out, r) = {} THEN maps.rooms \ {r} ELSE maps.rooms
    BY <1>5, <1>10, <1>13
  <2> HIDE DEF p, q
  <2> QED BY <1>5, <1>7, <1>8, <1>9, <1>11, <2>1, <2>2 DEF Left
<1> QED BY <1>12, <1>13

\* A client that is detached knows, or is about to enter another room.
LEMMA DetachedBelief ==
    ASSUME NEW m, NEW cs, NEW w, NEW w2, Ran(m, cs, w, w2), NEW h, h = Head(todo),
           h.call = "detachSocketFromRoom", w2.session[h.socket] = NoRoom,
           w2.open = w.open, w2.view = w.view, h.socket \in w2.open
    PROVE  BeliefPending(w2, h.socket)
<1>1. DetachGood(w, h, {}) BY DEF Ran, FrameGood
<1>2. CASE h.notify BY <1>1, <1>2 DEF DetachGood, CutOff, BeliefPending
<1>3. CASE ~h.notify
  <2>1. PICK g \in Stacked(w) : Entering(g, h.socket) BY <1>1, <1>3 DEF DetachGood
  <2>2. g # h BY <2>1 DEF Entering
  <2>3. Stacked(w) \subseteq Stacked(w2) \cup {h} BY DEF Ran, StackOf
  <2> QED BY <2>1, <2>2, <2>3 DEF BeliefPending
<1> QED BY <1>2, <1>3

LEMMA DetachCuts ==
    ASSUME Inv, Calling("detachSocketFromRoom"), Same, NEW S, NEW cs \in Seq(S),
           \A k \in 1 .. Len(cs) : FrameType(cs[k]),
           Continue([maps EXCEPT !.session[Head(todo).socket] = NoRoom], cs),
           Ready(World', cs),
           \A f \in NewCalls(cs) : Ending(f, maps.session[Head(todo).socket]),
           maps.session[Head(todo).socket] # NoRoom => NewCalls(cs) # {}
    PROVE  Inv'
<1> DEFINE h == Head(todo)
           s == h.socket
           m == [maps EXCEPT !.session[s] = NoRoom]
           w == World
           w2 == World'
<1>0. todo # <<>> /\ h.call = "detachSocketFromRoom" /\ h.socket = s BY DEF Calling
<1>1. maps \in MapsType /\ Distinct(maps) BY MapsTyped
<1>2. s \in Socket
  <2>1. FrameType(h) BY <1>0, HeadFacts
  <2> QED BY <1>0, <2>1 DEF FrameType, OfSocket
<1>3. Leaves(m, cs \o Tail(todo), NoUsage) BY DEF Continue
<1>4. transport' = transport /\ view' = view BY DEF Same
<1>5. Ready(w2, cs) OBVIOUS
<1>a. \A f \in NewCalls(cs) : Ending(f, maps.session[s]) OBVIOUS
<1>b. maps.session[s] # NoRoom => NewCalls(cs) # {} OBVIOUS
<1>6. m \in MapsType /\ Distinct(m) /\ Cut(m, s)
  <2>1. m = [maps EXCEPT !.session[s] = NoRoom] OBVIOUS
  <2> HIDE DEF m, s
  <2> QED BY <1>1, <1>2, <2>1, CutTyped
<1> HIDE DEF m
<1>7. Types(maps', todo', transport', view') /\ Ran(m, cs, w, w2)
  BY <1>0, <1>3, <1>4, <1>6, StateTyped, Running
<1> HIDE DEF s, w, w2, h
<1>9. /\ w2.session[s] = NoRoom
      /\ \A x \in Socket : x # s => w2.session[x] = w.session[x]
      /\ w2.rooms = w.rooms
      /\ w2.view = w.view /\ w2.open = w.open /\ w2.absent = w.absent
      /\ Fades(w, w2) /\ SessionsAgree(w2) /\ Supervised(w2)
  BY <1>2, <1>4, <1>6, <1>7, CutMaps
<1>10. w.session = maps.session BY <1>7 DEF Ran
<1>11. w.session[s] # NoRoom => Destroying(w2, w.session[s])
  <2>1. NewCalls(cs) \subseteq Stacked(w2) BY <1>7 DEF Ran, StackOf
  <2> QED BY <1>10, <1>a, <1>b, <2>1 DEF Destroying
<1>12. \A f \in Stacked(w) : f.call = "enterRoom" => f.room \in w.rooms
  BY <1>7, EntryRooms DEF Ran
<1>13. \A f \in Stacked(w) : f.call = "enterRoom" => w.session[s] # f.room
  <2>1. \A f \in Stacked(w) : f.call = "enterRoom" => Elsewhere(w, h, f.room)
    BY <1>0, <1>7, EntryBelow DEF h
  <2> QED BY <1>0, <2>1 DEF Elsewhere
<1>14. \A f \in Stacked(w) : f.call = "enterRoom" => \A g \in NewCalls(cs) : Elsewhere(w2, g, f.room)
  BY <1>10, <1>13, <1>a DEF Elsewhere, Ending, OfRoom
<1>15. Delivered(w, w2, h, cs) BY <1>0, <1>2, <1>9, <1>11, <1>12, <1>14 DEF Delivered
<1>16. s \in w2.open => BeliefPending(w2, s)
  BY <1>0, <1>7, <1>9, DetachedBelief DEF h
<1>17. w2.open \subseteq Socket BY <1>7 DEF Ran, WorldType
<1>18. Concerned(w, w2, h) BY <1>0, <1>9, <1>16, <1>17 DEF Concerned
<1>19. Holds(w2)
  BY <1>0, <1>5, <1>7, <1>9, <1>15, <1>18, QuietRun DEF h
<1> QED BY <1>7, <1>19 DEF Inv, w2

LEMMA DetachLeaves ==
    ASSUME Inv, Calling("detachSocketFromRoom"), Same, NEW S, NEW cs \in Seq(S),
           \A k \in 1 .. Len(cs) : FrameType(cs[k]),
           NEW s, s = Head(todo).socket, NEW r, r = maps.session[s], r # NoRoom,
           NEW m, Left(m, s), Continue(m, cs),
           Ready(World', cs),
           \A f \in NewCalls(cs) : Broadcasts(f, r)
    PROVE  Inv'
<1> DEFINE h == Head(todo)
           w == World
           w2 == World'
<1>0. todo # <<>> /\ h.call = "detachSocketFromRoom" /\ h.socket = s BY DEF Calling
<1>1. maps \in MapsType /\ Distinct(maps) BY MapsTyped
<1>2. s \in Socket
  <2>1. FrameType(h) BY <1>0, HeadFacts
  <2> QED BY <1>0, <2>1 DEF FrameType, OfSocket
<1>3. Leaves(m, cs \o Tail(todo), NoUsage) BY DEF Continue
<1>4. transport' = transport /\ view' = view BY DEF Same
<1>5. Ready(w2, cs) OBVIOUS
<1>6. /\ m \in MapsType /\ Distinct(m)
      /\ m.session = [maps.session EXCEPT ![s] = NoRoom] /\ m.idle = maps.idle
      /\ \A x \in RoomId : Mem(m, x) = IF x = r THEN Mem(maps, x) \ {s} ELSE Mem(maps, x)
      /\ m.rooms = IF Mem(m, r) = {} THEN maps.rooms \ {r} ELSE maps.rooms
  BY DEF Left
<1>7. Types(maps', todo', transport', view') /\ Ran(m, cs, w, w2)
  BY <1>0, <1>3, <1>4, <1>6, StateTyped, Running
<1> HIDE DEF w, w2, h
<1>8. r \in RoomId /\ maps.session \in [Socket -> RoomId \cup {NoRoom}] BY <1>1, <1>2 DEF MapsType
<1>9. /\ w.session = maps.session /\ w.rooms = maps.rooms
      /\ \A x \in RoomId : w.members[x] = Mem(maps, x)
      /\ w2.session = m.session /\ w2.rooms = m.rooms
      /\ \A x \in RoomId : w2.members[x] \subseteq Mem(m, x)
      /\ \A x \in m.rooms : w2.members[x] = Mem(m, x)
      /\ w2.tracked = w.tracked
      /\ w2.view = w.view /\ w2.open = w.open /\ w2.absent = w.absent
  <2>1. m.rooms \subseteq RoomId BY <1>6 DEF MapsType
  <2>2. Tracked(m) = Tracked(maps) BY <1>6 DEF Tracked
  <2> QED BY <1>4, <1>7, <2>1, <2>2 DEF Ran, After
<1>10. w2.session[s] = NoRoom /\ \A x \in Socket : x # s => w2.session[x] = w.session[x]
  BY <1>2, <1>6, <1>8, <1>9
<1>11. \A x \in RoomId : w2.members[x] \subseteq w.members[x] BY SMTT(30), <1>6, <1>9
<1>12. w2.rooms \subseteq w.rooms /\ \A x \in w.rooms : x # r => x \in w2.rooms BY <1>6, <1>9
<1>13. Fades(w, w2) BY <1>9, <1>10, <1>11, <1>12 DEF Fades
<1>14. SessionsAgree(w) /\ Supervised(w) BY <1>7 DEF Ran, Holds
<1>15. SessionsAgree(w2)
  <2> SUFFICES ASSUME NEW x \in Socket, w2.session[x] # NoRoom
               PROVE  w2.session[x] \in w2.rooms /\ x \in w2.members[w2.session[x]]
    BY DEF SessionsAgree
  <2>1. x # s /\ w2.session[x] = w.session[x] BY <1>10
  <2>2. w.session[x] \in w.rooms /\ x \in w.members[w.session[x]] BY <1>14, <2>1 DEF SessionsAgree
  <2>3. w.session[x] \in RoomId BY <1>8, <1>9, <2>1
  <2>4. x \in Mem(m, w.session[x]) BY <1>6, <1>9, <2>1, <2>2, <2>3
  <2>5. w.session[x] \in m.rooms BY <1>6, <1>9, <2>2, <2>4
  <2> QED BY <1>9, <2>1, <2>4, <2>5
<1>16. Supervised(w2) BY <1>9, <1>14 DEF Supervised
<1>17. \A f \in Stacked(w) : f.call = "enterRoom" => f.room \in w.rooms
  BY <1>7, EntryRooms DEF Ran
<1>18. \A f \in Stacked(w) : f.call = "enterRoom" => f.room # r
  <2>1. \A f \in Stacked(w) : f.call = "enterRoom" => Elsewhere(w, h, f.room)
    BY <1>0, <1>7, EntryBelow DEF h
  <2> QED BY <1>0, <1>9, <2>1 DEF Elsewhere
<1>19. \A f \in Stacked(w) : f.call = "enterRoom" => \A g \in NewCalls(cs) : Elsewhere(w2, g, f.room)
  BY <1>18 DEF Elsewhere, Broadcasts, OfRoom
<1>20. s \notin w2.members[r] BY <1>6, <1>8, <1>9
<1>21. \A x \in Socket : w2.session[x] # w.session[x] => x = s /\ w.session[x] = r
  BY <1>9, <1>10
<1>22. Delivered(w, w2, h, cs)
  BY <1>0, <1>10, <1>12, <1>17, <1>18, <1>19, <1>20, <1>21 DEF Delivered
<1>23. s \in w2.open => BeliefPending(w2, s)
  BY <1>0, <1>7, <1>9, <1>10, DetachedBelief DEF h
<1>24. w2.open \subseteq Socket BY <1>7 DEF Ran, WorldType
<1>25. Concerned(w, w2, h) BY <1>0, <1>9, <1>10, <1>23, <1>24 DEF Concerned
<1>26. Holds(w2)
  BY <1>0, <1>5, <1>7, <1>9, <1>13, <1>15, <1>16, <1>22, <1>25, QuietRun DEF h
<1> QED BY <1>7, <1>26 DEF Inv, w2

LEMMA RunDetachKeeps == Inv /\ RunDetach => Inv'
<1> SUFFICES ASSUME Inv, RunDetach PROVE Inv' OBVIOUS
<1>0. Calling("detachSocketFromRoom") /\ Same BY SMTT(30) DEF RunDetach
<1> DEFINE h == Head(todo)
           s == h.socket
           r == maps.session[s]
           cut == [maps EXCEPT !.session[s] = NoRoom]
           out == [cut EXCEPT !.members[r] = RemoveFirst(@, s)]
           m == IF out.members[r] = <<>> THEN DeleteRoom(out, r) ELSE out
<1>1. \/ r = NoRoom /\ Continue(cut, <<>>)
      \/ r # NoRoom /\ Continue(cut, <<Destroy(r)>>)
      \/ r # NoRoom /\ Continue(m, IF h.notify THEN <<Broadcast(r)>> ELSE <<>>)
  BY DEF RunDetach, Arg
<1>2. maps \in MapsType /\ Distinct(maps) BY MapsTyped
<1>3. s \in Socket
  <2>1. todo # <<>> /\ h.call = "detachSocketFromRoom" BY <1>0 DEF Calling
  <2>2. FrameType(h) BY <2>1, HeadFacts
  <2> QED BY <2>1, <2>2 DEF FrameType, OfSocket
<1>4. r # NoRoom => r \in RoomId BY <1>2, <1>3 DEF MapsType
<1>5. CASE r = NoRoom /\ Continue(cut, <<>>)
  <2> DEFINE cs == <<>>
  <2>1. cs \in Seq({}) /\ \A k \in 1 .. Len(cs) : FrameType(cs[k]) BY EmptySeq
  <2>2. Ready(World', cs) /\ NewCalls(cs) = {} BY NoCalls
  <2>3. Continue([maps EXCEPT !.session[Head(todo).socket] = NoRoom], cs) BY <1>5
  <2>4. maps.session[Head(todo).socket] = NoRoom BY <1>5
  <2> HIDE DEF cs
  <2> QED BY <1>0, <2>1, <2>2, <2>3, <2>4, DetachCuts
<1>6. CASE r # NoRoom /\ Continue(cut, <<Destroy(r)>>)
  <2> DEFINE a == Destroy(r)
             cs == <<a>>
  <2>1. a.call = "destroyRoom" /\ a.room = r BY DEF Destroy
  <2>2. FrameType(a) BY <1>4, <1>6, <2>1 DEF FrameType, OfSocket, OfRoom, Others
  <2>3. FrameGood(World', a, {}) BY <2>1 DEF FrameGood
  <2>4. Ending(a, r) BY <2>1 DEF Ending
  <2>5. Continue([maps EXCEPT !.session[Head(todo).socket] = NoRoom], cs) BY <1>6
  <2> HIDE DEF a
  <2>6. /\ cs \in Seq({a}) /\ (\A k \in 1 .. Len(cs) : FrameType(cs[k]))
        /\ NewCalls(cs) = {a} /\ Ready(World', cs)
    BY <2>1, <2>2, <2>3, OneCall
  <2>7. \A f \in NewCalls(cs) : Ending(f, maps.session[Head(todo).socket]) BY <2>4, <2>6
  <2>8. NewCalls(cs) # {} BY <2>6
  <2> HIDE DEF cs
  <2> QED BY <1>0, <2>5, <2>6, <2>7, <2>8, DetachCuts
<1>7. CASE r # NoRoom /\ Continue(m, IF h.notify THEN <<Broadcast(r)>> ELSE <<>>)
  <2>6. Departs(cut, out, m, s, r) BY DEF Departs
  <2> HIDE DEF cut, out, m
  <2> DEFINE a == Broadcast(r)
             cs == IF h.notify THEN <<a>> ELSE <<>>
  <2>1. a.call = "broadcastUserUpdated" /\ a.room = r BY DEF Broadcast
  <2>2. FrameType(a) BY <1>4, <1>7, <2>1 DEF FrameType, OfSocket, OfRoom, Others
  <2>3. FrameGood(World', a, {}) BY <2>1 DEF FrameGood
  <2>4. Broadcasts(a, r) BY <2>1 DEF Broadcasts
  <2>5. Continue(m, cs) BY <1>7
  <2>7. Left(m, s)
    <3> HIDE DEF s, h
    <3> QED BY <1>2, <1>3, <1>7, <2>6, SocketLeft
  <2> HIDE DEF a
  <2>8. /\ cs \in Seq({a}) /\ (\A k \in 1 .. Len(cs) : FrameType(cs[k]))
        /\ NewCalls(cs) \subseteq {a} /\ Ready(World', cs)
    <3>1. CASE h.notify
      <4>1. cs = <<a>> BY <3>1
      <4>2. <<a>> \in Seq({a}) /\ (\A k \in 1 .. Len(<<a>>) : FrameType(<<a>>[k]))
        BY <2>2, OneCall
      <4>3. NewCalls(<<a>>) = {a} /\ Ready(World', <<a>>) BY <2>1, <2>3, OneCall
      <4> HIDE DEF cs
      <4> QED BY <4>1, <4>2, <4>3
    <3>2. CASE ~h.notify
      <4>1. cs = <<>> BY <3>2
      <4>2. <<>> \in Seq({a}) /\ Len(<<>>) = 0 BY EmptySeq
      <4>3. NewCalls(<<>>) = {} /\ Ready(World', <<>>) BY NoCalls
      <4> HIDE DEF cs
      <4>4. NewCalls(cs) = {} /\ Ready(World', cs) BY <4>1, <4>3
      <4>5. cs \in Seq({a}) /\ Len(cs) = 0 BY <4>1, <4>2
      <4>6. \A k \in 1 .. Len(cs) : FALSE BY <4>5
      <4> QED BY <4>4, <4>5, <4>6
    <3> QED BY <3>1, <3>2
  <2>9. \A f \in NewCalls(cs) : Broadcasts(f, r) BY <2>4, <2>8
  <2>10. s = Head(todo).socket OBVIOUS
  <2> HIDE DEF cs, s
  <2> QED BY <1>0, <1>7, <2>5, <2>7, <2>8, <2>9, <2>10, DetachLeaves
<1> QED BY <1>1, <1>5, <1>6, <1>7

(***************************************************************************)
(* Sending.                                                                *)
(***************************************************************************)

LEMMA Reading ==
    ASSUME NEW v \in ViewType, NEW msg,
           msg.type = "userUpdated" => msg.users \in SUBSET Socket
    PROVE  /\ msg.type \in {"connectionEnds", "serverError"} => Reads(v, msg) = NoView
           /\ msg.type = "roomDestroyed" /\ msg.room = v.room => Reads(v, msg) = NoView
           /\ msg.type = "roomDestroyed" /\ msg.room # v.room => Reads(v, msg) = v
           /\ msg.type = "userUpdated" /\ msg.room = v.room =>
                 Reads(v, msg) = [room |-> v.room, users |-> msg.users]
           /\ msg.type = "userUpdated" /\ msg.room # v.room => Reads(v, msg) = v
           /\ msg.type \in {"reply", "content"} => Reads(v, msg) = v
           /\ msg.type = "entered" /\ msg.room # v.room =>
                 Reads(v, msg) = [room |-> msg.room, users |-> {}]
           /\ msg.type = "entered" /\ msg.room = v.room => Reads(v, msg) = v
           /\ msg.type \in {"reply", "serverError", "connectionEnds", "roomDestroyed",
                            "userUpdated", "content"} =>
                 Reads(v, msg) \in ViewType /\ Reads(v, msg).room \in {v.room, NoRoom}
<1>1. NoView \in ViewType /\ NoView.room = NoRoom BY DEF NoView, ViewType
<1>2. [v EXCEPT !.users = msg.users] = [room |-> v.room, users |-> msg.users] BY DEF ViewType
<1>3. msg.type = "userUpdated" => [room |-> v.room, users |-> msg.users] \in ViewType
  BY DEF ViewType
<1>4. CASE msg.type \in {"connectionEnds", "serverError"} BY <1>1, <1>4 DEF Reads
<1>5. CASE msg.type = "roomDestroyed" BY <1>1, <1>5 DEF Reads
<1>6. CASE msg.type = "userUpdated" BY <1>2, <1>3, <1>6 DEF Reads
<1>7. CASE msg.type = "entered" BY <1>7 DEF Reads
<1>8. CASE msg.type \in {"reply", "content"} BY <1>8 DEF Reads
<1> QED BY <1>4, <1>5, <1>6, <1>7, <1>8

\* What a send of message msg to s does, but for the calls it makes.
Voices(s, msg) ==
    /\ transport' = transport
    /\ view' \in [Socket -> ViewType]
    /\ \A x \in Socket : x # s \/ transport[s] # "open" => view'[x] = view[x]
    /\ transport[s] = "open" => view'[s] = Reads(view[s], msg)
    /\ \A x \in Socket : view'[x].room \in {view[x].room, NoRoom}

LEMMA Voiced ==
    ASSUME view \in [Socket -> ViewType], NEW s \in Socket, NEW msg,
           msg.type \in {"reply", "serverError", "connectionEnds", "roomDestroyed",
                         "userUpdated", "content"},
           msg.type = "userUpdated" => msg.users \in SUBSET Socket,
           NEW cs, Sends(s, msg, cs)
    PROVE  Voices(s, msg)
<1>1. /\ transport' = transport
      /\ view' = IF transport[s] = "open" THEN [view EXCEPT ![s] = Reads(@, msg)] ELSE view
  BY DEF Sends
<1>2. view[s] \in ViewType OBVIOUS
<1>3. Reads(view[s], msg) \in ViewType /\ Reads(view[s], msg).room \in {view[s].room, NoRoom}
  BY <1>2, Reading
<1>4. view' \in [Socket -> ViewType] BY <1>1, <1>3
<1>5. \A x \in Socket : x # s \/ transport[s] # "open" => view'[x] = view[x] BY <1>1
<1>6. transport[s] = "open" => view'[s] = Reads(view[s], msg) BY <1>1
<1> QED BY <1>1, <1>3, <1>4, <1>5, <1>6 DEF Voices

\* The world after a send, whatever calls it made.
Spoken(w, w2, s, msg) ==
    /\ w2.session = w.session /\ w2.rooms = w.rooms
    /\ \A r \in RoomId : w2.members[r] \subseteq w.members[r]
    /\ \A r \in RoomId : r \in w.rooms \/ w2.todo # <<>> => w2.members[r] = w.members[r]
    /\ w2.open = w.open /\ w2.absent = w.absent
    /\ \A x \in Socket : x # s \/ s \notin w.open => w2.view[x] = w.view[x]
    /\ s \in w.open => w2.view[s] = Reads(w.view[s], msg)
    /\ Fades(w, w2) /\ SessionsAgree(w2) /\ Supervised(w2)
    /\ \A f \in Stacked(w) : f.call = "enterRoom" => f.room \in w.rooms

LEMMA Speaking ==
    ASSUME Inv, todo # <<>>, NEW s \in Socket, NEW msg, Voices(s, msg),
           NEW S, NEW cs \in Seq(S), \A k \in 1 .. Len(cs) : FrameType(cs[k]),
           Leaves(maps, cs \o Tail(todo), NoUsage)
    PROVE  /\ Types(maps', todo', transport', view')
           /\ Ran(maps, cs, World, World')
           /\ Spoken(World, World', s, msg)
<1> DEFINE w == World
           w2 == World'
<1>1. maps \in MapsType /\ Distinct(maps) BY MapsTyped
<1>2. /\ transport' = transport
      /\ transport' \in [Socket -> {"absent", "open", "closing", "broken"}]
      /\ view' \in [Socket -> ViewType]
      /\ \A x \in Socket : x # s \/ transport[s] # "open" => view'[x] = view[x]
      /\ transport[s] = "open" => view'[s] = Reads(view[s], msg)
      /\ \A x \in Socket : view'[x].room \in {view[x].room, NoRoom}
  BY StateTyped DEF Voices
<1>3. Types(maps', todo', transport', view') /\ Ran(maps, cs, w, w2)
  BY <1>1, <1>2, Running
<1> HIDE DEF w, w2
<1>4. w2.open = w.open /\ w2.absent = w.absent BY <1>2, <1>3 DEF Ran
<1>5. /\ w.view = view /\ w2.view = view'
      /\ s \in w.open <=> transport[s] = "open"
  BY <1>3 DEF Ran
<1>6. Fading(w, w2) BY <1>2, <1>4, <1>5 DEF Fading
<1>7. /\ w2.session = w.session /\ w2.rooms = w.rooms
      /\ \A r \in RoomId : w2.members[r] \subseteq w.members[r]
      /\ \A r \in RoomId : r \in w.rooms \/ w2.todo # <<>> => w2.members[r] = w.members[r]
      /\ Fades(w, w2) /\ SessionsAgree(w2) /\ Supervised(w2)
      /\ \A f \in Stacked(w) : f.call = "enterRoom" => f.room \in w.rooms
  BY <1>3, <1>6, FadingRun
<1>8. Spoken(w, w2, s, msg) BY <1>2, <1>4, <1>5, <1>7 DEF Spoken
<1> QED BY <1>3, <1>8 DEF w, w2

\* What a send that throws calls, good wherever the socket is not open.
LEMMA RemovalGood ==
    ASSUME NEW s \in Socket, NEW a, NEW b, a = Detach(s, TRUE), b = Forget(s)
    PROVE  /\ FrameType(a) /\ FrameType(b)
           /\ a.call = "detachSocketFromRoom" /\ a.socket = s
           /\ b.call = "forget" /\ b.socket = s
           /\ \A w, above : s \notin w.open => FrameGood(w, a, above) /\ FrameGood(w, b, above)
<1>1. /\ a.call = "detachSocketFromRoom" /\ a.socket = s /\ a.notify = TRUE
      /\ b.call = "forget" /\ b.socket = s
  BY DEF Detach, Forget
<1>2. FrameType(a) /\ FrameType(b) BY <1>1 DEF FrameType, OfSocket, OfRoom, Others
<1>3. \A w, above : s \notin w.open => FrameGood(w, a, above)
  BY <1>1 DEF FrameGood, DetachGood, CutOff
<1>4. \A w, above : s \notin w.open => FrameGood(w, b, above)
  BY <1>1 DEF FrameGood, CutOff
<1> QED BY <1>1, <1>2, <1>3, <1>4

LEMMA RunSendKeeps == Inv /\ RunSend /\ Head(todo).msg.type # "entered" => Inv'
<1> SUFFICES ASSUME Inv, RunSend, Head(todo).msg.type # "entered" PROVE Inv' OBVIOUS
<1> DEFINE h == Head(todo)
           s == h.socket
           msg == h.msg
           w == World
           w2 == World'
<1>0. todo # <<>> /\ h.call = "send" /\ Sends(s, msg, <<>>) BY DEF RunSend, Calling, Arg
<1>1. s \in Socket /\ msg.type \in {"reply", "serverError", "connectionEnds"}
  <2>1. FrameType(h) BY <1>0, HeadFacts
  <2> QED BY <1>0, <2>1 DEF FrameType, OfSocket
<1>2. Voices(s, msg)
  <2> HIDE DEF s, msg
  <2> QED BY <1>0, <1>1, StateTyped, Voiced
<1>3. ASSUME NEW S, NEW cs \in Seq(S), \A k \in 1 .. Len(cs) : FrameType(cs[k]),
             Leaves(maps, cs \o Tail(todo), NoUsage),
             \A W2 : s \notin W2.open \/ cs = <<>> => Ready(W2, cs),
             transport[s] = "broken" \/ cs = <<>>
      PROVE  Inv'
  <2> HIDE DEF s, msg
  <2>1. Types(maps', todo', transport', view') /\ Ran(maps, cs, w, w2) /\ Spoken(w, w2, s, msg)
    BY <1>0, <1>1, <1>2, <1>3, Speaking
  <2>2. transport[s] = "broken" => s \notin w2.open
    BY <2>1 DEF Spoken, Ran
  <2> HIDE DEF w, w2
  <2>3. Ready(w2, cs) BY <1>3, <2>2
  <2>4. /\ w2.session = w.session /\ w2.rooms = w.rooms
        /\ w2.open = w.open /\ w2.absent = w.absent
        /\ \A x \in Socket : x # s => w2.view[x] = w.view[x]
        /\ s \in w.open => w2.view[s] = Reads(w.view[s], msg)
        /\ Fades(w, w2) /\ SessionsAgree(w2) /\ Supervised(w2)
    BY <2>1 DEF Spoken
  <2>5. s = h.socket /\ msg = h.msg BY DEF s, msg
  <2> HIDE DEF h
  <2>6. \A f \in Stacked(w) : f.call # "enterRoom"
    BY <1>0, <2>1, NoEntryUnder DEF h, OfRoom
  <2>7. Delivered(w, w2, h, cs) BY <1>0, <2>4, <2>6 DEF Delivered
  <2>8. w.view \in [Socket -> ViewType] /\ w2.open \subseteq Socket
    BY <2>1 DEF Ran, WorldType
  <2>9. SendGood(w, h, {}) BY <1>0, <2>1 DEF Ran, FrameGood, h
  <2>10. Stacked(w) \subseteq Stacked(w2) \cup {h} BY <2>1 DEF Ran, StackOf, h
  <2>11. BeliefsPending(w) BY <2>1 DEF Ran, Holds
  <2>12. NoView.room = NoRoom BY DEF NoView
  <2>13. ASSUME s \in w2.open PROVE BeliefPending(w2, s)
    <3>1. CASE msg.type = "reply"
      <4>1. w2.view[s] = w.view[s] BY <1>1, <2>4, <2>8, <2>13, <3>1, Reading
      <4>2. BeliefPending(w, s) BY <2>4, <2>11, <2>13 DEF BeliefsPending
      <4>3. \A f \in Stacked(w) : f.call # "send" \/ f.msg.type # "reply" => f \in Stacked(w2)
        BY <1>0, <2>5, <2>10, <3>1
      <4> QED BY <2>4, <4>1, <4>2, <4>3 DEF BeliefPending, Entering, Is
    <3>2. CASE msg.type = "serverError"
      <4>1. w2.view[s] = NoView BY <1>1, <2>4, <2>8, <2>13, <3>2, Reading
      <4>2. w.session[s] = NoRoom BY <2>5, <2>9, <3>2 DEF SendGood
      <4> QED BY <2>4, <2>12, <4>1, <4>2 DEF BeliefPending
    <3>3. CASE msg.type = "connectionEnds"
      <4>1. w2.view[s] = NoView BY <1>1, <2>4, <2>8, <2>13, <3>3, Reading
      <4>2. PICK g \in Stacked(w) : Is(g, "safeClose", s) BY <2>5, <2>9, <3>3 DEF SendGood
      <4>3. g \in Stacked(w2) BY <1>0, <2>10, <4>2 DEF Is
      <4> QED BY <2>12, <4>1, <4>2, <4>3 DEF BeliefPending, Is
    <3> QED BY <1>1, <3>1, <3>2, <3>3
  <2>14. ASSUME NEW x \in w2.open, w2.view[x].users # w.view[x].users PROVE ListPending(w2, x)
    <3>1. x = s BY <2>4, <2>8, <2>14
    <3>2. msg.type \in {"connectionEnds", "serverError"}
      BY <1>1, <2>4, <2>8, <2>14, <3>1, Reading
    <3>3. w2.view[s] = NoView BY <1>1, <2>4, <2>8, <2>14, <3>1, <3>2, Reading
    <3> QED BY <2>12, <3>1, <3>3 DEF ListPending
  <2>15. ASSUME NEW x \in w2.open, w2.view[x].room # w.view[x].room PROVE x = s
    BY <2>4, <2>8, <2>15
  <2>16. Concerned(w, w2, h)
    BY <1>0, <2>4, <2>5, <2>13, <2>14, <2>15 DEF Concerned
  <2>17. msg.type # "entered" BY <1>1
  <2>18. Holds(w2)
    BY <1>0, <2>1, <2>3, <2>4, <2>5, <2>7, <2>16, <2>17, <1>3, QuietRun DEF h
  <2> QED BY <2>1, <2>18 DEF Inv, w2
<1>4. CASE transport[s] = "broken"
  <2> DEFINE a == Detach(s, TRUE)
             b == Forget(s)
             cs == <<a, b>>
  <2>1. Leaves(maps, cs \o Tail(todo), NoUsage) BY <1>0, <1>4, Removals DEF Sends, Continue
  <2>2. /\ FrameType(a) /\ FrameType(b)
        /\ a.call = "detachSocketFromRoom" /\ a.socket = s
        /\ b.call = "forget" /\ b.socket = s
        /\ \A W, above : s \notin W.open => FrameGood(W, a, above) /\ FrameGood(W, b, above)
    <3>1. s \in Socket BY <1>1
    <3> HIDE DEF s
    <3> QED BY <3>1, RemovalGood
  <2> HIDE DEF a, b, s
  <2>3. cs \in Seq({a, b}) /\ (\A k \in 1 .. Len(cs) : FrameType(cs[k])) BY <2>2, TwoCalls
  <2>4. \A W2 : s \notin W2.open => Ready(W2, cs) BY <2>2, TwoCalls
  <2>5. cs # <<>> BY TwoCalls
  <2> HIDE DEF cs
  <2> QED BY <1>3, <1>4, <2>1, <2>3, <2>4, <2>5
<1>5. CASE transport[s] # "broken"
  <2> DEFINE cs == <<>>
  <2>1. Leaves(maps, cs \o Tail(todo), NoUsage) BY <1>0, <1>5 DEF Sends, Continue
  <2>2. cs \in Seq({}) /\ \A k \in 1 .. Len(cs) : FrameType(cs[k]) BY EmptySeq
  <2>3. \A W2 : Ready(W2, cs) BY NoCalls
  <2>4. cs = <<>> OBVIOUS
  <2> HIDE DEF cs
  <2> QED BY <1>3, <2>1, <2>2, <2>3, <2>4
<1> QED BY <1>4, <1>5

\* A loop over a room's Set comes to a member it has not visited, or to its end.
LEMMA NextMember ==
    ASSUME maps \in MapsType, NEW r \in RoomId, NEW did
    PROVE  /\ Unvisited(r, did) = {} => Mem(maps, r) \subseteq did
           /\ Unvisited(r, did) # {} =>
                 NextOf(r, did) \in Mem(maps, r) /\ NextOf(r, did) \notin did
<1> DEFINE q == maps.members[r]
           I == Unvisited(r, did)
<1>1. I = {i \in DOMAIN q : q[i] \notin did} BY DEF Unvisited
<1>2. q \in Seq(Socket) BY DEF MapsType
<1>3. Mem(maps, r) = {q[i] : i \in DOMAIN q} BY DEF Mem
<1>4. NextOf(r, did) = q[Min(I)] BY DEF NextOf
<1> HIDE DEF I, q
<1>5. I \in SUBSET Nat
  <2>1. DOMAIN q = 1 .. Len(q) /\ Len(q) \in Nat BY <1>2, LenProperties
  <2> QED BY <1>1, <2>1
<1>6. ASSUME I # {} PROVE NextOf(r, did) \in Mem(maps, r) /\ NextOf(r, did) \notin did
  <2>1. Min(I) \in I BY <1>5, <1>6, MinOfNaturals
  <2> QED BY <1>1, <1>3, <1>4, <2>1
<1>7. I = {} => Mem(maps, r) \subseteq did BY <1>1, <1>3
<1> QED BY <1>6, <1>7 DEF I

LEMMA RoomEnds ==
    ASSUME Inv, Calling("destroyNext"), Unvisited(Head(todo).room, Head(todo).did) = {}, Same,
           Continue(DeleteRoom(maps, Head(todo).room), <<>>)
    PROVE  Inv'
<1> DEFINE h == Head(todo)
           r == h.room
           m == DeleteRoom(maps, r)
           cs == <<>>
           w == World
           w2 == World'
<1>0. todo # <<>> /\ h.call = "destroyNext" BY DEF Calling
<1>1. maps \in MapsType /\ Distinct(maps) BY MapsTyped
<1>2. r \in RoomId
  <2>1. FrameType(h) BY <1>0, HeadFacts
  <2> QED BY <1>0, <2>1 DEF FrameType, OfRoom
<1>3. Mem(maps, r) \subseteq h.did
  <2>1. Unvisited(r, h.did) = {} OBVIOUS
  <2> HIDE DEF h
  <2> QED BY <1>1, <1>2, <2>1, NextMember
<1>4. Leaves(m, cs \o Tail(todo), NoUsage) BY DEF Continue
<1>5. transport' = transport /\ view' = view BY DEF Same
<1>6. cs \in Seq({}) /\ \A k \in 1 .. Len(cs) : FrameType(cs[k]) BY EmptySeq
<1>7. Ready(w2, cs) /\ NewCalls(cs) = {} BY NoCalls
<1>8. Without(m, maps, r)
  <2>1. m = DeleteRoom(maps, r) OBVIOUS
  <2> HIDE DEF m, r
  <2> QED BY <1>1, <1>2, <2>1, RoomDeleted
<1> HIDE DEF m, cs
<1>9. /\ m \in MapsType /\ Distinct(m)
      /\ m.session = maps.session /\ m.rooms = maps.rooms \ {r} /\ m.members = maps.members
      /\ m.idle = maps.idle
  BY <1>8 DEF Without
<1>10. Types(maps', todo', transport', view') /\ Ran(m, cs, w, w2)
  BY <1>0, <1>4, <1>5, <1>6, <1>9, StateTyped, Running
<1> HIDE DEF w, w2, h, r
<1>r. h.room = r BY DEF r
<1>11. /\ w.session = maps.session /\ w.rooms = maps.rooms
       /\ \A x \in RoomId : w.members[x] = Mem(maps, x)
       /\ w2.session = w.session /\ w2.rooms = w.rooms \ {r}
       /\ \A x \in RoomId : w2.members[x] \subseteq w.members[x]
       /\ \A x \in w2.rooms : w2.members[x] = w.members[x]
       /\ w2.tracked = w.tracked
       /\ w2.view = w.view /\ w2.open = w.open /\ w2.absent = w.absent
  <2>1. m.rooms \subseteq RoomId BY <1>9 DEF MapsType
  <2>2. Tracked(m) = Tracked(maps) BY <1>9 DEF Tracked
  <2>3. \A x : Mem(m, x) = Mem(maps, x) BY <1>9 DEF Mem
  <2> QED BY <1>5, <1>9, <1>10, <2>1, <2>2, <2>3 DEF Ran, After
<1>12. SessionsAgree(w) /\ Supervised(w) /\ WorldType(w) BY <1>10 DEF Ran, Holds
<1>13. \A x \in Socket : w.session[x] # r
  <2>1. DestroyNextGood(w, h, {}) BY <1>0, <1>10 DEF Ran, FrameGood, h
  <2>2. \A x \in h.did : w.session[x] # r BY <1>r, <2>1 DEF DestroyNextGood
  <2>3. w.members[r] \subseteq h.did BY <1>2, <1>3, <1>11
  <2>4. r # NoRoom BY <1>2, RoomAssumption
  <2> QED BY <1>12, <2>2, <2>3, <2>4 DEF SessionsAgree
<1>14. SessionsAgree(w2) BY <1>11, <1>12, <1>13 DEF SessionsAgree
<1>15. Fades(w, w2) BY <1>11 DEF Fades
<1>16. Supervised(w2) BY <1>11, <1>12 DEF Supervised
<1>17. \A f \in Stacked(w) : f.call = "enterRoom" => f.room \in w2.rooms
  <2>1. \A f \in Stacked(w) : f.call = "enterRoom" => f.room \in w.rooms
    BY <1>10, EntryRooms DEF Ran
  <2>2. \A f \in Stacked(w) : f.call = "enterRoom" => Elsewhere(w, h, f.room)
    BY <1>0, <1>10, EntryBelow DEF h
  <2> QED BY <1>0, <1>r, <1>11, <2>1, <2>2 DEF Elsewhere, OfRoom
<1>18. Delivered(w, w2, h, cs) BY <1>0, <1>r, <1>7, <1>11, <1>17 DEF Delivered
<1>19. Concerned(w, w2, h) BY <1>0, <1>11 DEF Concerned, OfSocket
<1>20. Holds(w2)
  BY <1>0, <1>6, <1>7, <1>10, <1>11, <1>14, <1>15, <1>16, <1>18, <1>19, QuietRun DEF h
<1> QED BY <1>10, <1>20 DEF Inv, w2

\* One turn of the loop that ends a room: s is told, and e and d are still to come.
DestroyTurn(r, s, e, d) ==
    /\ r = Head(todo).room /\ s \in Mem(maps, r)
    /\ Voices(s, Destroyed(r))
    /\ e = EndSession(s) /\ d = DestroyNext(r, Head(todo).did \cup {s})

LEMMA DestroyNextSends ==
    ASSUME Inv, Calling("destroyNext"), NEW r, NEW s, NEW e, NEW d, DestroyTurn(r, s, e, d),
           NEW S, NEW cs \in Seq(S), \A k \in 1 .. Len(cs) : FrameType(cs[k]),
           Leaves(maps, cs \o Tail(todo), NoUsage),
           d \in NewCalls(cs), e \in NewCalls(cs),
           \A f \in NewCalls(cs) : \/ f \in {e, d}
                                   \/ f.call \in {"detachSocketFromRoom", "forget"} /\ f.socket = s,
           \A W : /\ \A above : FrameGood(W, e, above)
                  /\ \A above : e \in above => FrameGood(W, d, above)
                  /\ transport[s] = "broken" => s \notin W.open
                  => Ready(W, cs)
    PROVE  Inv'
<1> DEFINE h == Head(todo)
           msg == Destroyed(r)
           w == World
           w2 == World'
<1>0. todo # <<>> /\ h.call = "destroyNext" /\ h.room = r BY DEF Calling, DestroyTurn
<1>1. r \in RoomId /\ h.did \in SUBSET Socket
  <2>1. FrameType(h) BY <1>0, HeadFacts
  <2> QED BY <1>0, <2>1 DEF FrameType, OfRoom
<1>2. s \in Socket
  <2>1. maps.members[r] \in Seq(Socket) BY <1>1, MapsTyped DEF MapsType
  <2>2. s \in Mem(maps, r) BY DEF DestroyTurn
  <2> QED BY <2>1, <2>2, LenProperties, ElementOfSeq DEF Mem
<1>3. Types(maps', todo', transport', view') /\ Ran(maps, cs, w, w2) /\ Spoken(w, w2, s, msg)
  <2>1. Voices(s, msg) BY DEF DestroyTurn
  <2> HIDE DEF msg
  <2> QED BY <1>0, <1>2, <2>1, Speaking
<1>4. /\ e.call = "endSession" /\ e.socket = s
      /\ d.call = "destroyNext" /\ d.room = r /\ d.did = h.did \cup {s}
      /\ msg.type = "roomDestroyed" /\ msg.room = r
  BY DEF DestroyTurn, EndSession, DestroyNext, Destroyed
<1>5. transport[s] = "broken" => s \notin w2.open BY <1>3 DEF Spoken, Ran
<1>6. s \in Mem(maps, r) BY DEF DestroyTurn
<1>7. d \in NewCalls(cs) OBVIOUS
<1> HIDE DEF w, w2, h, msg
<1>8. /\ w2.session = w.session /\ w2.rooms = w.rooms
      /\ \A x \in RoomId : w2.members[x] \subseteq w.members[x]
      /\ w2.open = w.open /\ w2.absent = w.absent
      /\ \A x \in Socket : x # s => w2.view[x] = w.view[x]
      /\ s \in w.open => w2.view[s] = Reads(w.view[s], msg)
      /\ Fades(w, w2) /\ SessionsAgree(w2) /\ Supervised(w2)
      /\ \A f \in Stacked(w) : f.call = "enterRoom" => f.room \in w.rooms
  BY <1>3 DEF Spoken
<1>9. LoopGood(w, r) /\ DestroyNextGood(w, h, {}) BY <1>0, <1>3 DEF Ran, FrameGood, h
<1>10. w.view \in [Socket -> ViewType] /\ w2.open \subseteq Socket BY <1>3 DEF Ran, WorldType
<1>11. s \in w.members[r] BY <1>1, <1>3, <1>6 DEF Ran
<1>12. s \in w2.open => w2.view[s].room = NoRoom
  <2> SUFFICES ASSUME s \in w2.open PROVE w2.view[s].room = NoRoom OBVIOUS
  <2>1. w.view[s].room \in {r, NoRoom} BY <1>8, <1>9, <1>11 DEF LoopGood
  <2>2. NoView.room = NoRoom BY DEF NoView
  <2>3. w2.view[s] = Reads(w.view[s], msg) BY <1>8
  <2>4. w.view[s] \in ViewType BY <1>2, <1>10
  <2>5. \/ Reads(w.view[s], msg) = NoView
        \/ (Reads(w.view[s], msg) = w.view[s] /\ w.view[s].room # r)
    <3>1. msg.type = "userUpdated" => msg.users \in SUBSET Socket BY <1>4
    <3> DEFINE v == w.view[s]
    <3>2. v \in ViewType BY <2>4
    <3> HIDE DEF v
    <3>3. CASE v.room = r
      <4>1. msg.type = "roomDestroyed" /\ msg.room = v.room BY <1>4, <3>3
      <4>2. Reads(v, msg) = NoView BY <3>1, <3>2, <4>1, Reading
      <4> QED BY <4>2 DEF v
    <3>4. CASE v.room # r
      <4>1. msg.type = "roomDestroyed" /\ msg.room # v.room BY <1>4, <3>4
      <4>2. Reads(v, msg) = v BY <3>1, <3>2, <4>1, Reading
      <4> QED BY <3>4, <4>2 DEF v
    <3> QED BY <3>3, <3>4
  <2> QED BY <2>1, <2>2, <2>3, <2>5
<1>13. NewCalls(cs) \subseteq Stacked(w2) BY <1>3 DEF Ran, StackOf
<1>14. Destroying(w2, r) BY <1>4, <1>7, <1>13 DEF Destroying, Ending
<1>15. LoopGood(w2, r)
  <2>1. w.members[r] \subseteq Socket BY <1>1, <1>3 DEF Ran, WorldType
  <2>2. w2.members[r] \subseteq w.members[r] BY <1>1, <1>8
  <2> QED BY <1>8, <1>9, <2>1, <2>2 DEF LoopGood, Fades
<1>16. \A above : FrameGood(w2, e, above)
  <2>1. w.session[s] \in {r, NoRoom} BY <1>9, <1>11 DEF LoopGood
  <2>2. EndSessionGood(w2, s) BY <1>8, <1>12, <1>14, <2>1 DEF EndSessionGood
  <2> QED BY <1>4, <2>2 DEF FrameGood
<1>17. ASSUME NEW above, e \in above PROVE FrameGood(w2, d, above)
  <2>1. \A x \in h.did : w2.session[x] # r BY <1>0, <1>8, <1>9 DEF DestroyNextGood
  <2>2. Is(e, "endSession", s) BY <1>4 DEF Is
  <2>3. DestroyNextGood(w2, d, above) BY <1>4, <1>17, <2>1, <2>2 DEF DestroyNextGood
  <2> QED BY <1>4, <1>15, <2>3 DEF FrameGood
<1>18. Ready(w2, cs) BY <1>5, <1>16, <1>17
<1>19. \A f \in Stacked(w) : f.call = "enterRoom" => f.room # r
  <2>1. \A f \in Stacked(w) : f.call = "enterRoom" => Elsewhere(w, h, f.room)
    BY <1>0, <1>3, EntryBelow DEF h
  <2> QED BY <1>0, <2>1 DEF Elsewhere, OfRoom
<1>20. ASSUME NEW f \in Stacked(w), f.call = "enterRoom", NEW g \in NewCalls(cs)
       PROVE  Elsewhere(w2, g, f.room)
  <2>1. w.session[s] \in {r, NoRoom} BY <1>9, <1>11 DEF LoopGood
  <2>2. f.room # r /\ f.room # NoRoom
    <3>1. f.room \in w.rooms /\ w.rooms \subseteq RoomId BY <1>3, <1>8, <1>20 DEF Ran, WorldType
    <3> QED BY <1>19, <1>20, <3>1, RoomAssumption
  <2>3. g \in {e, d} \/ (g.call \in {"detachSocketFromRoom", "forget"} /\ g.socket = s) OBVIOUS
  <2>4. CASE g = e BY <1>4, <2>4 DEF Elsewhere, OfRoom
  <2>5. CASE g = d BY <1>4, <2>2, <2>5 DEF Elsewhere, OfRoom
  <2>6. CASE g.call \in {"detachSocketFromRoom", "forget"} /\ g.socket = s
    BY <1>8, <2>1, <2>2, <2>6 DEF Elsewhere, OfRoom
  <2> QED BY <2>3, <2>4, <2>5, <2>6
<1>21. \E f \in NewCalls(cs) : Ending(f, h.room) BY <1>0, <1>4, <1>7 DEF Ending
<1>22. Delivered(w, w2, h, cs) BY <1>0, <1>8, <1>20, <1>21 DEF Delivered
<1>23. e \in Stacked(w2) BY <1>13
<1>24. ASSUME NEW x \in w2.open, w2.view[x].room # w.view[x].room PROVE BeliefPending(w2, x)
  <2>1. x = s BY <1>8, <1>10, <1>24
  <2>2. w2.view[s].room = NoRoom BY <1>12, <1>24, <2>1
  <2> QED BY <1>4, <1>23, <2>1, <2>2 DEF BeliefPending
<1>25. ASSUME NEW x \in w2.open, w2.view[x].users # w.view[x].users PROVE ListPending(w2, x)
  <2>1. x = s BY <1>8, <1>10, <1>25
  <2>2. w2.view[s].room = NoRoom BY <1>12, <1>25, <2>1
  <2> QED BY <2>1, <2>2 DEF ListPending
<1>26. Concerned(w, w2, h) BY <1>0, <1>8, <1>24, <1>25 DEF Concerned, OfSocket
<1>27. Holds(w2)
  BY <1>0, <1>3, <1>8, <1>18, <1>22, <1>26, QuietRun DEF h
<1> QED BY <1>3, <1>27 DEF Inv, w2

LEMMA RunDestroyNextKeeps == Inv /\ RunDestroyNext => Inv'
<1> SUFFICES ASSUME Inv, RunDestroyNext PROVE Inv' OBVIOUS
<1> DEFINE r == Head(todo).room
           did == Head(todo).did
           s == NextOf(r, did)
           a == Detach(s, TRUE)
           b == Forget(s)
           e == EndSession(s)
           d == DestroyNext(r, did \cup {s})
<1>0. Calling("destroyNext") BY DEF RunDestroyNext
<1>1. \/ Unvisited(r, did) = {} /\ Same /\ Continue(DeleteRoom(maps, r), <<>>)
      \/ Unvisited(r, did) # {} /\ Sends(s, Destroyed(r), <<e, d>>)
  BY DEF RunDestroyNext, Arg
<1>2. CASE Unvisited(r, did) = {} BY <1>0, <1>1, <1>2, RoomEnds
<1>3. CASE Unvisited(r, did) # {}
  <2>1. r \in RoomId /\ did \in SUBSET Socket
    <3>1. FrameType(Head(todo)) /\ Head(todo).call = "destroyNext"
      BY <1>0, HeadFacts DEF Calling
    <3> QED BY <3>1 DEF FrameType, OfRoom
  <2> HIDE DEF r, did
  <2>2. maps \in MapsType BY MapsTyped
  <2>3. s \in Mem(maps, r) BY <1>3, <2>1, <2>2, NextMember
  <2>4. s \in Socket
    <3>1. maps.members[r] \in Seq(Socket) BY <2>1, <2>2 DEF MapsType
    <3> HIDE DEF s
    <3> QED BY <2>3, <3>1, LenProperties, ElementOfSeq DEF Mem
  <2>5. Sends(s, Destroyed(r), <<e, d>>) BY <1>1, <1>3
  <2>6. Voices(s, Destroyed(r))
    <3>1. Destroyed(r).type = "roomDestroyed" BY DEF Destroyed
    <3> DEFINE q == <<e, d>>
               msg == Destroyed(r)
    <3>2. Sends(s, msg, q) BY <2>5
    <3> HIDE DEF q, msg, s
    <3>3. msg.type = "roomDestroyed" BY <3>1 DEF msg
    <3>4. Voices(s, msg) BY <2>4, <3>2, <3>3, StateTyped, Voiced
    <3> QED BY <3>4 DEF msg
  <2>7. /\ e.call = "endSession" /\ e.socket = s
        /\ d.call = "destroyNext" /\ d.room = r /\ d.did = did \cup {s}
    BY DEF EndSession, DestroyNext
  <2>8. DestroyTurn(r, s, e, d) BY <2>3, <2>6 DEF DestroyTurn, r, did
  <2>9. FrameType(e) /\ FrameType(d)
    <3> HIDE DEF e, d, s
    <3> QED BY <2>1, <2>4, <2>7 DEF FrameType, OfSocket, OfRoom
  <2>10. /\ FrameType(a) /\ FrameType(b)
         /\ a.call = "detachSocketFromRoom" /\ a.socket = s
         /\ b.call = "forget" /\ b.socket = s
         /\ \A W, above : s \notin W.open => FrameGood(W, a, above) /\ FrameGood(W, b, above)
    <3> HIDE DEF s
    <3> QED BY <2>4, RemovalGood
  <2>11. CASE transport[s] = "broken"
    <3> DEFINE cs == <<a, b, e, d>>
    <3>1. Leaves(maps, cs \o Tail(todo), NoUsage)
      <4>1. RemovalOf(s) \o <<e, d>> = cs BY Removals
      <4> QED BY <2>5, <2>11, <4>1 DEF Sends, Continue
    <3> HIDE DEF a, b, e, d, s
    <3>f. \A f \in {a, b, e, d} : FrameType(f) BY <2>9, <2>10
    <3>2. /\ cs \in Seq({a, b, e, d}) /\ (\A k \in 1 .. Len(cs) : FrameType(cs[k]))
          /\ NewCalls(cs) = {a, b, e, d}
      <4>1. cs \in Seq({a, b, e, d}) BY FourCalls
      <4>2. Len(cs) = 4 BY FourCalls
      <4>3. cs[1] = a /\ cs[2] = b /\ cs[3] = e /\ cs[4] = d OBVIOUS
      <4> HIDE DEF cs
      <4>4. \A k \in 1 .. Len(cs) : k = 1 \/ k = 2 \/ k = 3 \/ k = 4 BY <4>2
      <4>5. \A k \in 1 .. Len(cs) : FrameType(cs[k]) BY <3>f, <4>3, <4>4
      <4>6. NewCalls(cs) = {a, b, e, d} BY <4>2, <4>3, <4>4 DEF NewCalls
      <4> QED BY <4>1, <4>5, <4>6
    <3>3. ASSUME NEW W,
                 \A above : FrameGood(W, e, above),
                 \A above : e \in above => FrameGood(W, d, above),
                 s \notin W.open
          PROVE  Ready(W, cs)
      <4>1. FrameGood(W, a, {}) /\ FrameGood(W, b, {a}) BY <2>10, <3>3
      <4>2. FrameGood(W, e, {a, b}) /\ FrameGood(W, d, {a, b, e}) BY <3>3
      <4> QED BY <2>7, <2>10, <4>1, <4>2, FourCalls
    <3> HIDE DEF cs
    <3>4. \A f \in NewCalls(cs) : \/ f \in {e, d}
                                  \/ f.call \in {"detachSocketFromRoom", "forget"} /\ f.socket = s
      BY <2>10, <3>2
    <3>5. d \in NewCalls(cs) /\ e \in NewCalls(cs) BY <3>2
    <3>6. \A W : /\ \A above : FrameGood(W, e, above)
                 /\ \A above : e \in above => FrameGood(W, d, above)
                 /\ transport[s] = "broken" => s \notin W.open
                 => Ready(W, cs)
      BY <2>11, <3>3
    <3> QED BY <1>0, <2>8, <3>1, <3>2, <3>4, <3>5, <3>6, DestroyNextSends
  <2>12. CASE transport[s] # "broken"
    <3> DEFINE cs == <<e, d>>
    <3>1. Leaves(maps, cs \o Tail(todo), NoUsage) BY <2>5, <2>12 DEF Sends, Continue
    <3> HIDE DEF e, d, s
    <3>f. \A f \in {e, d} : FrameType(f) BY <2>9
    <3>2. /\ cs \in Seq({e, d}) /\ (\A k \in 1 .. Len(cs) : FrameType(cs[k]))
          /\ NewCalls(cs) = {e, d}
      <4>1. cs \in Seq({e, d}) /\ NewCalls(cs) = {e, d} BY TwoCalls
      <4> HIDE DEF cs
      <4>2. \A k \in 1 .. Len(cs) : cs[k] \in NewCalls(cs) BY DEF NewCalls
      <4> QED BY <3>f, <4>1, <4>2
    <3>3. ASSUME NEW W,
                 \A above : FrameGood(W, e, above),
                 \A above : e \in above => FrameGood(W, d, above)
          PROVE  Ready(W, cs)
      BY <2>7, <3>3, TwoCalls
    <3> HIDE DEF cs
    <3>5. \A f \in NewCalls(cs) : \/ f \in {e, d}
                                  \/ f.call \in {"detachSocketFromRoom", "forget"} /\ f.socket = s
      BY <3>2
    <3>6. d \in NewCalls(cs) /\ e \in NewCalls(cs) BY <3>2
    <3>7. \A W : /\ \A above : FrameGood(W, e, above)
                 /\ \A above : e \in above => FrameGood(W, d, above)
                 /\ transport[s] = "broken" => s \notin W.open
                 => Ready(W, cs)
      BY <3>3
    <3> QED BY <1>0, <2>8, <3>1, <3>2, <3>5, <3>6, <3>7, DestroyNextSends
  <2> QED BY <2>11, <2>12
<1> QED BY <1>2, <1>3

\* Whoever the frame that leaves was not to send a list to keeps what it has or waits for.
LEMMA ListKept ==
    ASSUME NEW m, NEW cs, NEW w, NEW w2, Ran(m, cs, w, w2), NEW h, h = Head(todo),
           h.call = "tellNext", w2.session = w.session, w2.rooms = w.rooms,
           \A r \in RoomId : w2.members[r] \subseteq w.members[r],
           w2.open = w.open, NEW s \in w2.open, w2.view[s] = w.view[s], ~Lists(w, h, s)
    PROVE  ListPending(w2, s)
<1> SUFFICES ASSUME w2.session[s] # NoRoom, w2.view[s].room = w2.session[s]
             PROVE  \/ Destroying(w2, w2.session[s])
                    \/ w2.members[w2.session[s]] \subseteq w2.view[s].users
                    \/ \E f \in Stacked(w2) : Broadcasts(f, w2.session[s])
                    \/ \E f \in Stacked(w2) : Lists(w2, f, s)
  BY DEF ListPending
<1>1. s \in Socket BY DEF Ran, WorldType
<1>2. w.session[s] \in RoomId BY <1>1 DEF Ran, Holds, SessionsAgree, WorldType
<1>3. w2.members[w.session[s]] \subseteq w.members[w.session[s]] BY <1>2
<1>4. Stacked(w) \subseteq Stacked(w2) \cup {h} BY DEF Ran, StackOf
<1>5. ListPending(w, s) BY DEF Ran, Holds, ListsPending
<1>6. ~Broadcasts(h, w.session[s]) /\ ~Ending(h, w.session[s]) BY DEF Broadcasts, Ending
<1>7. \A f : Lists(w, f, s) => Lists(w2, f, s) BY <1>3 DEF Lists
<1> QED BY <1>3, <1>4, <1>5, <1>6, <1>7 DEF ListPending, Destroying

LEMMA TellEnds ==
    ASSUME Inv, Calling("tellNext"), Unvisited(Head(todo).room, Head(todo).did) = {}, Same,
           Continue(maps, <<>>)
    PROVE  Inv'
<1> DEFINE h == Head(todo)
           r == h.room
           cs == <<>>
           w == World
           w2 == World'
<1>0. todo # <<>> /\ h.call = "tellNext" BY DEF Calling
<1>1. r \in RoomId
  <2>1. FrameType(h) BY <1>0, HeadFacts
  <2> QED BY <1>0, <2>1 DEF FrameType, OfRoom
<1>2. Mem(maps, r) \subseteq h.did
  <2>1. Unvisited(r, h.did) = {} OBVIOUS
  <2> HIDE DEF h
  <2> QED BY <1>1, <2>1, MapsTyped, NextMember
<1>3. Leaves(maps, cs \o Tail(todo), NoUsage) BY DEF Continue
<1>4. transport' = transport /\ view' = view BY DEF Same
<1>5. cs \in Seq({}) /\ \A k \in 1 .. Len(cs) : FrameType(cs[k]) BY EmptySeq
<1>6. Ready(w2, cs) /\ NewCalls(cs) = {} BY NoCalls
<1> HIDE DEF cs
<1>7. Types(maps', todo', transport', view') /\ Ran(maps, cs, w, w2) /\ Still(w, w2)
  BY <1>0, <1>3, <1>4, <1>5, StillRun
<1>r. h.room = r OBVIOUS
<1> HIDE DEF w, w2, h, r
<1>8. ASSUME NEW s \in w2.open PROVE ListPending(w2, s)
  <2>1. s \in Socket BY <1>7 DEF Ran, WorldType
  <2>2. ~Lists(w, h, s)
    <3> SUFFICES ASSUME Lists(w, h, s) PROVE FALSE OBVIOUS
    <3>1. w.session[s] = r /\ s \notin h.did BY <1>r DEF Lists
    <3>2. r # NoRoom BY <1>1, RoomAssumption
    <3>3. s \in w.members[r] BY <1>7, <2>1, <3>1, <3>2 DEF Ran, Holds, SessionsAgree
    <3>4. w.members[r] = Mem(maps, r) BY <1>1, <1>7 DEF Ran
    <3> QED BY <1>2, <3>1, <3>3, <3>4
  <2> QED BY <1>0, <1>7, <2>1, <2>2, ListKept DEF Still, h
<1>9. Holds(w2) BY <1>0, <1>5, <1>6, <1>7, <1>8, StillQuiet DEF OfSocket, h
<1> QED BY <1>7, <1>9 DEF Inv, w2

\* One turn of a loop that sends a message round: s is told, and d is still to come.
TellTurn(r, s, msg, d) ==
    /\ r = Head(todo).room /\ msg = Head(todo).msg
    /\ s \in Mem(maps, r) /\ s \notin Head(todo).did
    /\ Voices(s, msg)
    /\ d = TellNext(r, msg, Head(todo).did \cup {s})

LEMMA TellNextSends ==
    ASSUME Inv, Calling("tellNext"), NEW r, NEW s, NEW msg, NEW d, TellTurn(r, s, msg, d),
           NEW S, NEW cs \in Seq(S), \A k \in 1 .. Len(cs) : FrameType(cs[k]),
           Leaves(maps, cs \o Tail(todo), NoUsage), cs # <<>>,
           d \in NewCalls(cs),
           \A f \in NewCalls(cs) : \/ f = d
                                   \/ f.call \in {"detachSocketFromRoom", "forget"} /\ f.socket = s,
           \A W : /\ \A above : FrameGood(W, d, above)
                  /\ transport[s] = "broken" => s \notin W.open
                  => Ready(W, cs)
    PROVE  Inv'
<1> DEFINE h == Head(todo)
           w == World
           w2 == World'
<1>0. todo # <<>> /\ h.call = "tellNext" /\ h.room = r /\ h.msg = msg
  BY DEF Calling, TellTurn
<1>1. /\ r \in RoomId /\ h.did \in SUBSET Socket
      /\ msg.type \in {"userUpdated", "content"} /\ msg.room = r
      /\ msg.type = "userUpdated" => msg.users \in SUBSET Socket
  <2>1. FrameType(h) BY <1>0, HeadFacts
  <2> QED BY <1>0, <2>1 DEF FrameType, OfRoom
<1>2. s \in Mem(maps, r) /\ s \notin h.did /\ Voices(s, msg) BY DEF TellTurn
<1>3. s \in Socket
  <2>1. maps.members[r] \in Seq(Socket) BY <1>1, MapsTyped DEF MapsType
  <2> QED BY <1>2, <2>1, LenProperties, ElementOfSeq DEF Mem
<1>4. Types(maps', todo', transport', view') /\ Ran(maps, cs, w, w2) /\ Spoken(w, w2, s, msg)
  BY <1>0, <1>2, <1>3, Speaking
<1>5. d.call = "tellNext" /\ d.room = r /\ d.msg = msg /\ d.did = h.did \cup {s}
  BY DEF TellTurn, TellNext
<1>6. transport[s] = "broken" => s \notin w2.open BY <1>4 DEF Spoken, Ran
<1> HIDE DEF w, w2, h
<1>7. /\ w2.session = w.session /\ w2.rooms = w.rooms
      /\ \A x \in RoomId : w2.members[x] \subseteq w.members[x]
      /\ w2.open = w.open /\ w2.absent = w.absent
      /\ \A x \in Socket : x # s => w2.view[x] = w.view[x]
      /\ s \in w.open => w2.view[s] = Reads(w.view[s], msg)
      /\ Fades(w, w2) /\ SessionsAgree(w2) /\ Supervised(w2)
      /\ \A f \in Stacked(w) : f.call = "enterRoom" => f.room \in w.rooms
  BY <1>4 DEF Spoken
<1>8. LoopGood(w, r) /\ TellGood(w, h) BY <1>0, <1>4 DEF Ran, FrameGood, h
<1>9. w.view \in [Socket -> ViewType] /\ w2.open \subseteq Socket BY <1>4 DEF Ran, WorldType
<1>10. s \in w.members[r] /\ w.members[r] \subseteq Socket /\ w2.members[r] \subseteq w.members[r]
  BY <1>1, <1>2, <1>4, <1>7 DEF Ran, WorldType
<1>11. w.session[s] \in {r, NoRoom} BY <1>8, <1>10 DEF LoopGood
<1>12. w.view[s] \in ViewType BY <1>3, <1>9
<1>13. ASSUME s \in w2.open
       PROVE  /\ w2.view[s].room = w.view[s].room
              /\ msg.type = "content" => w2.view[s] = w.view[s]
              /\ msg.type = "userUpdated" /\ w.view[s].room = r => w2.view[s].users = msg.users
  <2>1. w2.view[s] = Reads(w.view[s], msg) BY <1>7, <1>13
  <2> DEFINE v == w.view[s]
  <2>2. v \in ViewType BY <1>12
  <2> HIDE DEF v
  <2>3. CASE msg.type = "content"
    <3>1. Reads(v, msg) = v BY <1>1, <2>2, <2>3, Reading
    <3> QED BY <2>1, <2>3, <3>1 DEF v
  <2>4. CASE msg.type = "userUpdated" /\ v.room = r
    <3>1. Reads(v, msg) = [room |-> v.room, users |-> msg.users] BY <1>1, <2>2, <2>4, Reading
    <3> QED BY <2>1, <2>4, <3>1 DEF v
  <2>5. CASE msg.type = "userUpdated" /\ v.room # r
    <3>1. Reads(v, msg) = v BY <1>1, <2>2, <2>5, Reading
    <3> QED BY <2>1, <2>5, <3>1 DEF v
  <2> QED BY <1>1, <2>3, <2>4, <2>5
<1>14. \A x \in w2.open : w2.view[x].room = w.view[x].room BY <1>7, <1>9, <1>13
<1>15. LoopGood(w2, r) BY <1>7, <1>8, <1>10, <1>14 DEF LoopGood
<1>16. /\ Stacked(w) \subseteq Stacked(w2) \cup {h} /\ d \in Stacked(w2)
       /\ w2.hub = w.hub
  <2>1. w2.todo # <<>> BY <1>4 DEF Ran
  <2> QED BY <1>4, <2>1 DEF Ran, StackOf, After, h
<1>17. \A x : Destroying(w, x) => Destroying(w2, x) BY <1>0, <1>16 DEF Destroying, Ending
<1>18. TellGood(w2, d)
  <2>1. CASE msg.type = "userUpdated"
    BY <1>0, <1>5, <1>7, <1>8, <1>10, <1>17, <2>1 DEF TellGood
  <2>2. CASE msg.type # "userUpdated"
    BY <1>0, <1>5, <1>8, <1>10, <1>16, <2>2 DEF TellGood
  <2> QED BY <2>1, <2>2
<1>19. \A above : FrameGood(w2, d, above) BY <1>5, <1>15, <1>18 DEF FrameGood
<1>20. Ready(w2, cs) BY <1>6, <1>19
<1>21. \A f \in Stacked(w) : f.call = "enterRoom" => f.room # r
  <2>1. \A f \in Stacked(w) : f.call = "enterRoom" => Elsewhere(w, h, f.room)
    BY <1>0, <1>4, EntryBelow DEF h
  <2> QED BY <1>0, <2>1 DEF Elsewhere, OfRoom
<1>22. ASSUME NEW f \in Stacked(w), f.call = "enterRoom", NEW g \in NewCalls(cs)
       PROVE  Elsewhere(w2, g, f.room)
  <2>1. f.room # r /\ f.room # NoRoom
    <3>1. f.room \in w.rooms /\ w.rooms \subseteq RoomId BY <1>4, <1>7, <1>22 DEF Ran, WorldType
    <3> QED BY <1>21, <1>22, <3>1, RoomAssumption
  <2>2. CASE g = d BY <1>5, <2>1, <2>2 DEF Elsewhere, OfRoom
  <2>3. CASE g.call \in {"detachSocketFromRoom", "forget"} /\ g.socket = s
    BY <1>7, <1>11, <2>1, <2>3 DEF Elsewhere, OfRoom
  <2> QED BY <2>2, <2>3
<1>23. Delivered(w, w2, h, cs) BY <1>0, <1>7, <1>22 DEF Delivered
<1>24. ASSUME NEW x \in w2.open PROVE ListPending(w2, x)
  <2>1. CASE ~Lists(w, h, x) /\ w2.view[x] = w.view[x]
    BY <1>0, <1>4, <1>7, <2>1, ListKept DEF h
  <2>2. CASE x # s /\ Lists(w, h, x)
    <3>1. Lists(w2, d, x) BY <1>0, <1>5, <1>7, <1>10, <2>2 DEF Lists
    <3> QED BY <1>16, <3>1 DEF ListPending
  <2>3. CASE x = s /\ msg.type = "userUpdated"
    <3> SUFFICES ASSUME w2.session[s] # NoRoom, w2.view[s].room = w2.session[s]
                 PROVE  \/ Destroying(w2, w2.session[s])
                        \/ w2.members[w2.session[s]] \subseteq w2.view[s].users
      BY <2>3 DEF ListPending
    <3>1. w2.session[s] = r /\ w.view[s].room = r BY <1>7, <1>11, <1>13, <1>24, <2>3
    <3>2. w2.view[s].users = msg.users BY <1>13, <1>24, <2>3, <3>1
    <3>3. r \in w.rooms BY <1>3, <1>7, <3>1 DEF SessionsAgree
    <3>4. Destroying(w, r) \/ w.members[r] \subseteq msg.users
      BY <1>0, <1>8, <2>3, <3>3 DEF TellGood
    <3> QED BY <1>10, <1>17, <3>1, <3>2, <3>4
  <2>4. CASE x = s /\ msg.type # "userUpdated"
    <3>1. w2.view[x] = w.view[x] BY <1>1, <1>13, <1>24, <2>4
    <3>2. ~Lists(w, h, x) BY <1>0, <2>4 DEF Lists
    <3> QED BY <2>1, <3>1, <3>2
  <2>5. x # s => w2.view[x] = w.view[x] BY <1>7, <1>9
  <2> QED BY <2>1, <2>2, <2>3, <2>4, <2>5
<1>25. Concerned(w, w2, h) BY <1>0, <1>7, <1>14, <1>24 DEF Concerned, OfSocket
<1>26. Holds(w2) BY <1>0, <1>4, <1>7, <1>20, <1>23, <1>25, QuietRun DEF h
<1> QED BY <1>4, <1>26 DEF Inv, w2

LEMMA RunTellNextKeeps == Inv /\ RunTellNext => Inv'
<1> SUFFICES ASSUME Inv, RunTellNext PROVE Inv' OBVIOUS
<1> DEFINE r == Head(todo).room
           msg == Head(todo).msg
           did == Head(todo).did
           s == NextOf(r, did)
           a == Detach(s, TRUE)
           b == Forget(s)
           d == TellNext(r, msg, did \cup {s})
<1>0. Calling("tellNext") BY DEF RunTellNext
<1>1. \/ Unvisited(r, did) = {} /\ Same /\ Continue(maps, <<>>)
      \/ Unvisited(r, did) # {} /\ Sends(s, msg, <<d>>)
  BY DEF RunTellNext, Arg
<1>2. CASE Unvisited(r, did) = {} BY <1>0, <1>1, <1>2, TellEnds
<1>3. CASE Unvisited(r, did) # {}
  <2>1. /\ r \in RoomId /\ did \in SUBSET Socket
        /\ msg.type \in {"userUpdated", "content"} /\ msg.room = r
        /\ msg.type = "userUpdated" => msg.users \in SUBSET Socket
        /\ msg.type = "content" => msg.from \in Socket
    <3>1. FrameType(Head(todo)) /\ Head(todo).call = "tellNext"
      BY <1>0, HeadFacts DEF Calling
    <3> QED BY <3>1 DEF FrameType, OfRoom
  <2>2. Sends(s, msg, <<d>>) BY <1>1, <1>3
  <2> HIDE DEF r, did, msg
  <2>3. maps \in MapsType BY MapsTyped
  <2>4. s \in Mem(maps, r) /\ s \notin did BY <1>3, <2>1, <2>3, NextMember
  <2>5. s \in Socket
    <3>1. maps.members[r] \in Seq(Socket) BY <2>1, <2>3 DEF MapsType
    <3> HIDE DEF s
    <3> QED BY <2>4, <3>1, LenProperties, ElementOfSeq DEF Mem
  <2>6. Voices(s, msg)
    <3> DEFINE q == <<d>>
    <3>1. Sends(s, msg, q) BY <2>2
    <3> HIDE DEF q, s
    <3> QED BY <2>1, <2>5, <3>1, StateTyped, Voiced
  <2>7. d.call = "tellNext" /\ d.room = r /\ d.did = did \cup {s} /\ d.msg = msg
    BY DEF TellNext
  <2>8. TellTurn(r, s, msg, d) BY <2>4, <2>6 DEF TellTurn, r, did, msg
  <2>9. FrameType(d)
    <3> HIDE DEF d, s
    <3> QED BY <2>1, <2>5, <2>7 DEF FrameType, OfSocket, OfRoom
  <2>10. /\ FrameType(a) /\ FrameType(b)
         /\ a.call = "detachSocketFromRoom" /\ a.socket = s
         /\ b.call = "forget" /\ b.socket = s
         /\ \A W, above : s \notin W.open => FrameGood(W, a, above) /\ FrameGood(W, b, above)
    <3> HIDE DEF s
    <3> QED BY <2>5, RemovalGood
  <2>11. CASE transport[s] = "broken"
    <3> DEFINE cs == <<a, b, d>>
    <3>1. Leaves(maps, cs \o Tail(todo), NoUsage)
      <4>1. RemovalOf(s) \o <<d>> = cs BY Removals
      <4> QED BY <2>2, <2>11, <4>1 DEF Sends, Continue
    <3> HIDE DEF a, b, d, s
    <3>f. \A f \in {a, b, d} : FrameType(f) BY <2>9, <2>10
    <3>2. /\ cs \in Seq({a, b, d}) /\ (\A k \in 1 .. Len(cs) : FrameType(cs[k]))
          /\ NewCalls(cs) = {a, b, d} /\ cs # <<>>
      <4>1. cs \in Seq({a, b, d}) BY ThreeCalls
      <4>2. Len(cs) = 3 BY ThreeCalls
      <4>3. cs[1] = a /\ cs[2] = b /\ cs[3] = d OBVIOUS
      <4>4. cs # <<>> BY <4>1, <4>2, EmptySeq
      <4> HIDE DEF cs
      <4>5. \A k \in 1 .. Len(cs) : k = 1 \/ k = 2 \/ k = 3 BY <4>2
      <4>6. \A k \in 1 .. Len(cs) : FrameType(cs[k]) BY <3>f, <4>3, <4>5
      <4>7. NewCalls(cs) = {a, b, d} BY <4>2, <4>3, <4>5 DEF NewCalls
      <4> QED BY <4>1, <4>4, <4>6, <4>7
    <3>3. ASSUME NEW W, \A above : FrameGood(W, d, above), s \notin W.open
          PROVE  Ready(W, cs)
      <4>1. FrameGood(W, a, {}) /\ FrameGood(W, b, {a}) BY <2>10, <3>3
      <4>2. FrameGood(W, d, {a, b}) BY <3>3
      <4> QED BY <2>7, <2>10, <4>1, <4>2, ThreeCalls
    <3> HIDE DEF cs
    <3>4. \A f \in NewCalls(cs) : \/ f = d
                                  \/ f.call \in {"detachSocketFromRoom", "forget"} /\ f.socket = s
      BY <2>10, <3>2
    <3>5. d \in NewCalls(cs) BY <3>2
    <3>6. \A W : /\ \A above : FrameGood(W, d, above)
                 /\ transport[s] = "broken" => s \notin W.open
                 => Ready(W, cs)
      BY <2>11, <3>3
    <3> QED BY <1>0, <2>8, <3>1, <3>2, <3>4, <3>5, <3>6, TellNextSends
  <2>12. CASE transport[s] # "broken"
    <3> DEFINE cs == <<d>>
    <3>1. Leaves(maps, cs \o Tail(todo), NoUsage) BY <2>2, <2>12 DEF Sends, Continue
    <3> HIDE DEF d, s
    <3>2. cs \in Seq({d}) /\ (\A k \in 1 .. Len(cs) : FrameType(cs[k])) /\ NewCalls(cs) = {d} /\ cs # <<>>
      BY <2>9, OneCall
    <3>3. ASSUME NEW W, \A above : FrameGood(W, d, above) PROVE Ready(W, cs)
      BY <2>7, <3>3, OneCall
    <3> HIDE DEF cs
    <3>4. \A f \in NewCalls(cs) : \/ f = d
                                  \/ f.call \in {"detachSocketFromRoom", "forget"} /\ f.socket = s
      BY <3>2
    <3>5. d \in NewCalls(cs) BY <3>2
    <3>6. \A W : /\ \A above : FrameGood(W, d, above)
                 /\ transport[s] = "broken" => s \notin W.open
                 => Ready(W, cs)
      BY <3>3
    <3> QED BY <1>0, <2>8, <3>1, <3>2, <3>4, <3>5, <3>6, TellNextSends
  <2> QED BY <2>11, <2>12
<1> QED BY <1>2, <1>3

(***************************************************************************)
(* The entry into a room, and the message that tells of it.                *)
(***************************************************************************)

\* A stack that is only the calls cs.
LEMMA FreshStack ==
    ASSUME NEW S, NEW cs \in Seq(S), NEW w2, w2.todo = cs
    PROVE  /\ Stacked(w2) = NewCalls(cs)
           /\ \A k \in DOMAIN cs : Above(w2, k) = {cs[j] : j \in 1 .. k - 1}
           /\ DOMAIN cs = 1 .. Len(cs)
           /\ Ready(w2, cs) => FramesGood(w2) /\ EntryLast(w2)
<1>1. DOMAIN cs = 1 .. Len(cs) BY LenProperties
<1>2. Stacked(w2) = NewCalls(cs) BY <1>1 DEF Stacked, NewCalls
<1>3. \A k \in DOMAIN cs : Above(w2, k) = {cs[j] : j \in 1 .. k - 1} BY DEF Above
<1>4. Ready(w2, cs) => FramesGood(w2) BY <1>1, <1>3 DEF Ready, FramesGood
<1>5. Ready(w2, cs) => EntryLast(w2) BY <1>1 DEF Ready, EntryLast
<1> QED BY <1>1, <1>2, <1>3, <1>4, <1>5

\* An entry is made when nothing else is left to do.
LEMMA LastFrame ==
    ASSUME NEW m, NEW S, NEW cs \in Seq(S), NEW w, NEW w2, Ran(m, cs, w, w2),
           NEW h, h = Head(todo), h.call \in {"generateRoomId", "enterRoom"}
    PROVE  Stacked(w) = {h} /\ w2.todo = cs /\ EntryGood(w, h, {})
<1>1. /\ w.todo = todo /\ w.todo \in Seq(Stacked(w)) /\ w.todo # <<>>
      /\ h = w.todo[1] /\ EntryLast(w) /\ FrameGood(w, h, {})
      /\ w2.todo = cs \o Tail(w.todo)
  BY DEF Ran, Holds, After
<1>2. DOMAIN w.todo = 1 .. Len(w.todo) /\ Len(w.todo) \in Nat /\ Len(w.todo) # 0
  BY <1>1, LenProperties, EmptySeq
<1>3. Len(w.todo) = 1 BY <1>1, <1>2 DEF EntryLast
<1>4. Stacked(w) = {h}
  <2>1. \A i \in DOMAIN w.todo : i = 1 BY <1>2, <1>3
  <2>2. 1 \in DOMAIN w.todo BY <1>2, <1>3
  <2> QED BY <1>1, <2>1, <2>2 DEF Stacked
<1>5. Tail(w.todo) = <<>>
  <2>1. Tail(w.todo) \in Seq(Stacked(w)) /\ Len(Tail(w.todo)) = 0 BY <1>1, <1>3, HeadTailProperties
  <2> QED BY <2>1, EmptySeq
<1>6. w2.todo = cs BY <1>1, <1>5, ConcatEmptySeq
<1>7. EntryGood(w, h, {}) BY <1>1 DEF FrameGood
<1> QED BY <1>4, <1>6, <1>7

\* Socket s enters room r, new or not.
Enters(w, w2, s, r) ==
    /\ w.session[s] = NoRoom /\ s \notin w.absent
    /\ w2.session[s] = r
    /\ \A x \in Socket : x # s => w2.session[x] = w.session[x]
    /\ w2.rooms = w.rooms \cup {r}
    /\ s \in w2.members[r]
    /\ \A x \in w2.members[r] : x = s \/ (r \in w.rooms /\ x \in w.members[r])
    /\ r \in w.rooms => w.members[r] \subseteq w2.members[r]
    /\ \A q \in w.rooms : q # r => w2.members[q] = w.members[q]
    /\ w2.view = w.view /\ w2.open = w.open /\ w2.absent = w.absent
    /\ w.tracked \subseteq w2.tracked
    /\ Rests(w2)

\* Nothing is pending while an entry is the only call.
LEMMA AloneAgrees ==
    ASSUME NEW w, WorldType(w), Holds(w), NEW h, Stacked(w) = {h}, NEW s \in Socket, Entering(h, s)
    PROVE  /\ \A q \in w.rooms : \A x \in w.members[q] : w.session[x] = q
           /\ \A x \in Socket : w.session[x] # NoRoom =>
                 w.session[x] \in w.rooms /\ x \in w.members[w.session[x]]
           /\ \A q \in w.rooms : \A x \in w.members[q] \cap w.open : w.view[x].room \in {q, NoRoom}
           /\ \A x \in w.open : x # s => w.view[x].room = w.session[x]
           /\ \A x \in w.open : w.session[x] # NoRoom /\ w.view[x].room = w.session[x] =>
                 w.members[w.session[x]] \subseteq w.view[x].users
           /\ \A x \in w.absent : w.session[x] = NoRoom
           /\ w.open \subseteq w.tracked
<1>1. h.call \in {"generateRoomId", "enterRoom"} /\ h.socket = s BY DEF Entering
<1>2. \A q : ~Destroying(w, q) BY <1>1 DEF Destroying, Ending
<1>3. \A f \in Stacked(w) : f = h OBVIOUS
<1>4. \A q \in w.rooms : \A x \in w.members[q] : w.session[x] = q
  BY <1>2 DEF Holds, RoomsAgree
<1>5. \A q \in w.rooms : \A x \in w.members[q] \cap w.open : w.view[x].room \in {q, NoRoom}
  BY <1>1, <1>3 DEF Holds, SeenFromRooms, Welcomed, Is
<1>6. \A x \in w.open : x # s => w.view[x].room = w.session[x]
  BY <1>1, <1>3 DEF Holds, BeliefsPending, BeliefPending, Entering, Is
<1>7. \A x \in w.open : w.session[x] # NoRoom /\ w.view[x].room = w.session[x] =>
                 w.members[w.session[x]] \subseteq w.view[x].users
  BY <1>1, <1>2, <1>3 DEF Holds, ListsPending, ListPending, Broadcasts, Lists
<1>8. \A x \in w.absent : w.session[x] = NoRoom
  BY <1>1, <1>3 DEF Holds, Unattached, Is
<1> QED BY <1>4, <1>5, <1>6, <1>7, <1>8 DEF Holds, SessionsAgree, Supervised

LEMMA EntryWorld ==
    ASSUME NEW w, NEW w2, WorldType(w), WorldType(w2), Holds(w), NEW h, Stacked(w) = {h},
           NEW s \in Socket, NEW r \in RoomId, Entering(h, s), Enters(w, w2, s, r),
           NEW a, NEW b, NEW c, Stacked(w2) = {a, b, c},
           Welcomed(a, s), a.msg.room = r, Broadcasts(b, r), c.call = "recordMetric"
    PROVE  /\ RoomsAgree(w2) /\ SessionsAgree(w2) /\ SeenFromRooms(w2) /\ BeliefsPending(w2)
           /\ ListsPending(w2) /\ Unattached(w2) /\ Supervised(w2)
           /\ FrameGood(w2, a, {}) /\ FrameGood(w2, b, {a}) /\ FrameGood(w2, c, {a, b})
<1>0. /\ \A q \in w.rooms : \A x \in w.members[q] : w.session[x] = q
      /\ \A x \in Socket : w.session[x] # NoRoom =>
            w.session[x] \in w.rooms /\ x \in w.members[w.session[x]]
      /\ \A q \in w.rooms : \A x \in w.members[q] \cap w.open : w.view[x].room \in {q, NoRoom}
      /\ \A x \in w.open : x # s => w.view[x].room = w.session[x]
      /\ \A x \in w.open : w.session[x] # NoRoom /\ w.view[x].room = w.session[x] =>
            w.members[w.session[x]] \subseteq w.view[x].users
      /\ \A x \in w.absent : w.session[x] = NoRoom
      /\ w.open \subseteq w.tracked
  BY AloneAgrees
<1>1. /\ w.session[s] = NoRoom /\ s \notin w.absent
      /\ w2.session[s] = r
      /\ \A x \in Socket : x # s => w2.session[x] = w.session[x]
      /\ w2.rooms = w.rooms \cup {r}
      /\ s \in w2.members[r]
      /\ \A x \in w2.members[r] : x = s \/ (r \in w.rooms /\ x \in w.members[r])
      /\ r \in w.rooms => w.members[r] \subseteq w2.members[r]
      /\ \A q \in w.rooms : q # r => w2.members[q] = w.members[q]
      /\ w2.view = w.view /\ w2.open = w.open /\ w2.absent = w.absent
      /\ w.tracked \subseteq w2.tracked
  BY DEF Enters
<1>2. /\ w.rooms \subseteq RoomId /\ r # NoRoom /\ NoRoom \notin w.rooms
      /\ w.open \subseteq Socket /\ w.absent \subseteq Socket
      /\ \A q \in RoomId : w.members[q] \subseteq Socket /\ w2.members[q] \subseteq Socket
  BY RoomAssumption DEF WorldType
<1>3. a \in Stacked(w2) /\ b \in Stacked(w2) OBVIOUS
<1>4. \A q \in w.rooms : s \notin w.members[q] BY <1>0, <1>1, <1>2
<1>5. \A q \in w2.rooms : \A x \in w2.members[q] :
         w2.session[x] = q /\ (x = s \/ (q \in w.rooms /\ x \in w.members[q]))
  <2> SUFFICES ASSUME NEW q \in w2.rooms, NEW x \in w2.members[q]
               PROVE  w2.session[x] = q /\ (x = s \/ (q \in w.rooms /\ x \in w.members[q]))
    OBVIOUS
  <2>1. x \in Socket BY <1>1, <1>2
  <2>2. CASE q = r BY <1>0, <1>1, <2>1, <2>2
  <2>3. CASE q # r
    <3>1. q \in w.rooms /\ x \in w.members[q] BY <1>1, <2>3
    <3>2. x # s /\ w.session[x] = q BY <1>0, <1>4, <3>1
    <3> QED BY <1>1, <2>1, <3>1, <3>2
  <2> QED BY <2>2, <2>3
<1>6. RoomsAgree(w2) BY <1>5 DEF RoomsAgree
<1>7. SessionsAgree(w2)
  <2> SUFFICES ASSUME NEW x \in Socket, w2.session[x] # NoRoom
               PROVE  w2.session[x] \in w2.rooms /\ x \in w2.members[w2.session[x]]
    BY DEF SessionsAgree
  <2>1. CASE x = s BY <1>1, <2>1
  <2>2. CASE x # s
    <3>1. w2.session[x] = w.session[x] BY <1>1, <2>2
    <3>2. w.session[x] \in w.rooms /\ x \in w.members[w.session[x]] BY <1>0, <3>1
    <3> QED BY <1>1, <3>1, <3>2
  <2> QED BY <2>1, <2>2
<1>8. SeenFromRooms(w2)
  <2> SUFFICES ASSUME NEW q \in w2.rooms, NEW x \in w2.members[q] \cap w2.open
               PROVE  \/ w2.view[x].room \in {q, NoRoom}
                      \/ \E f \in Stacked(w2) : Welcomed(f, x)
    BY DEF SeenFromRooms
  <2>1. CASE x = s BY <1>3, <2>1
  <2>2. CASE x # s BY <1>0, <1>1, <1>5, <2>2
  <2> QED BY <2>1, <2>2
<1>9. BeliefsPending(w2)
  <2> SUFFICES ASSUME NEW x \in w2.open PROVE BeliefPending(w2, x) BY DEF BeliefsPending
  <2>1. CASE x = s
    <3>1. Is(a, "send", s) /\ a.msg.type \in {"serverError", "entered"} BY DEF Welcomed
    <3> QED BY <1>3, <2>1, <3>1 DEF BeliefPending
  <2>2. CASE x # s
    <3>1. w2.view[x].room = w2.session[x] BY <1>0, <1>1, <1>2, <2>2
    <3> QED BY <3>1 DEF BeliefPending
  <2> QED BY <2>1, <2>2
<1>10. ListsPending(w2)
  <2> SUFFICES ASSUME NEW x \in w2.open, w2.session[x] # NoRoom, w2.view[x].room = w2.session[x]
               PROVE  \/ w2.members[w2.session[x]] \subseteq w2.view[x].users
                      \/ \E f \in Stacked(w2) : Broadcasts(f, w2.session[x])
    BY DEF ListsPending, ListPending
  <2>1. CASE w2.session[x] = r BY <1>3, <2>1
  <2>2. CASE w2.session[x] # r
    <3>1. x # s /\ x \in Socket BY <1>1, <1>2, <2>2
    <3>2. w2.session[x] = w.session[x] /\ w.view[x].room = w.session[x] BY <1>1, <3>1
    <3>3. w.session[x] \in w.rooms BY <1>0, <3>1, <3>2
    <3>4. w2.members[w.session[x]] = w.members[w.session[x]] BY <1>1, <2>2, <3>2, <3>3
    <3>5. w.members[w.session[x]] \subseteq w.view[x].users BY <1>0, <1>1, <3>2
    <3> QED BY <1>1, <3>2, <3>4, <3>5
  <2> QED BY <2>1, <2>2
<1>11. Unattached(w2) BY <1>0, <1>1, <1>2 DEF Unattached
<1>12. Supervised(w2) BY <1>0, <1>1 DEF Supervised
<1>13. /\ a.call = "send" /\ a.socket = s /\ a.msg.type = "entered" /\ a.msg.room = r
       /\ b.call = "broadcastUserUpdated" /\ c.call = "recordMetric"
  BY DEF Welcomed, Is, Broadcasts
<1>14. WelcomeGood(w2, s, r) BY <1>1, <1>3, <1>13 DEF WelcomeGood
<1>15. FrameGood(w2, a, {}) BY <1>13, <1>14 DEF FrameGood, SendGood
<1>16. FrameGood(w2, b, {a}) /\ FrameGood(w2, c, {a, b}) BY <1>13 DEF FrameGood
<1> QED BY <1>6, <1>7, <1>8, <1>9, <1>10, <1>11, <1>12, <1>15, <1>16

\* What the entry of s into room r leaves of the maps.
Entry(m, s, r) ==
    /\ m \in MapsType /\ Distinct(m)
    /\ m.session = [maps.session EXCEPT ![s] = r]
    /\ m.rooms = maps.rooms \cup {r}
    /\ \A q \in RoomId : q # r => Mem(m, q) = Mem(maps, q)
    /\ Mem(m, r) = IF r \in maps.rooms THEN Mem(maps, r) \cup {s} ELSE {s}
    /\ Tracked(maps) \subseteq Tracked(m)

LEMMA EntryRun ==
    ASSUME Inv, todo # <<>>, Head(todo).call \in {"generateRoomId", "enterRoom"},
           NEW s, s = Head(todo).socket, NEW r \in RoomId, NEW m, Entry(m, s, r),
           transport' = transport, view' = view, NEW e,
           Continue(m, <<SendTo(s, Entered(r)), Broadcast(r), Record(e, s, r)>>)
    PROVE  Inv'
<1> DEFINE h == Head(todo)
           a == SendTo(s, Entered(r))
           b == Broadcast(r)
           c == Record(e, s, r)
           cs == <<a, b, c>>
           w == World
           w2 == World'
<1>1. s \in Socket
  <2>1. FrameType(h) BY HeadFacts
  <2> QED BY <2>1 DEF FrameType, OfSocket
<1>2. Leaves(m, cs \o Tail(todo), NoUsage) BY DEF Continue
<1>3. /\ a.call = "send" /\ a.socket = s /\ a.msg.type = "entered" /\ a.msg.room = r
      /\ b.call = "broadcastUserUpdated" /\ b.room = r
      /\ c.call = "recordMetric"
  BY DEF SendTo, Entered, Broadcast, Record
<1>e. Entering(h, s) BY DEF Entering
<1> HIDE DEF a, b, c, h
<1>4. FrameType(a) /\ FrameType(b) /\ FrameType(c)
  BY <1>1, <1>3 DEF FrameType, OfSocket, OfRoom, Others
<1>5. /\ cs \in Seq({a, b, c}) /\ (\A k \in 1 .. Len(cs) : FrameType(cs[k]))
      /\ NewCalls(cs) = {a, b, c} /\ cs # <<>>
  <2>1. cs \in Seq({a, b, c}) BY ThreeCalls
  <2>2. Len(cs) = 3 BY ThreeCalls
  <2>3. cs[1] = a /\ cs[2] = b /\ cs[3] = c OBVIOUS
  <2>4. cs # <<>> BY <2>1, <2>2, EmptySeq
  <2> HIDE DEF cs
  <2>5. \A k \in 1 .. Len(cs) : k = 1 \/ k = 2 \/ k = 3 BY <2>2
  <2>6. \A k \in 1 .. Len(cs) : FrameType(cs[k]) BY <1>4, <2>3, <2>5
  <2>7. NewCalls(cs) = {a, b, c} BY <2>2, <2>3, <2>5 DEF NewCalls
  <2> QED BY <2>1, <2>4, <2>6, <2>7
<1>6. \A W : FrameGood(W, a, {}) /\ FrameGood(W, b, {a}) /\ FrameGood(W, c, {a, b}) => Ready(W, cs)
  BY <1>3, ThreeCalls
<1> HIDE DEF cs
<1>7. m \in MapsType /\ Distinct(m) BY DEF Entry
<1>8. Types(maps', todo', transport', view') /\ Ran(m, cs, w, w2)
  BY <1>2, <1>5, <1>7, StateTyped, Running
<1> HIDE DEF w, w2
<1>9. Stacked(w) = {h} /\ w2.todo = cs /\ EntryGood(w, h, {}) BY <1>8, <1>5, LastFrame DEF h
<1>10. w.session[s] = NoRoom /\ s \notin w.absent BY <1>9, <1>e DEF EntryGood, Entering
<1>11. Enters(w, w2, s, r)
  <2>1. /\ w.session = maps.session /\ w.rooms = maps.rooms /\ w.tracked = Tracked(maps)
        /\ w2.session = m.session /\ w2.rooms = m.rooms /\ w2.tracked = Tracked(m)
        /\ Rests(w2)
    BY <1>8 DEF Ran, After
  <2>2. \A q \in RoomId : w.members[q] = Mem(maps, q) /\ w2.members[q] = Mem(m, q)
    <3>1. w2.todo # <<>> BY <1>5, <1>9
    <3> QED BY <1>8, <3>1 DEF Ran, After
  <2>3. w2.view = w.view /\ w2.open = w.open /\ w2.absent = w.absent BY <1>8 DEF Ran
  <2>4. w2.session = [w.session EXCEPT ![s] = r] BY <2>1 DEF Entry
  <2>5. w.session \in [Socket -> RoomId \cup {NoRoom}] BY <1>8 DEF Ran, WorldType
  <2>6. w2.session[s] = r /\ \A x \in Socket : x # s => w2.session[x] = w.session[x]
    BY <1>1, <2>4, <2>5
  <2>7. w.rooms \subseteq RoomId BY <1>8 DEF Ran, WorldType
  <2> QED BY <1>10, <2>1, <2>2, <2>3, <2>6, <2>7 DEF Enters, Entry
<1>12. Stacked(w2) = {a, b, c} /\ (Ready(w2, cs) => FramesGood(w2) /\ EntryLast(w2))
  BY <1>5, <1>9, FreshStack
<1>13. /\ RoomsAgree(w2) /\ SessionsAgree(w2) /\ SeenFromRooms(w2) /\ BeliefsPending(w2)
       /\ ListsPending(w2) /\ Unattached(w2) /\ Supervised(w2)
       /\ FrameGood(w2, a, {}) /\ FrameGood(w2, b, {a}) /\ FrameGood(w2, c, {a, b})
  <2>1. WorldType(w) /\ WorldType(w2) /\ Holds(w) BY <1>8 DEF Ran
  <2>2. Welcomed(a, s) /\ Broadcasts(b, r) BY <1>3 DEF Welcomed, Is, Broadcasts
  <2> QED BY <1>1, <1>3, <1>9, <1>e, <1>11, <1>12, <2>1, <2>2, EntryWorld
<1>14. Holds(w2) BY <1>6, <1>11, <1>12, <1>13 DEF Holds, Enters
<1> QED BY <1>8, <1>14 DEF Inv, w2

LEMMA HeardMaps ==
    ASSUME maps \in MapsType, Distinct(maps), NEW s \in Socket, NEW m, m = Heard(maps, s)
    PROVE  /\ m \in MapsType /\ Distinct(m) /\ Kept(m)
           /\ m.creator = maps.creator /\ m.ttl = maps.ttl /\ m.known = maps.known
           /\ Tracked(maps) \cup {s} \subseteq Tracked(m)
<1>1. /\ m.session = maps.session /\ m.rooms = maps.rooms /\ m.members = maps.members
      /\ m.creator = maps.creator /\ m.ttl = maps.ttl /\ m.known = maps.known
      /\ m.idle = [maps.idle EXCEPT ![s] = 0]
      /\ m = [session |-> m.session, rooms |-> m.rooms, members |-> m.members,
              creator |-> m.creator, ttl |-> m.ttl, idle |-> m.idle, known |-> m.known]
  BY DEF MapsType, Heard
<1>2. /\ maps.session \in [Socket -> RoomId \cup {NoRoom}] /\ maps.rooms \in SUBSET RoomId
      /\ maps.members \in [RoomId -> Seq(Socket)] /\ maps.creator \in [RoomId -> Socket \cup {NoSocket}]
      /\ maps.ttl \in [RoomId -> Int] /\ maps.idle \in [Socket -> Nat \cup {Missing}] /\ maps.known \in SUBSET Socket
  BY DEF MapsType
<1>3. m.idle \in [Socket -> Nat \cup {Missing}] BY <1>1, <1>2
<1>4. m \in MapsType BY <1>1, <1>2, <1>3 DEF MapsType
<1>5. m.idle[s] = 0 /\ \A x \in Socket : x # s => m.idle[x] = maps.idle[x] BY <1>1, <1>2
<1>6. Tracked(maps) \cup {s} \subseteq Tracked(m) BY <1>5 DEF Tracked, Missing
<1> QED BY <1>1, <1>4, <1>6 DEF Distinct, Kept

Opens(m, s, r) == m = [OpenRoom(Heard(maps, s), s, r) EXCEPT !.members[r] = <<s>>]
Joins(m, s, r) ==
    m = [Heard(maps, s) EXCEPT !.session[s] = r, !.members[r] = Append(@, s)]

LEMMA OpenedRoom ==
    ASSUME maps \in MapsType, Distinct(maps), NEW s \in Socket, NEW r \in RoomId, r \notin maps.rooms,
           NEW m, Opens(m, s, r)
    PROVE  Entry(m, s, r)
<1> DEFINE g == Heard(maps, s)
           q == <<s>>
           session == [g.session EXCEPT ![s] = r]
           members == [[g.members EXCEPT ![r] = {s}] EXCEPT ![r] = q]
           creator == [g.creator EXCEPT ![r] = s]
           ttl     == [g.ttl EXCEPT ![r] = RoomTtl]
<1>1. /\ g \in MapsType /\ Distinct(g) /\ Kept(g)
      /\ Tracked(maps) \cup {s} \subseteq Tracked(g)
  BY HeardMaps
<1>2. m = [session |-> session, rooms |-> g.rooms \cup {r}, members |-> members,
           creator |-> creator, ttl |-> ttl, idle |-> g.idle, known |-> g.known]
  BY DEF Opens, OpenRoom
<1> HIDE DEF g
<1>3. /\ g.session \in [Socket -> RoomId \cup {NoRoom}] /\ g.rooms \in SUBSET RoomId
      /\ g.members \in [RoomId -> Seq(Socket)] /\ g.creator \in [RoomId -> Socket \cup {NoSocket}]
      /\ g.ttl \in [RoomId -> Int] /\ g.idle \in [Socket -> Nat \cup {Missing}] /\ g.known \in SUBSET Socket
  BY <1>1 DEF MapsType
<1>4. q \in Seq(Socket) /\ DOMAIN q = {1} /\ q[1] = s
  <2>1. q \in Seq(Socket) OBVIOUS
  <2>2. Len(q) = 1 /\ q[1] = s OBVIOUS
  <2>3. DOMAIN q = 1 .. Len(q) BY <2>1, LenProperties
  <2> QED BY <2>1, <2>2, <2>3
<1> HIDE DEF q
<1>5. /\ members \in [RoomId -> Seq(Socket)] /\ members[r] = q
      /\ \A x \in RoomId : x # r => members[x] = g.members[x]
  <2>1. members = [g.members EXCEPT ![r] = q] BY <1>3
  <2> HIDE DEF members
  <2> QED BY <1>3, <1>4, <2>1
<1>6. session \in [Socket -> RoomId \cup {NoRoom}] /\ creator \in [RoomId -> Socket \cup {NoSocket}]
  BY <1>3
<1>7. ttl \in [RoomId -> Int]
  <2>1. RoomTtl \in Int BY LimitAssumption
  <2> QED BY <1>3, <2>1
<1>8. session = [maps.session EXCEPT ![s] = r] /\ g.members = maps.members /\ g.rooms = maps.rooms
  BY <1>1 DEF Kept
<1> HIDE DEF session, members, creator, ttl
<1>9. m \in MapsType BY <1>2, <1>3, <1>5, <1>6, <1>7 DEF MapsType
<1>10. m.members = members /\ m.session = session /\ m.rooms = maps.rooms \cup {r} /\ m.idle = g.idle
  BY <1>2, <1>8
<1>11. Distinct(m) BY <1>1, <1>4, <1>5, <1>10 DEF Distinct
<1>12. \A x \in RoomId : x # r => Mem(m, x) = Mem(maps, x) BY <1>5, <1>8, <1>10 DEF Mem
<1>13. Mem(m, r) = {s} BY <1>4, <1>5, <1>10 DEF Mem
<1>14. Tracked(maps) \subseteq Tracked(m) BY <1>1, <1>10 DEF Tracked
<1> QED BY <1>8, <1>9, <1>10, <1>11, <1>12, <1>13, <1>14 DEF Entry

\* No code is drawn: the client is told so, or gives up.
NoEntry(w, w2, s) ==
    /\ w.session[s] = NoRoom
    /\ w2.session = w.session /\ w2.rooms = w.rooms
    /\ \A q \in w.rooms : w2.members[q] = w.members[q]
    /\ w2.open = w.open /\ w2.absent = w.absent
    /\ w.tracked \subseteq w2.tracked
    /\ \A x \in Socket : x # s => w2.view[x] = w.view[x]
    /\ \/ w2.view[s] = NoView
       \/ /\ w2.view[s] = w.view[s]
          /\ \E f \in Stacked(w2) : Is(f, "send", s) /\ f.msg.type = "serverError"

LEMMA EntryRefused ==
    ASSUME NEW w, NEW w2, WorldType(w), WorldType(w2), Holds(w), NEW h, Stacked(w) = {h},
           NEW s \in Socket, Entering(h, s), NoEntry(w, w2, s)
    PROVE  /\ RoomsAgree(w2) /\ SessionsAgree(w2) /\ SeenFromRooms(w2) /\ BeliefsPending(w2)
           /\ ListsPending(w2) /\ Unattached(w2) /\ Supervised(w2)
<1>0. /\ \A q \in w.rooms : \A x \in w.members[q] : w.session[x] = q
      /\ \A x \in Socket : w.session[x] # NoRoom =>
            w.session[x] \in w.rooms /\ x \in w.members[w.session[x]]
      /\ \A q \in w.rooms : \A x \in w.members[q] \cap w.open : w.view[x].room \in {q, NoRoom}
      /\ \A x \in w.open : x # s => w.view[x].room = w.session[x]
      /\ \A x \in w.open : w.session[x] # NoRoom /\ w.view[x].room = w.session[x] =>
            w.members[w.session[x]] \subseteq w.view[x].users
      /\ \A x \in w.absent : w.session[x] = NoRoom
      /\ w.open \subseteq w.tracked
  BY AloneAgrees
<1>1. /\ w.session[s] = NoRoom
      /\ w2.session = w.session /\ w2.rooms = w.rooms
      /\ \A q \in w.rooms : w2.members[q] = w.members[q]
      /\ w2.open = w.open /\ w2.absent = w.absent
      /\ w.tracked \subseteq w2.tracked
      /\ \A x \in Socket : x # s => w2.view[x] = w.view[x]
      /\ \/ w2.view[s] = NoView
         \/ /\ w2.view[s] = w.view[s]
            /\ \E f \in Stacked(w2) : Is(f, "send", s) /\ f.msg.type = "serverError"
  BY DEF NoEntry
<1>2. /\ w.rooms \subseteq RoomId /\ NoRoom \notin w.rooms
      /\ w.open \subseteq Socket /\ NoView.room = NoRoom
  BY RoomAssumption DEF WorldType, NoView
<1>3. RoomsAgree(w2) BY <1>0, <1>1 DEF RoomsAgree
<1>4. SessionsAgree(w2) BY <1>0, <1>1 DEF SessionsAgree
<1>5. \A q \in w.rooms : s \notin w.members[q] BY <1>0, <1>1, <1>2
<1>6. SeenFromRooms(w2) BY <1>0, <1>1, <1>2, <1>5 DEF SeenFromRooms
<1>7. BeliefsPending(w2)
  <2> SUFFICES ASSUME NEW x \in w2.open PROVE BeliefPending(w2, x) BY DEF BeliefsPending
  <2>1. CASE x = s /\ w2.view[s] = NoView BY <1>1, <1>2, <2>1 DEF BeliefPending
  <2>2. CASE x = s /\ \E f \in Stacked(w2) : Is(f, "send", s) /\ f.msg.type = "serverError"
    BY <2>2 DEF BeliefPending
  <2>3. CASE x # s
    <3>1. w2.view[x].room = w2.session[x] BY <1>0, <1>1, <1>2, <2>3
    <3> QED BY <3>1 DEF BeliefPending
  <2> QED BY <1>1, <2>1, <2>2, <2>3
<1>8. ListsPending(w2)
  <2> SUFFICES ASSUME NEW x \in w2.open, w2.session[x] # NoRoom, w2.view[x].room = w2.session[x]
               PROVE  w2.members[w2.session[x]] \subseteq w2.view[x].users
    BY DEF ListsPending, ListPending
  <2>1. x # s /\ x \in Socket BY <1>1, <1>2
  <2>2. w2.view[x] = w.view[x] BY <1>1, <2>1
  <2>3. w.session[x] \in w.rooms BY <1>0, <1>1, <2>1
  <2> QED BY <1>0, <1>1, <2>2, <2>3
<1>9. Unattached(w2) BY <1>0, <1>1 DEF Unattached
<1>10. Supervised(w2) BY <1>0, <1>1 DEF Supervised
<1> QED BY <1>3, <1>4, <1>6, <1>7, <1>8, <1>9, <1>10

LEMMA RefusalRun ==
    ASSUME Inv, todo # <<>>, Head(todo).call = "generateRoomId",
           NEW s, s = Head(todo).socket, transport' = transport,
           NEW S, NEW cs \in Seq(S), \A k \in 1 .. Len(cs) : FrameType(cs[k]),
           Leaves(Heard(maps, s), cs \o Tail(todo), NoUsage),
           view' \in [Socket -> ViewType], \A x \in Socket : x # s => view'[x] = view[x],
           \/ view'[s] = NoView
           \/ /\ view'[s] = view[s]
              /\ \E f \in NewCalls(cs) : Is(f, "send", s) /\ f.msg.type = "serverError",
           \A W : W.session[s] = NoRoom => Ready(W, cs)
    PROVE  Inv'
<1> DEFINE h == Head(todo)
           m == Heard(maps, s)
           w == World
           w2 == World'
<1>1. s \in Socket
  <2>1. FrameType(h) BY HeadFacts
  <2> QED BY <2>1 DEF FrameType, OfSocket
<1>2. Leaves(m, cs \o Tail(todo), NoUsage) OBVIOUS
<1>3. m \in MapsType /\ Distinct(m) /\ Kept(m) /\ Tracked(maps) \subseteq Tracked(m)
  BY <1>1, MapsTyped, HeardMaps
<1>e. Entering(h, s) /\ h.call = "generateRoomId" BY DEF Entering
<1> HIDE DEF m, w, w2, h
<1>4. Types(maps', todo', transport', view') /\ Ran(m, cs, w, w2)
  BY <1>2, <1>3, StateTyped, Running DEF w, w2
<1>5. Stacked(w) = {h} /\ w2.todo = cs /\ EntryGood(w, h, {}) BY <1>e, <1>4, LastFrame DEF h
<1>6. w.session[s] = NoRoom BY <1>5, <1>e DEF EntryGood, Entering
<1>7. /\ w2.session = w.session /\ w2.rooms = w.rooms /\ SessionsAgree(w2)
      /\ \A q \in w.rooms : w2.members[q] = w.members[q]
  <2>1. w.rooms \subseteq RoomId BY <1>4 DEF Ran, WorldType
  <2> QED BY <1>3, <1>4, <2>1, KeptMaps
<1>8. Stacked(w2) = NewCalls(cs) /\ (Ready(w2, cs) => FramesGood(w2) /\ EntryLast(w2))
  BY <1>5, FreshStack
<1>9. NoEntry(w, w2, s)
  <2>1. w2.open = w.open /\ w2.absent = w.absent /\ w.view = view /\ w2.view = view'
        /\ w.tracked = Tracked(maps) /\ w2.tracked = Tracked(m)
    BY <1>4 DEF Ran, After
  <2> QED BY <1>3, <1>6, <1>7, <1>8, <2>1 DEF NoEntry
<1>10. WorldType(w) /\ WorldType(w2) /\ Holds(w) /\ Rests(w2) BY <1>4 DEF Ran, After
<1>11. /\ RoomsAgree(w2) /\ SessionsAgree(w2) /\ SeenFromRooms(w2) /\ BeliefsPending(w2)
       /\ ListsPending(w2) /\ Unattached(w2) /\ Supervised(w2)
  BY <1>1, <1>5, <1>9, <1>10, <1>e, EntryRefused
<1>12. Holds(w2)
  <2>1. w2.session[s] = NoRoom BY <1>6, <1>7
  <2>2. Ready(w2, cs) BY <2>1
  <2>3. FramesGood(w2) /\ EntryLast(w2) BY SMTT(30), <1>8, <2>2
  <2> QED BY <1>10, <1>11, <2>3 DEF Holds
<1> QED BY <1>4, <1>12 DEF Inv, w2

LEMMA RunGenerateKeeps == Inv /\ RunGenerate => Inv'
<1> SUFFICES ASSUME Inv, RunGenerate PROVE Inv' OBVIOUS
<1> DEFINE s == Head(todo).socket
           m == Heard(maps, s)
<1>0. todo # <<>> /\ Head(todo).call = "generateRoomId" BY DEF RunGenerate, Calling
<1>1. s \in Socket
  <2>1. FrameType(Head(todo)) BY <1>0, HeadFacts
  <2> QED BY <1>0, <2>1 DEF FrameType, OfSocket
<1>2. transport' = transport BY DEF RunGenerate
<1>3. ASSUME NEW r \in RoomId \ maps.rooms, view' = view,
             Continue([OpenRoom(m, s, r) EXCEPT !.members[r] = <<s>>],
                      <<SendTo(s, Entered(r)), Broadcast(r), Record("room_created", s, r)>>)
      PROVE  Inv'
  <2> DEFINE m2 == [OpenRoom(m, s, r) EXCEPT !.members[r] = <<s>>]
             e == "room_created"
  <2>1. Entry(m2, s, r)
    <3>1. Opens(m2, s, r) BY DEF Opens
    <3> HIDE DEF s, m2
    <3> QED BY <1>1, <1>3, <3>1, MapsTyped, OpenedRoom
  <2>2. Continue(m2, <<SendTo(s, Entered(r)), Broadcast(r), Record(e, s, r)>>) BY <1>3
  <2>s. s = Head(todo).socket OBVIOUS
  <2> HIDE DEF m2, e, s
  <2> QED BY <1>0, <1>2, <1>3, <2>1, <2>2, <2>s, EntryRun
<1>4. CASE view' = view /\ Continue(m, <<SendTo(s, ServerError)>>)
  <2> DEFINE a == SendTo(s, ServerError)
             cs == <<a>>
  <2>1. Leaves(Heard(maps, s), cs \o Tail(todo), NoUsage) BY <1>4 DEF Continue
  <2>2. a.call = "send" /\ a.socket = s /\ a.msg.type = "serverError" BY DEF SendTo, ServerError
  <2>s. s = Head(todo).socket OBVIOUS
  <2> HIDE DEF a, s
  <2>3. FrameType(a) BY <1>1, <2>2 DEF FrameType, OfSocket, OfRoom
  <2>4. cs \in Seq({a}) /\ (\A k \in 1 .. Len(cs) : FrameType(cs[k])) /\ NewCalls(cs) = {a}
    BY <2>3, OneCall
  <2>5. \A W : W.session[s] = NoRoom => Ready(W, cs)
    <3>1. \A W : W.session[s] = NoRoom => FrameGood(W, a, {}) BY <2>2 DEF FrameGood, SendGood
    <3> QED BY <2>2, <3>1, OneCall
  <2> HIDE DEF cs
  <2>6. \E f \in NewCalls(cs) : Is(f, "send", s) /\ f.msg.type = "serverError"
    BY <2>2, <2>4 DEF Is
  <2>7. view' \in [Socket -> ViewType] /\ (\A x \in Socket : x # s => view'[x] = view[x])
        /\ view'[s] = view[s]
    BY <1>4, StateTyped
  <2> QED BY <1>0, <1>2, <2>1, <2>4, <2>5, <2>6, <2>7, <2>s, RefusalRun
<1>5. CASE view' = [view EXCEPT ![s] = NoView] /\ Continue(m, <<>>)
  <2> DEFINE cs == <<>>
  <2>1. Leaves(Heard(maps, s), cs \o Tail(todo), NoUsage) BY <1>5 DEF Continue
  <2>2. cs \in Seq({}) /\ \A k \in 1 .. Len(cs) : FrameType(cs[k]) BY EmptySeq
  <2>3. \A W : Ready(W, cs) BY NoCalls
  <2>s. s = Head(todo).socket OBVIOUS
  <2> HIDE DEF cs, s
  <2>4. /\ view' \in [Socket -> ViewType] /\ view'[s] = NoView
        /\ \A x \in Socket : x # s => view'[x] = view[x]
    <3>1. NoView \in ViewType BY DEF NoView, ViewType
    <3>2. view \in [Socket -> ViewType] BY StateTyped
    <3> QED BY <1>1, <1>5, <3>1, <3>2
  <2> QED BY <1>0, <1>2, <2>1, <2>2, <2>3, <2>4, <2>s, RefusalRun
<1> QED BY <1>3, <1>4, <1>5 DEF RunGenerate, Arg

LEMMA EnteredRoom ==
    ASSUME maps \in MapsType, Distinct(maps), NEW s \in Socket, NEW r \in maps.rooms,
           s \notin Mem(maps, r),
           NEW m, Joins(m, s, r)
    PROVE  Entry(m, s, r)
<1> DEFINE g == Heard(maps, s)
           q == g.members[r]
           p == Append(q, s)
           session == [g.session EXCEPT ![s] = r]
           members == [g.members EXCEPT ![r] = p]
<1>1. /\ g \in MapsType /\ Distinct(g) /\ Kept(g)
      /\ Tracked(maps) \cup {s} \subseteq Tracked(g)
  BY HeardMaps
<1>2. m = [g EXCEPT !.session = session, !.members = members] BY DEF Joins
<1> HIDE DEF g
<1>3. /\ g.session \in [Socket -> RoomId \cup {NoRoom}] /\ g.rooms \in SUBSET RoomId
      /\ g.members \in [RoomId -> Seq(Socket)] /\ g.creator \in [RoomId -> Socket \cup {NoSocket}]
      /\ g.ttl \in [RoomId -> Int] /\ g.idle \in [Socket -> Nat \cup {Missing}] /\ g.known \in SUBSET Socket
  BY <1>1 DEF MapsType
<1>4. g.members = maps.members /\ g.rooms = maps.rooms /\ g.session = maps.session /\ r \in RoomId
  BY <1>1, <1>3 DEF Kept
<1> HIDE DEF session, members
<1>5. /\ m.session = session /\ m.rooms = g.rooms /\ m.members = members
      /\ m.creator = g.creator /\ m.ttl = g.ttl /\ m.idle = g.idle /\ m.known = g.known
      /\ m = [session |-> session, rooms |-> g.rooms, members |-> members,
              creator |-> g.creator, ttl |-> g.ttl, idle |-> g.idle, known |-> g.known]
  BY <1>1, <1>2 DEF MapsType
<1>6. q \in Seq(Socket) /\ (\A i, j \in DOMAIN q : q[i] = q[j] => i = j)
  BY <1>1, <1>3, <1>4 DEF Distinct
<1>7. \A i \in DOMAIN q : q[i] # s BY <1>4 DEF Mem
<1>8. Mem(maps, r) = {q[i] : i \in DOMAIN q} BY <1>4 DEF Mem
<1> HIDE DEF q
<1>9. /\ p \in Seq(Socket)
      /\ \A i, j \in DOMAIN p : p[i] = p[j] => i = j
      /\ {p[i] : i \in DOMAIN p} = {q[i] : i \in DOMAIN q} \cup {s}
  <2>1. /\ p \in Seq(Socket) /\ Len(p) = Len(q) + 1
        /\ \A i \in 1 .. Len(q) : p[i] = q[i]
        /\ p[Len(q) + 1] = s
    BY <1>6, AppendProperties
  <2>2. DOMAIN q = 1 .. Len(q) /\ Len(q) \in Nat BY <1>6, LenProperties
  <2>3. DOMAIN p = 1 .. Len(q) + 1 BY <2>1, LenProperties
  <2> HIDE DEF p
  <2>4. \A i \in DOMAIN p : i \in DOMAIN q \/ i = Len(q) + 1 BY <2>2, <2>3
  <2>5. \A i \in DOMAIN q : i \in DOMAIN p /\ p[i] = q[i] BY <2>1, <2>2, <2>3
  <2>6. Len(q) + 1 \in DOMAIN p BY <2>2, <2>3
  <2>7. \A i, j \in DOMAIN p : p[i] = p[j] => i = j
    BY <1>6, <1>7, <2>1, <2>4, <2>5
  <2>8. {p[i] : i \in DOMAIN p} = {q[i] : i \in DOMAIN q} \cup {s}
    BY <2>1, <2>4, <2>5, <2>6
  <2> QED BY <2>1, <2>7, <2>8
<1> HIDE DEF p
<1>10. /\ members \in [RoomId -> Seq(Socket)] /\ members[r] = p
       /\ \A x \in RoomId : x # r => members[x] = g.members[x]
  BY <1>3, <1>4, <1>9 DEF members
<1>11. session \in [Socket -> RoomId \cup {NoRoom}] /\ session = [maps.session EXCEPT ![s] = r]
  BY <1>3, <1>4 DEF session
<1>12. m \in MapsType
  <2>1. /\ m.session \in [Socket -> RoomId \cup {NoRoom}] /\ m.rooms \in SUBSET RoomId
        /\ m.members \in [RoomId -> Seq(Socket)]
        /\ m.creator \in [RoomId -> Socket \cup {NoSocket}]
        /\ m.ttl \in [RoomId -> Int] /\ m.idle \in [Socket -> Nat \cup {Missing}]
        /\ m.known \in SUBSET Socket
    BY <1>3, <1>5, <1>10, <1>11
  <2>2. m = [session |-> m.session, rooms |-> m.rooms, members |-> m.members,
             creator |-> m.creator, ttl |-> m.ttl, idle |-> m.idle, known |-> m.known]
    BY <1>5
  <2> QED BY <2>1, <2>2 DEF MapsType
<1>13. Distinct(m)
  <2>1. ASSUME NEW x \in RoomId, NEW i \in DOMAIN m.members[x], NEW j \in DOMAIN m.members[x],
               m.members[x][i] = m.members[x][j]
        PROVE  i = j
    <3>1. CASE x = r
      <4>1. m.members[x] = p BY <1>5, <1>10, <3>1
      <4> QED BY <1>9, <2>1, <4>1
    <3>2. CASE x # r
      <4>1. m.members[x] = g.members[x] BY <1>5, <1>10, <3>2
      <4> QED BY <1>1, <2>1, <4>1 DEF Distinct
    <3> QED BY <3>1, <3>2
  <2> QED BY <2>1 DEF Distinct
<1>14. \A x \in RoomId : x # r => Mem(m, x) = Mem(maps, x) BY <1>4, <1>5, <1>10 DEF Mem
<1>15. Mem(m, r) = Mem(maps, r) \cup {s}
  <2>1. Mem(m, r) = {p[i] : i \in DOMAIN p} BY <1>5, <1>10 DEF Mem
  <2> QED BY <1>8, <1>9, <2>1
<1>16. Tracked(maps) \subseteq Tracked(m) BY <1>1, <1>5 DEF Tracked
<1>17. m.rooms = maps.rooms \cup {r} BY <1>4, <1>5
<1> QED BY <1>5, <1>11, <1>12, <1>13, <1>14, <1>15, <1>16, <1>17 DEF Entry

LEMMA RunEnterKeeps == Inv /\ RunEnter => Inv'
<1> SUFFICES ASSUME Inv, RunEnter PROVE Inv' OBVIOUS
<1> DEFINE h == Head(todo)
           s == h.socket
           r == h.room
           m == [Heard(maps, s) EXCEPT !.session[s] = r, !.members[r] = Append(@, s)]
           e == "room_joined"
           w == World
<1>0. todo # <<>> /\ h.call = "enterRoom" BY DEF RunEnter, Calling
<1>1. transport' = transport /\ view' = view BY DEF RunEnter, Same
<1>2. Continue(m, <<SendTo(s, Entered(r)), Broadcast(r), Record(e, s, r)>>) BY DEF RunEnter, Arg
<1>3. FrameType(h) /\ FrameGood(w, h, {}) /\ h \in Stacked(w) BY <1>0, HeadFacts
<1>4. s \in Socket /\ r \in RoomId BY <1>0, <1>3 DEF FrameType, OfSocket
<1>5. WorldType(w)
  <2>1. Types(maps, todo, transport, view) BY DEF Inv
  <2> QED BY <2>1, TypedWorld DEF World
<1>6. Holds(w) BY DEF Inv
<1>7. w.session = maps.session /\ w.rooms = maps.rooms /\ w.members[r] = Mem(maps, r) /\ w.todo = todo
  BY <1>4 DEF World, WorldOf
<1>s. s = h.socket /\ r = h.room OBVIOUS
<1>j. Joins(m, s, r) BY DEF Joins
<1> HIDE DEF w, h, s, r
<1>8. r \in w.rooms /\ w.session[s] = NoRoom
  BY <1>0, <1>3, <1>s DEF FrameGood, EntryGood
<1>9. s \notin w.members[r]
  <2> SUFFICES ASSUME s \in w.members[r] PROVE FALSE OBVIOUS
  <2>1. Destroying(w, r)
    <3>1. r # NoRoom BY <1>4, RoomAssumption
    <3> QED BY <1>6, <1>8, <3>1 DEF Holds, RoomsAgree
  <2>2. PICK i \in DOMAIN w.todo : Ending(w.todo[i], r) BY <2>1 DEF Destroying, Stacked
  <2>3. todo \in Seq({todo[k] : k \in DOMAIN todo}) BY DEF Inv, Types
  <2>4. 1 \in DOMAIN todo /\ h = todo[1] /\ DOMAIN todo = 1 .. Len(todo) /\ Len(todo) \in Nat
    BY <1>0, <2>3, EmptySeq, LenProperties DEF h
  <2>e. EntryLast(w) BY <1>6 DEF Holds
  <2>5. 1 = Len(todo) BY <1>0, <1>7, <2>4, <2>e DEF EntryLast
  <2>6. w.todo[i] = h
    <3>1. i \in 1 .. 1 BY <1>7, <2>4, <2>5
    <3>2. i = 1 BY <3>1
    <3> QED BY <1>7, <2>4, <3>2
  <2> QED BY <1>0, <2>2, <2>6 DEF Ending
<1> HIDE DEF m, e
<1>10. Entry(m, s, r) BY <1>4, <1>7, <1>8, <1>9, <1>j, MapsTyped, EnteredRoom
<1> QED BY <1>0, <1>1, <1>2, <1>4, <1>10, <1>s, EntryRun DEF h

\* The client that entered is told, and from then on believes what the hub holds.
Told(w, w2, s, r) ==
    /\ w2.session = w.session /\ w2.rooms = w.rooms
    /\ \A q \in w.rooms : w2.members[q] = w.members[q]
    /\ w2.open = w.open /\ w2.absent = w.absent /\ w2.tracked = w.tracked
    /\ \A x \in Socket : x # s => w2.view[x] = w.view[x]
    /\ s \in w.open => w2.view[s].room = r
    /\ Rests(w2)

LEMMA WelcomeWorld ==
    ASSUME NEW w, NEW w2, WorldType(w), WorldType(w2), Holds(w), w.todo \in Seq(Stacked(w)),
           NEW s \in Socket, NEW r \in RoomId, NEW h, h = w.todo[1], Welcomed(h, s),
           WelcomeGood(w, s, r), NEW cs, StackOf(w, w2, cs), Ready(w2, cs), Told(w, w2, s, r)
    PROVE  Holds(w2)
<1>1. /\ w2.session = w.session /\ w2.rooms = w.rooms
      /\ \A q \in w.rooms : w2.members[q] = w.members[q]
      /\ w2.open = w.open /\ w2.absent = w.absent /\ w2.tracked = w.tracked
      /\ \A x \in Socket : x # s => w2.view[x] = w.view[x]
      /\ s \in w.open => w2.view[s].room = r
  BY DEF Told
<1>2. /\ w.session[s] = r
      /\ \E g \in Stacked(w) : Broadcasts(g, r)
      /\ \A g \in Stacked(w) : g.call \in {"send", "broadcastUserUpdated", "recordMetric"}
  BY DEF WelcomeGood
<1>3. /\ h \in Stacked(w) /\ Stacked(w) \subseteq Stacked(w2) \cup {h}
      /\ \A k \in DOMAIN w2.todo : Origin(w, w2, cs, k)
      /\ w2.todo \in Seq(Stacked(w2))
  BY DEF StackOf
<1>4. ASSUME NEW i \in DOMAIN w.todo, w.todo[i].call = "send", w.todo[i].msg.type # "reply"
      PROVE  Above(w, i) = {} /\ w.todo[i] = h
  <2>1. FrameGood(w, w.todo[i], Above(w, i)) BY DEF Holds, FramesGood
  <2>2. Above(w, i) = {} BY <1>4, <2>1 DEF FrameGood, SendGood
  <2>3. i \in 1 .. Len(w.todo) /\ Len(w.todo) \in Nat BY LenProperties
  <2>4. i = 1
    <3>1. 1 \notin 1 .. i - 1 BY <2>2 DEF Above
    <3> QED BY <2>3, <3>1
  <2> QED BY <2>2, <2>4
<1>5. \A f \in Stacked(w) : f.call = "send" /\ f.msg.type # "reply" => f = h
  BY <1>4 DEF Stacked
<1>6. \A q : ~Destroying(w, q) BY <1>2 DEF Destroying, Ending
<1>7. h.call = "send" /\ h.socket = s /\ h.msg.type = "entered" BY DEF Welcomed, Is
<1>8. \A x \in w.open : w.open \subseteq Socket BY DEF WorldType
<1>9. \A q \in w.rooms : \A x \in w.members[q] : w.session[x] = q
  BY <1>6 DEF Holds, RoomsAgree
<1>10. RoomsAgree(w2) BY <1>1, <1>9 DEF RoomsAgree
<1>11. SessionsAgree(w2) BY <1>1 DEF Holds, SessionsAgree
<1>12. SeenFromRooms(w2)
  <2> SUFFICES ASSUME NEW q \in w.rooms, NEW x \in w.members[q] \cap w.open
               PROVE  w2.view[x].room \in {q, NoRoom}
    BY <1>1 DEF SeenFromRooms
  <2>1. CASE x = s BY <1>1, <1>2, <1>9, <2>1
  <2>2. CASE x # s
    <3>1. ~ \E f \in Stacked(w) : Welcomed(f, x) BY <1>5, <1>7, <2>2 DEF Welcomed, Is
    <3>2. w.view[x].room \in {q, NoRoom} BY <3>1 DEF Holds, SeenFromRooms
    <3> QED BY <1>1, <1>8, <2>2, <3>2
  <2> QED BY <2>1, <2>2
<1>13. BeliefsPending(w2)
  <2> SUFFICES ASSUME NEW x \in w.open PROVE w2.view[x].room = w2.session[x]
    BY <1>1 DEF BeliefsPending, BeliefPending
  <2>1. CASE x = s BY <1>1, <1>2, <2>1
  <2>2. CASE x # s
    <3>1. BeliefPending(w, x) BY DEF Holds, BeliefsPending
    <3>2. \A f \in Stacked(w) : ~Entering(f, x) BY <1>2 DEF Entering
    <3>3. \A f \in Stacked(w) : f.call \notin {"endSession", "safeClose", "detachSocketFromRoom"}
      BY <1>2
    <3>4. \A f \in Stacked(w) : ~(Is(f, "send", x) /\ f.msg.type \in {"serverError", "entered"})
      BY <1>5, <1>7, <2>2 DEF Is
    <3>5. w.view[x].room = w.session[x] BY <3>1, <3>2, <3>3, <3>4 DEF BeliefPending
    <3> QED BY <1>1, <1>8, <2>2, <3>5
  <2> QED BY <2>1, <2>2
<1>14. \A g \in Stacked(w) : g.call = "broadcastUserUpdated" => g \in Stacked(w2)
  BY <1>3, <1>7
<1>15. ListsPending(w2)
  <2> SUFFICES ASSUME NEW x \in w.open, w2.session[x] # NoRoom, w2.view[x].room = w2.session[x]
               PROVE  \/ w2.members[w2.session[x]] \subseteq w2.view[x].users
                      \/ \E f \in Stacked(w2) : Broadcasts(f, w2.session[x])
    BY <1>1 DEF ListsPending, ListPending
  <2>1. CASE x = s BY <1>1, <1>2, <1>14, <2>1 DEF Broadcasts
  <2>2. CASE x # s
    <3>1. x \in Socket BY <1>8
    <3>2. w2.view[x] = w.view[x] BY <1>1, <2>2, <3>1
    <3>3. w.session[x] \in w.rooms BY <1>1, <3>1 DEF Holds, SessionsAgree
    <3>4. ListPending(w, x) BY DEF Holds, ListsPending
    <3>5. \A f \in Stacked(w) : ~Lists(w, f, x) BY <1>2 DEF Lists
    <3>6. \/ w.members[w.session[x]] \subseteq w.view[x].users
          \/ \E f \in Stacked(w) : Broadcasts(f, w.session[x])
      BY <1>1, <1>6, <3>2, <3>4, <3>5 DEF ListPending
    <3> QED BY <1>1, <1>14, <3>2, <3>3, <3>6 DEF Broadcasts
  <2> QED BY <2>1, <2>2
<1>16. Unattached(w2)
  <2>1. \A f \in Stacked(w) : f.call # "detachSocketFromRoom" BY <1>2
  <2> QED BY <1>1, <2>1 DEF Holds, Unattached, Is
<1>17. Supervised(w2) BY <1>1 DEF Holds, Supervised
<1>18. ASSUME NEW k \in DOMAIN w2.todo
       PROVE  /\ FrameGood(w2, w2.todo[k], Above(w2, k))
              /\ w2.todo[k].call \notin {"generateRoomId", "enterRoom"}
  <2>1. Origin(w, w2, cs, k) BY <1>3
  <2>2. CASE k \in 1 .. Len(cs) /\ w2.todo[k] = cs[k] /\ Above(w2, k) = {cs[j] : j \in 1 .. k - 1}
    BY <2>2 DEF Ready
  <2>3. ASSUME NEW i \in DOMAIN w.todo, w2.todo[k] = w.todo[i], w.todo[1] \in Above(w, i)
        PROVE  /\ FrameGood(w2, w2.todo[k], Above(w2, k))
               /\ w2.todo[k].call \notin {"generateRoomId", "enterRoom"}
    <3> DEFINE f == w2.todo[k]
               A == Above(w2, k)
    <3>1. f.call \in {"send", "broadcastUserUpdated", "recordMetric"}
      BY <1>2, <2>3 DEF Stacked
    <3>2. f.call = "send" => f.msg.type = "reply" BY <1>4, <2>3
    <3> HIDE DEF f, A
    <3>3. FrameGood(w2, f, A) BY <3>1, <3>2 DEF FrameGood, SendGood
    <3> QED BY <3>1, <3>3 DEF f, A
  <2> QED BY <2>1, <2>2, <2>3 DEF Origin
<1>19. FramesGood(w2) /\ EntryLast(w2) BY <1>18 DEF FramesGood, EntryLast
<1>20. Rests(w2) BY DEF Told
<1> QED BY <1>10, <1>11, <1>12, <1>13, <1>15, <1>16, <1>17, <1>19, <1>20 DEF Holds

LEMMA RunWelcomeKeeps == Inv /\ RunSend /\ Head(todo).msg.type = "entered" => Inv'
<1> SUFFICES ASSUME Inv, RunSend, Head(todo).msg.type = "entered" PROVE Inv' OBVIOUS
<1> DEFINE h == Head(todo)
           s == h.socket
           msg == h.msg
           r == msg.room
           w == World
           w2 == World'
<1>0. todo # <<>> /\ h.call = "send" /\ Sends(s, msg, <<>>) BY DEF RunSend, Calling, Arg
<1>1. s \in Socket /\ msg.type = "entered" /\ r \in RoomId
  <2>1. FrameType(h) BY <1>0, HeadFacts
  <2> QED BY <1>0, <2>1 DEF FrameType, OfSocket
<1>2. /\ transport' = transport
      /\ view' = IF transport[s] = "open" THEN [view EXCEPT ![s] = Reads(@, msg)] ELSE view
  BY <1>0 DEF Sends
<1>3. /\ view' \in [Socket -> ViewType]
      /\ \A x \in Socket : x # s => view'[x] = view[x]
      /\ transport[s] = "open" => view'[s].room = r
  <2>1. view \in [Socket -> ViewType] BY StateTyped
  <2> DEFINE v == view[s]
  <2>2. v \in ViewType BY <1>1, <2>1
  <2> HIDE DEF v, s, msg
  <2>3. Reads(v, msg) \in ViewType /\ Reads(v, msg).room = msg.room
    <3>1. CASE msg.room # v.room
      <4>1. Reads(v, msg) = [room |-> msg.room, users |-> {}] BY <1>1, <2>2, <3>1, Reading
      <4>2. msg.room \in RoomId BY <1>1 DEF r
      <4> QED BY <4>1, <4>2 DEF ViewType
    <3>2. CASE msg.room = v.room
      <4>1. Reads(v, msg) = v BY <1>1, <2>2, <3>2, Reading
      <4> QED BY <2>2, <3>2, <4>1
    <3> QED BY <3>1, <3>2
  <2>4. Reads(view[s], msg) \in ViewType /\ Reads(view[s], msg).room = msg.room BY <2>3 DEF v
  <2> QED BY <1>1, <1>2, <2>1, <2>4
<1>4. ASSUME NEW S, NEW cs \in Seq(S), \A k \in 1 .. Len(cs) : FrameType(cs[k]),
             Leaves(maps, cs \o Tail(todo), NoUsage),
             \A W2 : s \notin W2.open \/ cs = <<>> => Ready(W2, cs),
             transport[s] = "broken" \/ cs = <<>>
      PROVE  Inv'
  <2>1. Types(maps', todo', transport', view') /\ Ran(maps, cs, w, w2)
    BY <1>0, <1>2, <1>3, <1>4, MapsTyped, StateTyped, Running
  <2>2. r = h.msg.room /\ s = h.socket OBVIOUS
  <2> HIDE DEF s, msg, r, w, w2, h
  <2>3. Kept(maps) BY DEF Kept
  <2>4. transport[s] = "broken" => s \notin w2.open BY <1>2, <2>1 DEF Ran
  <2>5. Ready(w2, cs) BY <1>4, <2>4
  <2>6. /\ w2.session = w.session /\ w2.rooms = w.rooms
        /\ \A q \in RoomId : q \in w.rooms => w2.members[q] = w.members[q]
    BY <2>1, <2>3, KeptMaps
  <2>7. Told(w, w2, s, r)
    <3>1. /\ w2.open = w.open /\ w2.absent = w.absent /\ w2.tracked = w.tracked /\ Rests(w2)
          /\ w.view = view /\ w2.view = view' /\ (s \in w.open => transport[s] = "open")
          /\ w.rooms \subseteq RoomId
      BY <1>2, <2>1 DEF Ran, After, WorldType
    <3> QED BY <1>3, <2>6, <3>1 DEF Told
  <2>8. /\ WorldType(w) /\ Holds(w) /\ WorldType(w2) /\ w.todo \in Seq(Stacked(w))
        /\ h = w.todo[1] /\ StackOf(w, w2, cs) /\ FrameGood(w, h, {})
    BY <2>1 DEF Ran, h
  <2>m. msg.type = h.msg.type BY DEF msg
  <2>9. Welcomed(h, s) BY <1>0, <1>1, <2>2, <2>m DEF Welcomed, Is
  <2>10. WelcomeGood(w, s, r)
    BY <1>0, <1>1, <2>2, <2>8, <2>m DEF FrameGood, SendGood
  <2>11. Holds(w2) BY <1>1, <2>5, <2>7, <2>8, <2>9, <2>10, WelcomeWorld
  <2> QED BY <2>1, <2>11 DEF Inv, w2
<1>5. CASE transport[s] = "broken"
  <2> DEFINE a == Detach(s, TRUE)
             b == Forget(s)
             cs == <<a, b>>
  <2>1. Leaves(maps, cs \o Tail(todo), NoUsage) BY <1>0, <1>5, Removals DEF Sends, Continue
  <2>2. /\ FrameType(a) /\ FrameType(b)
        /\ a.call = "detachSocketFromRoom" /\ a.socket = s
        /\ b.call = "forget" /\ b.socket = s
        /\ \A W, above : s \notin W.open => FrameGood(W, a, above) /\ FrameGood(W, b, above)
    <3>1. s \in Socket BY <1>1
    <3> HIDE DEF s
    <3> QED BY <3>1, RemovalGood
  <2> HIDE DEF a, b
  <2>3. cs \in Seq({a, b}) /\ (\A k \in 1 .. Len(cs) : FrameType(cs[k])) BY <2>2, TwoCalls
  <2>4. \A W2 : s \notin W2.open => Ready(W2, cs) BY <2>2, TwoCalls
  <2>5. cs # <<>> BY TwoCalls
  <2> HIDE DEF cs
  <2> QED BY <1>4, <1>5, <2>1, <2>3, <2>4, <2>5
<1>6. CASE transport[s] # "broken"
  <2> DEFINE cs == <<>>
  <2>1. Leaves(maps, cs \o Tail(todo), NoUsage) BY <1>0, <1>6 DEF Sends, Continue
  <2>2. cs \in Seq({}) /\ \A k \in 1 .. Len(cs) : FrameType(cs[k]) BY EmptySeq
  <2>3. \A W2 : Ready(W2, cs) BY NoCalls
  <2>4. cs = <<>> OBVIOUS
  <2> HIDE DEF cs
  <2> QED BY <1>4, <2>1, <2>2, <2>3, <2>4
<1> QED BY <1>5, <1>6

(***************************************************************************)
(* What starts when the hub is at rest.                                    *)
(***************************************************************************)

\* At rest nothing is pending, so that whoever is in a room's Set has its session
\* there, is open with the right belief, and has a list with every member.
Calm(w) ==
    /\ SessionsAgree(w) /\ Supervised(w)
    /\ \A r \in w.rooms : \A s \in w.members[r] : w.session[s] = r
    /\ \A s \in w.open :
          /\ w.view[s].room = w.session[s]
          /\ w.session[s] # NoRoom => w.members[w.session[s]] \subseteq w.view[s].users
    /\ \A s \in w.absent : w.session[s] = NoRoom
    /\ w.hub.session = w.session /\ w.hub.ttl = w.ttl

LEMMA Calming ==
    ASSUME NEW w, Holds(w), w.todo = <<>>
    PROVE  Calm(w)
<1>1. Stacked(w) = {} BY DEF Stacked
<1>2. \A s \in w.open : w.view[s].room = w.session[s]
  BY <1>1 DEF Holds, BeliefsPending, BeliefPending
<1>3. \A s \in w.open : w.session[s] # NoRoom => w.members[w.session[s]] \subseteq w.view[s].users
  BY <1>1, <1>2 DEF Holds, ListsPending, ListPending, Destroying
<1>4. \A r \in w.rooms : \A s \in w.members[r] : w.session[s] = r
  BY <1>1 DEF Holds, RoomsAgree, Destroying
<1>5. \A s \in w.absent : w.session[s] = NoRoom BY <1>1 DEF Holds, Unattached
<1> QED BY <1>2, <1>3, <1>4, <1>5 DEF Holds, Rests, Calm

\* What a handler has to start from, and leaves before its first call.
Began(m, cs, w, w2) ==
    /\ WorldType(w) /\ WorldType(w2) /\ Calm(w)
    /\ w.session = maps.session /\ w.rooms = maps.rooms /\ w.tracked = Tracked(maps)
    /\ w.ttl = maps.ttl
    /\ \A r \in RoomId : w.members[r] = Mem(maps, r)
    /\ w.view = view /\ w2.view = view'
    /\ w.open = {s \in Socket : transport[s] = "open"}
    /\ w2.open = {s \in Socket : transport'[s] = "open"}
    /\ w.absent = {s \in Socket : transport[s] = "absent"}
    /\ w2.absent = {s \in Socket : transport'[s] = "absent"}
    /\ w2.session = w.session /\ w2.rooms = w.rooms /\ w2.tracked = Tracked(m)
    /\ \A r \in RoomId : w2.members[r] \subseteq w.members[r]
    /\ \A r \in RoomId : r \in w.rooms \/ cs # <<>> => w2.members[r] = w.members[r]
    /\ w2.todo = cs
    /\ cs # <<>> => w2.hub = w.hub
    /\ SessionsAgree(w2) /\ Rests(w2)

LEMMA Starting ==
    ASSUME Inv, NEW m \in MapsType, Distinct(m), Kept(m), NEW S, NEW cs \in Seq(S),
           \A k \in 1 .. Len(cs) : FrameType(cs[k]), Begin(m, cs),
           transport' \in [Socket -> {"absent", "open", "closing", "broken"}],
           view' \in [Socket -> ViewType]
    PROVE  Types(maps', todo', transport', view') /\ Began(m, cs, World, World')
<1> DEFINE w == World
           w2 == World'
<1>1. todo = <<>> /\ Leaves(m, cs, NoUsage) BY DEF Begin, AtRest
<1>2. DOMAIN cs = 1 .. Len(cs) /\ Len(cs) \in Nat BY LenProperties
<1>3. cs \in Seq({cs[i] : i \in DOMAIN cs})
  <2>1. cs \in [1 .. Len(cs) -> S] BY LenProperties
  <2>2. cs \in [1 .. Len(cs) -> {cs[i] : i \in DOMAIN cs}] BY <1>2, <2>1
  <2> QED BY <1>2, <2>2
<1>4. \A i \in DOMAIN cs : FrameType(cs[i]) BY <1>2
<1>5. Types(maps', todo', transport', view') /\ After(m, cs, w, w2)
  BY <1>1, <1>3, <1>4, Leaving
<1>6. /\ w.todo = todo /\ w.session = maps.session /\ w.rooms = maps.rooms
      /\ w.tracked = Tracked(maps) /\ w.ttl = maps.ttl
      /\ \A r \in RoomId : w.members[r] = Mem(maps, r)
      /\ w.view = view /\ w2.view = view'
      /\ w.open = {s \in Socket : transport[s] = "open"}
      /\ w2.open = {s \in Socket : transport'[s] = "open"}
      /\ w.absent = {s \in Socket : transport[s] = "absent"}
      /\ w2.absent = {s \in Socket : transport'[s] = "absent"}
  BY DEF World, WorldOf
<1>7. WorldType(w)
  <2>1. Types(maps, todo, transport, view) BY DEF Inv
  <2> QED BY <2>1, TypedWorld DEF World
<1>8. WorldType(w2)
  <2>1. w2 = WorldOf(maps', todo', transport', view', rest') BY DEF World
  <2> HIDE DEF w2
  <2> QED BY <1>5, <2>1, TypedWorld
<1>9. Holds(w) BY DEF Inv
<1> HIDE DEF w, w2
<1>10. Calm(w) BY <1>1, <1>6, <1>9, Calming
<1>11. \A r \in RoomId : Mem(m, r) = w.members[r] BY <1>6 DEF Kept, Mem
<1>12. /\ w2.session = w.session /\ w2.rooms = w.rooms /\ w2.tracked = Tracked(m)
       /\ \A r \in RoomId : w2.members[r] \subseteq w.members[r]
       /\ \A r \in RoomId : r \in w.rooms \/ cs # <<>> => w2.members[r] = w.members[r]
       /\ w2.todo = cs
       /\ cs # <<>> => w2.hub = w.hub
       /\ Rests(w2)
  BY <1>5, <1>6, <1>11 DEF After, Kept
<1>13. w.rooms \subseteq RoomId BY <1>7 DEF WorldType
<1>14. SessionsAgree(w2) BY <1>10, <1>12, <1>13 DEF Calm, SessionsAgree
<1>15. Began(m, cs, w, w2) BY <1>6, <1>7, <1>8, <1>10, <1>12, <1>14 DEF Began
<1> QED BY <1>5, <1>15 DEF w, w2

\* A handler starts well if its first calls are good and who goes is detached.
Detaching(w, s) == \E f \in Stacked(w) : Is(f, "detachSocketFromRoom", s)

LEMMA GoodStart ==
    ASSUME NEW m, NEW cs, NEW w, NEW w2, Began(m, cs, w, w2), Supervised(w2),
           \A s \in w2.open :
              \/ s \in w.open /\ w2.view[s] = w.view[s]
              \/ w2.view[s].room = NoRoom /\ (w.session[s] = NoRoom \/ Detaching(w2, s)),
           Unattached(w2),
           FramesGood(w2), EntryLast(w2)
    PROVE  Holds(w2)
<1>0. /\ Calm(w) /\ w.rooms \subseteq RoomId /\ w2.session = w.session /\ w2.rooms = w.rooms
      /\ \A r \in w.rooms : w2.members[r] = w.members[r]
      /\ w.session \in [Socket -> RoomId \cup {NoRoom}] /\ w2.open \subseteq Socket
      /\ \A r \in w.rooms : w.members[r] \subseteq Socket
  BY DEF Began, WorldType
<1>1. RoomsAgree(w2) BY <1>0 DEF Calm, RoomsAgree
<1>2. BeliefsPending(w2)
  BY <1>0 DEF Calm, BeliefsPending, BeliefPending, Detaching, Is
<1>3. SeenFromRooms(w2)
  <2> SUFFICES ASSUME NEW r \in w2.rooms, NEW s \in w2.members[r] \cap w2.open
               PROVE  w2.view[s].room \in {r, NoRoom}
    BY DEF SeenFromRooms
  <2>1. w.session[s] = r BY <1>0 DEF Calm
  <2> QED BY <1>0, <2>1 DEF Calm
<1>4. ListsPending(w2)
  <2> SUFFICES ASSUME NEW s \in w2.open, w2.session[s] # NoRoom, w2.view[s].room = w2.session[s]
               PROVE  w2.members[w2.session[s]] \subseteq w2.view[s].users
    BY DEF ListsPending, ListPending
  <2>1. s \in w.open /\ w2.view[s] = w.view[s] BY <1>0
  <2>2. w.session[s] \in w.rooms BY <1>0 DEF Calm, SessionsAgree
  <2> QED BY <1>0, <2>1, <2>2 DEF Calm
<1>5. SessionsAgree(w2) /\ Rests(w2) BY DEF Began
<1> QED BY <1>1, <1>2, <1>3, <1>4, <1>5 DEF Holds

\* A handler that first leaves the connections and the clients alone.
LEMMA StillStart ==
    ASSUME Inv, NEW m \in MapsType, Distinct(m), Kept(m), Tracked(maps) \subseteq Tracked(m),
           NEW S, NEW cs \in Seq(S), \A k \in 1 .. Len(cs) : FrameType(cs[k]), Begin(m, cs),
           transport' = transport, view' = view
    PROVE  /\ Types(maps', todo', transport', view')
           /\ Began(m, cs, World, World')
           /\ FramesGood(World') /\ EntryLast(World') => Holds(World')
<1> DEFINE w == World
           w2 == World'
<1>1. Types(maps', todo', transport', view') /\ Began(m, cs, w, w2)
  BY StateTyped, Starting
<1> HIDE DEF w, w2
<1>2. w2.view = w.view /\ w2.open = w.open /\ w2.absent = w.absent BY <1>1 DEF Began
<1>3. Supervised(w2) BY <1>1, <1>2 DEF Began, Calm, Supervised
<1>4. Unattached(w2) BY <1>1, <1>2 DEF Began, Calm, Unattached
<1>5. FramesGood(w2) /\ EntryLast(w2) => Holds(w2) BY <1>1, <1>2, <1>3, <1>4, GoodStart
<1> QED BY <1>1, <1>5 DEF w, w2

\* A handler that makes no call, or calls that are good wherever they are made.
LEMMA NoFrames ==
    ASSUME NEW w2, w2.todo = <<>>
    PROVE  FramesGood(w2) /\ EntryLast(w2) /\ Stacked(w2) = {}
BY DEF FramesGood, EntryLast, Stacked

LEMMA TickKeeps == Inv /\ Tick => Inv'
<1> SUFFICES ASSUME Inv, Tick PROVE Inv' OBVIOUS
<1> DEFINE ttl == [r \in RoomId |-> IF maps.ttl[r] > 0 THEN maps.ttl[r] - 1 ELSE maps.ttl[r]]
           idle == [s \in Socket |-> IF maps.idle[s] # Missing /\ maps.idle[s] <= HeartbeatTimeout
                                     THEN maps.idle[s] + 1 ELSE maps.idle[s]]
           m == [maps EXCEPT !.ttl = ttl, !.idle = idle]
           cs == <<>>
           w == World
           w2 == World'
<1>1. maps \in MapsType /\ Distinct(maps) BY MapsTyped
<1>2. Begin(m, cs) /\ transport' = transport /\ view' = view BY DEF Tick, Same
<1>3. maps.ttl \in [RoomId -> Int] /\ maps.idle \in [Socket -> Nat \cup {Missing}]
  BY <1>1 DEF MapsType
<1>4. HeartbeatTimeout \in Nat BY LimitAssumption
<1>5. ttl \in [RoomId -> Int] BY <1>3
<1>6. /\ idle \in [Socket -> Nat \cup {Missing}]
      /\ \A s \in Socket : idle[s] = Missing <=> maps.idle[s] = Missing
  BY <1>3, <1>4 DEF Missing
<1> HIDE DEF ttl, idle
<1>7. /\ m.session = maps.session /\ m.rooms = maps.rooms /\ m.members = maps.members
      /\ m.creator = maps.creator /\ m.known = maps.known /\ m.ttl = ttl /\ m.idle = idle
      /\ m = [session |-> m.session, rooms |-> m.rooms, members |-> m.members,
              creator |-> m.creator, ttl |-> m.ttl, idle |-> m.idle, known |-> m.known]
  <2>1. m = [session |-> maps.session, rooms |-> maps.rooms, members |-> maps.members,
             creator |-> maps.creator, ttl |-> ttl, idle |-> idle, known |-> maps.known]
    <3> DEFINE n == [maps EXCEPT !.ttl = ttl]
    <3>1. n = [session |-> maps.session, rooms |-> maps.rooms, members |-> maps.members,
               creator |-> maps.creator, ttl |-> ttl, idle |-> maps.idle, known |-> maps.known]
      <4>1. maps = [session |-> maps.session, rooms |-> maps.rooms, members |-> maps.members,
                    creator |-> maps.creator, ttl |-> maps.ttl, idle |-> maps.idle,
                    known |-> maps.known]
        BY <1>1 DEF MapsType
      <4> QED BY <4>1
    <3>2. m = [n EXCEPT !.idle = idle] OBVIOUS
    <3> HIDE DEF n, m
    <3> QED BY <3>1, <3>2
  <2> HIDE DEF m
  <2> QED BY <2>1
<1> HIDE DEF m
<1>8. m \in MapsType BY <1>1, <1>5, <1>6, <1>7 DEF MapsType
<1>9. Distinct(m) /\ Kept(m) BY <1>1, <1>7 DEF Distinct, Kept
<1>10. Tracked(maps) \subseteq Tracked(m) BY <1>6, <1>7 DEF Tracked
<1>11. cs \in Seq({}) /\ \A k \in 1 .. Len(cs) : FrameType(cs[k]) BY EmptySeq
<1> HIDE DEF cs
<1>12. /\ Types(maps', todo', transport', view') /\ Began(m, cs, w, w2)
       /\ FramesGood(w2) /\ EntryLast(w2) => Holds(w2)
  BY <1>2, <1>8, <1>9, <1>10, <1>11, StillStart
<1> HIDE DEF w, w2
<1>13. w2.todo = <<>> BY <1>12 DEF Began, cs
<1>14. Holds(w2) BY <1>12, <1>13, NoFrames
<1> QED BY <1>12, <1>14 DEF Inv, w2


\* A handler whose calls are good where they stand.
LEMMA ReadyStart ==
    ASSUME Inv, NEW m \in MapsType, Distinct(m), Kept(m), Tracked(maps) \subseteq Tracked(m),
           NEW S, NEW cs \in Seq(S), \A k \in 1 .. Len(cs) : FrameType(cs[k]), Begin(m, cs),
           transport' = transport, view' = view,
           \A w, w2 : Began(m, cs, w, w2) => Ready(w2, cs)
    PROVE  Inv'
<1> DEFINE w == World
           w2 == World'
<1>1. /\ Types(maps', todo', transport', view') /\ Began(m, cs, w, w2)
      /\ FramesGood(w2) /\ EntryLast(w2) => Holds(w2)
  BY StillStart
<1> HIDE DEF w, w2
<1>2. w2.todo = cs /\ Ready(w2, cs) BY <1>1 DEF Began
<1>3. Holds(w2) BY <1>1, <1>2, FreshStack
<1> QED BY <1>1, <1>3 DEF Inv, w2

LEMMA ReplyKeeps ==
    ASSUME Inv, NEW s \in Socket, NEW m \in MapsType, Distinct(m), Kept(m),
           Tracked(maps) \subseteq Tracked(m), Handles(s, m, <<SendTo(s, Reply)>>)
    PROVE  Inv'
<1> DEFINE a == SendTo(s, Reply)
           cs == <<a>>
<1>1. a.call = "send" /\ a.socket = s /\ a.msg.type = "reply" BY DEF SendTo, Reply
<1>2. Begin(m, cs) /\ transport' = transport /\ view' = view BY DEF Handles, Same
<1> HIDE DEF a
<1>3. FrameType(a) BY <1>1 DEF FrameType, OfSocket, OfRoom, Others
<1>4. \A v : FrameGood(v, a, {}) BY <1>1 DEF FrameGood, SendGood
<1>5. cs \in Seq({a}) /\ \A k \in 1 .. Len(cs) : FrameType(cs[k]) BY <1>3, OneCall
<1>6. \A v : Ready(v, cs) BY <1>1, <1>4, OneCall
<1> HIDE DEF cs
<1> QED BY <1>2, <1>5, <1>6, ReadyStart

LEMMA InvalidMessageKeeps == ASSUME NEW s \in Socket PROVE Inv /\ InvalidMessage(s) => Inv'
<1> SUFFICES ASSUME Inv, InvalidMessage(s) PROVE Inv' OBVIOUS
<1>1. maps \in MapsType /\ Distinct(maps) /\ Kept(maps) BY MapsTyped DEF Kept
<1> QED BY <1>1, ReplyKeeps DEF InvalidMessage

LEMMA AnsweredKeeps == ASSUME NEW s \in Socket PROVE Inv /\ Answered(s) => Inv'
<1> SUFFICES ASSUME Inv, Answered(s) PROVE Inv' OBVIOUS
<1> DEFINE m == Heard(maps, s)
<1>1. Handles(s, m, <<SendTo(s, Reply)>>) BY DEF Answered
<1>2. m = Heard(maps, s) OBVIOUS
<1> HIDE DEF m
<1>3. m \in MapsType /\ Distinct(m) /\ Kept(m) /\ Tracked(maps) \subseteq Tracked(m)
  BY <1>2, MapsTyped, HeardMaps
<1> QED BY <1>1, <1>3, ReplyKeeps

LEMMA SweepKeeps == Inv /\ Sweep => Inv'
<1> SUFFICES ASSUME Inv, Sweep PROVE Inv' OBVIOUS
<1> DEFINE a == SweepSockets
           cs == <<a>>
<1>1. a.call = "sweepSockets" /\ a = SweepSockets BY DEF SweepSockets
<1>2. Begin(maps, cs) /\ transport' = transport /\ view' = view BY DEF Sweep, Same
<1> HIDE DEF a
<1>3. FrameType(a) BY <1>1 DEF FrameType, OfSocket, OfRoom, Others
<1>4. \A v : FrameGood(v, a, {}) BY <1>1 DEF FrameGood
<1>5. cs \in Seq({a}) /\ \A k \in 1 .. Len(cs) : FrameType(cs[k]) BY <1>3, OneCall
<1>6. \A v : Ready(v, cs) BY <1>1, <1>4, OneCall
<1> HIDE DEF cs
<1>7. maps \in MapsType /\ Distinct(maps) /\ Kept(maps) BY MapsTyped DEF Kept
<1> QED BY <1>2, <1>5, <1>6, <1>7, ReadyStart

\* Every open connection is in lastSeen, so that dispose comes to each of them.
LEMMA DisposeKeeps == Inv /\ Dispose => Inv'
<1> SUFFICES ASSUME Inv, Dispose PROVE Inv' OBVIOUS
<1> DEFINE a == DisposeNext(Tracked(maps))
           cs == <<a>>
<1>1. a.call = "disposeNext" /\ a.sockets = Tracked(maps) BY DEF DisposeNext
<1>2. Begin(maps, cs) /\ transport' = transport /\ view' = view BY DEF Dispose
<1> HIDE DEF a
<1>3. FrameType(a)
  <2>1. Tracked(maps) \subseteq Socket BY DEF Tracked
  <2> QED BY <1>1, <2>1 DEF FrameType, OfSocket, OfRoom, Others
<1>4. cs \in Seq({a}) /\ \A k \in 1 .. Len(cs) : FrameType(cs[k]) BY <1>3, OneCall
<1>5. ASSUME NEW w, NEW w2, Began(maps, cs, w, w2) PROVE Ready(w2, cs)
  <2>1. w2.open \subseteq Tracked(maps) BY <1>2, <1>5 DEF Began, Calm, Supervised
  <2>2. FrameGood(w2, a, {}) BY <1>1, <2>1 DEF FrameGood, DisposeGood, CutOff
  <2> QED BY <1>1, <2>2, OneCall
<1> HIDE DEF cs
<1>6. maps \in MapsType /\ Distinct(maps) /\ Kept(maps) BY MapsTyped DEF Kept
<1> QED BY <1>2, <1>4, <1>5, <1>6, ReadyStart

LEMMA RoomExpiredKeeps ==
    ASSUME NEW s \in Socket, NEW r \in RoomId PROVE Inv /\ RoomExpired(s, r) => Inv'
<1> SUFFICES ASSUME Inv, RoomExpired(s, r) PROVE Inv' OBVIOUS
<1> DEFINE a == Destroy(r)
           b == SendTo(s, Reply)
           cs == <<a, b>>
           m == Heard(maps, s)
<1>1. /\ a.call = "destroyRoom" /\ a.room = r
      /\ b.call = "send" /\ b.socket = s /\ b.msg.type = "reply"
  BY DEF Destroy, SendTo, Reply
<1>2. Begin(m, cs) /\ transport' = transport /\ view' = view BY DEF RoomExpired, Handles, Same
<1>3. m = Heard(maps, s) OBVIOUS
<1> HIDE DEF a, b, m
<1>4. FrameType(a) /\ FrameType(b) BY <1>1 DEF FrameType, OfSocket, OfRoom, Others
<1>5. \A v : FrameGood(v, a, {}) /\ FrameGood(v, b, {a}) BY <1>1 DEF FrameGood, SendGood
<1>6. cs \in Seq({a, b}) /\ \A k \in 1 .. Len(cs) : FrameType(cs[k]) BY <1>4, TwoCalls
<1>7. \A v : Ready(v, cs) BY <1>1, <1>5, TwoCalls
<1> HIDE DEF cs
<1>8. m \in MapsType /\ Distinct(m) /\ Kept(m) /\ Tracked(maps) \subseteq Tracked(m)
  BY <1>3, MapsTyped, HeardMaps
<1> QED BY <1>2, <1>6, <1>7, <1>8, ReadyStart

LEMMA Contained ==
    ASSUME maps \in MapsType, NEW r \in RoomId, NEW s
    PROVE  Contains(maps.members[r], s) <=> s \in Mem(maps, r)
<1> DEFINE q == maps.members[r]
<1>1. q \in Seq(Socket) BY DEF MapsType
<1>2. Mem(maps, r) = {q[i] : i \in DOMAIN q} BY DEF Mem
<1> HIDE DEF q
<1>3. DOMAIN q = 1 .. Len(q) BY <1>1, LenProperties
<1>4. Contains(q, s) <=> s \in Mem(maps, r) BY <1>2, <1>3 DEF Contains
<1> QED BY <1>4 DEF q

\* Content starts out with a loop over the sender's own, unexpired room.
LEMMA ForwardContentKeeps ==
    ASSUME NEW s \in Socket, NEW r \in RoomId PROVE Inv /\ ForwardContent(s, r) => Inv'
<1> SUFFICES ASSUME Inv, ForwardContent(s, r) PROVE Inv' OBVIOUS
<1> DEFINE a == TellNext(r, Content(r, s), {s})
           b == SendTo(s, Reply)
           c == Record("send", s, r)
           cs == <<a, b, c>>
           m == Heard(maps, s)
<1>1. /\ a.call = "tellNext" /\ a.room = r /\ a.did = {s}
      /\ a.msg.type = "content" /\ a.msg.room = r /\ a.msg.from = s
      /\ b.call = "send" /\ b.socket = s /\ b.msg.type = "reply"
      /\ c.call = "recordMetric"
  BY DEF TellNext, Content, SendTo, Reply, Record
<1>2. Begin(m, cs) /\ transport' = transport /\ view' = view BY DEF ForwardContent, Handles, Same
<1>3. m = Heard(maps, s) OBVIOUS
<1>t. maps \in MapsType /\ Distinct(maps) BY MapsTyped
<1>4. r \in maps.rooms /\ maps.ttl[r] > 0 /\ s \in Mem(maps, r)
  <2>1. r \in maps.rooms /\ ~(maps.ttl[r] <= 0) /\ Contains(maps.members[r], s)
    BY DEF ForwardContent, IsRoomExpired
  <2>2. maps.ttl[r] \in Int BY <1>t DEF MapsType
  <2> QED BY <1>t, <2>1, <2>2, Contained
<1> HIDE DEF a, b, c, m
<1>f. FrameType(a) /\ FrameType(b) /\ FrameType(c)
  BY <1>1 DEF FrameType, OfSocket, OfRoom, Others
<1>5. cs \in Seq({a, b, c}) /\ (\A k \in 1 .. Len(cs) : FrameType(cs[k])) /\ cs # <<>>
  <2>1. cs \in Seq({a, b, c}) BY ThreeCalls
  <2>2. Len(cs) = 3 BY ThreeCalls
  <2>3. cs[1] = a /\ cs[2] = b /\ cs[3] = c OBVIOUS
  <2>4. cs # <<>> BY <2>1, <2>2, EmptySeq
  <2> HIDE DEF cs
  <2>5. \A k \in 1 .. Len(cs) : k = 1 \/ k = 2 \/ k = 3 BY <2>2
  <2> QED BY <1>f, <2>1, <2>3, <2>4, <2>5
<1>6. \A v : FrameGood(v, a, {}) /\ FrameGood(v, b, {a}) /\ FrameGood(v, c, {a, b}) => Ready(v, cs)
  BY <1>1, ThreeCalls
<1> HIDE DEF cs
<1>7. ASSUME NEW w, NEW w2, Began(m, cs, w, w2) PROVE Ready(w2, cs)
  <2>1. /\ Calm(w) /\ w.session = maps.session /\ w.rooms = maps.rooms /\ w.ttl = maps.ttl
        /\ w.members[r] = Mem(maps, r)
        /\ w2.session = w.session /\ w2.hub = w.hub /\ w2.members[r] = w.members[r]
        /\ w2.view = w.view /\ w2.open = w.open
    BY <1>2, <1>5, <1>7 DEF Began
  <2>2. \A x \in w.members[r] : w.session[x] = r BY <1>4, <2>1 DEF Calm
  <2>3. LoopGood(w2, r) BY <2>1, <2>2 DEF LoopGood, Calm
  <2>4. TellGood(w2, a) BY <1>1, <1>4, <2>1, <2>2 DEF TellGood, Calm
  <2>5. FrameGood(w2, a, {}) BY <1>1, <2>3, <2>4 DEF FrameGood
  <2>6. FrameGood(w2, b, {a}) /\ FrameGood(w2, c, {a, b}) BY <1>1 DEF FrameGood, SendGood
  <2> QED BY <1>6, <2>5, <2>6
<1>8. m \in MapsType /\ Distinct(m) /\ Kept(m) /\ Tracked(maps) \subseteq Tracked(m)
  BY <1>3, MapsTyped, HeardMaps
<1> QED BY <1>2, <1>5, <1>7, <1>8, ReadyStart

\* A socket that enters a room is detached first.
LEMMA EntryStart ==
    ASSUME Inv, NEW s \in Socket, NEW e, FrameType(e), Entering(e, s),
           Handles(s, Heard(maps, s), <<Detach(s, FALSE), e>>),
           e.call = "enterRoom" => e.room \in maps.rooms /\ maps.session[s] # e.room
    PROVE  Inv'
<1> DEFINE a == Detach(s, FALSE)
           cs == <<a, e>>
           m == Heard(maps, s)
           w == World
           w2 == World'
<1>1. a.call = "detachSocketFromRoom" /\ a.socket = s /\ a.notify = FALSE BY DEF Detach
<1>2. Begin(m, cs) /\ transport' = transport /\ view' = view /\ transport[s] # "absent"
  BY DEF Handles, Same, Listening
<1>3. m = Heard(maps, s) OBVIOUS
<1> HIDE DEF a, m
<1>4. FrameType(a) BY <1>1 DEF FrameType, OfSocket, OfRoom, Others
<1>5. /\ cs \in Seq({a, e}) /\ Len(cs) = 2 /\ cs[1] = a /\ cs[2] = e /\ NewCalls(cs) = {a, e}
      /\ cs # <<>>
  BY TwoCalls
<1> HIDE DEF cs
<1>6. \A k \in 1 .. Len(cs) : k = 1 \/ k = 2 BY <1>5
<1>7. \A k \in 1 .. Len(cs) : FrameType(cs[k]) BY <1>4, <1>5, <1>6
<1>8. m \in MapsType /\ Distinct(m) /\ Kept(m) /\ Tracked(maps) \subseteq Tracked(m)
  BY <1>3, MapsTyped, HeardMaps
<1>9. /\ Types(maps', todo', transport', view') /\ Began(m, cs, w, w2)
      /\ FramesGood(w2) /\ EntryLast(w2) => Holds(w2)
  BY <1>2, <1>5, <1>7, <1>8, StillStart
<1> HIDE DEF w, w2
<1>10. w2.todo = cs BY <1>9 DEF Began
<1>11. Stacked(w2) = {a, e} /\ DOMAIN cs = 1 .. Len(cs)
       /\ \A k \in DOMAIN cs : Above(w2, k) = {cs[j] : j \in 1 .. k - 1}
  BY <1>5, <1>10, FreshStack
<1>12. Above(w2, 1) = {} /\ Above(w2, 2) = {a} BY <1>5, <1>11
<1>13. FrameGood(w2, a, {}) BY <1>1, <1>11 DEF FrameGood, DetachGood
<1>14. FrameGood(w2, e, {a})
  <2>1. /\ w2.session = maps.session /\ w2.rooms = maps.rooms
        /\ w2.absent = {x \in Socket : transport'[x] = "absent"}
    BY <1>9 DEF Began
  <2>2. e.call \in {"generateRoomId", "enterRoom"} /\ e.socket = s BY DEF Entering
  <2>3. e.call = "enterRoom" => Elsewhere(w2, a, e.room) BY <1>1, <2>1 DEF Elsewhere, OfRoom
  <2>4. EntryGood(w2, e, {a}) BY <1>1, <1>2, <2>1, <2>2, <2>3 DEF EntryGood, Is
  <2> QED BY <2>2, <2>4 DEF FrameGood
<1>15. FramesGood(w2) BY <1>5, <1>6, <1>10, <1>11, <1>12, <1>13, <1>14 DEF FramesGood
<1>16. EntryLast(w2) BY <1>1, <1>5, <1>6, <1>10, <1>11 DEF EntryLast
<1>17. Holds(w2) BY <1>9, <1>15, <1>16
<1> QED BY <1>9, <1>17 DEF Inv, w2

LEMMA CreateRoomKeeps == ASSUME NEW s \in Socket PROVE Inv /\ CreateRoom(s) => Inv'
<1> SUFFICES ASSUME Inv, CreateRoom(s) PROVE Inv' OBVIOUS
<1> DEFINE e == Generate(s)
<1>1. e.call = "generateRoomId" /\ e.socket = s BY DEF Generate
<1>2. Handles(s, Heard(maps, s), <<Detach(s, FALSE), e>>) BY DEF CreateRoom
<1> HIDE DEF e
<1>3. FrameType(e) BY <1>1 DEF FrameType, OfSocket, OfRoom, Others
<1>4. Entering(e, s) BY <1>1 DEF Entering
<1> QED BY <1>1, <1>2, <1>3, <1>4, EntryStart

\* Whose session is in the room is in its Set, and is answered without entering.
LEMMA JoinRoomKeeps ==
    ASSUME NEW s \in Socket, NEW r \in RoomId PROVE Inv /\ JoinRoom(s, r) => Inv'
<1> SUFFICES ASSUME Inv, JoinRoom(s, r) PROVE Inv' OBVIOUS
<1> DEFINE e == Enter(s, r)
<1>1. e.call = "enterRoom" /\ e.socket = s /\ e.room = r BY DEF Enter
<1>2. Handles(s, Heard(maps, s), <<Detach(s, FALSE), e>>) BY DEF JoinRoom
<1> HIDE DEF e
<1>3. FrameType(e) BY <1>1 DEF FrameType, OfSocket, OfRoom, Others
<1>4. Entering(e, s) BY <1>1 DEF Entering
<1>5. maps.session[s] # r
  <2> SUFFICES ASSUME maps.session[s] = r PROVE FALSE OBVIOUS
  <2>1. ~(s \in Mem(maps, r)) BY MapsTyped, Contained DEF JoinRoom
  <2>2. SessionsAgree(World) BY DEF Inv, Holds
  <2>3. World.session = maps.session /\ World.members[r] = Mem(maps, r) BY DEF World, WorldOf
  <2>4. r # NoRoom BY RoomAssumption
  <2> DEFINE v == World
  <2> HIDE DEF v
  <2>5. v.session[s] = r /\ v.members[r] = Mem(maps, r) /\ SessionsAgree(v) BY <2>2, <2>3 DEF v
  <2>6. s \in v.members[r] BY <2>4, <2>5 DEF SessionsAgree
  <2> QED BY <2>1, <2>5, <2>6
<1>6. r \in maps.rooms BY DEF JoinRoom
<1> QED BY <1>1, <1>2, <1>3, <1>4, <1>5, <1>6, EntryStart

\* A handler that begins with a client that forgets its room.
LEMMA ForgottenStart ==
    ASSUME Inv, NEW s \in Socket,
           NEW m \in MapsType, Distinct(m), Kept(m), Tracked(maps) \subseteq Tracked(m),
           NEW S, NEW cs \in Seq(S), \A k \in 1 .. Len(cs) : FrameType(cs[k]), Begin(m, cs),
           transport' \in [Socket -> {"absent", "open", "closing", "broken"}],
           \A x \in Socket : x # s => transport'[x] = transport[x],
           view' = [view EXCEPT ![s] = NoView],
           transport'[s] = "open" => s \in Tracked(m),
           \A w, w2 : Began(m, cs, w, w2) =>
               /\ \/ w.session[s] = NoRoom \/ Detaching(w2, s)
                  \/ transport'[s] \notin {"open", "absent"}
               /\ w2.view[s].room = NoRoom => FramesGood(w2) /\ EntryLast(w2)
    PROVE  Inv'
<1> DEFINE w == World
           w2 == World'
<1>1. view \in [Socket -> ViewType] BY StateTyped
<1>2. NoView.room = NoRoom /\ NoView \in ViewType BY DEF NoView, ViewType
<1>3. /\ view' \in [Socket -> ViewType] /\ view'[s].room = NoRoom
      /\ \A x \in Socket : x # s => view'[x] = view[x]
  BY <1>1, <1>2
<1>4. Types(maps', todo', transport', view') /\ Began(m, cs, w, w2)
  BY <1>3, Starting
<1> HIDE DEF w, w2
<1>5. /\ w.view = view /\ w2.view = view'
      /\ w.open = {x \in Socket : transport[x] = "open"}
      /\ w2.open = {x \in Socket : transport'[x] = "open"}
      /\ w.absent = {x \in Socket : transport[x] = "absent"}
      /\ w2.absent = {x \in Socket : transport'[x] = "absent"}
      /\ w2.tracked = Tracked(m) /\ w.open \subseteq Tracked(maps)
  BY <1>4 DEF Began, Calm, Supervised
<1>6. \/ w.session[s] = NoRoom \/ Detaching(w2, s)
      \/ transport'[s] \notin {"open", "absent"}
  BY <1>4
<1>7. FramesGood(w2) /\ EntryLast(w2) BY <1>3, <1>4, <1>5
<1>8. Supervised(w2) BY <1>5 DEF Supervised
<1>9. \A x \in w2.open :
         \/ x \in w.open /\ w2.view[x] = w.view[x]
         \/ w2.view[x].room = NoRoom /\ (w.session[x] = NoRoom \/ Detaching(w2, x))
  BY <1>3, <1>5, <1>6
<1>10. Unattached(w2)
  <2>1. w2.session = w.session /\ Calm(w) BY <1>4 DEF Began
  <2>2. ASSUME NEW x \in w2.absent PROVE w2.session[x] = NoRoom \/ Detaching(w2, x)
    <3>1. CASE x = s BY <1>5, <1>6, <2>1, <2>2, <3>1
    <3>2. CASE x # s
      <4>1. x \in w.absent BY <1>5, <2>2, <3>2
      <4> QED BY <2>1, <4>1 DEF Calm
    <3> QED BY <3>1, <3>2
  <2> QED BY <2>2 DEF Unattached, Detaching
<1>11. Holds(w2) BY <1>4, <1>7, <1>8, <1>9, <1>10, GoodStart
<1> QED BY <1>4, <1>11 DEF Inv, w2

LEMMA DegradeKeeps == ASSUME NEW s \in Socket PROVE Inv /\ Degrade(s) => Inv'
<1> SUFFICES ASSUME Inv, Degrade(s) PROVE Inv' OBVIOUS
<1> DEFINE cs == <<>>
<1>1. maps \in MapsType /\ Distinct(maps) /\ Kept(maps) BY MapsTyped DEF Kept
<1>2. transport \in [Socket -> {"absent", "open", "closing", "broken"}] BY StateTyped
<1>3. /\ transport' \in [Socket -> {"absent", "open", "closing", "broken"}]
      /\ \A x \in Socket : x # s => transport'[x] = transport[x]
      /\ transport'[s] \notin {"open", "absent"}
  BY <1>2 DEF Degrade
<1>4. cs \in Seq({}) /\ \A k \in 1 .. Len(cs) : FrameType(cs[k]) BY EmptySeq
<1>5. Begin(maps, cs) /\ view' = [view EXCEPT ![s] = NoView] BY DEF Degrade
<1> HIDE DEF cs
<1>6. \A w, w2 : Began(maps, cs, w, w2) => FramesGood(w2) /\ EntryLast(w2)
  BY NoFrames DEF Began, cs
<1> QED BY <1>1, <1>3, <1>4, <1>5, <1>6, ForgottenStart

LEMMA AttachSocketKeeps == ASSUME NEW s \in Socket PROVE Inv /\ AttachSocket(s) => Inv'
<1> SUFFICES ASSUME Inv, AttachSocket(s) PROVE Inv' OBVIOUS
<1> DEFINE g == Heard(maps, s)
           m == [g EXCEPT !.known = @ \cup {s}]
           cs == <<>>
<1>0. g = Heard(maps, s) OBVIOUS
<1>1. Begin(m, cs) /\ view' = [view EXCEPT ![s] = NoView] BY DEF AttachSocket
<1> HIDE DEF g
<1>2. g \in MapsType /\ Distinct(g) /\ Kept(g) /\ Tracked(maps) \cup {s} \subseteq Tracked(g)
  BY <1>0, MapsTyped, HeardMaps
<1>3. m \in MapsType /\ Distinct(m) /\ Kept(m) /\ Tracked(m) = Tracked(g)
  <2>1. m = [session |-> g.session, rooms |-> g.rooms, members |-> g.members,
             creator |-> g.creator, ttl |-> g.ttl, idle |-> g.idle, known |-> g.known \cup {s}]
    <3> DEFINE known == g.known \cup {s}
    <3>1. m = [g EXCEPT !.known = known] OBVIOUS
    <3>2. g \in MapsType BY <1>2
    <3> HIDE DEF known, m
    <3>3. m = [session |-> g.session, rooms |-> g.rooms, members |-> g.members,
               creator |-> g.creator, ttl |-> g.ttl, idle |-> g.idle, known |-> known]
      BY <3>1, <3>2 DEF MapsType
    <3> QED BY <3>3 DEF known
  <2>2. g.known \cup {s} \in SUBSET Socket BY <1>2 DEF MapsType
  <2> HIDE DEF m
  <2>3. /\ m.session = g.session /\ m.rooms = g.rooms /\ m.members = g.members
        /\ m.creator = g.creator /\ m.ttl = g.ttl /\ m.idle = g.idle /\ m.known = g.known \cup {s}
    BY <2>1
  <2>4. m = [session |-> m.session, rooms |-> m.rooms, members |-> m.members,
             creator |-> m.creator, ttl |-> m.ttl, idle |-> m.idle, known |-> m.known]
    BY <2>1, <2>3
  <2>5. m \in MapsType BY <1>2, <2>2, <2>3, <2>4 DEF MapsType
  <2> QED BY <1>2, <2>3, <2>5 DEF Distinct, Kept, Tracked
<1> HIDE DEF m
<1>4. transport \in [Socket -> {"absent", "open", "closing", "broken"}] BY StateTyped
<1>5. /\ transport' \in [Socket -> {"absent", "open", "closing", "broken"}]
      /\ \A x \in Socket : x # s => transport'[x] = transport[x]
      /\ transport[s] = "absent"
  BY <1>4 DEF AttachSocket
<1>6. cs \in Seq({}) /\ \A k \in 1 .. Len(cs) : FrameType(cs[k]) BY EmptySeq
<1> HIDE DEF cs
<1>7. ASSUME NEW w, NEW w2, Began(m, cs, w, w2)
      PROVE  w.session[s] = NoRoom /\ FramesGood(w2) /\ EntryLast(w2)
  <2>1. s \in w.absent BY <1>5, <1>7 DEF Began
  <2>2. w.session[s] = NoRoom BY <1>7, <2>1 DEF Began, Calm
  <2>3. w2.todo = <<>> BY <1>7 DEF Began, cs
  <2> QED BY <2>2, <2>3, NoFrames
<1> QED BY <1>1, <1>2, <1>3, <1>5, <1>6, <1>7, ForgottenStart

\* The close event, or the close after an error: the socket is not open any more.
LEMMA RemovalStart ==
    ASSUME Inv, NEW s \in Socket, Begin(maps, RemovalOf(s)),
           transport' \in [Socket -> {"absent", "open", "closing", "broken"}],
           \A x \in Socket : x # s => transport'[x] = transport[x],
           view' = [view EXCEPT ![s] = NoView], transport'[s] # "open"
    PROVE  Inv'
<1> DEFINE a == Detach(s, TRUE)
           b == Forget(s)
           cs == <<a, b>>
<1>1. Begin(maps, cs) BY Removals
<1>2. /\ FrameType(a) /\ FrameType(b)
      /\ a.call = "detachSocketFromRoom" /\ a.socket = s
      /\ b.call = "forget" /\ b.socket = s
      /\ \A w, above : s \notin w.open => FrameGood(w, a, above) /\ FrameGood(w, b, above)
  BY RemovalGood
<1> HIDE DEF a, b
<1>f. FrameType(a) /\ FrameType(b) BY <1>2
<1>3. cs \in Seq({a, b}) /\ (\A k \in 1 .. Len(cs) : FrameType(cs[k])) /\ NewCalls(cs) = {a, b}
  <2>1. cs \in Seq({a, b}) /\ Len(cs) = 2 /\ cs[1] = a /\ cs[2] = b BY TwoCalls
  <2>2. NewCalls(cs) = {a, b} BY TwoCalls
  <2> HIDE DEF cs
  <2>3. \A k \in 1 .. Len(cs) : k = 1 \/ k = 2 BY <2>1
  <2> QED BY <1>f, <2>1, <2>2, <2>3
<1>4. \A w2 : s \notin w2.open => Ready(w2, cs) BY <1>2, TwoCalls
<1> HIDE DEF cs
<1>5. maps \in MapsType /\ Distinct(maps) /\ Kept(maps) BY MapsTyped DEF Kept
<1>6. ASSUME NEW w, NEW w2, Began(maps, cs, w, w2)
      PROVE  Detaching(w2, s) /\ FramesGood(w2) /\ EntryLast(w2)
  <2>1. w2.todo = cs /\ s \notin w2.open BY <1>6 DEF Began
  <2>2. Stacked(w2) = {a, b} BY <1>3, <2>1, FreshStack
  <2>3. Detaching(w2, s) BY <1>2, <2>2 DEF Detaching, Is
  <2> QED BY <1>3, <1>4, <2>1, <2>3, FreshStack
<1> QED BY <1>1, <1>3, <1>5, <1>6, ForgottenStart

LEMMA CloseEventKeeps == ASSUME NEW s \in Socket PROVE Inv /\ CloseEvent(s) => Inv'
<1> SUFFICES ASSUME Inv, CloseEvent(s) PROVE Inv' OBVIOUS
<1>1. transport \in [Socket -> {"absent", "open", "closing", "broken"}] BY StateTyped
<1>2. /\ transport' \in [Socket -> {"absent", "open", "closing", "broken"}]
      /\ \A x \in Socket : x # s => transport'[x] = transport[x]
      /\ transport'[s] # "open"
  BY <1>1 DEF CloseEvent
<1> QED BY <1>2, RemovalStart DEF CloseEvent

LEMMA ErrorEventKeeps == ASSUME NEW s \in Socket PROVE Inv /\ ErrorEvent(s) => Inv'
<1> SUFFICES ASSUME Inv, ErrorEvent(s) PROVE Inv' OBVIOUS
<1>1. transport \in [Socket -> {"absent", "open", "closing", "broken"}] BY StateTyped
<1>2. /\ transport' \in [Socket -> {"absent", "open", "closing", "broken"}]
      /\ \A x \in Socket : x # s => transport'[x] = transport[x]
      /\ transport'[s] # "open"
  BY <1>1 DEF ErrorEvent
<1> QED BY <1>2, RemovalStart DEF ErrorEvent

LEMMA LeaveRoomKeeps == ASSUME NEW s \in Socket PROVE Inv /\ LeaveRoom(s) => Inv'
<1> SUFFICES ASSUME Inv, LeaveRoom(s) PROVE Inv' OBVIOUS
<1> DEFINE a == Detach(s, TRUE)
           cs == <<a>>
           m == Heard(maps, s)
<1>1. a.call = "detachSocketFromRoom" /\ a.socket = s /\ a.notify = TRUE BY DEF Detach
<1>2. Begin(m, cs) /\ transport' = transport /\ view' = [view EXCEPT ![s] = NoView]
  BY DEF LeaveRoom
<1>3. m = Heard(maps, s) OBVIOUS
<1> HIDE DEF a, m
<1>4. FrameType(a) BY <1>1 DEF FrameType, OfSocket, OfRoom, Others
<1>5. cs \in Seq({a}) /\ (\A k \in 1 .. Len(cs) : FrameType(cs[k])) /\ NewCalls(cs) = {a}
  BY <1>4, OneCall
<1>6. ASSUME NEW w2, w2.view[s].room = NoRoom PROVE Ready(w2, cs)
  <2>1. FrameGood(w2, a, {}) BY <1>1, <1>6 DEF FrameGood, DetachGood
  <2> QED BY <1>1, <2>1, OneCall
<1> HIDE DEF cs
<1>7. /\ m \in MapsType /\ Distinct(m) /\ Kept(m) /\ Tracked(maps) \subseteq Tracked(m)
      /\ s \in Tracked(m)
  BY <1>3, MapsTyped, HeardMaps
<1>8. ASSUME NEW w, NEW w2, Began(m, cs, w, w2)
      PROVE  Detaching(w2, s) /\ (w2.view[s].room = NoRoom => FramesGood(w2) /\ EntryLast(w2))
  <2>1. w2.todo = cs BY <1>8 DEF Began
  <2>2. Stacked(w2) = {a} BY <1>5, <2>1, FreshStack
  <2>3. Detaching(w2, s) BY <1>1, <2>2 DEF Detaching, Is
  <2> QED BY <1>5, <1>6, <2>1, <2>3, FreshStack
<1> QED BY <1>2, <1>5, <1>7, <1>8, StateTyped, ForgottenStart

(***************************************************************************)
(* The invariant holds.                                                    *)
(***************************************************************************)

LEMMA InitHolds == Init => Inv
<1> SUFFICES ASSUME Init PROVE Inv OBVIOUS
<1> DEFINE none == [r \in RoomId |-> <<>>]
           w == World
<1>1. /\ maps = [EmptyHub EXCEPT !.members = none] /\ todo = <<>>
      /\ transport = [s \in Socket |-> "absent"] /\ view = [s \in Socket |-> NoView]
      /\ rest.hub = EmptyHub
  BY DEF Init
<1>2. none \in [RoomId -> Seq(Socket)] BY EmptySeq
<1>3. \A r \in RoomId : none[r] = <<>> OBVIOUS
<1> HIDE DEF none
<1>4. /\ maps \in MapsType
      /\ maps.session = [s \in Socket |-> NoRoom] /\ maps.rooms = {} /\ maps.members = none
      /\ maps.ttl = [r \in RoomId |-> Missing]
  BY <1>1, <1>2, Emptied
<1>5. Distinct(maps) BY <1>3, <1>4 DEF Distinct
<1>6. NoView \in ViewType /\ NoView.room = NoRoom BY DEF NoView, ViewType
<1>7. Types(maps, todo, transport, view)
  <2>1. todo \in Seq({todo[i] : i \in DOMAIN todo}) BY <1>1, EmptySeq
  <2>2. \A i \in DOMAIN todo : FrameType(todo[i]) BY <1>1
  <2>3. /\ transport \in [Socket -> {"absent", "open", "closing", "broken"}]
        /\ view \in [Socket -> ViewType]
    BY <1>1, <1>6
  <2> QED BY <1>4, <1>5, <2>1, <2>2, <2>3 DEF Types
<1>8. /\ w.session = maps.session /\ w.rooms = {} /\ w.open = {} /\ w.todo = <<>>
      /\ w.ttl = maps.ttl /\ w.hub = EmptyHub
      /\ w.absent = {s \in Socket : transport[s] = "absent"}
  BY <1>1, <1>4 DEF World, WorldOf
<1>9. EmptyHub.session = maps.session /\ EmptyHub.ttl = maps.ttl BY <1>4 DEF EmptyHub
<1> HIDE DEF w
<1>10. \A s \in Socket : w.session[s] = NoRoom BY <1>4, <1>8
<1>11. FramesGood(w) /\ EntryLast(w) BY <1>8, NoFrames
<1>12. /\ RoomsAgree(w) /\ SessionsAgree(w) /\ SeenFromRooms(w) /\ BeliefsPending(w)
       /\ ListsPending(w) /\ Unattached(w) /\ Supervised(w) /\ Rests(w)
  BY <1>8, <1>9, <1>10 DEF RoomsAgree, SessionsAgree, SeenFromRooms, BeliefsPending,
     ListsPending, Unattached, Supervised, Rests
<1> QED BY <1>7, <1>11, <1>12 DEF Inv, Holds, w

LEMMA RunKeeps == Inv /\ Run => Inv'
<1> SUFFICES ASSUME Inv, Run PROVE Inv' OBVIOUS
<1>1. CASE RunSend BY <1>1, RunSendKeeps, RunWelcomeKeeps
<1>2. CASE RunForget BY <1>2, RunForgetKeeps
<1>3. CASE RunEndSession BY <1>3, RunEndSessionKeeps
<1>4. CASE RunDetach BY <1>4, RunDetachKeeps
<1>5. CASE RunDestroy BY <1>5, RunDestroyKeeps
<1>6. CASE RunDestroyNext BY <1>6, RunDestroyNextKeeps
<1>7. CASE RunBroadcast BY <1>7, RunBroadcastKeeps
<1>8. CASE RunTellNext BY <1>8, RunTellNextKeeps
<1>9. CASE RunGenerate BY <1>9, RunGenerateKeeps
<1>10. CASE RunEnter BY <1>10, RunEnterKeeps
<1>11. CASE RunRecord BY <1>11, RunRecordKeeps
<1>12. CASE RunClose BY <1>12, RunCloseKeeps
<1>13. CASE RunSweepSockets BY <1>13, RunSweepSocketsKeeps
<1>14. CASE RunSweepRooms BY <1>14, RunSweepRoomsKeeps
<1>15. CASE RunDispose BY <1>15, RunDisposeKeeps
<1> QED BY <1>1, <1>2, <1>3, <1>4, <1>5, <1>6, <1>7, <1>8, <1>9, <1>10, <1>11, <1>12, <1>13,
           <1>14, <1>15 DEF Run

LEMMA StartKeeps == Inv /\ Start => Inv'
<1> SUFFICES ASSUME Inv, Start PROVE Inv' OBVIOUS
<1>1. ASSUME NEW s \in Socket,
             \/ AttachSocket(s) \/ CloseEvent(s) \/ ErrorEvent(s) \/ Degrade(s)
             \/ InvalidMessage(s) \/ Answered(s) \/ LeaveRoom(s) \/ CreateRoom(s)
      PROVE  Inv'
  <2>1. CASE AttachSocket(s) BY <2>1, AttachSocketKeeps
  <2>2. CASE CloseEvent(s) BY <2>2, CloseEventKeeps
  <2>3. CASE ErrorEvent(s) BY <2>3, ErrorEventKeeps
  <2>4. CASE Degrade(s) BY <2>4, DegradeKeeps
  <2>5. CASE InvalidMessage(s) BY <2>5, InvalidMessageKeeps
  <2>6. CASE Answered(s) BY <2>6, AnsweredKeeps
  <2>7. CASE LeaveRoom(s) BY <2>7, LeaveRoomKeeps
  <2>8. CASE CreateRoom(s) BY <2>8, CreateRoomKeeps
  <2> QED BY <1>1, <2>1, <2>2, <2>3, <2>4, <2>5, <2>6, <2>7, <2>8
<1>2. ASSUME NEW s \in Socket, NEW r \in RoomId,
             RoomExpired(s, r) \/ JoinRoom(s, r) \/ ForwardContent(s, r)
      PROVE  Inv'
  <2>1. CASE RoomExpired(s, r) BY <2>1, RoomExpiredKeeps
  <2>2. CASE JoinRoom(s, r) BY <2>2, JoinRoomKeeps
  <2>3. CASE ForwardContent(s, r) BY <2>3, ForwardContentKeeps
  <2> QED BY <1>2, <2>1, <2>2, <2>3
<1>3. CASE Sweep BY <1>3, SweepKeeps
<1>4. CASE Dispose BY <1>4, DisposeKeeps
<1>5. CASE Tick BY <1>5, TickKeeps
<1> QED BY <1>1, <1>2, <1>3, <1>4, <1>5 DEF Start

LEMMA StutterKeeps == Inv /\ UNCHANGED vars => Inv'
<1> SUFFICES ASSUME Inv, UNCHANGED vars PROVE Inv' OBVIOUS
<1>1. /\ maps' = maps /\ todo' = todo /\ transport' = transport /\ view' = view
      /\ rest' = rest
  BY DEF vars
<1>2. World' = World BY <1>1 DEF World
<1> QED BY <1>1, <1>2 DEF Inv

\* The calls still to be made and the state they find fit together, at every call
\* of every handler, however the sends fail.
THEOREM CallsInvariant == Spec => []Inv
<1>1. Inv /\ [Next]_vars => Inv' BY RunKeeps, StartKeeps, StutterKeeps DEF Next
<1> QED BY <1>1, InitHolds, PTL DEF Spec

\* At rest every open client believes it is in the room the hub has it in.
THEOREM BeliefsAlwaysMatch == Spec => []BeliefsMatch
<1>1. Inv => BeliefsMatch
  <2> SUFFICES ASSUME Inv, AtRest, NEW s \in Socket, transport[s] = "open"
               PROVE  view[s].room = maps.session[s]
    BY DEF BeliefsMatch
  <2> DEFINE w == World
  <2>1. w.todo = <<>> /\ s \in w.open /\ w.view = view /\ w.session = maps.session /\ Holds(w)
    BY DEF World, WorldOf, AtRest, Inv
  <2> HIDE DEF w
  <2>2. Calm(w) BY <2>1, Calming
  <2> QED BY <2>1, <2>2 DEF Calm
<1> QED BY <1>1, CallsInvariant, PTL

\* At rest no member is missing from the user list an open member received last.
THEOREM NobodyReadsUnseen == Spec => []NoInvisibleMember
<1>1. Inv => NoInvisibleMember
  <2> SUFFICES ASSUME Inv, AtRest, NEW s \in Socket, transport[s] = "open",
                      maps.session[s] # NoRoom
               PROVE  ToSet(maps.members[maps.session[s]]) \subseteq view[s].users
    BY DEF NoInvisibleMember
  <2> DEFINE w == World
             r == maps.session[s]
  <2>1. /\ w.todo = <<>> /\ s \in w.open /\ w.view = view /\ w.session = maps.session /\ Holds(w)
        /\ w.members = [q \in RoomId |-> Mem(maps, q)]
    BY DEF World, WorldOf, AtRest, Inv
  <2>2. r \in RoomId BY MapsTyped DEF MapsType
  <2> HIDE DEF w
  <2>3. Calm(w) BY <2>1, Calming
  <2>4. Mem(maps, r) \subseteq view[s].users BY <2>1, <2>2, <2>3 DEF Calm
  <2> QED BY <2>4 DEF ToSet, Mem
<1> QED BY <1>1, CallsInvariant, PTL

\* Content reaches nobody but the open members the sender's unexpired room had when
\* its message arrived.
THEOREM ContentAlwaysStaysInRoom == Spec => []ContentStaysInRoom
<1>1. Inv => ContentStaysInRoom
  <2> SUFFICES ASSUME Inv, Delivers("content")
               PROVE  /\ rest.hub.session[Receiver] = Arg.msg.room
                      /\ rest.hub.session[Arg.msg.from] = Arg.msg.room
                      /\ Receiver # Arg.msg.from
                      /\ rest.hub.ttl[Arg.msg.room] > 0
    BY DEF ContentStaysInRoom
  <2> DEFINE f == Head(todo)
             s == NextOf(f.room, f.did)
             w == World
  <2>1. /\ todo # <<>> /\ f.call = "tellNext" /\ f.msg.type = "content"
        /\ Unvisited(f.room, f.did) # {}
    BY DEF Delivers, Calling, Arg
  <2>2. FrameType(f) /\ FrameGood(w, f, {}) BY <2>1, HeadFacts
  <2>3. f.room \in RoomId /\ f.msg.room = f.room BY <2>1, <2>2 DEF FrameType, OfRoom
  <2>4. s \in Mem(maps, f.room) /\ s \notin f.did BY <2>1, <2>3, MapsTyped, NextMember
  <2>5. w.hub = rest.hub /\ w.members[f.room] = Mem(maps, f.room)
    BY <2>3 DEF World, WorldOf
  <2> HIDE DEF w, s
  <2>6. TellGood(w, f) BY <2>1, <2>2 DEF FrameGood
  <2>7. /\ f.msg.from \in f.did /\ w.hub.session[f.msg.from] = f.room /\ w.hub.ttl[f.room] > 0
        /\ \A x \in w.members[f.room] : w.hub.session[x] = f.room
    BY <2>1, <2>6 DEF TellGood
  <2>8. /\ rest.hub.session[s] = f.msg.room /\ rest.hub.session[f.msg.from] = f.msg.room
        /\ s # f.msg.from /\ rest.hub.ttl[f.msg.room] > 0
    BY <2>3, <2>4, <2>5, <2>7
  <2>9. Receiver = s BY DEF Receiver, Arg, s
  <2> QED BY <2>8, <2>9 DEF Arg
<1> QED BY <1>1, CallsInvariant, PTL

(***************************************************************************)
(* How deep the cascades go, of a stack q and the sessions.                *)
(***************************************************************************)

Forgets(q, i, s)  == i \in DOMAIN q /\ Is(q[i], "forget", s)
Detaches(q, i, s) == i \in DOMAIN q /\ Is(q[i], "detachSocketFromRoom", s) /\ q[i].notify

\* The loops of the sweep and of dispose are the outermost calls.
BottomLast(q) ==
    \A i \in DOMAIN q : q[i].call \in {"sweepSockets", "disposeNext"} => i = Len(q)

\* The place of a removal that the sweep has still to come to.
Swept(q, i) ==
    /\ i = Len(q) - 1
    /\ q[Len(q)].call = "sweepSockets"
    /\ \E j \in 1 .. i : q[j].call = "safeClose"

\* safeClose is called by the sweep, before a removal, or by dispose.
CloseInPlace(q) ==
    \A i \in DOMAIN q : q[i].call = "safeClose" =>
        \/ i = Len(q) - 1 /\ q[Len(q)].call = "disposeNext"
        \/ /\ i = Len(q) - 3
           /\ Detaches(q, i + 1, q[i].socket)
           /\ Forgets(q, i + 2, q[i].socket)
           /\ q[Len(q)].call = "sweepSockets"

\* A removal detaches the socket before anything else, unless it is the sweep's.
DetachFirst(q) ==
    \A i \in DOMAIN q : \A s \in Socket : Detaches(q, i, s) => i = 1 \/ Swept(q, i + 1)

\* Afterwards the socket has no room.
ForgetLast(q, session) ==
    \A i \in DOMAIN q : \A s \in Socket : Forgets(q, i, s) =>
        session[s] = NoRoom \/ (i > 1 /\ Detaches(q, i - 1, s))

\* A removal of a socket that is being removed is the innermost call.
Innermost(q) ==
    \A i, j \in DOMAIN q : \A s \in Socket :
        i < j /\ Forgets(q, i, s) /\ Forgets(q, j, s) =>
            i = 1 \/ (i = 2 /\ Detaches(q, 1, s)) \/ Swept(q, j)

Depth(q, session) ==
    /\ BottomLast(q) /\ CloseInPlace(q) /\ DetachFirst(q)
    /\ ForgetLast(q, session) /\ Innermost(q)

\* The calls cs remove at most one socket, and that first.
Tame(cs) ==
    \A k \in 1 .. Len(cs) :
        /\ cs[k].call \notin {"safeClose", "sweepSockets", "disposeNext"}
        /\ \A s \in Socket : /\ Detaches(cs, k, s) => k = 1
                             /\ Forgets(cs, k, s) => k = 2 /\ Detaches(cs, 1, s)

\* The calls cs take the place of the innermost call.
Replaces(p, q, cs) == p = cs \o Tail(q)

\* A call that ends no session but with what it calls, and makes the calls cs.
Deepens(q, cs, session, session2) ==
    /\ Tame(cs)
    /\ q[1].call # "safeClose"
    /\ \A s \in Socket : /\ session2[s] \in {session[s], NoRoom}
                         /\ Detaches(q, 1, s) => session2[s] = NoRoom
                         /\ Detaches(q, 1, s) /\ session[s] = NoRoom => cs = <<>>

LEMMA DepthStep ==
    ASSUME NEW A, NEW B, NEW q \in Seq(A), q # <<>>, NEW cs \in Seq(B),
           NEW p, Replaces(p, q, cs), NEW session, NEW session2, Depth(q, session),
           Deepens(q, cs, session, session2)
    PROVE  Depth(p, session2)
<1> DEFINE n == Len(cs)
           L == Len(q)
<1>1. /\ Len(p) = n + L - 1
      /\ \A k \in 1 .. n : k \in DOMAIN p /\ p[k] = cs[k]
      /\ \A i \in 2 .. L : i + n - 1 \in DOMAIN p /\ p[i + n - 1] = q[i]
      /\ DOMAIN p = 1 .. Len(p)
      /\ DOMAIN q = 1 .. L /\ 1 \in DOMAIN q
  BY Stacking DEF Replaces
<1>2. n \in Nat /\ L \in Nat /\ DOMAIN cs = 1 .. n BY LenProperties
<1>e. cs = <<>> => n = 0 BY EmptySeq
<1>3. L >= 1 BY <1>1, <1>2
<1> HIDE DEF n, L
<1>4. ASSUME NEW k \in DOMAIN p, k \notin 1 .. n
      PROVE  /\ k - n + 1 \in 2 .. L /\ k - n + 1 \in DOMAIN q /\ p[k] = q[k - n + 1]
             /\ k = (k - n + 1) + n - 1
  <2>1. k \in 1 .. n + L - 1 BY <1>1, <1>4
  <2>2. k - n + 1 \in 2 .. L /\ k = (k - n + 1) + n - 1 BY <1>2, <1>3, <1>4, <2>1
  <2>3. k - n + 1 \in 1 .. L BY <1>2, <2>2
  <2> QED BY <1>1, <2>2, <2>3
<1>5. ASSUME NEW i \in 2 .. L, Swept(q, i) PROVE Swept(p, i + n - 1)
  <2>1. i = L - 1 /\ q[L].call = "sweepSockets" BY <1>5 DEF Swept, L
  <2>2. i + n - 1 = Len(p) - 1 BY <1>1, <1>2, <2>1
  <2>3. p[Len(p)] = q[L]
    <3>1. L \in 2 .. L /\ L + n - 1 = Len(p) BY <1>1, <1>2, <1>5
    <3> QED BY <1>1, <3>1
  <2>4. PICK j \in 1 .. i : q[j].call = "safeClose" BY <1>5 DEF Swept
  <2>5. j \in 2 .. L /\ j + n - 1 \in 1 .. i + n - 1
    <3>1. j # 1 BY <2>4 DEF Deepens
    <3> QED BY <1>2, <1>5, <3>1
  <2>6. p[j + n - 1].call = "safeClose" BY <1>1, <2>4, <2>5
  <2> QED BY <2>1, <2>2, <2>3, <2>5, <2>6 DEF Swept
<1>6. ASSUME NEW i \in 2 .. L, NEW s
      PROVE  /\ Detaches(q, i, s) <=> Detaches(p, i + n - 1, s)
             /\ Forgets(q, i, s) <=> Forgets(p, i + n - 1, s)
  <2>1. i \in DOMAIN q BY <1>1, <1>2
  <2> QED BY <1>1, <2>1 DEF Detaches, Forgets
<1>7. ASSUME NEW k \in 1 .. n, NEW s \in Socket
      PROVE  /\ Detaches(p, k, s) => k = 1
             /\ Forgets(p, k, s) => k = 2 /\ Detaches(p, 1, s)
  <2>1. /\ Detaches(cs, k, s) => k = 1
        /\ Forgets(cs, k, s) => k = 2 /\ Detaches(cs, 1, s)
    BY <1>7 DEF Deepens, Tame, n
  <2>2. p[k] = cs[k] /\ k \in DOMAIN p /\ k \in DOMAIN cs BY <1>1, <1>2
  <2>3. 1 \in 1 .. n BY <1>2
  <2>4. p[1] = cs[1] /\ 1 \in DOMAIN p BY <1>1, <2>3
  <2> QED BY <2>1, <2>2, <2>4 DEF Detaches, Forgets
<1>8. BottomLast(p)
  <2> SUFFICES ASSUME NEW k \in DOMAIN p, p[k].call \in {"sweepSockets", "disposeNext"}
               PROVE  k = Len(p)
    BY DEF BottomLast
  <2>1. k \notin 1 .. n BY <1>1 DEF Deepens, Tame, n
  <2> DEFINE i == k - n + 1
  <2>2. i \in 2 .. L /\ i \in DOMAIN q /\ p[k] = q[i] /\ k = i + n - 1 BY <1>4, <2>1
  <2> HIDE DEF i
  <2>3. i = L BY <2>2 DEF Depth, BottomLast, L
  <2> QED BY <1>1, <1>2, <2>2, <2>3
<1>9. CloseInPlace(p)
  <2> SUFFICES ASSUME NEW k \in DOMAIN p, p[k].call = "safeClose"
               PROVE  \/ k = Len(p) - 1 /\ p[Len(p)].call = "disposeNext"
                      \/ /\ k = Len(p) - 3
                         /\ Detaches(p, k + 1, p[k].socket)
                         /\ Forgets(p, k + 2, p[k].socket)
                         /\ p[Len(p)].call = "sweepSockets"
    BY DEF CloseInPlace
  <2>1. k \notin 1 .. n BY <1>1 DEF Deepens, Tame, n
  <2> DEFINE i == k - n + 1
  <2>2. i \in 2 .. L /\ i \in DOMAIN q /\ p[k] = q[i] /\ k = i + n - 1 BY <1>4, <2>1
  <2> HIDE DEF i
  <2>3. p[Len(p)] = q[L]
    <3>1. L \in 2 .. L /\ L + n - 1 = Len(p) BY <1>1, <1>2, <2>2
    <3> QED BY <1>1, <3>1
  <2>4. \/ i = L - 1 /\ q[L].call = "disposeNext"
        \/ /\ i = L - 3
           /\ Detaches(q, i + 1, q[i].socket) /\ Forgets(q, i + 2, q[i].socket)
           /\ q[L].call = "sweepSockets"
    BY <2>2 DEF Depth, CloseInPlace, L
  <2>5. CASE i = L - 1 /\ q[L].call = "disposeNext" BY <1>1, <1>2, <2>2, <2>3, <2>5
  <2>6. CASE /\ i = L - 3
             /\ Detaches(q, i + 1, q[i].socket) /\ Forgets(q, i + 2, q[i].socket)
             /\ q[L].call = "sweepSockets"
    <3>1. /\ i + 1 \in 2 .. L /\ (i + 1) + n - 1 = k + 1
          /\ i + 2 \in 2 .. L /\ (i + 2) + n - 1 = k + 2 /\ k = Len(p) - 3
      BY <1>1, <1>2, <2>2, <2>6
    <3>2. Detaches(p, k + 1, q[i].socket) /\ Forgets(p, k + 2, q[i].socket)
      BY <1>6, <2>6, <3>1
    <3> QED BY <2>2, <2>3, <2>6, <3>1, <3>2
  <2> QED BY <2>4, <2>5, <2>6
<1>10. DetachFirst(p)
  <2> SUFFICES ASSUME NEW k \in DOMAIN p, NEW s \in Socket, Detaches(p, k, s)
               PROVE  k = 1 \/ Swept(p, k + 1)
    BY DEF DetachFirst
  <2>1. CASE k \in 1 .. n BY <1>7, <2>1
  <2>2. CASE k \notin 1 .. n
    <3> DEFINE i == k - n + 1
    <3>1. i \in 2 .. L /\ i \in DOMAIN q /\ k = i + n - 1 BY <1>4, <2>2
    <3> HIDE DEF i
    <3>2. Detaches(q, i, s) BY <1>6, <3>1
    <3>3. Swept(q, i + 1)
      <4>1. i # 1 BY <1>2, <3>1
      <4>2. DetachFirst(q) BY DEF Depth
      <4> QED BY <3>1, <3>2, <4>1, <4>2 DEF DetachFirst
    <3>4. i + 1 = L - 1 BY <3>3 DEF Swept, L
    <3>5. i + 1 \in 2 .. L /\ (i + 1) + n - 1 = k + 1 BY <1>2, <3>1, <3>4
    <3> QED BY <1>5, <3>3, <3>5
  <2> QED BY <2>1, <2>2
<1>11. ForgetLast(p, session2)
  <2> SUFFICES ASSUME NEW k \in DOMAIN p, NEW s \in Socket, Forgets(p, k, s)
               PROVE  session2[s] = NoRoom \/ (k > 1 /\ Detaches(p, k - 1, s))
    BY DEF ForgetLast
  <2>1. CASE k \in 1 .. n BY <1>7, <2>1
  <2>2. CASE k \notin 1 .. n
    <3> DEFINE i == k - n + 1
    <3>1. i \in 2 .. L /\ i \in DOMAIN q /\ k = i + n - 1 BY <1>4, <2>2
    <3> HIDE DEF i
    <3>2. Forgets(q, i, s) BY <1>6, <3>1
    <3>3. session[s] = NoRoom \/ Detaches(q, i - 1, s) BY <3>1, <3>2 DEF Depth, ForgetLast
    <3>4. CASE session[s] = NoRoom BY <3>4 DEF Deepens
    <3>5. CASE Detaches(q, i - 1, s) /\ i = 2
      <4>1. Detaches(q, 1, s) BY <3>5
      <4> QED BY <4>1 DEF Deepens
    <3>6. CASE Detaches(q, i - 1, s) /\ i # 2
      <4>1. i - 1 \in 2 .. L /\ (i - 1) + n - 1 = k - 1 /\ k > 1 BY <1>2, <3>1, <3>6
      <4> QED BY <1>6, <3>6, <4>1
    <3> QED BY <3>3, <3>4, <3>5, <3>6
  <2> QED BY <2>1, <2>2
<1>12. Innermost(p)
  <2> SUFFICES ASSUME NEW k \in DOMAIN p, NEW l \in DOMAIN p, NEW s \in Socket,
                      k < l, Forgets(p, k, s), Forgets(p, l, s)
               PROVE  k = 1 \/ (k = 2 /\ Detaches(p, 1, s)) \/ Swept(p, l)
    BY DEF Innermost
  <2>1. CASE k \in 1 .. n BY <1>7, <2>1
  <2>2. CASE k \notin 1 .. n
    <3> DEFINE i == k - n + 1
               j == l - n + 1
    <3>0. l \notin 1 .. n BY <1>1, <1>2, <2>2
    <3>1. i \in 2 .. L /\ i \in DOMAIN q /\ k = i + n - 1 BY <1>4, <2>2
    <3>2. j \in 2 .. L /\ j \in DOMAIN q /\ l = j + n - 1 BY <1>4, <3>0
    <3> HIDE DEF i, j
    <3>3. Forgets(q, i, s) /\ Forgets(q, j, s) BY <1>6, <3>1, <3>2
    <3>4. i < j BY <1>2, <3>1, <3>2
    <3>5. Swept(q, j) \/ (i = 2 /\ Detaches(q, 1, s))
      BY <3>1, <3>2, <3>3, <3>4 DEF Depth, Innermost
    <3>6. CASE Swept(q, j) BY <1>5, <3>2, <3>6
    <3>7. CASE i = 2 /\ Detaches(q, 1, s)
      <4>1. session[s] = NoRoom \/ Detaches(q, j - 1, s)
        BY <3>2, <3>3 DEF Depth, ForgetLast
      <4>2. CASE session[s] = NoRoom
        <5>1. n = 0 BY <1>e, <3>7, <4>2 DEF Deepens
        <5> QED BY <1>2, <3>1, <3>7, <5>1
      <4>3. CASE Detaches(q, j - 1, s)
        <5>1. j - 1 \in DOMAIN q /\ j - 1 # 1 /\ (j - 1) + 1 = j
          BY <1>1, <1>2, <3>1, <3>2, <3>4
        <5>2. Swept(q, j) BY <4>3, <5>1 DEF Depth, DetachFirst
        <5> QED BY <1>5, <3>2, <5>2
      <4> QED BY <4>1, <4>2, <4>3
    <3> QED BY <3>5, <3>6, <3>7
  <2> QED BY <2>1, <2>2
<1> QED BY <1>8, <1>9, <1>10, <1>11, <1>12 DEF Depth

DepthHolds == Depth(todo, maps.session)

\* A call that can be made anywhere: it adds nothing to the depth.
Plain(f) ==
    /\ f.call \notin {"safeClose", "sweepSockets", "disposeNext", "forget"}
    /\ f.call = "detachSocketFromRoom" => ~f.notify

LEMMA AllPlain ==
    ASSUME NEW cs, \A k \in 1 .. Len(cs) : Plain(cs[k])
    PROVE  Tame(cs)
BY DEF Tame, Plain, Detaches, Forgets, Is

\* A removal, and then such calls.
LEMMA RemovalFirst ==
    ASSUME NEW S, NEW cs \in Seq(S), Len(cs) >= 2, NEW s \in Socket,
           cs[1] = Detach(s, TRUE), cs[2] = Forget(s),
           \A k \in 1 .. Len(cs) : k = 1 \/ k = 2 \/ Plain(cs[k])
    PROVE  Tame(cs)
<1>1. DOMAIN cs = 1 .. Len(cs) /\ Len(cs) \in Nat BY LenProperties
<1>2. /\ cs[1].call = "detachSocketFromRoom" /\ cs[1].socket = s /\ cs[1].notify
      /\ cs[2].call = "forget" /\ cs[2].socket = s
  BY DEF Detach, Forget
<1>3. 1 \in DOMAIN cs BY <1>1
<1>4. Detaches(cs, 1, s) BY <1>2, <1>3 DEF Detaches, Is
<1> SUFFICES ASSUME NEW k \in 1 .. Len(cs), NEW x \in Socket
             PROVE  /\ cs[k].call \notin {"safeClose", "sweepSockets", "disposeNext"}
                    /\ Detaches(cs, k, x) => k = 1
                    /\ Forgets(cs, k, x) => k = 2 /\ Detaches(cs, 1, x)
  BY <1>2 DEF Tame, Plain
<1>5. CASE k = 1 BY <1>2, <1>5 DEF Forgets, Is
<1>6. CASE k = 2 BY <1>2, <1>4, <1>6 DEF Forgets, Detaches, Is
<1>7. CASE Plain(cs[k]) BY <1>7 DEF Plain, Forgets, Detaches, Is
<1> QED BY <1>5, <1>6, <1>7

\* The stack of a handler that has just started, or of an entry just made.
LEMMA FreshDepth ==
    ASSUME NEW S, NEW cs \in Seq(S), Tame(cs), NEW session
    PROVE  Depth(cs, session)
<1>1. DOMAIN cs = 1 .. Len(cs) /\ Len(cs) \in Nat BY LenProperties
<1>2. BottomLast(cs) /\ CloseInPlace(cs) /\ DetachFirst(cs)
  BY <1>1 DEF Tame, BottomLast, CloseInPlace, DetachFirst
<1>3. ForgetLast(cs, session) BY <1>1 DEF Tame, ForgetLast
<1>4. Innermost(cs) BY <1>1 DEF Tame, Innermost
<1> QED BY <1>2, <1>3, <1>4 DEF Depth

LEMMA LeavesSession ==
    ASSUME NEW m, DOMAIN m = DOMAIN maps, maps \in MapsType, NEW q, NEW u, Leaves(m, q, u)
    PROVE  todo' = q /\ maps'.session = m.session
<1>1. "session" \in DOMAIN m BY DEF MapsType
<1>2. Collected(m).session = m.session BY <1>1 DEF Collected
<1> QED BY <1>2 DEF Leaves

LEMMA DepthRun ==
    ASSUME Inv, DepthHolds, todo # <<>>, NEW S, NEW cs \in Seq(S), Tame(cs),
           Head(todo).call # "safeClose",
           NEW m, DOMAIN m = DOMAIN maps, NEW u, Leaves(m, cs \o Tail(todo), u),
           \A s \in Socket : /\ m.session[s] \in {maps.session[s], NoRoom}
                             /\ Is(Head(todo), "detachSocketFromRoom", s) =>
                                   m.session[s] = NoRoom /\ (maps.session[s] = NoRoom => cs = <<>>)
    PROVE  DepthHolds'
<1> DEFINE A == {todo[i] : i \in DOMAIN todo}
           p == cs \o Tail(todo)
<1>1. todo \in Seq(A) BY DEF Inv, Types
<1> HIDE DEF A
<1>2. Head(todo) = todo[1] BY <1>1
<1>3. todo' = p /\ maps'.session = m.session BY MapsTyped, LeavesSession
<1>4. Deepens(todo, cs, maps.session, m.session) BY <1>2 DEF Deepens, Detaches
<1>5. Replaces(p, todo, cs) BY DEF Replaces
<1>6. Depth(todo, maps.session) BY DEF DepthHolds
<1> HIDE DEF p
<1>7. Depth(p, m.session) BY <1>1, <1>4, <1>5, <1>6, DepthStep
<1> QED BY <1>3, <1>7 DEF DepthHolds

\* A call that leaves the sessions as they are, and is no departure.
LEMMA StillDepth ==
    ASSUME Inv, DepthHolds, todo # <<>>, NEW S, NEW cs \in Seq(S), Tame(cs),
           Head(todo).call \notin {"safeClose", "detachSocketFromRoom"},
           NEW u, Leaves(maps, cs \o Tail(todo), u)
    PROVE  DepthHolds'
BY DepthRun DEF Is

\* One that sends a message and then makes the calls cs: the send may throw.
LEMMA SendDepth ==
    ASSUME Inv, DepthHolds, todo # <<>>, NEW s \in Socket, NEW msg, NEW S, NEW cs \in Seq(S),
           \A k \in 1 .. Len(cs) : Plain(cs[k]),
           Head(todo).call \notin {"safeClose", "detachSocketFromRoom"},
           Sends(s, msg, cs)
    PROVE  DepthHolds'
<1>1. CASE transport[s] # "broken"
  <2>1. Tame(cs) BY AllPlain
  <2>2. Leaves(maps, cs \o Tail(todo), NoUsage) BY <1>1 DEF Sends, Continue
  <2> QED BY <2>1, <2>2, StillDepth
<1>2. CASE transport[s] = "broken"
  <2> DEFINE r == RemovalOf(s)
             q == r \o cs
             a == Detach(s, TRUE)
             b == Forget(s)
  <2>1. r = <<a, b>> BY DEF RemovalOf
  <2>2. Leaves(maps, q \o Tail(todo), NoUsage) BY <1>2 DEF Sends, Continue
  <2> HIDE DEF r, q, a, b
  <2>3. r \in Seq({a, b}) /\ Len(r) = 2 /\ r[1] = a /\ r[2] = b BY <2>1, TwoCalls
  <2> DEFINE T == {a, b} \cup S
  <2>4. cs \in Seq(T) /\ r \in Seq(T)
    BY <2>3, SeqMonotonic, S \subseteq T, {a, b} \subseteq T
  <2> HIDE DEF T
  <2>5. /\ q \in Seq(T) /\ Len(q) = 2 + Len(cs)
        /\ \A i \in 1 .. 2 + Len(cs) : q[i] = IF i <= 2 THEN r[i] ELSE cs[i - 2]
    <3>1. q = r \o cs BY DEF q
    <3>2. /\ q \in Seq(T) /\ Len(q) = Len(r) + Len(cs)
          /\ \A i \in 1 .. Len(r) + Len(cs) : q[i] = IF i <= Len(r) THEN r[i] ELSE cs[i - Len(r)]
      BY <2>4, <3>1, Concatenated
    <3> QED BY <2>3, <3>2
  <2>6. Len(cs) \in Nat BY LenProperties
  <2>7. q[1] = a /\ q[2] = b /\ Len(q) >= 2
    <3>1. 1 \in 1 .. 2 + Len(cs) /\ 2 \in 1 .. 2 + Len(cs) /\ 1 <= 2 /\ 2 <= 2 BY <2>6
    <3>2. q[1] = r[1] /\ q[2] = r[2] BY <2>5, <3>1
    <3> QED BY <2>3, <2>5, <2>6, <3>2
  <2>8. ASSUME NEW k \in 1 .. Len(q), k # 1, k # 2 PROVE Plain(q[k])
    <3>1. k \in 1 .. 2 + Len(cs) /\ ~(k <= 2) /\ k - 2 \in 1 .. Len(cs) BY <2>5, <2>6, <2>8
    <3>2. q[k] = cs[k - 2] BY <2>5, <3>1
    <3> QED BY <3>1, <3>2
  <2>9. Tame(q) BY <2>5, <2>7, <2>8, RemovalFirst DEF a, b
  <2> QED BY <2>2, <2>5, <2>9, StillDepth
<1> QED BY <1>1, <1>2

LEMMA NoneTame == <<>> \in Seq({}) /\ Tame(<<>>) /\ \A k \in 1 .. Len(<<>>) : Plain(<<>>[k])
BY EmptySeq DEF Tame

LEMMA OneTame ==
    ASSUME NEW a, Plain(a)
    PROVE  <<a>> \in Seq({a}) /\ Tame(<<a>>) /\ \A k \in 1 .. Len(<<a>>) : Plain(<<a>>[k])
<1> DEFINE cs == <<a>>
<1>1. cs \in Seq({a}) /\ Len(cs) = 1 /\ cs[1] = a BY OneCall
<1> HIDE DEF cs
<1>2. \A k \in 1 .. Len(cs) : k = 1 BY <1>1
<1>3. \A k \in 1 .. Len(cs) : Plain(cs[k]) BY <1>1, <1>2
<1> QED BY <1>1, <1>3, AllPlain DEF cs

LEMMA TwoTame ==
    ASSUME NEW a, NEW b, Plain(a), Plain(b)
    PROVE  /\ <<a, b>> \in Seq({a, b}) /\ Tame(<<a, b>>)
           /\ \A k \in 1 .. Len(<<a, b>>) : Plain(<<a, b>>[k])
<1> DEFINE cs == <<a, b>>
<1>1. cs \in Seq({a, b}) /\ Len(cs) = 2 /\ cs[1] = a /\ cs[2] = b BY TwoCalls
<1> HIDE DEF cs
<1>2. \A k \in 1 .. Len(cs) : k = 1 \/ k = 2 BY <1>1
<1>3. \A k \in 1 .. Len(cs) : Plain(cs[k]) BY <1>1, <1>2
<1> QED BY <1>1, <1>3, AllPlain DEF cs

LEMMA ThreeTame ==
    ASSUME NEW a, NEW b, NEW c, Plain(a), Plain(b), Plain(c)
    PROVE  <<a, b, c>> \in Seq({a, b, c}) /\ Tame(<<a, b, c>>)
<1> DEFINE cs == <<a, b, c>>
<1>1. cs \in Seq({a, b, c}) BY ThreeCalls
<1>2. Len(cs) = 3 BY ThreeCalls
<1>3. cs[1] = a /\ cs[2] = b /\ cs[3] = c OBVIOUS
<1> HIDE DEF cs
<1>4. \A k \in 1 .. Len(cs) : k = 1 \/ k = 2 \/ k = 3 BY <1>2
<1>5. \A k \in 1 .. Len(cs) : Plain(cs[k]) BY <1>3, <1>4
<1> QED BY <1>1, <1>5, AllPlain DEF cs

LEMMA RemovalTame ==
    ASSUME NEW s \in Socket
    PROVE  RemovalOf(s) \in Seq({Detach(s, TRUE), Forget(s)}) /\ Tame(RemovalOf(s))
<1> DEFINE a == Detach(s, TRUE)
           b == Forget(s)
           cs == <<a, b>>
<1>1. cs = RemovalOf(s) BY DEF RemovalOf
<1> HIDE DEF a, b
<1>2. cs \in Seq({a, b}) /\ Len(cs) = 2 /\ cs[1] = a /\ cs[2] = b BY TwoCalls
<1> HIDE DEF cs
<1>3. Len(cs) >= 2 /\ \A k \in 1 .. Len(cs) : k = 1 \/ k = 2 BY <1>2
<1>4. cs[1] = Detach(s, TRUE) /\ cs[2] = Forget(s) BY <1>2 DEF a, b
<1>5. Tame(cs) BY <1>2, <1>3, <1>4, RemovalFirst
<1> QED BY <1>1, <1>2, <1>5 DEF a, b

LEMMA RunSendDepth == Inv /\ DepthHolds /\ RunSend => DepthHolds'
<1> SUFFICES ASSUME Inv, DepthHolds, RunSend PROVE DepthHolds' OBVIOUS
<1> DEFINE h == Head(todo)
           s == Arg.socket
           cs == <<>>
<1>1. todo # <<>> /\ h.call = "send" /\ h.socket = s BY DEF RunSend, Calling, Arg
<1>2. FrameType(h) BY <1>1, HeadFacts
<1>3. s \in Socket BY <1>1, <1>2 DEF FrameType, OfSocket
<1>4. Sends(s, Arg.msg, cs) BY DEF RunSend
<1>5. cs \in Seq({}) /\ \A k \in 1 .. Len(cs) : Plain(cs[k]) BY NoneTame
<1>6. h.call \notin {"safeClose", "detachSocketFromRoom"} BY <1>1
<1> HIDE DEF cs, s
<1> QED BY <1>1, <1>3, <1>4, <1>5, <1>6, SendDepth

LEMMA RunForgetDepth == Inv /\ DepthHolds /\ RunForget => DepthHolds'
<1> SUFFICES ASSUME Inv, DepthHolds, RunForget PROVE DepthHolds' OBVIOUS
<1> DEFINE cs == <<>>
           m == [maps EXCEPT !.idle[Arg.socket] = Missing, !.known = @ \ {Arg.socket}]
<1>1. todo # <<>> /\ Head(todo).call = "forget" BY DEF RunForget, Calling
<1>2. Leaves(m, cs \o Tail(todo), NoUsage) BY DEF RunForget, Continue
<1>3. DOMAIN m = DOMAIN maps /\ m.session = maps.session BY MapsTyped DEF MapsType
<1>4. cs \in Seq({}) /\ Tame(cs) BY NoneTame
<1> HIDE DEF cs, m
<1>5. \A s : ~Is(Head(todo), "detachSocketFromRoom", s) BY <1>1 DEF Is
<1>6. Head(todo).call # "safeClose" BY <1>1
<1> QED BY <1>1, <1>2, <1>3, <1>4, <1>5, <1>6, DepthRun

LEMMA RunEndSessionDepth == Inv /\ DepthHolds /\ RunEndSession => DepthHolds'
<1> SUFFICES ASSUME Inv, DepthHolds, RunEndSession PROVE DepthHolds' OBVIOUS
<1> DEFINE cs == <<>>
           m == [maps EXCEPT !.session[Arg.socket] = NoRoom]
<1>1. todo # <<>> /\ Head(todo).call = "endSession" BY DEF RunEndSession, Calling
<1>2. Leaves(m, cs \o Tail(todo), NoUsage) BY DEF RunEndSession, Continue
<1>3. DOMAIN m = DOMAIN maps /\ m.session = [maps.session EXCEPT ![Arg.socket] = NoRoom]
  BY MapsTyped DEF MapsType
<1>4. cs \in Seq({}) /\ Tame(cs) BY NoneTame
<1> HIDE DEF cs, m
<1>5. \A s : ~Is(Head(todo), "detachSocketFromRoom", s) BY <1>1 DEF Is
<1>6. Head(todo).call # "safeClose" BY <1>1
<1>7. maps.session \in [Socket -> RoomId \cup {NoRoom}] BY MapsTyped DEF MapsType
<1>8. \A s \in Socket : m.session[s] \in {maps.session[s], NoRoom} BY <1>3, <1>7
<1> QED BY <1>1, <1>2, <1>3, <1>4, <1>5, <1>6, <1>8, DepthRun

LEMMA RunDestroyDepth == Inv /\ DepthHolds /\ RunDestroy => DepthHolds'
<1> SUFFICES ASSUME Inv, DepthHolds, RunDestroy PROVE DepthHolds' OBVIOUS
<1>1. todo # <<>> /\ Head(todo).call \notin {"safeClose", "detachSocketFromRoom"}
  BY DEF RunDestroy, Calling
<1>2. CASE Arg.room \notin maps.rooms
  <2> DEFINE cs == <<>>
  <2>1. Leaves(maps, cs \o Tail(todo), NoUsage) BY <1>2 DEF RunDestroy, Continue
  <2>2. cs \in Seq({}) /\ Tame(cs) BY NoneTame
  <2> HIDE DEF cs
  <2> QED BY <1>1, <2>1, <2>2, StillDepth
<1>3. CASE Arg.room \in maps.rooms
  <2> DEFINE a == DestroyNext(Arg.room, {})
             cs == <<a>>
  <2>1. Leaves(maps, cs \o Tail(todo), NoUsage) BY <1>3 DEF RunDestroy, Continue
  <2>2. Plain(a) BY DEF Plain, DestroyNext
  <2> HIDE DEF a
  <2>3. cs \in Seq({a}) /\ Tame(cs) BY <2>2, OneTame
  <2> HIDE DEF cs
  <2> QED BY <1>1, <2>1, <2>3, StillDepth
<1> QED BY <1>2, <1>3

LEMMA RunBroadcastDepth == Inv /\ DepthHolds /\ RunBroadcast => DepthHolds'
<1> SUFFICES ASSUME Inv, DepthHolds, RunBroadcast PROVE DepthHolds' OBVIOUS
<1>1. todo # <<>> /\ Head(todo).call \notin {"safeClose", "detachSocketFromRoom"}
  BY DEF RunBroadcast, Calling
<1>2. CASE Continue(maps, <<>>)
  <2> DEFINE cs == <<>>
  <2>1. Leaves(maps, cs \o Tail(todo), NoUsage) BY <1>2 DEF Continue
  <2>2. cs \in Seq({}) /\ Tame(cs) BY NoneTame
  <2> HIDE DEF cs
  <2> QED BY <1>1, <2>1, <2>2, StillDepth
<1>3. ASSUME NEW r, NEW msg, Continue(maps, <<TellNext(r, msg, {})>>) PROVE DepthHolds'
  <2> DEFINE a == TellNext(r, msg, {})
             cs == <<a>>
  <2>1. Leaves(maps, cs \o Tail(todo), NoUsage) BY <1>3 DEF Continue
  <2>2. Plain(a) BY DEF Plain, TellNext
  <2> HIDE DEF a
  <2>3. cs \in Seq({a}) /\ Tame(cs) BY <2>2, OneTame
  <2> HIDE DEF cs
  <2> QED BY <1>1, <2>1, <2>3, StillDepth
<1> QED BY <1>2, <1>3 DEF RunBroadcast

LEMMA RunRecordDepth == Inv /\ DepthHolds /\ RunRecord => DepthHolds'
<1> SUFFICES ASSUME Inv, DepthHolds, RunRecord PROVE DepthHolds' OBVIOUS
<1> DEFINE cs == <<>>
<1>1. todo # <<>> /\ Head(todo).call \notin {"safeClose", "detachSocketFromRoom"}
  BY DEF RunRecord, Calling
<1>2. Leaves(maps, cs \o Tail(todo), Arg.usage)
  <2>1. todo \in Seq({todo[i] : i \in DOMAIN todo}) BY DEF Inv, Types
  <2>2. Tail(todo) \in Seq({todo[i] : i \in DOMAIN todo}) BY <1>1, <2>1, HeadTailProperties
  <2>3. cs \o Tail(todo) = Tail(todo) BY <2>2, ConcatEmptySeq
  <2> QED BY <2>3 DEF RunRecord
<1>3. cs \in Seq({}) /\ Tame(cs) BY NoneTame
<1> HIDE DEF cs
<1> QED BY <1>1, <1>2, <1>3, StillDepth

LEMMA RunSweepRoomsDepth == Inv /\ DepthHolds /\ RunSweepRooms => DepthHolds'
<1> SUFFICES ASSUME Inv, DepthHolds, RunSweepRooms PROVE DepthHolds' OBVIOUS
<1>1. todo # <<>> /\ Head(todo).call \notin {"safeClose", "detachSocketFromRoom"}
  BY DEF RunSweepRooms, Calling
<1>2. CASE Continue(maps, <<>>)
  <2> DEFINE cs == <<>>
  <2>1. Leaves(maps, cs \o Tail(todo), NoUsage) BY <1>2 DEF Continue
  <2>2. cs \in Seq({}) /\ Tame(cs) BY NoneTame
  <2> HIDE DEF cs
  <2> QED BY <1>1, <2>1, <2>2, StillDepth
<1>3. ASSUME NEW r, Continue(maps, <<Destroy(r), SweepRooms>>) PROVE DepthHolds'
  <2> DEFINE a == Destroy(r)
             b == SweepRooms
             cs == <<a, b>>
  <2>1. Leaves(maps, cs \o Tail(todo), NoUsage) BY <1>3 DEF Continue
  <2>2. Plain(a) /\ Plain(b) BY DEF Plain, Destroy, SweepRooms
  <2> HIDE DEF a, b
  <2>3. cs \in Seq({a, b}) /\ Tame(cs) BY <2>2, TwoTame
  <2> HIDE DEF cs
  <2> QED BY <1>1, <2>1, <2>3, StillDepth
<1> QED BY <1>2, <1>3 DEF RunSweepRooms

LEMMA LoopSocket ==
    ASSUME Inv, todo # <<>>, Head(todo).call \in {"destroyNext", "tellNext"},
           Unvisited(Head(todo).room, Head(todo).did) # {}
    PROVE  NextOf(Head(todo).room, Head(todo).did) \in Socket
<1> DEFINE r == Head(todo).room
           s == NextOf(r, Head(todo).did)
<1>1. FrameType(Head(todo)) BY HeadFacts
<1>2. r \in RoomId BY <1>1 DEF FrameType, OfRoom
<1>3. s \in Mem(maps, r) BY <1>2, MapsTyped, NextMember
<1>4. maps.members[r] \in Seq(Socket) BY <1>2, MapsTyped DEF MapsType
<1> HIDE DEF r, s
<1>5. s \in Socket BY <1>3, <1>4, LenProperties, ElementOfSeq DEF Mem
<1> QED BY <1>5 DEF r, s

LEMMA RunTellNextDepth == Inv /\ DepthHolds /\ RunTellNext => DepthHolds'
<1> SUFFICES ASSUME Inv, DepthHolds, RunTellNext PROVE DepthHolds' OBVIOUS
<1> DEFINE r == Arg.room
           did == Arg.did
           s == NextOf(r, did)
           d == TellNext(r, Arg.msg, did \cup {s})
<1>1. /\ todo # <<>> /\ Head(todo).call = "tellNext"
      /\ Head(todo).call \notin {"safeClose", "detachSocketFromRoom"}
  BY DEF RunTellNext, Calling
<1>2. \/ Continue(maps, <<>>)
      \/ Unvisited(r, did) # {} /\ Sends(s, Arg.msg, <<d>>)
  BY DEF RunTellNext
<1>3. CASE Continue(maps, <<>>)
  <2> DEFINE cs == <<>>
  <2>1. Leaves(maps, cs \o Tail(todo), NoUsage) BY <1>3 DEF Continue
  <2>2. cs \in Seq({}) /\ Tame(cs) BY NoneTame
  <2> HIDE DEF cs
  <2> QED BY <1>1, <2>1, <2>2, StillDepth
<1>4. CASE Unvisited(r, did) # {} /\ Sends(s, Arg.msg, <<d>>)
  <2> DEFINE cs == <<d>>
  <2>1. s \in Socket BY <1>1, <1>4, LoopSocket DEF Arg
  <2>2. Plain(d) BY DEF Plain, TellNext
  <2>3. Sends(s, Arg.msg, cs) BY <1>4
  <2> HIDE DEF d, s
  <2>4. cs \in Seq({d}) /\ \A k \in 1 .. Len(cs) : Plain(cs[k]) BY <2>2, OneTame
  <2> HIDE DEF cs
  <2> QED BY <1>1, <2>1, <2>3, <2>4, SendDepth
<1> QED BY <1>2, <1>3, <1>4

LEMMA RunDestroyNextDepth == Inv /\ DepthHolds /\ RunDestroyNext => DepthHolds'
<1> SUFFICES ASSUME Inv, DepthHolds, RunDestroyNext PROVE DepthHolds' OBVIOUS
<1> DEFINE r == Arg.room
           did == Arg.did
           s == NextOf(r, did)
           e == EndSession(s)
           d == DestroyNext(r, did \cup {s})
<1>1. /\ todo # <<>> /\ Head(todo).call = "destroyNext"
      /\ Head(todo).call \notin {"safeClose", "detachSocketFromRoom"}
  BY DEF RunDestroyNext, Calling
<1>2. \/ Continue(DeleteRoom(maps, r), <<>>)
      \/ Unvisited(r, did) # {} /\ Sends(s, Destroyed(r), <<e, d>>)
  BY DEF RunDestroyNext
<1>3. CASE Continue(DeleteRoom(maps, r), <<>>)
  <2> DEFINE cs == <<>>
             m == DeleteRoom(maps, r)
  <2>1. Leaves(m, cs \o Tail(todo), NoUsage) BY <1>3 DEF Continue
  <2>2. cs \in Seq({}) /\ Tame(cs) BY NoneTame
  <2>3. DOMAIN m = DOMAIN maps /\ m.session = maps.session BY MapsTyped DEF MapsType, DeleteRoom
  <2> HIDE DEF cs, m
  <2>4. \A x : ~Is(Head(todo), "detachSocketFromRoom", x) BY <1>1 DEF Is
  <2>5. Head(todo).call # "safeClose" BY <1>1
  <2> QED BY <1>1, <2>1, <2>2, <2>3, <2>4, <2>5, DepthRun
<1>4. CASE Unvisited(r, did) # {} /\ Sends(s, Destroyed(r), <<e, d>>)
  <2> DEFINE cs == <<e, d>>
  <2>1. s \in Socket BY <1>1, <1>4, LoopSocket DEF Arg
  <2>2. Plain(e) /\ Plain(d) BY DEF Plain, EndSession, DestroyNext
  <2>3. Sends(s, Destroyed(r), cs) BY <1>4
  <2> HIDE DEF d, e, s
  <2>4. cs \in Seq({e, d}) /\ \A k \in 1 .. Len(cs) : Plain(cs[k]) BY <2>2, TwoTame
  <2> HIDE DEF cs
  <2> QED BY <1>1, <2>1, <2>3, <2>4, SendDepth
<1> QED BY <1>2, <1>3, <1>4

\* A departure of a socket without a room calls nothing.
LEMMA DetachDepth ==
    ASSUME Inv, DepthHolds, Calling("detachSocketFromRoom"), NEW s, s = Head(todo).socket,
           NEW m, DOMAIN m = DOMAIN maps, m.session = [maps.session EXCEPT ![s] = NoRoom],
           NEW S, NEW cs \in Seq(S), Tame(cs), maps.session[s] = NoRoom => cs = <<>>,
           Continue(m, cs)
    PROVE  DepthHolds'
<1>1. todo # <<>> /\ Head(todo).call = "detachSocketFromRoom" BY DEF Calling
<1>2. FrameType(Head(todo)) BY <1>1, HeadFacts
<1>3. s \in Socket BY <1>1, <1>2 DEF FrameType, OfSocket
<1>4. maps.session \in [Socket -> RoomId \cup {NoRoom}] BY MapsTyped DEF MapsType
<1>5. \A x \in Socket : /\ m.session[x] \in {maps.session[x], NoRoom}
                        /\ Is(Head(todo), "detachSocketFromRoom", x) =>
                              m.session[x] = NoRoom /\ (maps.session[x] = NoRoom => cs = <<>>)
  BY <1>3, <1>4 DEF Is
<1>6. Leaves(m, cs \o Tail(todo), NoUsage) BY DEF Continue
<1>7. Head(todo).call # "safeClose" BY <1>1
<1> QED BY <1>1, <1>5, <1>6, <1>7, DepthRun

LEMMA RunDetachDepth == Inv /\ DepthHolds /\ RunDetach => DepthHolds'
<1> SUFFICES ASSUME Inv, DepthHolds, RunDetach PROVE DepthHolds' OBVIOUS
<1>1. Calling("detachSocketFromRoom") BY SMTT(30) DEF RunDetach
<1> DEFINE s == Head(todo).socket
           r == maps.session[s]
           cut == [maps EXCEPT !.session[s] = NoRoom]
           out == [cut EXCEPT !.members[r] = RemoveFirst(@, s)]
           m == IF out.members[r] = <<>> THEN DeleteRoom(out, r) ELSE out
<1>2. \/ Continue(cut, <<>>)
      \/ r # NoRoom /\ Continue(cut, <<Destroy(r)>>)
      \/ r # NoRoom /\ Continue(m, <<Broadcast(r)>>)
      \/ r # NoRoom /\ Continue(m, <<>>)
  BY DEF RunDetach, Arg
<1>3. DOMAIN cut = DOMAIN maps /\ cut.session = [maps.session EXCEPT ![s] = NoRoom]
  BY MapsTyped DEF MapsType
<1>c. "session" \in DOMAIN cut BY <1>3, MapsTyped DEF MapsType
<1> HIDE DEF cut
<1>4. DOMAIN out = DOMAIN cut /\ out.session = cut.session BY <1>c
<1> HIDE DEF out
<1>5. DOMAIN DeleteRoom(out, r) = DOMAIN out /\ DeleteRoom(out, r).session = out.session
  BY <1>c, <1>4 DEF DeleteRoom
<1>6. DOMAIN m = DOMAIN maps /\ m.session = [maps.session EXCEPT ![s] = NoRoom]
  BY <1>3, <1>4, <1>5
<1> HIDE DEF m
<1>s. s = Head(todo).socket /\ r = maps.session[s] OBVIOUS
<1> HIDE DEF r, s
<1>7. CASE Continue(cut, <<>>)
  <2> DEFINE cs == <<>>
  <2>1. cs \in Seq({}) /\ Tame(cs) /\ Continue(cut, cs) /\ cs = <<>> BY <1>7, NoneTame
  <2> HIDE DEF cs
  <2> QED BY <1>1, <1>3, <1>s, <2>1, DetachDepth
<1>8. CASE r # NoRoom /\ Continue(cut, <<Destroy(r)>>)
  <2> DEFINE a == Destroy(r)
             cs == <<a>>
  <2>1. Continue(cut, cs) BY <1>8
  <2>2. Plain(a) BY DEF Plain, Destroy
  <2> HIDE DEF a
  <2>3. cs \in Seq({a}) /\ Tame(cs) BY <2>2, OneTame
  <2> HIDE DEF cs
  <2> QED BY <1>1, <1>3, <1>8, <1>s, <2>1, <2>3, DetachDepth
<1>9. CASE r # NoRoom /\ Continue(m, <<Broadcast(r)>>)
  <2> DEFINE a == Broadcast(r)
             cs == <<a>>
  <2>1. Continue(m, cs) BY <1>9
  <2>2. Plain(a) BY DEF Plain, Broadcast
  <2> HIDE DEF a
  <2>3. cs \in Seq({a}) /\ Tame(cs) BY <2>2, OneTame
  <2> HIDE DEF cs
  <2> QED BY <1>1, <1>6, <1>9, <1>s, <2>1, <2>3, DetachDepth
<1>10. CASE r # NoRoom /\ Continue(m, <<>>)
  <2> DEFINE cs == <<>>
  <2>1. cs \in Seq({}) /\ Tame(cs) /\ Continue(m, cs) BY <1>10, NoneTame
  <2> HIDE DEF cs
  <2> QED BY <1>1, <1>6, <1>10, <1>s, <2>1, DetachDepth
<1> QED BY <1>2, <1>7, <1>8, <1>9, <1>10

\* safeClose is made, and the removal that follows it is on top.
LEMMA CloseDepth ==
    ASSUME NEW A, NEW q \in Seq(A), q # <<>>, NEW session, Depth(q, session),
           q[1].call = "safeClose"
    PROVE  Depth(Tail(q), session)
<1> DEFINE p == Tail(q)
           s == q[1].socket
<1>1. DOMAIN q = 1 .. Len(q) /\ Len(q) \in Nat /\ Len(q) # 0 BY LenProperties, EmptySeq
<1>2. /\ p \in Seq(A) /\ Len(p) = Len(q) - 1
      /\ \A i \in 1 .. Len(p) : p[i] = q[i + 1]
  BY HeadTailProperties
<1>3. DOMAIN p = 1 .. Len(p) BY <1>2, LenProperties
<1>4. \/ Len(q) = 2 /\ q[2].call = "disposeNext"
      \/ Len(q) = 4 /\ Detaches(q, 2, s) /\ Forgets(q, 3, s) /\ q[4].call = "sweepSockets"
  <2>1. 1 \in DOMAIN q BY <1>1
  <2>2. \/ 1 = Len(q) - 1 /\ q[Len(q)].call = "disposeNext"
        \/ /\ 1 = Len(q) - 3 /\ Detaches(q, 1 + 1, s) /\ Forgets(q, 1 + 2, s)
           /\ q[Len(q)].call = "sweepSockets"
    BY <2>1 DEF Depth, CloseInPlace
  <2>3. (1 = Len(q) - 1 => Len(q) = 2) /\ (1 = Len(q) - 3 => Len(q) = 4) BY <1>1
  <2> QED BY <2>2, <2>3
<1> HIDE DEF p, s
<1>5. CASE Len(q) = 2 /\ q[2].call = "disposeNext"
  <2>1. Len(p) = 1 /\ p[1].call = "disposeNext" BY <1>2, <1>5
  <2>2. \A k \in DOMAIN p : k = 1 BY <1>3, <2>1
  <2>3. \A k, x : ~Detaches(p, k, x) /\ ~Forgets(p, k, x)
    BY <2>1, <2>2 DEF Detaches, Forgets, Is
  <2>4. BottomLast(p) /\ CloseInPlace(p) BY <2>1, <2>2 DEF BottomLast, CloseInPlace
  <2> QED BY <2>3, <2>4 DEF Depth, DetachFirst, ForgetLast, Innermost, p
<1>6. CASE Len(q) = 4 /\ Detaches(q, 2, s) /\ Forgets(q, 3, s) /\ q[4].call = "sweepSockets"
  <2>1. Len(p) = 3 BY <1>2, <1>6
  <2>2. p[1] = q[2] /\ p[2] = q[3] /\ p[3] = q[4] BY <1>2, <2>1
  <2>3. /\ Is(p[1], "detachSocketFromRoom", s) /\ p[1].notify
        /\ Is(p[2], "forget", s) /\ p[3].call = "sweepSockets"
    BY <1>6, <2>2 DEF Detaches, Forgets
  <2>4. \A k \in DOMAIN p : k = 1 \/ k = 2 \/ k = 3 BY <1>3, <2>1
  <2>5. /\ \A k, x : Detaches(p, k, x) => k = 1
        /\ \A k, x : Forgets(p, k, x) => k = 2 /\ x = s
    BY <2>3, <2>4 DEF Detaches, Forgets, Is
  <2>6. 1 \in DOMAIN p BY <1>3, <2>1
  <2>7. Detaches(p, 1, s) BY <2>3, <2>6 DEF Detaches
  <2>8. BottomLast(p) /\ CloseInPlace(p)
    BY <2>1, <2>3, <2>4 DEF BottomLast, CloseInPlace, Is
  <2>9. DetachFirst(p) BY <2>5 DEF DetachFirst
  <2>10. ForgetLast(p, session)
    <3>1. 2 > 1 /\ 2 - 1 = 1 OBVIOUS
    <3> QED BY <2>5, <2>7, <3>1 DEF ForgetLast
  <2>11. Innermost(p) BY <2>5 DEF Innermost
  <2> QED BY <2>8, <2>9, <2>10, <2>11 DEF Depth, p
<1> QED BY <1>4, <1>5, <1>6

LEMMA RunCloseDepth == Inv /\ DepthHolds /\ RunClose => DepthHolds'
<1> SUFFICES ASSUME Inv, DepthHolds, RunClose PROVE DepthHolds' OBVIOUS
<1> DEFINE A == {todo[i] : i \in DOMAIN todo}
<1>1. todo # <<>> /\ Head(todo).call = "safeClose" BY DEF RunClose, Calling
<1>2. todo \in Seq(A) BY DEF Inv, Types
<1> HIDE DEF A
<1>3. Head(todo) = todo[1] BY <1>2
<1>4. <<>> \o Tail(todo) = Tail(todo)
  <2>1. Tail(todo) \in Seq(A) BY <1>1, <1>2, HeadTailProperties
  <2> QED BY <2>1, ConcatEmptySeq
<1>5. Leaves(maps, Tail(todo), NoUsage) BY <1>4 DEF RunClose, Continue
<1>6. todo' = Tail(todo) /\ maps'.session = maps.session BY <1>5, MapsTyped, LeavesSession
<1>7. Depth(Tail(todo), maps.session) BY <1>1, <1>2, <1>3, CloseDepth DEF DepthHolds
<1> QED BY <1>6, <1>7 DEF DepthHolds

\* The calls with which the loop of the sweep ends the session of a silent socket.
Evicts(cs, s) ==
    /\ Len(cs) = 5 /\ DOMAIN cs = 1 .. 5
    /\ cs[1].call = "send"
    /\ cs[2].call = "safeClose" /\ cs[2].socket = s
    /\ cs[3].call = "detachSocketFromRoom" /\ cs[3].socket = s /\ cs[3].notify
    /\ cs[4].call = "forget" /\ cs[4].socket = s
    /\ cs[5].call = "sweepSockets"

LEMMA SweepDepth ==
    ASSUME NEW s \in Socket, NEW session, NEW cs, Evicts(cs, s)
    PROVE  Depth(cs, session)
<1>1. Len(cs) = 5 /\ DOMAIN cs = 1 .. 5 BY DEF Evicts
<1>2. \A k \in DOMAIN cs : k = 1 \/ k = 2 \/ k = 3 \/ k = 4 \/ k = 5 BY <1>1
<1>3. /\ cs[1].call = "send" /\ cs[2].call = "safeClose" /\ cs[2].socket = s
      /\ cs[3].call = "detachSocketFromRoom" /\ cs[3].socket = s /\ cs[3].notify
      /\ cs[4].call = "forget" /\ cs[4].socket = s /\ cs[5].call = "sweepSockets"
  BY DEF Evicts
<1>5. 3 \in DOMAIN cs /\ 4 \in DOMAIN cs BY <1>1
<1>6. Detaches(cs, 3, s) /\ Forgets(cs, 4, s) BY <1>3, <1>5 DEF Detaches, Forgets, Is
<1>7. /\ \A k, x : Detaches(cs, k, x) => k = 3
      /\ \A k, x : Forgets(cs, k, x) => k = 4 /\ x = s
  BY <1>2, <1>3 DEF Detaches, Forgets, Is
<1>8. Swept(cs, 4)
  <2>1. 2 \in 1 .. 4 /\ 4 = Len(cs) - 1 BY <1>1
  <2> QED BY <1>1, <1>3, <2>1 DEF Swept
<1>9. BottomLast(cs) BY <1>1, <1>2, <1>3 DEF BottomLast
<1>10. CloseInPlace(cs)
  <2>1. \A k \in DOMAIN cs : cs[k].call = "safeClose" => k = 2 BY <1>2, <1>3
  <2>2. 2 = Len(cs) - 3 /\ 2 + 1 = 3 /\ 2 + 2 = 4 BY <1>1
  <2>3. /\ Detaches(cs, 2 + 1, cs[2].socket) /\ Forgets(cs, 2 + 2, cs[2].socket)
        /\ cs[Len(cs)].call = "sweepSockets"
    BY <1>1, <1>3, <1>6, <2>2
  <2> QED BY <2>1, <2>2, <2>3 DEF CloseInPlace
<1>11. DetachFirst(cs)
  <2>1. 3 + 1 = 4 OBVIOUS
  <2> QED BY <1>7, <1>8, <2>1 DEF DetachFirst
<1>12. ForgetLast(cs, session)
  <2>1. 4 > 1 /\ 4 - 1 = 3 OBVIOUS
  <2> QED BY <1>6, <1>7, <2>1 DEF ForgetLast
<1>13. Innermost(cs)
  <2>1. \A i, j, x : Forgets(cs, i, x) /\ Forgets(cs, j, x) => i = j BY <1>7
  <2>2. \A i, j \in DOMAIN cs : i < j => i # j BY <1>1
  <2> QED BY <2>1, <2>2 DEF Innermost
<1> QED BY <1>9, <1>10, <1>11, <1>12, <1>13 DEF Depth

\* A loop that is the outermost call has nothing below it.
LEMMA LoopAlone ==
    ASSUME Inv, DepthHolds, todo # <<>>, Head(todo).call \in {"sweepSockets", "disposeNext"},
           NEW S, NEW cs \in Seq(S), Continue(maps, cs)
    PROVE  todo' = cs /\ maps'.session = maps.session
<1> DEFINE A == {todo[i] : i \in DOMAIN todo}
<1>1. todo \in Seq(A) BY DEF Inv, Types
<1> HIDE DEF A
<1>2. Head(todo) = todo[1] BY <1>1
<1>3. DOMAIN todo = 1 .. Len(todo) /\ Len(todo) \in Nat /\ Len(todo) # 0
  BY <1>1, LenProperties, EmptySeq
<1>4. 1 \in DOMAIN todo BY <1>3
<1>5. Len(todo) = 1 BY <1>2, <1>4 DEF DepthHolds, Depth, BottomLast
<1>6. Tail(todo) = <<>>
  <2>1. Tail(todo) \in Seq(A) /\ Len(Tail(todo)) = 0 BY <1>1, <1>5, HeadTailProperties
  <2> QED BY <2>1, EmptySeq
<1>7. cs \o Tail(todo) = cs BY <1>6, ConcatEmptySeq
<1>8. Leaves(maps, cs, NoUsage) BY <1>7 DEF Continue
<1> QED BY <1>8, MapsTyped, LeavesSession

LEMMA RunSweepSocketsDepth == Inv /\ DepthHolds /\ RunSweepSockets => DepthHolds'
<1> SUFFICES ASSUME Inv, DepthHolds, RunSweepSockets PROVE DepthHolds' OBVIOUS
<1>1. todo # <<>> /\ Head(todo).call = "sweepSockets" BY DEF RunSweepSockets, Calling
<1>2. CASE Continue(maps, <<SweepRooms>>)
  <2> DEFINE a == SweepRooms
             cs == <<a>>
  <2>1. Continue(maps, cs) BY <1>2
  <2>2. Plain(a) BY DEF Plain, SweepRooms
  <2> HIDE DEF a
  <2>3. cs \in Seq({a}) /\ Tame(cs) BY <2>2, OneTame
  <2> HIDE DEF cs
  <2>4. todo' = cs /\ maps'.session = maps.session BY <1>1, <2>1, <2>3, LoopAlone
  <2> QED BY <2>3, <2>4, FreshDepth DEF DepthHolds
<1>3. ASSUME NEW s \in Socket,
             Continue(maps, <<SendTo(s, ConnectionEnds), Close(s)>> \o RemovalOf(s) \o <<SweepSockets>>)
      PROVE  DepthHolds'
  <2> DEFINE a == SendTo(s, ConnectionEnds)
             b == Close(s)
             c == Detach(s, TRUE)
             d == Forget(s)
             e == SweepSockets
             cs == <<a, b, c, d, e>>
  <2>1. Continue(maps, cs) BY <1>3, Removals
  <2>2. Depth(cs, maps.session)
    <3>1. /\ a.call = "send" /\ b.call = "safeClose" /\ b.socket = s
          /\ c.call = "detachSocketFromRoom" /\ c.socket = s /\ c.notify
          /\ d.call = "forget" /\ d.socket = s /\ e.call = "sweepSockets"
      BY DEF SendTo, Close, Detach, Forget, SweepSockets
    <3> HIDE DEF a, b, c, d, e
    <3>2. Len(cs) = 5 /\ DOMAIN cs = 1 .. 5 OBVIOUS
    <3>3. cs[1] = a /\ cs[2] = b /\ cs[3] = c /\ cs[4] = d /\ cs[5] = e OBVIOUS
    <3> HIDE DEF cs
    <3>4. Evicts(cs, s) BY <3>1, <3>2, <3>3 DEF Evicts
    <3> QED BY <3>4, SweepDepth
  <2> HIDE DEF a, b, c, d, e
  <2>3. cs \in Seq({a, b, c, d, e}) BY FiveCalls
  <2> HIDE DEF cs
  <2>4. todo' = cs /\ maps'.session = maps.session BY <1>1, <2>1, <2>3, LoopAlone
  <2> QED BY <2>2, <2>4 DEF DepthHolds
<1> QED BY <1>2, <1>3 DEF RunSweepSockets, TimedOut

\* The stack of dispose's loop when it comes to a socket.
LEMMA DisposeDepth ==
    ASSUME NEW cs, NEW session, Len(cs) = 3, DOMAIN cs = 1 .. 3,
           cs[1].call = "send", cs[2].call = "safeClose", cs[3].call = "disposeNext"
    PROVE  Depth(cs, session)
<1>1. \A k \in DOMAIN cs : k = 1 \/ k = 2 \/ k = 3 OBVIOUS
<1>2. \A k, x : ~Detaches(cs, k, x) /\ ~Forgets(cs, k, x) BY <1>1 DEF Detaches, Forgets, Is
<1>3. BottomLast(cs) BY <1>1 DEF BottomLast
<1>4. CloseInPlace(cs)
  <2>1. 2 = Len(cs) - 1 OBVIOUS
  <2> QED BY <1>1, <2>1 DEF CloseInPlace
<1>5. DetachFirst(cs) /\ ForgetLast(cs, session) /\ Innermost(cs)
  BY <1>2 DEF DetachFirst, ForgetLast, Innermost
<1> QED BY <1>3, <1>4, <1>5 DEF Depth

\* A stack of one call that is no removal.
LEMMA OneCallDepth ==
    ASSUME NEW cs, NEW session, Len(cs) = 1, DOMAIN cs = 1 .. 1,
           cs[1].call \notin {"safeClose", "forget"}
    PROVE  Depth(cs, session)
<1>1. \A k \in DOMAIN cs : k = 1 OBVIOUS
<1>2. \A k, x : ~Forgets(cs, k, x) BY <1>1 DEF Forgets, Is
<1>3. \A k, x : Detaches(cs, k, x) => k = 1 BY <1>1 DEF Detaches
<1>4. BottomLast(cs) /\ CloseInPlace(cs) BY <1>1 DEF BottomLast, CloseInPlace
<1>5. DetachFirst(cs) /\ ForgetLast(cs, session) /\ Innermost(cs)
  BY <1>2, <1>3 DEF DetachFirst, ForgetLast, Innermost
<1> QED BY <1>4, <1>5 DEF Depth

LEMMA RunDisposeDepth == Inv /\ DepthHolds /\ RunDispose => DepthHolds'
<1> SUFFICES ASSUME Inv, DepthHolds, RunDispose PROVE DepthHolds' OBVIOUS
<1>1. todo # <<>> /\ Head(todo).call = "disposeNext" /\ Arg = Head(todo)
  BY DEF RunDispose, Calling, Arg
<1>2. ASSUME Continue([EmptyHub EXCEPT !.members = [r \in RoomId |-> <<>>]], <<>>)
      PROVE  DepthHolds'
  <2> DEFINE none == [r \in RoomId |-> <<>>]
             m == [EmptyHub EXCEPT !.members = none]
             cs == <<>>
  <2>1. m = [EmptyHub EXCEPT !.members = none] OBVIOUS
  <2>2. <<>> \in Seq(Socket) BY EmptySeq
  <2>3. none \in [RoomId -> Seq(Socket)] BY <2>2
  <2>4. m \in MapsType /\ m.session = [s \in Socket |-> NoRoom]
    <3> HIDE DEF m, none
    <3> QED BY <2>1, <2>3, Emptied
  <2>5. Leaves(m, cs \o Tail(todo), NoUsage) BY <1>2 DEF Continue
  <2>6. cs \in Seq({}) /\ Tame(cs) BY NoneTame
  <2> HIDE DEF m, none, cs
  <2>7. DOMAIN m = DOMAIN maps BY <2>4, MapsTyped DEF MapsType
  <2> QED BY <1>1, <2>4, <2>5, <2>6, <2>7, DepthRun DEF Is
<1>3. ASSUME NEW s, NEW S, Continue(maps, <<SendTo(s, ConnectionEnds), Close(s), DisposeNext(S)>>)
      PROVE  DepthHolds'
  <2> DEFINE a == SendTo(s, ConnectionEnds)
             b == Close(s)
             c == DisposeNext(S)
             cs == <<a, b, c>>
  <2>1. Continue(maps, cs) BY <1>3
  <2>2. a.call = "send" /\ b.call = "safeClose" /\ c.call = "disposeNext"
    BY DEF SendTo, Close, DisposeNext
  <2> HIDE DEF a, b, c
  <2>3. cs \in Seq({a, b, c}) BY ThreeCalls
  <2>4. Len(cs) = 3 /\ DOMAIN cs = 1 .. 3 OBVIOUS
  <2>5. cs[1] = a /\ cs[2] = b /\ cs[3] = c OBVIOUS
  <2> HIDE DEF cs
  <2>6. todo' = cs /\ maps'.session = maps.session BY <1>1, <2>1, <2>3, LoopAlone
  <2>7. Depth(cs, maps.session) BY <2>2, <2>4, <2>5, DisposeDepth
  <2> QED BY <2>6, <2>7 DEF DepthHolds
<1> QED BY <1>1, <1>2, <1>3 DEF RunDispose

\* An entry into a room is the last call of its handler.
LEMMA EntryDepth ==
    ASSUME Inv, todo # <<>>, Head(todo).call \in {"generateRoomId", "enterRoom"},
           NEW S, NEW cs \in Seq(S), Tame(cs), NEW m, Continue(m, cs)
    PROVE  DepthHolds'
<1> DEFINE A == {todo[i] : i \in DOMAIN todo}
<1>1. todo \in Seq(A) BY DEF Inv, Types
<1> HIDE DEF A
<1>2. Head(todo) = todo[1] BY <1>1
<1>3. DOMAIN todo = 1 .. Len(todo) /\ Len(todo) \in Nat /\ Len(todo) # 0
  BY <1>1, LenProperties, EmptySeq
<1>4. 1 \in DOMAIN todo BY <1>3
<1>5. World.todo = todo BY DEF World, WorldOf
<1>6. Len(todo) = 1
  <2> DEFINE w == World
  <2>1. EntryLast(w) /\ w.todo = todo BY <1>5 DEF Inv, Holds
  <2> HIDE DEF w
  <2> QED BY <1>2, <1>4, <2>1 DEF EntryLast
<1>7. Tail(todo) = <<>>
  <2>1. Tail(todo) \in Seq(A) /\ Len(Tail(todo)) = 0 BY <1>1, <1>6, HeadTailProperties
  <2> QED BY <2>1, EmptySeq
<1>8. cs \o Tail(todo) = cs BY <1>7, ConcatEmptySeq
<1>9. todo' = cs BY <1>8 DEF Continue, Leaves
<1>10. Depth(cs, maps'.session) BY FreshDepth
<1> QED BY <1>9, <1>10 DEF DepthHolds

LEMMA PlainCalls ==
    ASSUME NEW s, NEW r, NEW m, NEW e, NEW d
    PROVE  /\ Plain(SendTo(s, m)) /\ Plain(Broadcast(r)) /\ Plain(Record(e, s, r))
           /\ Plain(Destroy(r)) /\ Plain(TellNext(r, m, d)) /\ Plain(Detach(s, FALSE))
           /\ Plain(Generate(s)) /\ Plain(Enter(s, r))
BY DEF Plain, SendTo, Broadcast, Record, Destroy, TellNext, Detach, Generate, Enter

LEMMA RunGenerateDepth == Inv /\ DepthHolds /\ RunGenerate => DepthHolds'
<1> SUFFICES ASSUME Inv, DepthHolds, RunGenerate PROVE DepthHolds' OBVIOUS
<1>1. todo # <<>> /\ Head(todo).call \in {"generateRoomId", "enterRoom"}
  BY DEF RunGenerate, Calling
<1> DEFINE s == Arg.socket
           n == Heard(maps, s)
           o(r) == [OpenRoom(n, s, r) EXCEPT !.members[r] = <<s>>]
<1>2. \/ \E r \in RoomId : Continue(o(r), <<SendTo(s, Entered(r)), Broadcast(r),
                                            Record("room_created", s, r)>>)
      \/ Continue(n, <<SendTo(s, ServerError)>>)
      \/ Continue(n, <<>>)
  BY DEF RunGenerate
<1> HIDE DEF s, n, o
<1>3. ASSUME NEW r \in RoomId,
             Continue(o(r), <<SendTo(s, Entered(r)), Broadcast(r), Record("room_created", s, r)>>)
      PROVE  DepthHolds'
  <2> DEFINE a == SendTo(s, Entered(r))
             b == Broadcast(r)
             c == Record("room_created", s, r)
             cs == <<a, b, c>>
             m == o(r)
  <2>1. Continue(m, cs) BY <1>3
  <2>2. Plain(a) /\ Plain(b) /\ Plain(c) BY PlainCalls
  <2> HIDE DEF a, b, c, m
  <2>3. cs \in Seq({a, b, c}) /\ Tame(cs) BY <2>2, ThreeTame
  <2> HIDE DEF cs
  <2> QED BY <1>1, <2>1, <2>3, EntryDepth
<1>4. CASE Continue(n, <<SendTo(s, ServerError)>>)
  <2> DEFINE a == SendTo(s, ServerError)
             cs == <<a>>
  <2>1. Continue(n, cs) BY <1>4
  <2>2. Plain(a) BY PlainCalls
  <2> HIDE DEF a
  <2>3. cs \in Seq({a}) /\ Tame(cs) BY <2>2, OneTame
  <2> HIDE DEF cs
  <2> QED BY <1>1, <2>1, <2>3, EntryDepth
<1>5. CASE Continue(n, <<>>)
  <2> DEFINE cs == <<>>
  <2>1. cs \in Seq({}) /\ Tame(cs) /\ Continue(n, cs) BY <1>5, NoneTame
  <2> HIDE DEF cs
  <2> QED BY <1>1, <2>1, EntryDepth
<1> QED BY <1>2, <1>3, <1>4, <1>5

LEMMA RunEnterDepth == Inv /\ DepthHolds /\ RunEnter => DepthHolds'
<1> SUFFICES ASSUME Inv, DepthHolds, RunEnter PROVE DepthHolds' OBVIOUS
<1>1. todo # <<>> /\ Head(todo).call \in {"generateRoomId", "enterRoom"}
  BY DEF RunEnter, Calling
<1> DEFINE s == Arg.socket
           r == Arg.room
           m == [Heard(maps, s) EXCEPT !.session[s] = r, !.members[r] = Append(@, s)]
           a == SendTo(s, Entered(r))
           b == Broadcast(r)
           c == Record("room_joined", s, r)
           cs == <<a, b, c>>
<1>2. Continue(m, cs) BY DEF RunEnter
<1>3. Plain(a) /\ Plain(b) /\ Plain(c) BY PlainCalls
<1> HIDE DEF a, b, c, m, s, r
<1>4. cs \in Seq({a, b, c}) /\ Tame(cs) BY <1>3, ThreeTame
<1> HIDE DEF cs
<1> QED BY <1>1, <1>2, <1>4, EntryDepth

LEMMA RunDepth == Inv /\ DepthHolds /\ Run => DepthHolds'
<1> SUFFICES ASSUME Inv, DepthHolds, Run PROVE DepthHolds' OBVIOUS
<1>1. CASE RunSend BY <1>1, RunSendDepth
<1>2. CASE RunForget BY <1>2, RunForgetDepth
<1>3. CASE RunEndSession BY <1>3, RunEndSessionDepth
<1>4. CASE RunDetach BY <1>4, RunDetachDepth
<1>5. CASE RunDestroy BY <1>5, RunDestroyDepth
<1>6. CASE RunDestroyNext BY <1>6, RunDestroyNextDepth
<1>7. CASE RunBroadcast BY <1>7, RunBroadcastDepth
<1>8. CASE RunTellNext BY <1>8, RunTellNextDepth
<1>9. CASE RunGenerate BY <1>9, RunGenerateDepth
<1>10. CASE RunEnter BY <1>10, RunEnterDepth
<1>11. CASE RunRecord BY <1>11, RunRecordDepth
<1>12. CASE RunClose BY <1>12, RunCloseDepth
<1>13. CASE RunSweepSockets BY <1>13, RunSweepSocketsDepth
<1>14. CASE RunSweepRooms BY <1>14, RunSweepRoomsDepth
<1>15. CASE RunDispose BY <1>15, RunDisposeDepth
<1> QED BY <1>1, <1>2, <1>3, <1>4, <1>5, <1>6, <1>7, <1>8, <1>9, <1>10, <1>11, <1>12, <1>13,
           <1>14, <1>15 DEF Run

\* What a handler starts with.
LEMMA BeginDepth ==
    ASSUME NEW S, NEW cs \in Seq(S), Tame(cs), NEW m, Begin(m, cs)
    PROVE  DepthHolds'
<1>1. todo' = cs BY DEF Begin, Leaves
<1>2. Depth(cs, maps'.session) BY FreshDepth
<1> QED BY <1>1, <1>2 DEF DepthHolds

LEMMA BeginNone == ASSUME NEW m, Begin(m, <<>>) PROVE DepthHolds'
<1> DEFINE cs == <<>>
<1>1. cs \in Seq({}) /\ Tame(cs) /\ Begin(m, cs) BY NoneTame
<1> HIDE DEF cs
<1> QED BY <1>1, BeginDepth

LEMMA BeginOne == ASSUME NEW a, Plain(a), NEW m, Begin(m, <<a>>) PROVE DepthHolds'
<1> DEFINE cs == <<a>>
<1>1. cs \in Seq({a}) /\ Tame(cs) /\ Begin(m, cs) BY OneTame
<1> HIDE DEF cs
<1> QED BY <1>1, BeginDepth

LEMMA BeginTwo ==
    ASSUME NEW a, NEW b, Plain(a), Plain(b), NEW m, Begin(m, <<a, b>>)
    PROVE  DepthHolds'
<1> DEFINE cs == <<a, b>>
<1>1. cs \in Seq({a, b}) /\ Tame(cs) /\ Begin(m, cs) BY TwoTame
<1> HIDE DEF cs
<1> QED BY <1>1, BeginDepth

LEMMA BeginThree ==
    ASSUME NEW a, NEW b, NEW c, Plain(a), Plain(b), Plain(c), NEW m, Begin(m, <<a, b, c>>)
    PROVE  DepthHolds'
<1> DEFINE cs == <<a, b, c>>
<1>1. cs \in Seq({a, b, c}) /\ Tame(cs) /\ Begin(m, cs) BY ThreeTame
<1> HIDE DEF cs
<1> QED BY <1>1, BeginDepth

LEMMA BeginAlone ==
    ASSUME NEW a, a.call \notin {"safeClose", "forget"}, NEW m, Begin(m, <<a>>)
    PROVE  DepthHolds'
<1> DEFINE cs == <<a>>
<1>1. todo' = cs BY DEF Begin, Leaves
<1>2. Len(cs) = 1 /\ DOMAIN cs = 1 .. 1 /\ cs[1] = a OBVIOUS
<1> HIDE DEF cs
<1>3. Depth(cs, maps'.session) BY <1>2, OneCallDepth
<1> QED BY <1>1, <1>3 DEF DepthHolds

LEMMA BeginRemoval == ASSUME NEW s \in Socket, NEW m, Begin(m, RemovalOf(s)) PROVE DepthHolds'
<1> DEFINE cs == RemovalOf(s)
<1>1. cs \in Seq({Detach(s, TRUE), Forget(s)}) /\ Tame(cs) /\ Begin(m, cs) BY RemovalTame
<1> HIDE DEF cs
<1> QED BY <1>1, BeginDepth

LEMMA StartDepth == Start => DepthHolds'
<1> SUFFICES ASSUME Start PROVE DepthHolds' OBVIOUS
<1>1. ASSUME NEW s \in Socket,
             \/ AttachSocket(s) \/ CloseEvent(s) \/ ErrorEvent(s) \/ Degrade(s)
             \/ InvalidMessage(s) \/ Answered(s) \/ LeaveRoom(s) \/ CreateRoom(s)
      PROVE  DepthHolds'
  <2>1. CASE AttachSocket(s) BY <2>1, BeginNone DEF AttachSocket
  <2>2. CASE CloseEvent(s) BY <2>2, BeginRemoval DEF CloseEvent
  <2>3. CASE ErrorEvent(s) BY <2>3, BeginRemoval DEF ErrorEvent
  <2>4. CASE Degrade(s) BY <2>4, BeginNone DEF Degrade
  <2>5. CASE InvalidMessage(s) BY <2>5, BeginOne, PlainCalls DEF InvalidMessage, Handles
  <2>6. CASE Answered(s) BY <2>6, BeginOne, PlainCalls DEF Answered, Handles
  <2>7. CASE LeaveRoom(s)
    <3>1. Detach(s, TRUE).call = "detachSocketFromRoom" BY DEF Detach
    <3> QED BY <2>7, <3>1, BeginAlone DEF LeaveRoom
  <2>8. CASE CreateRoom(s) BY <2>8, BeginTwo, PlainCalls DEF CreateRoom, Handles
  <2> QED BY <1>1, <2>1, <2>2, <2>3, <2>4, <2>5, <2>6, <2>7, <2>8
<1>2. ASSUME NEW s \in Socket, NEW r \in RoomId,
             RoomExpired(s, r) \/ JoinRoom(s, r) \/ ForwardContent(s, r)
      PROVE  DepthHolds'
  <2>1. CASE RoomExpired(s, r) BY <2>1, BeginTwo, PlainCalls DEF RoomExpired, Handles
  <2>2. CASE JoinRoom(s, r) BY <2>2, BeginTwo, PlainCalls DEF JoinRoom, Handles
  <2>3. CASE ForwardContent(s, r)
    BY <2>3, BeginThree, PlainCalls DEF ForwardContent, Handles
  <2> QED BY <1>2, <2>1, <2>2, <2>3
<1>3. CASE Sweep
  <2>1. SweepSockets.call = "sweepSockets" BY DEF SweepSockets
  <2> QED BY <1>3, <2>1, BeginAlone DEF Sweep
<1>4. CASE Dispose
  <2>1. DisposeNext(Tracked(maps)).call = "disposeNext" BY DEF DisposeNext
  <2> QED BY <1>4, <2>1, BeginAlone DEF Dispose
<1>5. CASE Tick BY <1>5, BeginNone DEF Tick
<1> QED BY <1>1, <1>2, <1>3, <1>4, <1>5 DEF Start

LEMMA InitDepth == Init => DepthHolds
<1> SUFFICES ASSUME Init PROVE DepthHolds OBVIOUS
<1> DEFINE cs == <<>>
<1>1. todo = cs BY DEF Init
<1>2. cs \in Seq({}) /\ Tame(cs) BY NoneTame
<1> HIDE DEF cs
<1> QED BY <1>1, <1>2, FreshDepth DEF DepthHolds

\* Of the removals of one socket that wait on the stack all but the two innermost
\* are ones a sweep has still to come to.
THEOREM DepthInvariant == Spec => []DepthHolds
<1>1. DepthHolds /\ UNCHANGED vars => DepthHolds'
  <2> SUFFICES ASSUME DepthHolds, UNCHANGED vars PROVE DepthHolds' OBVIOUS
  <2>1. todo' = todo /\ maps' = maps BY DEF vars
  <2> QED BY <2>1 DEF DepthHolds
<1>2. Inv /\ DepthHolds /\ [Next]_vars => DepthHolds' BY <1>1, RunDepth, StartDepth DEF Next
<1> QED BY <1>2, InitDepth, CallsInvariant, PTL DEF Spec

LEMMA OneMore ==
    ASSUME NEW D, NEW c, NEW n \in Nat, IsFiniteSet(D), Cardinality(D) <= n
    PROVE  IsFiniteSet(D \cup {c}) /\ Cardinality(D \cup {c}) <= n + 1
<1> DEFINE E == D \cup {c}
<1>1. /\ IsFiniteSet(E)
      /\ Cardinality(E) = IF c \in D THEN Cardinality(D) ELSE Cardinality(D) + 1
  BY FS_AddElement
<1>2. Cardinality(D) \in Nat BY FS_CardinalityType
<1> HIDE DEF E
<1>3. Cardinality(E) <= n + 1 BY <1>1, <1>2
<1> QED BY <1>1, <1>3 DEF E

LEMMA Smaller ==
    ASSUME NEW D, NEW n \in Nat, IsFiniteSet(D), Cardinality(D) <= n, NEW T, T \subseteq D
    PROVE  IsFiniteSet(T) /\ Cardinality(T) <= n /\ Cardinality(T) \in Nat
<1>1. IsFiniteSet(T) /\ Cardinality(T) <= Cardinality(D) BY FS_Subset
<1>2. Cardinality(T) \in Nat /\ Cardinality(D) \in Nat BY <1>1, FS_CardinalityType
<1> QED BY <1>1, <1>2

LEMMA AtMostTwo ==
    ASSUME NEW a, NEW b, NEW T, T \subseteq {a, b}
    PROVE  Cardinality(T) <= 2 /\ Cardinality(T) \in Nat
<1> DEFINE A == {a}
           B == A \cup {b}
<1>1. IsFiniteSet(A) /\ Cardinality(A) <= 1
  <2>1. IsFiniteSet(A) /\ Cardinality(A) = 1 BY FS_Singleton
  <2> HIDE DEF A
  <2>2. Cardinality(A) <= 1 BY <2>1
  <2> QED BY <2>1, <2>2
<1>2. T \subseteq B OBVIOUS
<1> HIDE DEF A
<1>3. IsFiniteSet(B) /\ Cardinality(B) <= 1 + 1 BY <1>1, OneMore
<1> HIDE DEF B
<1>4. Cardinality(B) <= 2 BY <1>3
<1> QED BY <1>2, <1>3, <1>4, Smaller

LEMMA AtMostThree ==
    ASSUME NEW a, NEW b, NEW c, NEW T, T \subseteq {a, b, c}
    PROVE  Cardinality(T) <= 3
<1> DEFINE A == {a}
           B == A \cup {b}
           C == B \cup {c}
<1>1. IsFiniteSet(A) /\ Cardinality(A) <= 1
  <2>1. IsFiniteSet(A) /\ Cardinality(A) = 1 BY FS_Singleton
  <2> HIDE DEF A
  <2>2. Cardinality(A) <= 1 BY <2>1
  <2> QED BY <2>1, <2>2
<1>2. T \subseteq C OBVIOUS
<1> HIDE DEF A
<1>3. IsFiniteSet(B) /\ Cardinality(B) <= 1 + 1 BY <1>1, OneMore
<1> HIDE DEF B
<1>4. Cardinality(B) <= 2 BY <1>3
<1>5. IsFiniteSet(C) /\ Cardinality(C) <= 2 + 1 BY <1>3, <1>4, OneMore
<1> HIDE DEF C
<1>6. Cardinality(C) <= 3 BY <1>5
<1> QED BY <1>2, <1>5, <1>6, Smaller

\* Three removals of a socket that no sweep has to come to do not wait.
LEMMA NoThree ==
    ASSUME NEW q, NEW s \in Socket, Innermost(q), NEW i, NEW j, NEW k,
           Forgets(q, i, s), Forgets(q, j, s), Forgets(q, k, s),
           i \in Nat, j \in Nat, k \in Nat,
           i < j, j < k, ~Swept(q, j), ~Swept(q, k)
    PROVE  FALSE
<1>1. i \in DOMAIN q /\ j \in DOMAIN q /\ k \in DOMAIN q BY DEF Forgets
<1>2. i = 1 \/ (i = 2 /\ Detaches(q, 1, s)) BY <1>1 DEF Innermost
<1>3. j = 1 \/ (j = 2 /\ Detaches(q, 1, s)) BY <1>1 DEF Innermost
<1>4. i = 1 /\ Detaches(q, 1, s) BY <1>2, <1>3
<1> QED BY <1>4 DEF Detaches, Forgets, Is

\* While a socket's removal is under way it is removed at most once more from inside,
\* and once more by a sweep.
THEOREM CascadesAlwaysBounded == Spec => []CascadesBounded
<1>1. Inv /\ DepthHolds => CascadesBounded
  <2> SUFFICES ASSUME Inv, DepthHolds, NEW s \in Socket
               PROVE  Cardinality({i \in DOMAIN todo : todo[i] = Forget(s)}) <=
                          IF Contains(todo, SweepSockets) THEN 3 ELSE 2
    BY DEF CascadesBounded
  <2> DEFINE F == {i \in DOMAIN todo : todo[i] = Forget(s)}
             N == {i \in F : ~Swept(todo, i)}
             last == Len(todo) - 1
  <2>1. /\ DOMAIN todo = 1 .. Len(todo) /\ Len(todo) \in Nat
        /\ \A i \in DOMAIN todo : FrameType(todo[i])
    <3>1. todo \in Seq({todo[i] : i \in DOMAIN todo}) BY DEF Inv, Types
    <3> QED BY <3>1, LenProperties DEF Inv, Types
  <2>2. \A i \in F : i \in Nat /\ Forgets(todo, i, s) BY <2>1 DEF Forgets, Is, Forget
  <2>3. \A i \in F : i \in N \/ (i = last /\ Swept(todo, i)) BY DEF Swept
  <2>4. Innermost(todo) BY DEF DepthHolds, Depth
  <2>5. \A i \in N : i \in Nat /\ Forgets(todo, i, s) /\ ~Swept(todo, i) BY <2>2
  <2>6. \A i, j, k \in N : ~(i < j /\ j < k) BY <2>4, <2>5, NoThree
  <2>7. \E a, b : N \subseteq {a, b}
    <3> HIDE DEF N
    <3>1. CASE \E i, j \in N : i < j
      <4>1. PICK i \in N, j \in N : i < j BY <3>1
      <4>2. \A k \in N : k = i \/ k = j BY <2>5, <2>6, <4>1
      <4>3. N \subseteq {i, j} BY <4>2
      <4> QED BY <4>3
    <3>2. CASE ~\E i, j \in N : i < j
      <4>1. \A i, j \in N : i = j BY <2>5, <3>2
      <4>2. N \subseteq {CHOOSE i \in N : TRUE, 0} BY <4>1
      <4> QED BY <4>2
    <3> QED BY <3>1, <3>2
  <2>8. PICK a, b : N \subseteq {a, b} BY <2>7
  <2>9. CASE \E i \in F : Swept(todo, i)
    <3>1. Contains(todo, SweepSockets)
      <4>1. PICK i \in F : Swept(todo, i) BY <2>9
      <4>2. i = Len(todo) - 1 /\ todo[Len(todo)].call = "sweepSockets" BY <4>1 DEF Swept
      <4>3. Len(todo) \in 1 .. Len(todo) BY <2>1, <2>2, <4>1, <4>2
      <4>4. todo[Len(todo)] = SweepSockets BY <2>1, <4>2, <4>3 DEF FrameType
      <4> QED BY <4>3, <4>4 DEF Contains
    <3>2. F \subseteq {a, b, last} BY <2>3, <2>8
    <3> HIDE DEF F, last
    <3>3. Cardinality(F) <= 3 BY <3>2, AtMostThree
    <3> QED BY <3>1, <3>3 DEF F
  <2>10. CASE ~\E i \in F : Swept(todo, i)
    <3>1. F \subseteq {a, b} BY <2>3, <2>8, <2>10
    <3> HIDE DEF F
    <3>2. Cardinality(F) <= 2 /\ Cardinality(F) \in Nat BY <3>1, AtMostTwo
    <3>3. Cardinality(F) <= 3 BY <3>2
    <3> QED BY <3>2, <3>3 DEF F
  <2> QED BY <2>9, <2>10
<1> QED BY <1>1, CallsInvariant, DepthInvariant, PTL
=============================================================================
