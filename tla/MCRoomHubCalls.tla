--------------------------- MODULE MCRoomHubCalls ---------------------------
(* RoomHubCalls for TLC: symmetry, and either three connections or two      *)
(* codes at a time.                                                         *)
EXTENDS RoomHubCalls, TLC

Symmetry == Permutations(Socket) \cup Permutations(RoomId)

CodesInUse == (maps.rooms \cup {view[s].room : s \in Socket}) \ {NoRoom}
Uncrowded == Cardinality(Listening) < 3 \/ Cardinality(CodesInUse) < 2
=============================================================================
