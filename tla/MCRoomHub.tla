------------------------------ MODULE MCRoomHub ------------------------------
(* RoomHub for TLC: symmetry for the runs that check no liveness.          *)
EXTENDS RoomHub, TLC

Symmetry == Permutations(Socket) \cup Permutations(RoomId)
=============================================================================
