--------------------------- MODULE MCAvailability ---------------------------
(* Availability for TLC: on Cloudflare, where every check is written by     *)
(* itself, three of them are needed for a correction between two writes.    *)
EXTENDS Availability

Checks == [node |-> 2, cloudflare |-> 3]
=============================================================================
