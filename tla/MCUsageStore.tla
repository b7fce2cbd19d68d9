----------------------------- MODULE MCUsageStore -----------------------------
(* Days of two hours of two ticks, kept for two days: the longest preset is   *)
(* shown by the day, the shortest by the hour, as in the code.  One visitor   *)
(* is seen in two places; a connection without visitor in a third.            *)
EXTENDS UsageStore

MCPresetDays == [p \in {"24h", "90d"} |-> IF p = "24h" THEN 1 ELSE 2]

MCContext ==
    {[place |-> [country |-> "CN", region |-> "BJ"], visitor |-> "v1"],
     [place |-> [country |-> "ZZ", region |-> ""], visitor |-> "v1"],
     [place |-> [country |-> "CN", region |-> ""], visitor |-> NoVisitor]}
================================================================================
