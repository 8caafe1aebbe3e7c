----------------------------- MODULE MCConsumer -----------------------------
(* Two replicas read a partition of two messages; one of them may need two  *)
(* rounds to connect.  What an unhandled or malformed message does to the   *)
(* next one shows when it is the first.                                     *)
EXTENDS Consumer

MCRounds == [p \in Processes |-> IF p = "replica1" THEN 2 ELSE 1]
MCLogs == {l \in [Messages -> Kinds] : l[2] \in {"fine", "failing"}}
=============================================================================
