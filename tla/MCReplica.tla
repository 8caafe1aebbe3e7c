------------------------------ MODULE MCReplica ------------------------------
(* Two replicas start on one database and one broker, with one message to    *)
(* read.  MaxRetries is larger than MaxTrouble, so that a message is never   *)
(* given up for handlers that raise for once.                                *)
EXTENDS Replica

MCRounds == [p \in Processes |-> 2]
MCLogs == [Messages -> {"fine"}]
==============================================================================
