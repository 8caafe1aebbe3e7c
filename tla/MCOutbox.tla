------------------------------ MODULE MCOutbox ------------------------------
(* Two replicas drain the rows; no broker takes the first one of MCOutbox.  *)
(* With MaxAttempts = 3 a copy of a row can be two attempts behind it, and  *)
(* overwrite a dead-lettered row; the five of the code only repeat that.    *)
EXTENDS Outbox

MCRecords == {1, 2}
=============================================================================
