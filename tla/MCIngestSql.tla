----------------------------- MODULE MCIngestSql -----------------------------
(* One game, up to two users.  A replica runs one consumer task per topic:   *)
(* game and purchase are those of the first replica, second stands for the   *)
(* purchase and review tasks of another one (taking turns, to bound the run).*)
(* A rebalance hands both workers the same purchase.  The topics hold the    *)
(* purchases of two users, or a withdrawal and those of one.                 *)
EXTENDS IngestSql

CONSTANTS u1, u2, g1

TwoUsers == {u1, u2}
OneGame == {g1}

BodyOf(e) ==
    CASE e = "pub"      -> [type |-> "GamePublished", game |-> g1]
      [] e = "withdraw" -> [type |-> "GameWithdrawn", game |-> g1]
      [] e = "buy1"     -> [type |-> "PurchaseCompleted", game |-> g1, user |-> u1]
      [] e = "buy2"     -> [type |-> "PurchaseCompleted", game |-> g1, user |-> u2]
      [] e = "like"     -> [type |-> "ReviewPosted", game |-> g1, user |-> u1, liked |-> TRUE]

TopicTypes(w) ==
    CASE w = "game"     -> {"GamePublished", "GameWithdrawn"}
      [] w = "purchase" -> {"PurchaseCompleted"}
      [] w = "second"   -> {"PurchaseCompleted", "ReviewPosted"}

MCBody == [e \in Events |-> BodyOf(e)]
MCBacklogs == {{"pub", "buy1", "buy2", "like"}, {"pub", "withdraw", "buy1", "like"}}
MCTypes == [w \in Workers |-> TopicTypes(w)]
==============================================================================
