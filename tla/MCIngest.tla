------------------------------ MODULE MCIngest ------------------------------
(* Two users, two games: g1 is published twice, withdrawn, bought twice by  *)
(* u1 and once by u2, and reviewed; g2 is published and bought by u1.       *)
EXTENDS Ingest

CONSTANTS u1, u2, g1, g2

MCUsers == {u1, u2}
MCGames == {g1, g2}
MCEvents == {"pub", "republish", "withdraw", "buy1", "buy1again", "buy2", "like", "pub2", "buy3"}

MCBody ==
    [e \in MCEvents |->
        CASE e \in {"pub", "republish"}   -> [type |-> "GamePublished", game |-> g1]
          [] e = "withdraw"               -> [type |-> "GameWithdrawn", game |-> g1]
          [] e \in {"buy1", "buy1again"}  -> [type |-> "PurchaseCompleted", game |-> g1, user |-> u1]
          [] e = "buy2"                   -> [type |-> "PurchaseCompleted", game |-> g1, user |-> u2]
          [] e = "like"                   -> [type |-> "ReviewPosted", game |-> g1, user |-> u2, liked |-> TRUE]
          [] e = "pub2"                   -> [type |-> "GamePublished", game |-> g2]
          [] e = "buy3"                   -> [type |-> "PurchaseCompleted", game |-> g2, user |-> u1]]
=============================================================================
