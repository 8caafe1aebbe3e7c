--------------------------- MODULE MCEmbedPending ---------------------------
(* Two replicas sweep while g1 is published, withdrawn, published again and *)
(* bought, and g2 is published.                                             *)
EXTENDS EmbedPending

CONSTANTS u1, g1, g2

MCUsers == {u1}
MCGames == {g1, g2}
MCEvents == {"pub", "republish", "withdraw", "buy", "pub2"}

MCBody ==
    [e \in MCEvents |->
        CASE e \in {"pub", "republish"} -> [type |-> "GamePublished", game |-> g1]
          [] e = "withdraw"             -> [type |-> "GameWithdrawn", game |-> g1]
          [] e = "buy"                  -> [type |-> "PurchaseCompleted", game |-> g1, user |-> u1]
          [] e = "pub2"                 -> [type |-> "GamePublished", game |-> g2]]
=============================================================================
