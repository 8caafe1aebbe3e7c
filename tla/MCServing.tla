----------------------------- MODULE MCServing -----------------------------
(* A moderator asks, for herself and for another user.  A racing game, an   *)
(* indie game, and one that is both.  She owns one of the two games of the  *)
(* other user; the purchases that may follow make them share two.           *)
EXTENDS Serving

CONSTANTS u1, u2

MCUsers == {u1, u2}
MCActors == {u1}
MCGames == {1, 2, 3}
MCFeatures == {"genre:racing", "tag:indie"}
MCLabels == <<{"genre:racing"}, {"genre:racing", "tag:indie"}, {"tag:indie"}>>
MCPast == {{<<u1, 1>>, <<u2, 1>>, <<u2, 2>>}}
MCSales == {<<u1, 2>>, <<u2, 3>>}
MCReviews == {<<u1, 2, "REVIEW_DISLIKE">>}
MCEditions == {3}

\* Cosines are whole percents, of every taste that a few actions can add up to.
ASSUME \A t \in [MCFeatures -> -15 .. 45], g \in MCGames : Content(t, g) \in 0 .. 100
=============================================================================
