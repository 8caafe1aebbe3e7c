---------------------------- MODULE MCGeneration ----------------------------
(* Two tasks generate while users buy from three games and the catalogue    *)
(* changes.  A list holds one game, so that two rankings can be disjoint.   *)
EXTENDS Generation

CONSTANTS u1, u2

OneUser == {u1}
TwoUsers == {u1, u2}
MCGames == {1, 2, 3}

\* The lower its number, the better a game suits anyone.
MCBlend(owned, g) == 4 - g
=============================================================================
