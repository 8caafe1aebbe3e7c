------------------------------ MODULE Library ------------------------------
(***************************************************************************)
(* What ingest promises the rest of the service, whatever the order the    *)
(* three topics are read in: an owner of a game is credited with it as     *)
(* soon as both facts, the purchase and the description, have arrived.     *)
(* README.md, "The ordering problem worth knowing about".                  *)
(***************************************************************************)
CONSTANTS Users, Games

VARIABLES
    known,      \* games whose description has arrived
    owners,     \* pairs <<user, game>> whose purchase has arrived
    credited    \* pairs whose purchase has reached the owner's profile

lvars == <<known, owners, credited>>

Init ==
    /\ known = {}
    /\ owners = {}
    /\ credited = {}

\* A description arrives: everyone who was waiting for it is credited in the same step.
Learn(g) ==
    /\ known' = known \cup {g}
    /\ credited' = credited \cup {p \in owners : p[2] = g}
    /\ UNCHANGED owners

\* A purchase arrives: credited at once if the game is known, remembered otherwise.
Acquire(u, g) ==
    /\ owners' = owners \cup {<<u, g>>}
    /\ credited' = IF g \in known THEN credited \cup {<<u, g>>} ELSE credited
    /\ UNCHANGED known

Next ==
    \/ \E g \in Games : Learn(g)
    \/ \E u \in Users, g \in Games : Acquire(u, g)

Spec == Init /\ [][Next]_lvars
=============================================================================
