------------------------------- MODULE Ingest -------------------------------
(***************************************************************************)
(* The four event handlers of application/usecases/ingest.py, each one     *)
(* committed unit of work.  This is the memory backend as it runs (its     *)
(* handlers never suspend between the first read and the commit), and what *)
(* the SQL backend is measured against in IngestSql.                       *)
(*                                                                         *)
(* Delivery is at least once and in any order: three topics are consumed   *)
(* independently, and an event may be handed over again after it was       *)
(* processed.  A handler that raises leaves nothing behind, so a failed    *)
(* delivery is a stuttering step.                                          *)
(***************************************************************************)
EXTENDS ReadModel

VARIABLES
    games,          \* games[g]: the row of game_profiles
    prefs,          \* prefs[u]: the row of user_preferences, Blank when there is none
    ownership,      \* ownership[<<u, g>>]: the row of ownerships
    processed       \* processed_events

vars == <<games, prefs, ownership, processed>>

Init ==
    /\ games = [g \in Games |-> UnknownGame]
    /\ prefs = [u \in Users |-> Blank]
    /\ ownership = [p \in Users \X Games |-> "none"]
    /\ processed = {}

-----------------------------------------------------------------------------

\* Mutant: the backfill takes every owner.
AllOwners(g) == {u \in Users : ownership[<<u, g>>] # "none"}

Uncounted(g) == {u \in Users : ownership[<<u, g>>] = "uncounted"}

Mark(e) == processed' = processed \cup {e}

\* Mutants: mark_counted is forgotten; or the profiles are never written.
BackfillUnflagged(g, batch) ==
    /\ prefs' = [u \in Users |-> IF u \in batch THEN Observe(prefs[u], g, "PURCHASE") ELSE prefs[u]]
    /\ UNCHANGED ownership
BackfillFlagOnly(g, batch) ==
    /\ ownership' = [p \in Users \X Games |->
                        IF p[1] \in batch /\ p[2] = g THEN "counted" ELSE ownership[p]]
    /\ UNCHANGED prefs

\* _backfill: every owner taken is credited once and flagged, in the publication's transaction.
Backfill(g, batch) ==
    /\ prefs' = [u \in Users |-> IF u \in batch THEN Observe(prefs[u], g, "PURCHASE") ELSE prefs[u]]
    /\ ownership' = [p \in Users \X Games |->
                        IF p[1] \in batch /\ p[2] = g THEN "counted" ELSE ownership[p]]

HandleGamePublished(e) ==
    LET g == Body[e].game
    IN  /\ Body[e].type = "GamePublished"
        /\ e \notin processed
        /\ games' = [games EXCEPT ![g] = IF Known(@) THEN Redescribed(@, e) ELSE Published(e)]
        /\ \E batch \in BackfillBatches(Uncounted(g)) : Backfill(g, batch)
        /\ Mark(e)

HandleGameWithdrawn(e) ==
    LET g == Body[e].game
    IN  /\ Body[e].type = "GameWithdrawn"
        /\ e \notin processed
        /\ games' = IF Known(games[g]) THEN [games EXCEPT ![g] = Withdrawn(@)] ELSE games
        /\ Mark(e)
        /\ UNCHANGED <<prefs, ownership>>

\* Mutant: a purchase of a game that is not known is marked and forgotten.
PurchaseForgotten(e) ==
    /\ Body[e].type = "PurchaseCompleted"
    /\ e \notin processed
    /\ ~ Known(games[Body[e].game])
    /\ Mark(e)
    /\ UNCHANGED <<games, prefs, ownership>>

PurchaseOfUnknownGame(e) ==
    LET g == Body[e].game
        u == Body[e].user
    IN  /\ Body[e].type = "PurchaseCompleted"
        /\ e \notin processed
        /\ ~ Known(games[g])
        /\ ownership' = [ownership EXCEPT ![<<u, g>>] = Recorded(@, FALSE)]
        /\ Mark(e)
        /\ UNCHANGED <<games, prefs>>

\* Mutant: a redelivery is not noticed.
PurchaseCountedAgain(e) ==
    LET g == Body[e].game
        u == Body[e].user
    IN  /\ Body[e].type = "PurchaseCompleted"
        /\ Known(games[g])
        /\ prefs' = [prefs EXCEPT ![u] = Observe(@, g, "PURCHASE")]
        /\ ownership' = [ownership EXCEPT ![<<u, g>>] = Recorded(@, TRUE)]
        /\ games' = [games EXCEPT ![g] = Bought(@)]
        /\ Mark(e)

PurchaseOfKnownGame(e) ==
    LET g == Body[e].game
        u == Body[e].user
    IN  /\ Body[e].type = "PurchaseCompleted"
        /\ e \notin processed
        /\ Known(games[g])
        /\ prefs' = [prefs EXCEPT ![u] = Observe(@, g, "PURCHASE")]
        /\ ownership' = [ownership EXCEPT ![<<u, g>>] = Recorded(@, TRUE)]
        /\ games' = [games EXCEPT ![g] = Bought(@)]
        /\ Mark(e)

HandlePurchaseCompleted(e) == PurchaseOfUnknownGame(e) \/ PurchaseOfKnownGame(e)

HandleReviewPosted(e) ==
    LET g == Body[e].game
        u == Body[e].user
    IN  /\ Body[e].type = "ReviewPosted"
        /\ e \notin processed
        /\ prefs' = IF Known(games[g])
                    THEN [prefs EXCEPT ![u] = Observe(@, g, ReviewKind(Body[e]))]
                    ELSE prefs
        /\ Mark(e)
        /\ UNCHANGED <<games, ownership>>

Handle(e) ==
    \/ HandleGamePublished(e)
    \/ HandleGameWithdrawn(e)
    \/ HandlePurchaseCompleted(e)
    \/ HandleReviewPosted(e)

\* _already_handled: a redelivery of a processed event returns without a write.
AlreadyHandled(e) ==
    /\ e \in processed
    /\ UNCHANGED vars

Next == \E e \in Events : Handle(e) \/ AlreadyHandled(e)

Spec == Init /\ [][Next]_vars

\* A record stays uncommitted on its topic until its handler returned, so it is delivered until
\* it is processed.
Fairness == \A e \in Events : WF_vars(Handle(e))

FairSpec == Spec /\ Fairness

-----------------------------------------------------------------------------
(* Properties.                                                             *)

\* The rows have the types of sql/models.py, and a history never outgrows its cap.
TypeOK ==
    /\ games \in [Games -> GameProfile]
    /\ prefs \in [Users -> UserPreference]
    /\ \A u \in Users : Len(prefs[u].history) <= HistoryCap
    /\ ownership \in [Users \X Games -> OwnershipStates]
    /\ processed \subseteq Events

Credits(u, g) == prefs[u].taste[<<g, "PURCHASE">>]

\* The `counted` flag tells the truth: it is up exactly for the owners whose taste vector holds
\* the purchase, and those are exactly the games their profile will refuse to recommend.  The two
\* are written by different repositories, in three handlers.
CreditedIffCounted ==
    \A u \in Users, g \in Games :
        /\ (ownership[<<u, g>>] = "counted") <=> (Credits(u, g) > 0)
        /\ (ownership[<<u, g>>] = "counted") <=> (g \in prefs[u].owned)

\* Nobody waits for a description that has already arrived: the promise HandleGamePublished makes
\* to purchases that came first (ingest.py:120-122).  It needs BackfillLimit to cover the owners.
NoStrandedOwner ==
    \A u \in Users, g \in Games : ownership[<<u, g>>] = "uncounted" => ~ Known(games[g])

\* A purchase marked as processed has left its ownership row, and once the game is known, in
\* whichever order the two arrived, the game is in the recipient's owned set.
ProcessedPurchaseTakesEffect ==
    \A u \in Users, g \in Games :
        PurchasesBy(u, g) \cap processed # {} =>
            /\ ownership[<<u, g>>] # "none"
            /\ Known(games[g]) => g \in prefs[u].owned

\* No purchase is folded into a taste vector twice, and none is invented: not by a redelivery, and
\* not by a backfill that runs beside later purchases of the same game.
CreditsBackedByPurchases ==
    \A u \in Users, g \in Games : Credits(u, g) <= Cardinality(PurchasesBy(u, g) \cap processed)

\* Popularity is never overstated: purchase_count is at most the number of purchases processed.
CountBackedByPurchases ==
    \A g \in Games : games[g].purchase_count <= Cardinality(PurchasesOf(g) \cap processed)

\* A republication or a withdrawal keeps the purchase history, a later uncounted purchase does not
\* lower the flag, and no handler takes a game out of a library or a signal out of a taste.
NothingUnlearned ==
    [][ /\ \A g \in Games : games'[g].purchase_count >= games[g].purchase_count
        /\ \A u \in Users, g \in Games :
              /\ ownership[<<u, g>>] = "counted" => ownership'[<<u, g>>] = "counted"
              /\ g \in prefs[u].owned => g \in prefs'[u].owned
              /\ Credits(u, g)' >= Credits(u, g) ]_vars

\* Ingest is an implementation of the order-insensitive Library.
Owners == {p \in Users \X Games : ownership[p] # "none"}
CreditedPairs == {p \in Users \X Games : p[2] \in prefs[p[1]].owned}
KnownGames == {g \in Games : Known(games[g])}

L == INSTANCE Library WITH known <- KnownGames, owners <- Owners, credited <- CreditedPairs

\* Every handler is a step of Library, or leaves known games, owners and credits as they were.
ImplementsLibrary == L!Spec

\* A purchase of a game that is ever published ends up in the recipient's owned set, however the
\* two events are ordered.
PurchaseEventuallyOwned ==
    \A u \in Users, g \in Games :
        (PurchasesBy(u, g) # {} /\ PublicationsOf(g) # {}) => <>[](g \in prefs[u].owned)
=============================================================================
