----------------------------- MODULE Generation -----------------------------
(***************************************************************************)
(* The refresh sweep (application/usecases/generate.py): for each user in  *)
(* turn, one transaction that reads the profile, ranks the catalogue,      *)
(* replaces the stored list and enqueues RecommendationGenerated.  Every   *)
(* replica sweeps, and an operator may refresh one user; the generations   *)
(* of one user run beside each other and beside the purchases that change  *)
(* what may be recommended.                                                *)
(*                                                                         *)
(* Postgres runs each statement at READ COMMITTED.  The DELETE of          *)
(* replace_for takes the rows committed when it starts, and waits for the  *)
(* transaction that is deleting one of them; the INSERTs run at commit.    *)
(* Scores are abstracted to Blend; the vectors behind them are not here.   *)
(***************************************************************************)
EXTENDS Integers, FiniteSets

CONSTANTS
    Users,          \* user ids
    Games,          \* game ids, which are ordered
    Sweeps,         \* tasks that may generate: a scheduler per replica, the refresh endpoint
    Featureless,    \* games without genres or tags: buying one leaves the taste empty
    Blend(_, _),    \* Blend(owned, g): the score of g for the owner of those games
    Limit,          \* length of a list
    BatchSize,      \* RefreshAllRecommendationsUseCase._batch_size
    DenseSweeps,    \* tasks of processes whose settings.ranks_in_dense_space is on
    NoUser,
    MaxEdits,       \* bound: publications and withdrawals
    MaxFailures     \* bound: generations that raise, sweeps that are cut short

ASSUME GamesAssumption == Games \subseteq Nat /\ IsFiniteSet(Games) /\ Featureless \subseteq Games
ASSUME UsersAssumption == IsFiniteSet(Users) /\ NoUser \notin Users
ASSUME BlendAssumption == \A owned \in SUBSET Games, g \in Games : Blend(owned, g) \in Nat
ASSUME SizesAssumption == Limit \in Nat \ {0} /\ BatchSize \in Nat \ {0} /\ DenseSweeps \subseteq Sweeps
ASSUME BoundsAssumption == MaxEdits \in Nat /\ MaxFailures \in Nat

VARIABLES
    bought,         \* bought[u]: the purchases handled
    library,        \* library[u]: those folded into the profile of u
    published,      \* games with is_published
    list,           \* list[u]: the rows of recommendations
    announced,      \* announced[u]: the list in the last event enqueued for u
    todo,           \* todo[s]: users the sweep s has yet to generate for
    gen,            \* gen[s]: the transaction of s
    edits,
    failures

vars == <<bought, library, published, list, announced, todo, gen, edits, failures>>

\* A row knows the whole list it was written with (generated_at tells lists apart).
RecommendationRow == [game : Games, of : SUBSET Games]

Steps == {"idle", "dense", "rank", "delete", "lock", "commit"}

Transaction ==
    [pc      : Steps,
     user    : Users \cup {NoUser},
     owned   : SUBSET Games,                \* the profile as it was read
     base    : SUBSET Games,                \* the row its write is compared with
     picks   : SUBSET Games,
     targets : SUBSET RecommendationRow,    \* rows the DELETE has found
     locked  : SUBSET RecommendationRow]    \* rows it has deleted, until the commit

NoTx ==
    [pc |-> "idle", user |-> NoUser, owned |-> {}, base |-> {}, picks |-> {},
     targets |-> {}, locked |-> {}]

Init ==
    /\ bought = [u \in Users |-> {}]
    /\ library = [u \in Users |-> {}]
    /\ published = Games
    /\ list = [u \in Users |-> {}]
    /\ announced = [u \in Users |-> {}]
    /\ todo = [s \in Sweeps |-> {}]
    /\ gen = [s \in Sweeps |-> NoTx]
    /\ edits = 0
    /\ failures = 0

-----------------------------------------------------------------------------
(* What the generations run beside.                                        *)

At(s, step) == gen[s].pc = step
For(s) == gen[s].user

Cold(owned) == owned \subseteq Featureless

\* A generation in the dense space writes the profile of its user back, unless the user is cold.
WritesProfile(s) == s \in DenseSweeps /\ ~ Cold(gen[s].owned)

\* HandlePurchaseCompleted of a known game, as its commit changes the profile; it waits for a
\* generation that has written the row and not committed.
Purchase(u, g) ==
    /\ g \in published \ bought[u]
    /\ ~ \E s \in Sweeps : At(s, "commit") /\ For(s) = u /\ WritesProfile(s)
    /\ bought' = [bought EXCEPT ![u] = @ \cup {g}]
    /\ library' = [library EXCEPT ![u] = @ \cup {g}]
    /\ UNCHANGED <<published, list, announced, todo, gen, edits, failures>>

\* HandleGamePublished, HandleGameWithdrawn.
Edit(g) ==
    /\ edits < MaxEdits
    /\ edits' = edits + 1
    /\ published' = IF g \in published THEN published \ {g} ELSE published \cup {g}
    /\ UNCHANGED <<bought, library, list, announced, todo, gen, failures>>

-----------------------------------------------------------------------------
(* The sweep.                                                              *)

Active == {u \in Users : library[u] # {}}

\* with_signals: all active users, or as many as a batch takes.  The order is abstracted.
Batches ==
    IF Cardinality(Active) <= BatchSize
    THEN {Active}
    ELSE {batch \in SUBSET Active : Cardinality(batch) = BatchSize}

Between(s) == At(s, "idle") /\ todo[s] = {}

\* RefreshAllRecommendationsUseCase.execute
StartSweep(s) ==
    /\ Between(s)
    /\ \E batch \in Batches \ {{}} : todo' = [todo EXCEPT ![s] = batch]
    /\ UNCHANGED <<bought, library, published, list, announced, gen, edits, failures>>

\* execute_for: the user need not have a profile.
RefreshOne(s, u) ==
    /\ Between(s)
    /\ todo' = [todo EXCEPT ![s] = {u}]
    /\ UNCHANGED <<bought, library, published, list, announced, gen, edits, failures>>

-----------------------------------------------------------------------------
(* One generation.                                                         *)

Env == <<bought, library, published, list, announced, edits, failures>>

\* preferences.get; a cold user's list is replaced by nothing.
GetPreference(s) ==
    /\ At(s, "idle")
    /\ \E u \in todo[s] :
          gen' = [gen EXCEPT ![s] =
                     [NoTx EXCEPT !.user  = u,
                                  !.owned = library[u],
                                  !.base  = library[u],
                                  !.pc    = IF Cold(library[u]) THEN "delete"
                                            ELSE IF s \in DenseSweeps THEN "dense" ELSE "rank"]]
    /\ UNCHANGED <<Env, todo>>

\* preferences.upsert of the profile with its vector rebuilt.  The identity map is weak: the row it
\* will be compared with is selected again, unless the one that get loaded is still held.
UpsertPreference(s) ==
    /\ At(s, "dense")
    /\ \E row \in {library[For(s)], gen[s].owned} :
          gen' = [gen EXCEPT ![s].base = row, ![s].pc = "rank"]
    /\ UNCHANGED <<Env, todo>>

Better(owned, g, h) ==
    \/ Blend(owned, g) > Blend(owned, h)
    \/ Blend(owned, g) = Blend(owned, h) /\ g < h

\* Mutant: games of the library are ranked too.
RankedWithOwned(owned, candidates) ==
    {g \in candidates : Blend(owned, g) > 0 /\ Cardinality({h \in candidates : Better(owned, h, g)}) < Limit}

\* HybridRanker.rank
Ranked(owned, candidates) ==
    LET eligible == {g \in candidates \ owned : Blend(owned, g) > 0}
    IN  {g \in eligible : Cardinality({h \in eligible : Better(owned, h, g)}) < Limit}

\* games.recommendable and the ranking.  The explanation model is awaited after this step.
Rank(s) ==
    /\ At(s, "rank")
    /\ gen' = [gen EXCEPT ![s].picks = Ranked(gen[s].owned, published), ![s].pc = "delete"]
    /\ UNCHANGED <<Env, todo>>

\* Mutant: only the rows whose game is not suggested again are replaced.
FindRowsToDrop(s) ==
    /\ At(s, "delete")
    /\ gen' = [gen EXCEPT ![s].targets = {row \in list[For(s)] : row.game \notin gen[s].picks},
                          ![s].picks   = @ \ {row.game : row \in list[For(s)]},
                          ![s].pc      = "lock"]
    /\ UNCHANGED <<Env, todo>>

\* replace_for: the DELETE takes its snapshot.
FindRows(s) ==
    /\ At(s, "delete")
    /\ gen' = [gen EXCEPT ![s].targets = list[For(s)], ![s].pc = "lock"]
    /\ UNCHANGED <<Env, todo>>

Rivals(s) == {v \in Sweeps \ {s} : At(v, "commit") /\ For(v) = For(s)}

\* replace_for: the rows, and in the flush the profile, once no rival holds them.
LockRows(s) ==
    /\ At(s, "lock")
    /\ \A v \in Rivals(s) :
          /\ gen[v].locked \cap gen[s].targets = {}
          /\ ~ (WritesProfile(v) /\ WritesProfile(s))
    /\ gen' = [gen EXCEPT ![s].locked = gen[s].targets, ![s].pc = "commit"]
    /\ UNCHANGED <<Env, todo>>

GamesOf(rows) == {row.game : row \in rows}
Kept(s) == list[For(s)] \ gen[s].locked

\* UniqueConstraint("user_id", "game_id"): a rival's row that the DELETE did not see.
DuplicateKey(s) == gen[s].picks \cap GamesOf(Kept(s)) # {}

\* Rows that s has deleted are gone for the rivals that wait for them.
Committed(s) ==
    [v \in Sweeps |->
        IF v = s THEN NoTx
        ELSE IF At(v, "lock") /\ For(v) = For(s)
             THEN [gen[v] EXCEPT !.targets = @ \ gen[s].locked]
             ELSE gen[v]]

\* The INSERTs of the list and of its event, and the COMMIT.  An empty list has no event.
Commit(s) ==
    LET u == For(s)
        tx == gen[s]
        rows == [game : tx.picks, of : {tx.picks}]
    IN  /\ At(s, "commit")
        /\ ~ DuplicateKey(s)
        /\ list' = [list EXCEPT ![u] = Kept(s) \cup rows]
        /\ announced' = IF tx.picks = {} THEN announced ELSE [announced EXCEPT ![u] = tx.picks]
        /\ library' = IF WritesProfile(s) /\ tx.owned # tx.base
                      THEN [library EXCEPT ![u] = tx.owned]
                      ELSE library
        /\ gen' = Committed(s)
        /\ todo' = [todo EXCEPT ![s] = @ \ {u}]
        /\ UNCHANGED <<bought, published, edits, failures>>

\* Mutant: the session is not closed.
RollbackUnclosed(s) == gen' = [gen EXCEPT ![s].pc = "idle"]

Rollback(s) == gen' = [gen EXCEPT ![s] = NoTx]

\* Mutant: the event leaves although its list does not.
CommitFailsAnnounced(s) ==
    /\ At(s, "commit")
    /\ DuplicateKey(s)
    /\ Rollback(s)
    /\ announced' = [announced EXCEPT ![For(s)] = gen[s].picks]
    /\ todo' = [todo EXCEPT ![s] = @ \ {For(s)}]
    /\ UNCHANGED <<bought, library, published, list, edits, failures>>

\* IntegrityError: the generation is rolled back, the sweep goes on with the next user.
CommitFails(s) ==
    /\ At(s, "commit")
    /\ DuplicateKey(s)
    /\ Rollback(s)
    /\ todo' = [todo EXCEPT ![s] = @ \ {For(s)}]
    /\ UNCHANGED Env

\* Any other exception of a generation: the database or the explanation model.
GenerationFails(s) ==
    /\ ~ At(s, "idle")
    /\ failures < MaxFailures
    /\ failures' = failures + 1
    /\ Rollback(s)
    /\ todo' = [todo EXCEPT ![s] = @ \ {For(s)}]
    /\ UNCHANGED <<bought, library, published, list, announced, edits>>

\* stop() cancels the sweep, or the process dies.
SweepCutShort(s) ==
    /\ todo[s] # {}
    /\ failures < MaxFailures
    /\ failures' = failures + 1
    /\ Rollback(s)
    /\ todo' = [todo EXCEPT ![s] = {}]
    /\ UNCHANGED <<bought, library, published, list, announced, edits>>

-----------------------------------------------------------------------------

SweepStep(s) ==
    \/ StartSweep(s)
    \/ GetPreference(s) \/ UpsertPreference(s) \/ Rank(s)
    \/ FindRows(s) \/ LockRows(s) \/ Commit(s) \/ CommitFails(s)

Next ==
    \/ \E s \in Sweeps :
          \/ SweepStep(s)
          \/ \E u \in Users : RefreshOne(s, u)
          \/ GenerationFails(s) \/ SweepCutShort(s)
    \/ \E u \in Users, g \in Games : Purchase(u, g)
    \/ \E g \in Games : Edit(g)

Spec == Init /\ [][Next]_vars

\* GenerationScheduler._run sweeps for ever, whatever a sweep raises, and a transaction that can
\* take its next step takes it.
Fairness == \A s \in Sweeps : WF_vars(SweepStep(s))

FairSpec == Spec /\ Fairness

-----------------------------------------------------------------------------
(* Properties.                                                             *)

ListedGames(u) == GamesOf(list[u])

\* Rows and transactions have their types and sizes, a session leaves nothing to the next one, and
\* a game stands once in a user's list whatever the generations that wrote it.
TypeOK ==
    /\ bought \in [Users -> SUBSET Games]
    /\ library \in [Users -> SUBSET Games]
    /\ published \subseteq Games
    /\ list \in [Users -> SUBSET RecommendationRow]
    /\ announced \in [Users -> SUBSET Games]
    /\ todo \in [Sweeps -> SUBSET Users]
    /\ gen \in [Sweeps -> Transaction]
    /\ edits \in 0 .. MaxEdits
    /\ failures \in 0 .. MaxFailures
    /\ \A s \in Sweeps :
          /\ Cardinality(gen[s].picks) <= Limit
          /\ Cardinality(todo[s]) <= BatchSize
          /\ IF At(s, "idle") THEN gen[s] = NoTx ELSE For(s) \in todo[s]
    /\ \A u \in Users : \A row, other \in list[u] : row.game = other.game => row = other

\* A reader never sees a half-replaced list (repositories.py:228): however generations of one user
\* overlap, of each list that left a row in the table every row is there.
NoHalfReplacedList ==
    \A u \in Users : \A row \in list[u] : row.of \subseteq ListedGames(u)

\* Profile is told of a list only when it was stored: the event and the rows are one transaction
\* (unit_of_work.py:23-26), also when a rival makes the commit fail.
AnnouncedIsStored ==
    [][\A u \in Users :
          announced'[u] # announced[u] => announced'[u] \subseteq ListedGames(u)']_vars

\* A bought or withdrawn game may stand in a list for a while, but not for good: sweeps that
\* overlap, fail or block each other never keep a list from catching up (profile.py:16-19), as long
\* as one of them at most writes profiles back.  A list that is cleared is not announced
\* (generate.py:88-93), but one that is not empty is in the end the one that was announced last.
ListsCatchUp ==
    <>[](\A u \in Users :
            /\ ListedGames(u) \subseteq published \ library[u]
            /\ ListedGames(u) # {} => announced[u] = ListedGames(u))

-----------------------------------------------------------------------------
(* What the documentation says and the code does not keep.                 *)

\* Each sweep replaces a user's list, so N replicas sweeping cost CPU and never a wrong answer
\* (scheduler.py:14-16): not when a DELETE waits for a rival and misses the rows it has inserted.
OneListPerUser ==
    \A u \in Users : \A row, other \in list[u] : row.of = other.of
=============================================================================
