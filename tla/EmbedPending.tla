---------------------------- MODULE EmbedPending ----------------------------
(***************************************************************************)
(* The embedding pass of a sweep (application/usecases/enrich.py) beside   *)
(* the handlers of Ingest, on the SQL backend.  The games are read in one  *)
(* unit of work, the provider is called with no transaction open, and the  *)
(* vectors are written in a second unit of work, by upserting the games as *)
(* they were read.  Every replica sweeps; an operator's refresh is one     *)
(* more sweep.                                                             *)
(*                                                                         *)
(* What a handler or a write-back does to a row of game_profiles takes     *)
(* three steps here: the row is read, upsert selects it again, and the     *)
(* flush at commit writes the columns that differ from what upsert         *)
(* selected.  The handlers of Ingest act on what they have read, which is  *)
(* its games; the table is game_profiles.  One handler is open at a time:  *)
(* handlers beside each other are the subject of IngestSql.                *)
(*                                                                         *)
(* Beside it, the dense taste vector of a user (SCORING_BACKEND=dense):    *)
(* folded as signals arrive, whether their game has its vector or not, and *)
(* recomputed from the history by the generation for that user, taken here *)
(* as one step.  It is named by what was summed: the vector of a game and  *)
(* the kind of the signal that weighs it.                                  *)
(***************************************************************************)
EXTENDS Ingest, Bags

CONSTANTS
    Sweeps,         \* sweeps that may run at once
    BatchSize,      \* EmbedPendingGamesUseCase._batch_size
    NoBatch         \* a sweep that is not waiting for the provider

ASSUME BatchAssumption == BatchSize \in Nat \ {0} /\ IsFiniteSet(Games)

VARIABLES
    game_profiles,  \* the table; games is what the transaction of a handler has read, and made, of it
    handling,       \* the event whose handler's transaction is open, NoEvent when there is none
    base,           \* the row its upsert selected
    waiting,        \* waiting[s]: the games as s read them, until they are written back
    selected,       \* selected[s]: the rows the upserts of the write-back of s selected
    taste_dense     \* taste_dense[u]: the bag of weighed vectors whose sum is in the row of u

tables == <<vars, game_profiles>>
transaction == <<handling, base>>
sweeping == <<waiting, selected>>
evars == <<tables, handling, base, waiting, selected, taste_dense>>

WeighedVector == [vector : Events, kind : SignalKinds]

\* A session that has selected no row for an upsert.
NoRows == [g \in {} |-> UnknownGame]

EmbedInit ==
    /\ Init
    /\ handling = NoEvent
    /\ game_profiles = games
    /\ base = NoRows
    /\ waiting = [s \in Sweeps |-> NoBatch]
    /\ selected = [s \in Sweeps |-> NoRows]
    /\ taste_dense = [u \in Users |-> EmptyBag]

\* The table after the flush of a session that upserted the games of DOMAIN rows, which it selected as
\* rows and wants as new.  A vector is compared as an array, and may be written although it is the
\* one that was selected.
Written(new, rows, vectors) ==
    [g \in Games |->
        IF g \notin DOMAIN rows THEN game_profiles[g]
        ELSE IF g \in vectors THEN Embedded(Flushed(new[g], rows[g], game_profiles[g]), new[g].dense)
        ELSE Flushed(new[g], rows[g], game_profiles[g])]

Flush(new, rows) ==
    \E vectors \in SUBSET {g \in DOMAIN rows : new[g].dense # NoEvent} :
        game_profiles' = Written(new, rows, vectors)

-----------------------------------------------------------------------------
(* The transaction of a handler.                                           *)

\* _already_handled says no, and uow.games.get.
GetGame(e) ==
    /\ handling = NoEvent
    /\ e \notin processed
    /\ handling' = e
    /\ games' = game_profiles
    /\ UNCHANGED <<game_profiles, prefs, ownership, processed, base, sweeping, taste_dense>>

\* The handlers that write the game: all but the one of a review, if they know it.
Upserts(e) ==
    \/ Body[e].type = "GamePublished"
    \/ Body[e].type \in {"GameWithdrawn", "PurchaseCompleted"} /\ Known(games[Body[e].game])

\* uow.games.upsert.
UpsertGame ==
    /\ handling # NoEvent /\ base = NoRows
    /\ Upserts(handling)
    /\ LET g == Body[handling].game
       IN  \E row \in Bases(game_profiles[g], games[g], UnknownGame) : base' = [h \in {g} |-> row]
    /\ UNCHANGED <<tables, handling, sweeping, taste_dense>>

\* DenseEmbedding.plus: a game without a vector adds nothing.
Plus(taste, dense, kind) ==
    IF dense = NoEvent THEN taste ELSE taste (+) SetToBag({[vector |-> dense, kind |-> kind]})

\* The dense half of UserPreference.observe, for whoever a handler observed a signal of: it is the
\* last of the history, and the game is the one the handler has in hand.
Observed(u) ==
    LET signal == prefs[u].history'[Len(prefs[u].history')]
    IN  IF prefs[u]' = prefs[u]
        THEN taste_dense[u]
        ELSE Plus(taste_dense[u], games'[signal.game_id].dense, signal.kind)

\* uow.commit: the flush and the COMMIT.
CommitHandler ==
    /\ handling # NoEvent
    /\ Upserts(handling) => base # NoRows
    /\ Handle(handling)
    /\ Flush(games', base)
    /\ taste_dense' = [u \in Users |-> Observed(u)]
    /\ handling' = NoEvent
    /\ base' = NoRows
    /\ UNCHANGED sweeping

\* The handler raises, or its process dies: the event will be handed over again.
HandlerFails ==
    /\ handling # NoEvent
    /\ handling' = NoEvent
    /\ base' = NoRows
    /\ UNCHANGED <<tables, sweeping, taste_dense>>

-----------------------------------------------------------------------------
(* A sweep.                                                                *)

Pending == {g \in Games : NeedsEmbedding(game_profiles[g])}

\* Mutant: the limit is one too high.
PendingBatchesOneMore ==
    {batch \in SUBSET Pending :
        /\ Cardinality(batch) <= BatchSize + 1
        /\ Cardinality(batch) <= BatchSize => batch = Pending
        /\ \A g \in batch, h \in Pending \ batch :
              game_profiles[g].purchase_count >= game_profiles[h].purchase_count}

\* needing_embedding: most popular first, at most BatchSize.
PendingBatches ==
    {batch \in SUBSET Pending :
        /\ Cardinality(batch) <= BatchSize
        /\ Cardinality(batch) < BatchSize => batch = Pending
        /\ \A g \in batch, h \in Pending \ batch :
              game_profiles[g].purchase_count >= game_profiles[h].purchase_count}

\* The first unit of work; the sweep then awaits embed().
ReadPending(s) ==
    /\ waiting[s] = NoBatch
    /\ \E batch \in PendingBatches \ {{}} :
          waiting' = [waiting EXCEPT ![s] = [g \in batch |-> game_profiles[g]]]
    /\ UNCHANGED <<tables, transaction, selected, taste_dense>>

\* The provider raises, or the second unit of work does: the batch is dropped, the games stay pending.
SweepFails(s) ==
    /\ waiting[s] # NoBatch
    /\ waiting' = [waiting EXCEPT ![s] = NoBatch]
    /\ selected' = [selected EXCEPT ![s] = NoRows]
    /\ UNCHANGED <<tables, transaction, taste_dense>>

\* The provider has answered; the second unit of work upserts the games one by one.
UpsertEmbedded(s) ==
    /\ waiting[s] # NoBatch
    /\ \E g \in DOMAIN waiting[s] \ DOMAIN selected[s] :
          selected' = [selected EXCEPT ![s] = [h \in DOMAIN @ \cup {g} |->
                                                  IF h = g THEN game_profiles[g] ELSE @[h]]]
    /\ UNCHANGED <<tables, transaction, waiting, taste_dense>>

\* A vector is computed from the description that was read.
WithVectors(batch) == [g \in DOMAIN batch |-> Embedded(batch[g], batch[g].description)]

\* Its commit.
WriteBack(s) ==
    /\ waiting[s] # NoBatch
    /\ DOMAIN selected[s] = DOMAIN waiting[s]
    /\ Flush(WithVectors(waiting[s]), selected[s])
    /\ waiting' = [waiting EXCEPT ![s] = NoBatch]
    /\ selected' = [selected EXCEPT ![s] = NoRows]
    /\ UNCHANGED <<vars, transaction, taste_dense>>

-----------------------------------------------------------------------------
(* The generation.                                                         *)

\* UserPreference.rebuilt_in: the remembered signals whose game has its vector by now.
RebuiltIn(u) ==
    LET history == prefs[u].history
        vector(i) == game_profiles[history[i].game_id].dense
        weighed(i) == [vector |-> vector(i), kind |-> history[i].kind]
        known == {i \in DOMAIN history : vector(i) # NoEvent}
    IN  [w \in {weighed(i) : i \in known} |-> Cardinality({i \in known : weighed(i) = w})]

\* Mutant: only a taste that has none of its vectors is recomputed.
RebuildEmpty(u) ==
    /\ prefs[u].signal_count > 0
    /\ taste_dense[u] = EmptyBag
    /\ taste_dense' = [taste_dense EXCEPT ![u] = RebuiltIn(u)]
    /\ UNCHANGED <<tables, transaction, sweeping>>

\* The generation for a user who is not cold: games have labels here, and weights do not cancel out.
Rebuild(u) ==
    /\ prefs[u].signal_count > 0
    /\ taste_dense' = [taste_dense EXCEPT ![u] = RebuiltIn(u)]
    /\ UNCHANGED <<tables, transaction, sweeping>>

EmbedNext ==
    \/ \E e \in Events : GetGame(e)
    \/ UpsertGame \/ CommitHandler \/ HandlerFails
    \/ \E s \in Sweeps : ReadPending(s) \/ SweepFails(s) \/ UpsertEmbedded(s) \/ WriteBack(s)
    \/ \E u \in Users : Rebuild(u)

EmbedSpec == EmbedInit /\ [][EmbedNext]_evars

\* A record stays on its topic until its handler has committed, and the handler is run again and again.
\* Sweeps keep running, each of them generates for every user, and a provider that is asked again and
\* again answers in the end.
EmbedFairness ==
    /\ WF_evars(\E e \in Events : GetGame(e))
    /\ SF_evars(UpsertGame) /\ SF_evars(CommitHandler)
    /\ \A u \in Users : WF_evars(Rebuild(u))
    /\ \A s \in Sweeps :
          WF_evars(ReadPending(s)) /\ SF_evars(UpsertEmbedded(s)) /\ SF_evars(WriteBack(s))

EmbedFairSpec == EmbedSpec /\ EmbedFairness

-----------------------------------------------------------------------------
(* Properties.                                                             *)

\* A sweep holds no more than its batch, of published games without a vector, and selects rows of no
\* others; a handler selects the row of its own game; and no taste is the sum of more vectors than
\* its user has given signals.
EmbedTypeOK ==
    /\ TypeOK
    /\ handling \in Descriptions \ processed
    /\ game_profiles \in [Games -> GameProfile]
    /\ DOMAIN base \subseteq {g \in Games : handling # NoEvent /\ g = Body[handling].game}
    /\ \A g \in DOMAIN base : base[g] \in GameProfile
    /\ \A u \in Users :
          /\ IsABag(taste_dense[u]) /\ BagToSet(taste_dense[u]) \subseteq WeighedVector
          /\ BagCardinality(taste_dense[u]) <= prefs[u].signal_count
    /\ \A s \in Sweeps :
          IF waiting[s] = NoBatch
          THEN selected[s] = NoRows
          ELSE /\ DOMAIN waiting[s] \subseteq Games /\ Cardinality(DOMAIN waiting[s]) \in 1 .. BatchSize
               /\ \A g \in DOMAIN waiting[s] : waiting[s][g] \in GameProfile /\ NeedsEmbedding(waiting[s][g])
               /\ DOMAIN selected[s] \subseteq DOMAIN waiting[s]
               /\ \A g \in DOMAIN selected[s] : selected[s][g] \in GameProfile

\* The vector of a row was computed from the words beside it.
Describes(row) == row.dense \in {NoEvent, row.description}

SameText(row, other) == row.description = other.description /\ row.dense = other.dense

\* Whoever commits now read or selected other words, or another vector, of g than the row has by now.
ActsOnStaleText(g) ==
    \/ /\ handling # NoEvent /\ handling' = NoEvent
       /\ g \in DOMAIN base
       /\ ~ SameText(games[g], game_profiles[g]) \/ ~ SameText(base[g], game_profiles[g])
    \/ \E s \in Sweeps :
          /\ waiting[s] # NoBatch /\ waiting'[s] = NoBatch
          /\ g \in DOMAIN selected[s]
          /\ ~ SameText(waiting[s][g], game_profiles[g]) \/ ~ SameText(selected[s][g], game_profiles[g])

\* No game is ranked by words its row does not hold (game_profile.py:76-78), except through a race of
\* two transactions for the row: an edit takes the vector of the old words away, and a vector is
\* written beside the words it was computed from, unless the other one of the two has committed
\* between the read or the upsert of this one and its commit.  Then only the changed columns are
\* written, NULL over NULL is no change, and the words of the one stay beside the vector of the other.
OnlyRacesMisplaceVectors ==
    [][\A g \in Games :
          Describes(game_profiles[g]) /\ ~ Describes(game_profiles'[g]) => ActsOnStaleText(g)]_evars

\* Every published game is embedded in the end, however small the batch, and a signal that came
\* before its vector is delayed, not lost (profile.py:64-68): every one that is remembered of a
\* published game is in the taste with the vector the row of the game has now, whatever words a
\* race has left beside it.
EmbeddedAndFolded ==
    <>[] /\ \A g \in Games : ~ NeedsEmbedding(game_profiles[g])
         /\ \A u \in Users : \A i \in DOMAIN prefs[u].history :
               LET signal == prefs[u].history[i]
                   game == game_profiles[signal.game_id]
               IN  game.is_published =>
                      [vector |-> game.dense, kind |-> signal.kind] \in BagToSet(taste_dense[u])

-----------------------------------------------------------------------------
(* What the write-back of a stale row breaks.                              *)

\* A withdrawn game stops being recommendable until Catalog publishes it again
\* (game_profile.py:98-100): no other step may bring it back.
OnlyPublicationRestores ==
    [][\A g \in Games :
          (Known(game_profiles[g]) /\ ~ game_profiles[g].is_published /\ game_profiles'[g].is_published)
             => \E e \in PublicationsOf(g) : e \in processed' \ processed]_evars
=============================================================================
