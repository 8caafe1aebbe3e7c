------------------------------ MODULE IngestSql ------------------------------
(***************************************************************************)
(* The handlers of Ingest as the SQL backend runs them: one transaction of *)
(* several statements at Postgres' default isolation (READ COMMITTED,      *)
(* sql/engine.py sets no other), many of them at once.  A worker is one    *)
(* KafkaSubscriber._run task: a replica runs one for each topic.           *)
(*                                                                         *)
(* A SELECT sees what is committed when it runs.  ownerships and           *)
(* processed_events are written by statements that run at once and hold    *)
(* their row until the transaction ends.  game_profiles and                *)
(* user_preferences are written at commit, when the session flushes:       *)
(* the columns whose value differs from the row the session loaded, as     *)
(* absolute values; or an INSERT, when the session found no row.           *)
(***************************************************************************)
EXTENDS ReadModel

CONSTANTS
    Workers,            \* consumer tasks
    TypesOf,            \* TypesOf[w]: the event types of the topic w consumes
    MaxRetries,         \* KafkaSubscriber._max_retries
    Backlogs,           \* bound: the sets of events the topics may hold, none within another
    MaxMishaps          \* bound: how often an event in flight is also given to another worker, or
                        \* a worker dies, its event uncommitted on the topic

ASSUME WorkersAssumption ==
    /\ TypesOf \in [Workers -> SUBSET {"GamePublished", "GameWithdrawn",
                                       "PurchaseCompleted", "ReviewPosted"}]
    /\ Backlogs \subseteq SUBSET Events /\ \A b, c \in Backlogs : b \subseteq c => b = c
    /\ MaxRetries \in Nat \ {0} /\ MaxMishaps \in Nat

VARIABLES
    games, prefs, ownership, processed,   \* committed rows, as in Ingest
    tx,             \* tx[w]: the transaction of the worker w
    uncommitted,    \* events whose offset is not committed
    rerouted,       \* events sent to <topic>.retry
    mishaps

rows == <<games, prefs, ownership, processed>>
vars == <<games, prefs, ownership, processed, tx, uncommitted, rerouted, mishaps>>

Steps == {"idle", "seen", "game", "upsert_game", "owners", "pref", "upsert_pref",
          "record", "mark_counted", "mark", "commit", "ack"}

\* What a session holds.  read is the game as the use case knows it; base is the row its flush
\* compares with.  loaded and pbase are the same for the preferences.
Transaction ==
    [pc      : Steps,
     event   : Descriptions,
     attempt : 0 .. MaxRetries,
     read    : GameProfile,
     base    : GameProfile,
     dirty   : BOOLEAN,                         \* the game is to be written
     batch   : SUBSET Users,                    \* the owners the backfill took
     todo    : SUBSET Users,                    \* profiles still to fold the signal into
     loaded  : [Users -> UserPreference],
     pbase   : [Users -> UserPreference],
     current : SUBSET Users,                    \* the profile being folded, if any
     changed : SUBSET Users,                    \* profiles to be written
     locked  : SUBSET (Users \X Games),         \* rows of ownerships written
     marked  : BOOLEAN]                         \* the row of processed_events is written

NoTx ==
    [pc |-> "idle", event |-> NoEvent, attempt |-> 0,
     read |-> UnknownGame, base |-> UnknownGame, dirty |-> FALSE,
     batch |-> {}, todo |-> {}, current |-> {},
     loaded |-> [u \in Users |-> Blank], pbase |-> [u \in Users |-> Blank], changed |-> {},
     locked |-> {}, marked |-> FALSE]

Begun(e, attempt) == [NoTx EXCEPT !.pc = "seen", !.event = e, !.attempt = attempt]

Init ==
    /\ games = [g \in Games |-> UnknownGame]
    /\ prefs = [u \in Users |-> Blank]
    /\ ownership = [p \in Users \X Games |-> "none"]
    /\ processed = {}
    /\ tx = [w \in Workers |-> NoTx]
    /\ uncommitted \in Backlogs
    /\ rerouted = {}
    /\ mishaps = 0

-----------------------------------------------------------------------------
(* What the transaction of w is about.                                     *)

Event(w) == tx[w].event
Kind(w) == Body[Event(w)].type
Game(w) == Body[Event(w)].game
User(w) == Body[Event(w)].user
At(w, step) == tx[w].pc = step

Signal(w) == IF Kind(w) = "ReviewPosted" THEN ReviewKind(Body[Event(w)]) ELSE "PURCHASE"

NewGame(w) ==
    CASE Kind(w) = "GamePublished" ->
            IF Known(tx[w].read) THEN Redescribed(tx[w].read, Event(w)) ELSE Published(Event(w))
      [] Kind(w) = "GameWithdrawn"     -> Withdrawn(tx[w].read)
      [] Kind(w) = "PurchaseCompleted" -> Bought(tx[w].read)

NewPreference(w, u) == Observe(tx[w].loaded[u], Game(w), Signal(w))

\* A purchase of a game that was unknown when the transaction read it records an uncounted row.
Counted(w) == Kind(w) = "GamePublished" \/ Known(tx[w].read)

-----------------------------------------------------------------------------
(* Delivery.                                                               *)

Held(e) == \E w \in Workers : Event(w) = e

\* `async for message in consumer`, and the first attempt of _handle.
Deliver(w, e) ==
    /\ At(w, "idle")
    /\ e \in uncommitted
    /\ ~ Held(e)
    /\ Body[e].type \in TypesOf[w]
    /\ tx' = [tx EXCEPT ![w] = Begun(e, 1)]
    /\ UNCHANGED <<rows, uncommitted, rerouted, mishaps>>

\* The partition moves to another replica while the first is still handling its record.
Rebalance(w, e) ==
    /\ At(w, "idle")
    /\ e \in uncommitted
    /\ Held(e)
    /\ Body[e].type \in TypesOf[w]
    /\ mishaps < MaxMishaps
    /\ mishaps' = mishaps + 1
    /\ tx' = [tx EXCEPT ![w] = Begun(e, 1)]
    /\ UNCHANGED <<rows, uncommitted, rerouted>>

\* The process dies: Postgres rolls the transaction back, the offset stays where it was.
Crash(w) ==
    /\ ~ At(w, "idle")
    /\ mishaps < MaxMishaps
    /\ mishaps' = mishaps + 1
    /\ tx' = [tx EXCEPT ![w] = NoTx]
    /\ UNCHANGED <<rows, uncommitted, rerouted>>

\* The handler returned (or gave up): consumer.commit().
Ack(w) ==
    /\ At(w, "ack")
    /\ uncommitted' = uncommitted \ {Event(w)}
    /\ tx' = [tx EXCEPT ![w] = NoTx]
    /\ UNCHANGED <<rows, rerouted, mishaps>>

-----------------------------------------------------------------------------
(* Statements.                                                             *)

Env == <<uncommitted, rerouted, mishaps>>

\* _already_handled.
Seen(w) ==
    /\ At(w, "seen")
    /\ tx' = [tx EXCEPT ![w].pc = IF Event(w) \in processed THEN "ack" ELSE "game"]
    /\ UNCHANGED <<rows, Env>>

\* Mutant: a purchase of an unknown game is only marked.
GetGameForgettingPurchase(w) ==
    LET row == games[Game(w)]
        next == CASE Kind(w) = "GamePublished" -> "upsert_game"
                  [] ~ Known(row)              -> "mark"
                  [] Kind(w) = "GameWithdrawn" -> "upsert_game"
                  [] OTHER                     -> "pref"
    IN  /\ At(w, "game")
        /\ tx' = [tx EXCEPT ![w].read = row,
                            ![w].todo = IF next = "pref" THEN {User(w)} ELSE {},
                            ![w].pc   = next]
        /\ UNCHANGED <<rows, Env>>

\* uow.games.get, and what each use case does next.
GetGame(w) ==
    LET row == games[Game(w)]
        next == CASE Kind(w) = "GamePublished"     -> "upsert_game"
                  [] Kind(w) = "GameWithdrawn"     -> IF Known(row) THEN "upsert_game" ELSE "mark"
                  [] Kind(w) = "PurchaseCompleted" -> IF Known(row) THEN "pref" ELSE "record"
                  [] Kind(w) = "ReviewPosted"      -> IF Known(row) THEN "pref" ELSE "mark"
    IN  /\ At(w, "game")
        /\ tx' = [tx EXCEPT ![w].read = row,
                            ![w].todo = IF next = "pref" THEN {User(w)} ELSE {},
                            ![w].pc   = next]
        /\ UNCHANGED <<rows, Env>>

\* uow.games.upsert.
UpsertGame(w) ==
    /\ At(w, "upsert_game")
    /\ \E row \in Bases(games[Game(w)], tx[w].read, UnknownGame) :
          tx' = [tx EXCEPT ![w].base  = row,
                           ![w].dirty = TRUE,
                           ![w].pc    = IF Kind(w) = "GamePublished" THEN "owners" ELSE "mark"]
    /\ UNCHANGED <<rows, Env>>

\* ownerships.uncounted_owners.
UncountedOwners(w) ==
    LET waiting == {u \in Users : ownership[<<u, Game(w)>>] = "uncounted"}
    IN  /\ At(w, "owners")
        /\ \E batch \in BackfillBatches(waiting) :
              tx' = [tx EXCEPT ![w].batch = batch,
                               ![w].todo  = batch,
                               ![w].pc    = IF batch = {} THEN "mark" ELSE "pref"]
        /\ UNCHANGED <<rows, Env>>

\* preferences.get, for the next profile the signal is folded into.
GetPreference(w) ==
    /\ At(w, "pref")
    /\ \E u \in tx[w].todo :
          tx' = [tx EXCEPT ![w].current   = {u},
                           ![w].loaded[u] = prefs[u],
                           ![w].pc        = "upsert_pref"]
    /\ UNCHANGED <<rows, Env>>

\* preferences.upsert of that profile; its base row is found as in UpsertGame.
UpsertPreference(w) ==
    /\ At(w, "upsert_pref")
    /\ \E u \in tx[w].current : \E row \in Bases(prefs[u], tx[w].loaded[u], Blank) :
          tx' = [tx EXCEPT ![w].pbase[u] = row,
                           ![w].changed  = @ \cup {u},
                           ![w].current  = {},
                           ![w].todo     = @ \ {u},
                           ![w].pc =
                               IF tx[w].todo # {u} THEN "pref"
                               ELSE CASE Kind(w) = "GamePublished"     -> "mark_counted"
                                      [] Kind(w) = "PurchaseCompleted" -> "record"
                                      [] Kind(w) = "ReviewPosted"      -> "mark"]
    /\ UNCHANGED <<rows, Env>>

\* Rows of ownerships another transaction has written and not committed: the statement waits.
LockedByOthers(w) == UNION {tx[v].locked : v \in Workers \ {w}}

\* ownerships.record.
RecordOwnership(w) ==
    /\ At(w, "record")
    /\ <<User(w), Game(w)>> \notin LockedByOthers(w)
    /\ tx' = [tx EXCEPT ![w].locked = {<<User(w), Game(w)>>},
                        ![w].pc = IF Counted(w) THEN "upsert_game" ELSE "mark"]
    /\ UNCHANGED <<rows, Env>>

\* Mutant: the statement matches no row.
MarkCountedNobody(w) ==
    /\ At(w, "mark_counted")
    /\ tx' = [tx EXCEPT ![w].pc = "mark"]
    /\ UNCHANGED <<rows, Env>>

\* ownerships.mark_counted: one UPDATE, waiting for every row of the batch.
MarkCounted(w) ==
    LET batch == tx[w].batch \X {Game(w)}
    IN  /\ At(w, "mark_counted")
        /\ batch \cap LockedByOthers(w) = {}
        /\ tx' = [tx EXCEPT ![w].locked = batch, ![w].pc = "mark"]
        /\ UNCHANGED <<rows, Env>>

\* processed_events.mark: ON CONFLICT DO NOTHING waits for a transaction inserting the same key.
MarkProcessed(w) ==
    /\ At(w, "mark")
    /\ ~ \E v \in Workers \ {w} : tx[v].marked /\ Event(v) = Event(w)
    /\ tx' = [tx EXCEPT ![w].marked = TRUE, ![w].pc = "commit"]
    /\ UNCHANGED <<rows, Env>>

-----------------------------------------------------------------------------
(* uow.commit: the flush and the COMMIT.                                   *)

\* The session found no row, and now there is one: the INSERT fails.
DuplicateKey(w) ==
    \/ tx[w].dirty /\ ~ Known(tx[w].base) /\ Known(games[Game(w)])
    \/ \E u \in tx[w].changed : tx[w].pbase[u] = Blank /\ prefs[u] # Blank

Commit(w) ==
    /\ At(w, "commit")
    /\ ~ DuplicateKey(w)
    /\ games' = IF tx[w].dirty
                THEN [games EXCEPT ![Game(w)] = Flushed(NewGame(w), tx[w].base, @)]
                ELSE games
    /\ prefs' = [u \in Users |->
                    IF u \in tx[w].changed
                    THEN Flushed(NewPreference(w, u), tx[w].pbase[u], prefs[u])
                    ELSE prefs[u]]
    /\ ownership' = [p \in Users \X Games |->
                        IF p \in tx[w].locked THEN Recorded(ownership[p], Counted(w)) ELSE ownership[p]]
    /\ processed' = processed \cup {Event(w)}
    /\ tx' = [tx EXCEPT ![w] = [NoTx EXCEPT !.pc = "ack", !.event = Event(w)]]
    /\ UNCHANGED Env

\* Mutants: the failure is swallowed; or the same session commits again.
CommitFailureSwallowed(w) ==
    /\ At(w, "commit")
    /\ DuplicateKey(w)
    /\ tx' = [tx EXCEPT ![w] = [NoTx EXCEPT !.pc = "ack", !.event = Event(w)]]
    /\ UNCHANGED <<rows, Env>>
CommitRetriedStale(w) ==
    /\ At(w, "commit")
    /\ DuplicateKey(w)
    /\ IF tx[w].attempt < MaxRetries
       THEN /\ tx' = [tx EXCEPT ![w].attempt = @ + 1]
            /\ UNCHANGED rerouted
       ELSE /\ tx' = [tx EXCEPT ![w] = [NoTx EXCEPT !.pc = "ack", !.event = Event(w)]]
            /\ rerouted' = rerouted \cup {Event(w)}
    /\ UNCHANGED <<rows, uncommitted, mishaps>>

\* IntegrityError: the transaction is rolled back and _handle tries again, or gives the message up.
CommitFails(w) ==
    /\ At(w, "commit")
    /\ DuplicateKey(w)
    /\ IF tx[w].attempt < MaxRetries
       THEN /\ tx' = [tx EXCEPT ![w] = Begun(Event(w), tx[w].attempt + 1)]
            /\ UNCHANGED rerouted
       ELSE /\ tx' = [tx EXCEPT ![w] = [NoTx EXCEPT !.pc = "ack", !.event = Event(w)]]
            /\ rerouted' = rerouted \cup {Event(w)}
    /\ UNCHANGED <<rows, uncommitted, mishaps>>

-----------------------------------------------------------------------------

Statement(w) ==
    \/ Seen(w) \/ GetGame(w) \/ UpsertGame(w) \/ UncountedOwners(w)
    \/ GetPreference(w) \/ UpsertPreference(w)
    \/ RecordOwnership(w) \/ MarkCounted(w) \/ MarkProcessed(w)
    \/ Commit(w) \/ CommitFails(w) \/ Ack(w)

\* The topics are drained: every consumer waits.
Drained ==
    /\ uncommitted = {}
    /\ \A w \in Workers : At(w, "idle")
    /\ UNCHANGED vars

Next ==
    \/ \E w \in Workers :
          \/ \E e \in Events : Deliver(w, e) \/ Rebalance(w, e)
          \/ Statement(w)
          \/ Crash(w)
    \/ Drained

Spec == Init /\ [][Next]_vars

\* A task keeps running its handler, and a topic keeps handing out what is not committed.  Nothing
\* obliges a worker to die or a partition to move.
Fairness ==
    \A w \in Workers :
        /\ WF_vars(Statement(w))
        /\ WF_vars(\E e \in Events : Deliver(w, e))

FairSpec == Spec /\ Fairness

-----------------------------------------------------------------------------
(* Properties.                                                             *)

\* Rows and sessions have their types, and no merge of columns makes a history outgrow its cap.
TypeOK ==
    /\ games \in [Games -> GameProfile]
    /\ prefs \in [Users -> UserPreference]
    /\ \A u \in Users : Len(prefs[u].history) <= HistoryCap
    /\ ownership \in [Users \X Games -> OwnershipStates]
    /\ processed \subseteq Events
    /\ tx \in [Workers -> Transaction]
    /\ uncommitted \subseteq Events
    /\ rerouted \subseteq Events
    /\ mishaps \in 0 .. MaxMishaps

Credits(u, g) == prefs[u].taste[<<g, "PURCHASE">>]

\* No profile owns or is credited with a game whose row of ownerships is not flagged: the profile
\* and the flag are committed together by the handlers that write both, under every interleaving.
CreditImpliesCounted ==
    \A u \in Users, g \in Games :
        (g \in prefs[u].owned \/ Credits(u, g) > 0) => ownership[<<u, g>>] = "counted"

\* What no race can touch: whichever transactions overlap, are repeated or write old columns back,
\* the catalogue and the rows of ownerships are a function of the events processed so far, whatever
\* their order, and a flag or a credit is never ahead of them.  What a stale commit loses is credit.
TablesTellTheTruth ==
    /\ \A g \in Games : Known(games[g]) <=> PublicationsOf(g) \cap processed # {}
    /\ \A u \in Users, g \in Games :
          /\ ownership[<<u, g>>] # "none" <=> PurchasesBy(u, g) \cap processed # {}
          /\ ownership[<<u, g>>] = "counted" => Known(games[g])
    /\ CreditImpliesCounted

\* Offsets are committed only for events that took effect: a crash or a rebalance loses nothing
\* (subscriber.py:25-27), and two transactions inserting the same row fail one of them, but never
\* MaxRetries times over.  The exception is a publication: its backfill writes up to BackfillLimit
\* profiles, and can lose the race for another one in each attempt; then it is on the retry topic.
NothingSkipped ==
    [][\A e \in uncommitted \ uncommitted' :
          e \in processed' \/ (Body[e].type = "GamePublished" /\ e \in rerouted')]_vars

\* Every event of the backlog is processed in the end, though statements wait for each other's rows.
EverythingProcessed == <>[](processed \in Backlogs)

\* Something w read, to decide or to compare with, is no longer so when it commits: it is about to
\* act on the past.
Stale(w) ==
    \/ Event(w) \in processed
    \/ tx[w].read # games[Game(w)]
    \/ tx[w].dirty /\ tx[w].base # games[Game(w)]
    \/ \E u \in tx[w].changed : tx[w].loaded[u] # prefs[u] \/ tx[w].pbase[u] # prefs[u]
    \/ /\ Kind(w) = "GamePublished"
       /\ tx[w].batch \notin BackfillBatches({u \in Users : ownership[<<u, Game(w)>>] = "uncounted"})

StaleCommit(w) == At(w, "commit") /\ Stale(w) /\ Commit(w)

I == INSTANCE Ingest

\* The transactions implement the atomic handlers of Ingest, up to the commits that act on something
\* another transaction has changed since: only those, and no order of statements, crash, rollback or
\* redelivery, can leave the rows as no handler of ingest.py would.  With one worker nothing is ever
\* stale, and the implementation is exact.
ImplementsIngestUnlessStale ==
    I!Init /\ [][I!Next \/ \E w \in Workers : StaleCommit(w)]_(I!vars)

-----------------------------------------------------------------------------
(* What the documentation says and concurrent transactions do not keep.    *)

\* The owned set is the library the ranking excludes (profile.py:16-19): not after another handler
\* wrote back a profile it had read before the purchase.
CountedImpliesOwned ==
    \A u \in Users, g \in Games : ownership[<<u, g>>] = "counted" => g \in prefs[u].owned
=============================================================================
