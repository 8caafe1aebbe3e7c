# The recommendation service in TLA+

These modules specify `arcadia_recommendation`: how it learns from the topics
of three other services, embeds its catalogue, generates every user's list, and
tells Profile about it. TLC checks them on small instances, and TLAPS checks the
theorems of the modules named `...Proofs` for every value of the constants: types
the safety invariants and action properties of every passing run, and that the SQL transactions
and the sweeps implement what the atomic handlers do, which implement `Library`. Paths below are
relative to `src/src/arcadia_recommendation/` unless they start with `src/`.

## The system

| part | state | operations | interacts with |
|---|---|---|---|
| profiles (`domain/catalog`, `domain/preference`) | none: immutable values | `published`, `redescribed`, `embedded`, `bought`, `withdrawn`; `observe`, `rebuilt_in` | called by every use case |
| ingest (`application/usecases/ingest.py`, `presentation/consumers`) | `game_profiles`, `user_preferences`, `ownerships`, `processed_events` | four handlers, one transaction each | driven by the subscriber, at least once, in no order across topics |
| SQL persistence (`infrastructure/persistence/sql`) | the tables; sessions with an identity map | get, upsert, record, mark_counted, replace_for, commit | READ COMMITTED, row locks at flush, unique keys |
| embedding (`application/usecases/enrich.py`) | `game_profiles.dense` | read a batch, await the provider, write back | runs beside the handlers, at the start of every sweep |
| generation (`application/usecases/generate.py`, `infrastructure/scheduler.py`) | `recommendations`, the sweep's list of users | sweep, refresh one user, replace a list | one scheduler per replica; reads what ingest writes; writes the outbox |
| ranking (`domain/policy`) | none | score, filter, order, cut | called by generation, by the fallback and for similar games |
| outbox (`messaging/outbox`, `sql/outbox_store.py`, `kafka/producer.py`) | table `outbox`, claimed batches | claim with a lease, publish, record the outcome | one dispatcher per replica; the broker |
| subscriber (`kafka/subscriber.py`) | consumers, tasks, `_producer`; offsets in the broker | connect, poll, retry, reroute, commit the offset | the broker, the handlers |
| serving (`application/usecases/serve.py`, `response_cache.py`, `presentation/http/routers/recommendations.py`) | a cache entry per key | three reads: the caller's list, another user's list, similar games; a list falls back to top sellers | reads what generation and ingest wrote; Redis |
| a replica (`presentation/http/app.py`, `composition.py`, `sql/migrate.py`) | which components it has started; the schema's revision | start every component in order, serve, stop in reverse | Postgres, the broker, the other replicas' migrators |
| the rest: tokens, middleware, settings, logging, metrics | none that matters here | | |

What makes it hard:

* **Order.** A purchase and the description of the game it is about come on
  different topics. Whichever is handled first, the buyer must be credited, once.
* **Redelivery.** Offsets follow commits, so every crash or rebalance in between
  hands an event out again, possibly while its first delivery is still running.
* **Concurrency.** Topics are consumed by different tasks and replicas, each
  replica sweeps, and upserts write whole rows that were read earlier. Nothing
  locks a row before reading it.
* **Awaits.** The embedding provider, the explanation model and the broker are
  awaited between a read and the write that depends on it.
* **Starting and stopping.** Consumers run before the service is ready, replicas
  upgrade one schema at once, the broker may be away at boot, and a shutdown comes
  at any point.
* **Failure.** Commits fail on duplicate keys, providers fail, brokers go down,
  acknowledgements get lost, leases run out, connections break half way.

Correctness, part by part: tables that describe the same purchase agree, and no
event is counted twice or lost (ingest); no handler and no sweep puts a vector beside
words it was not computed from unless it races with another one for the row, every
published game gets a vector, and every remembered signal reaches the dense taste
with the one its row has (embedding); a list in the table is whole, is
the one announced, and catches up with the library (generation); an event
committed is published or dead-lettered, and neither sent twice nor overtaken
without a cause (outbox); an offset is committed only past settled messages, in order
(subscriber); a replica that serves has its schema and its consumers, and one that
stopped left nothing running but what a cancelled connect held alone (lifecycle); an answer fits the question, and stale ones do not stay (serving).
`PROJECT.json` lists each hazard at its line with the properties
aimed at it.

## Modules

| module | models | rests on |
|---|---|---|
| `ReadModel` | the operators of `GameProfile` and `UserPreference`, `record` of ownerships, the batch of the backfill | |
| `Library` | abstract: facts arrive in any order, a buyer is credited as soon as both have | |
| `Ingest` | the four handlers as atomic units of work (the in-memory store, or one consumer) | `ReadModel`, implements `Library` |
| `IngestSql` | the same handlers statement by statement over SQLAlchemy sessions | `ReadModel`, implements `Ingest` but for stale commits |
| `EmbedPending` | the embedding step of the sweeps and the dense tastes beside the handlers | `Ingest` |
| `Generation` | sweeps and refreshes that replace lists, beside purchases and edits | |
| `Outbox` | table, leases, dispatchers, broker | |
| `Consumer` | the subscriber on one partition | |
| `Replica` | `_lifespan` of every replica: migrator, publisher, subscriber, dispatcher, around the tasks of `Consumer` | `Consumer` |
| `Scoring` | the ranking policy as operators, and `co_purchases` of both repositories | |
| `Serving` | the three read routes and the response cache, beside purchases, reviews, edits and generations | `Scoring` |

Each `MC...` module gives the constants of its component small values, and each
`...Proofs` module (`IngestProofs`, `IngestSqlProofs`, `EmbedPendingProofs`,
`GenerationProofs`, `OutboxProofs`, `ConsumerProofs`, `ReplicaProofs`, `ServingProofs`)
extends the component it is named after with its theorems.

**ReadModel.** A game row keeps whether it is published, its description (the
event that carried its words and labels), the description its dense vector was
computed from, and `purchase_count`. A vector is that description and nothing
more, because no property depends on coordinates. A preference keeps the number
of signals of each game and kind that its taste is the sum of, the owned set,
and the capped history. `Observe`, `Redescribed`, `Withdrawn` and the others are
the methods of the same name.

**Ingest.** Variables are the four tables. An action is a handler with its
commit: `Handle(e)` does nothing for a processed event and otherwise one of
`HandleGamePublished`, `HandleGameWithdrawn`, `HandlePurchaseCompleted`,
`HandleReviewPosted`. Events are handed out any number of times in any order.
`IdempotentHandler` (`messaging/bus/idempotent.py`), which wraps the handlers, asks
the same table the same question before and marks it again after the transaction;
the check inside the transaction decides whenever the two could differ, so only
that one is modelled.

**IngestSql.** `tx[w]` is the transaction of a consumer task: its program
counter, what it has read, the writes its session holds back (`autoflush=False`),
the ownership rows it has locked. Each statement is an action; writes of profiles
become visible at the flush in `Commit`, column by column (`Flushed`), compared
with the row the identity map happens to hold (`Bases`: the map is weak, so the row
may have been read again). Inserting a row that somebody else has inserted makes the
commit fail (`CommitFails`), and the subscriber tries the handler again and reroutes the message after `MaxRetries`. `Crash` ends a
transaction, `Rebalance` hands the event to a second task while the first goes on.
`ImplementsIngestUnlessStale` says what READ COMMITTED costs: every step is one of
`Ingest` or a stutter, except a commit whose transaction had read something, to decide
or for the flush to compare with, that another one has changed since (`Stale`). That
exception is the whole of the difference: the double count, the lost library and the stranded owner are all stale
commits, and no crash, rollback, redelivery or wait for a lock is.

**EmbedPending.** The SQL backend. A row of `game_profiles` is read, selected again by
`upsert`, and flushed at commit, where only the columns that differ from what `upsert`
selected are written (`Bases`, `Flushed`, shared with `IngestSql`). A handler does so in
`GetGame`, `UpsertGame` and `CommitHandler`, a sweep in `ReadPending`, `UpsertEmbedded` and
`WriteBack`, and they interleave; the provider is awaited between the first two steps
of a sweep. `games` is what the open handler has read of the table, so that the handlers
of `Ingest` are used as they are. `SweepFails` and `HandlerFails` drop a transaction. One
handler is open at a time, because handlers beside each other are the subject of
`IngestSql`. In the in-memory store, which writes rows whole and in one step, a write-back
is the case in which all of them are selected and flushed together.

A republication that read the row before a write-back committed, and flushes after it,
leaves the new words beside the vector of the old ones: its NULL over the NULL it read is
no change. A write-back whose `upsert` selected the row before the republication committed
leaves the same row. It does not count as needing a vector, and stays as it is until the game
is published again. `OnlyRacesMisplaceVectors` says that nothing else misplaces a vector,
and names the race (`ActsOnStaleText`); `EmbeddedAndFolded` is accordingly about the vector
the row has, not about that of its words.

`taste_dense[u]` is a bag of weighed vectors: `CommitHandler` folds a signal with the vector
its game had when the handler read it, or with none (`Plus`), and `Rebuild` recomputes the
bag from the history, which is what the generation does in the dense space before it
ranks. `Rebuild` is one step: the transaction of a generation is in `Generation`.

**Generation.** `gen[s]` is the transaction of the sweep `s`: what it read, its
picks, and the two halves of `replace_for` under READ COMMITTED: `FindRows`
takes the statement's snapshot, `LockRows` waits for whoever is deleting the same
rows, `Commit` inserts. A stored row remembers the list it was written with, so
that a property can ask for the rest of it. The score is a constant operator
`Blend`; filter, order and cut are those of `HybridRanker`.

**Outbox.** A row is what `OutboxRow` holds, time reduced to whether
`next_attempt_at` lies ahead. A dispatcher holds copies of the rows it claimed and
settles them one after the other with absolute values, as the code does. History
variables `mishaps`, `tries` and `abandoned` say what went wrong with a record so far
(`abandoned`: it was in a batch that its replica left behind), and
`enqueued` in which order the rows were committed. The records of an instance are
events of one user, so all have the same partition key.

**Consumer.** A consumer is a process and the round of `_connect` that started
it, because a round that fails at a later topic leaves its consumers running.
`link[p]` is how far `_connect` has come: its producer is started (`StartProducer`), the
consumer joins its group inside the awaited `start()` (`JoinGroup`) and is recorded,
with its task, only when that returns (`RecordConsumer`). Tasks run from then on,
and only `SetProducer`, after the last topic, gives `_reroute` something to send
with; a message given up in between is `dropped`. A partition may be given to a
consumer that is still joining, which reads nothing yet. `ConnectBreaks` is a round that
raises before this topic or at a later one; `consumer.start()` that raises is taken to
have left no member in the group.
`TaskStep` is the body of `_run`; `BrokerRaises` and malformed bytes end a task,
which nobody awaits. Handlers take effect as a whole, which is what `IngestSql` is
about.

**Replica.** `phase[p]` and `at[p]` are the program counter of `_lifespan`: the
components are started in the order of `Lifecycle`, each `start()` awaited, and
stopped in reverse. The migrator reads the revision, runs the missing migrations in
one transaction and swallows what goes wrong (`UpgradeFails`); a publisher or a
subscriber that finds no broker starts all the same, the one to connect at the next
`publish` (`PublishConnects`), the other to retry in the background (`"subscriber"`
in `running[p]`). Connecting and the tasks are the actions of `Consumer`, here under
conditions: the broker answers (`up`), and a handler finds its tables
(`SchemaMissing` otherwise). A failed task ends the shutdown half way
(`StopBreaksOff`), as awaiting it raises.

A shutdown may cancel a `_retry_connect` anywhere in `_connect`. `CancelledError` is not an
`Exception` (`subscriber.py:87`), so the producer of that round is stopped by nobody
(`strays`), and neither is a consumer whose `start()` was awaited: `StopSubscriber` makes
only the consumers leave that are in `_consumers` (`Recorded`). The stray consumer may be
given the partition and keeps it unread until the process ends (`Exit`, phase `"gone"`).
Two simplifications: a producer counts as started as soon as its `start()` is under way, and
as stopped as soon as a round has raised, though its `stop()` is awaited as well.
`consumer.start()` waits for its group: when the broker goes away while a consumer joins,
`_connect` waits with it, and so does a `start()` of the subscriber that called it
(`SubscriberConnects` needs `up` to join and to return).

The scheduler and the gauge, which start
after the dispatcher and stop before it in the same way, are left out.

`migrate.py` says of a failed or disabled upgrade that it shows as `/readyz` 503. The
probe is `SELECT 1` (`sql/engine.py:34-36`), which needs no table; `src/README.md`
says as much ("reports healthy while every query against the new columns errors").
That is why `RacingUpgradesAreHarmless` is conditioned on `botched`, and why nothing
in the model stops a consumer on a schema that is behind.

**Scoring.** A game is the set of its labels, a taste the weight of each label (in
tenths: 10, 5, -3). `Content` is the cosine as a whole percent, rounded up so that it
is 0 exactly where the code's is; `Collaborative` is `count / (count + 5)`. `Ranked`,
`TopSellers`, `Similar` and `Recommendable` order and cut with `Top`.
`NeighboursInMemory` is the loop of the in-memory repository, the reference that
`Neighbours`, the self-join, is compared with.

**Serving.** `request[c]` is a request on its way: `MyRecommendations` and
`SimilarGames` start at the cache, `RecommendationsFor` at the list. The stored
list, the profile and the candidates are statements of their own (`ReadList`,
`ReadPreference`, `ReadCandidates`). A Redis that cannot be read means no
write either (`CacheReadFails`), one that cannot be written keeps the answer
(`CacheWriteFails`); nothing invalidates an entry but `Expire`. Purchases and
generations take effect as a whole, and `rows` is at once the table, the owned sets
and the counts.

## Runs

| run | question | instance |
|---|---|---|
| `ingest` | do the atomic handlers keep the tables in agreement in any order, and implement `Library`? | 2 users, 2 games, publications, a republication, a withdrawal, purchases, a review; history of 2, batch of 2 |
| `ingest_sql_replicas` | what survives every interleaving, and which commits leave the path of the atomic handlers? | 3 tasks (one of another replica), 2 users, 1 game; 4 events: a publication, a like, and the purchases of both users, or a withdrawal and one purchase; 1 crash or rebalance |
| `embed_pending` | when can a vector be beside other words than its own; is every published game embedded, and every signal folded? | 2 sweeps, 2 games, batch of 1, history of 2; 5 events: a publication, a republication and a withdrawal of one game, a purchase of it, a publication of the other |
| `generation` | are lists whole, announced, and up to date in the end? | 2 sweeps, 1 user, 3 games, lists of 2, 1 edit, 1 failure |
| `outbox` | is every committed event settled, and duplicated or overtaken only for a cause? | 2 dispatchers, 2 rows, one of them poison, 3 attempts, 2 mishaps per row, 1 outage |
| `consumer` | are offsets honest, and does a failing handler block anybody? | 2 replicas, one of them with 2 rounds of connecting, 2 messages (the first of any kind), 2 attempts, 2 troubles |
| `replica` | do replicas start, subscribe and stop cleanly, whatever is not ready? | 2 replicas, 2 rounds each, one of them mortal, 1 message, 2 attempts, 1 trouble; schema behind or at head, broker up or down |
| `serving` | do answers fit what was asked, whatever is cached; when is the fallback empty; do answers catch up? | 1 request at a time, 2 users, 3 games, limits 1 and 2, 2 changes, a fallback that reads twice the limit, a catalogue scan of 2 |

Why these bounds are enough to be interesting: two of each actor is what a race
needs; the backfill meets a waiting owner, a counted one and a newcomer in one
batch with two users; a history of two overflows at the third signal; three
attempts let a stale copy be two attempts behind the row; a batch of one makes a
sweep come back for the second game. The properties count nothing that a third
replica would change in kind. The events of `ingest_sql_replicas` all
touch a common row. In `replica` one trouble is one of: an upgrade that fails by itself,
a crash, an outage, a rebalance, a broker call or a handler that raises; with two
attempts a handler that raises once is tried again, so that only a missing schema can
use up the attempts of a fine message. The largest runs (`outbox`, `consumer`,
`replica`) have 750,000 to 850,000 distinct states. Requests of `serving` meet through the cache alone, so one after the other
is enough for an entry to be written under one limit and read under another, or
written after a change; with a factor of 2 in place of 4 a user can own all the
games that a fallback looks at.

Four runs state what a comment says and the code does not keep; each ends in a
counterexample.

| run | the claim | what happens |
|---|---|---|
| `sql_lost_library` | the owned set keeps owned games out of the ranking (`domain/preference/profile.py:16-19`) | a review that read the profile before a purchase commits after it and writes the old owned set back |
| `embed_resurrects` | a withdrawn game stops being recommendable (`domain/catalog/game_profile.py:98`) | a vector computed meanwhile is written back with the row as it was read, published |
| `outbox_reordered` | the lists of one user are mutually ordered on the topic (`messaging/serialization.py:61-65`, `kafka/producer.py:20-21`) | the publish of a list raises and backs off, the next list passes it and is followed by the older one |
| `generation_merged` | N replicas sweeping cost CPU, never a wrong answer (`infrastructure/scheduler.py:14-16`) | the DELETE that waited does not see the rival's new rows, and both lists remain |

Five more disagreements have no run of their own. They are part of the model, and the
properties are stated so as to say what is kept instead.

* `messaging/outbox/dispatcher.py:20-21` has records stay pending while the publisher is down and
  drain on recovery, but every poll during an outage is an attempt (`PublishFails`, `Exhausted`),
  so that an outage of about eight seconds dead-letters a record for good.
  `DeadOnlyAfterMaxAttempts` counts those attempts, and `EverySettled` a dead record as settled.
* `application/usecases/serve.py:28-30`: "this endpoint has no failure mode that returns nothing".
  The fallback takes the `4 * limit` best sellers and then removes the owned ones, so that a
  user who owns all of them is answered with an empty list. `NeverEmptyHanded` states when
  exactly that happens.
* `domain/catalog/game_profile.py:76-78`: clearing the vector keeps a game from being "ranked
  forever by a description nobody can read any more". The race described under `EmbedPending`
  leaves a game so until it is published again (`OnlyRacesMisplaceVectors`).
* `kafka/subscriber.py:29-30`: a failing message goes "to `<topic>.retry` and finally to
  `<topic>.dlq`". While `_connect` is on its way, or after it broke, `_reroute` finds no producer
  and drops the message. `CommittedIsSettled` counts it as settled, in `dropped`.
* `stop()` of the subscriber logs `kafka_consumers_stopped` (`subscriber.py:65`), and in the middle of
  a connect leaves a producer and possibly a consumer (`StoppedLeavesOnlyStrays`).

Every property of a passing run has a mutant: a definition altered the way a
plausible bug would, written beside the original and marked `Mutant`, under which
the property fails.

## Fairness

* `Ingest`, `IngestSql`: consumer tasks loop for ever (`subscriber.py:107-110`), so
  an event that is not processed is delivered again and a statement that can run
  runs. The events of an instance are all published; dying and rebalancing are not
  obliged to happen.
* `EmbedPending`: a record whose handler failed is handed over again, and in the end one
  transaction of it commits.
* `EmbedPending`, `Generation`: `GenerationScheduler._run` catches whatever a sweep
  raises and goes on (`scheduler.py:53-71`). The provider must answer again and
  again if it is asked again and again; it may fail any number of times. Each sweep
  generates for every user (`Rebuild`), as long as a batch takes them all.
  Purchases, edits, failures and refreshes by an operator have no fairness.
* `Replica`: `_lifespan` goes on, and so does `_connect` (at boot, then from
  `_retry_connect`, `subscriber.py:94-101`) while the broker answers. The broker need not
  come back (so a `start()` whose consumer was joining may wait for ever, which
  `StartsAndSubscribes` excepts), no message need be handled, nobody has to shut a replica down.
* `Outbox`: dispatchers poll (`dispatcher.py:90-98`), leases and backoffs run out,
  outages end.
* `Serving`: a request under way goes on, sweeps come back to every user
  (`WF_vars(Generate(u))`, written with its `ENABLED` spelled out because TLC evaluates
  a ranking inside `ENABLED` very slowly), and every entry has a TTL. Nobody has to ask.
* `Consumer`: tasks go on and `_retry_connect` keeps trying. `FailingNeverBlocks`
  assumes that no task ended: malformed bytes and a broker error in
  `consumer.commit()` do end one, and its partition then stands still.

`ListsCatchUp` is checked with one of the two sweeps in the dense space. Two of
them can write stale libraries back for each other for ever, and it fails.

## Proofs

Each table names the properties of a component that are theorems, for any users, games,
events, tasks, replicas and bounds that satisfy the named `ASSUME`s. Every theorem of a
state or action property has one inductive invariant behind it, one lemma per action (or per
group of actions that touch the same part), and a last step in temporal logic. The
invariants were checked by TLC on the instances of the runs before they were proved.

**IngestProofs.** For any history cap and any batch size:

| theorem | says |
|---|---|
| `TypeCorrect` | types, and the history within its cap |
| `CreditsAgree` | counted flag, purchase credit and owned set agree |
| `NoDoubleCredit` | no purchase is credited twice, whatever is redelivered |
| `NoOverstatedCount` | `purchase_count` counts no more than was processed |
| `NeverUnlearns` | no step lowers a count or a flag, or shrinks a library or a taste |
| `NobodyStranded`, `PurchasesTakeEffect` | with a batch no smaller than the number of users, nobody waits for a known game |
| `Refinement` | then `Ingest` implements `Library` |

The invariants are not inductive alone. That a credit is backed by a purchase needs
to know that a row of `ownerships` exists exactly if a purchase of the pair was
processed (`OwnershipMatchesPurchases`), because the backfill credits by the row
and not by the event; that in turn needs rows of unknown games to be blank
(`UnknownRowsBlank`). `IInv` is the conjunction. The lemmas named `...Effect` say what
a handler does to any user and game, so that no invariant opens a handler itself.
`EnoughBackfill` is a hypothesis of the three theorems that need it: with the code's
limit of 500 and more owners waiting they are false until the next publication.

**IngestSqlProofs.**

| theorem | says |
|---|---|
| `TypeCorrect` | types, and the history of every written profile within its cap |
| `TablesAreTrue` | `TablesTellTheTruth`, in every interleaving: a game is known, and a row of `ownerships` there, exactly if an event that took effect says so; owned sets and credits are flagged |
| `RowsOnlyGrow` | no commit, however stale, unlearns a game, deletes a row, clears a flag or forgets an event |
| `StaleByClashOnly` | what an open transaction has read becomes outdated only by a commit for the same game, or one that writes a profile it has loaded or changed too |
| `NothingIsSkipped` | `NothingSkipped`, if there is more than one attempt |
| `Refinement` | `ImplementsIngestUnlessStale`: every step but a stale commit is one of `Ingest` or a stutter |
| `OneTaskIsExact` | one task: `IngestSql` implements `Ingest`, without exception |
| `OneTaskGivesNothingUp` | one task: no message is rerouted |
| `OneTaskKeepsTheBooks` | one task: the tables have the credits and counts that `IngestProofs` gives the atomic handlers |
| `OneTaskIsALibrary` | one task, and a backfill that covers every user: `IngestSql` implements `Library`, and nobody is stranded |

`SqlInv` says of the session of every task what it has written at each of its statements
(`InStep`: dirty rows, changed profiles and locked rows are those of the handler at that
point), that what it read was once so (`ReadEarlier`: games stay known, profiles stay
begun, a flag that was seen is still set), and, for `NothingIsSkipped`, that a second attempt
finds the row that the first one collided with (`SecondAttempt`). That argument needs one
profile per event, and a publication writes many. The refinement is the longest proof:
a commit that is not stale is shown to write what `Observe`, `Bought` and the rest
compute from the current rows, column by column (`FlushedGame`, `FlushedPreference`), and to
be the handler of its event (`FreshCommitRefines`).

`TruthInv` is what holds however transactions race: a processed event has left its row and every row
has its event (`RowsOfProcessed`), because a commit that inserts rows marks its event in the same
transaction, and a publication credits only owners that have a row (`BatchOwns`), because no
commit takes one away. `StaleByClashOnly` locates the rest: a transaction is made stale by another
one's commit only if the two `Clash`. With a single task nobody else commits; `UpToDate` then says,
statement by statement, that what a session has read, to decide or for the flush to compare
with, is what the tables hold, so that no commit is stale and none fails. The theorems of
`IngestProofs` are not proved again: `P == INSTANCE IngestProofs` makes them theorems about the
tables of `IngestSql`, once its assumptions are discharged (`SameAssumptions`) and `SameSpec` has
matched the definitions of the two. With two tasks they are false, as `sql_lost_library` shows.

**EmbedPendingProofs** (rests on `IngestProofs`).

| theorem | says |
|---|---|
| `TypeCorrectBesideSweeps` | `EmbedTypeOK`, the bags of dense tastes included |
| `VectorsMisplacedByRacesOnly` | `OnlyRacesMisplaceVectors`, an action property: a vector is beside words it was not computed from only after a commit that acted on words, or on a vector, replaced in the meantime |
| `SweepsKeepTheBooks` | credits agree, none is given twice, and no count in the table is overstated, beside any number of sweeps |
| `SweepsAreInvisible` | with a backfill that covers every user: the handlers beside the sweeps implement `Library`, and nobody is stranded |

`EmbedInv` types what every transaction holds: a sweep the rows as it read them, of published games
without a vector, and those its upserts selected (`HeldRows`), a handler its game and the row its
upsert selected (`BaseRow`). `VectorsMisplacedByRacesOnly` then is a matter of single commits: if
what a transaction read and what its upsert selected have the words and the vector the row has now,
the flush makes the row what the transaction meant it to be, column by column, and that has a vector
of its own words or none. A write-back can bring back what a stale row said of publication and count;
that is how it resurrects a withdrawn game. What it cannot break is in `SweepInv`: the counts in the
table (`TableBacked`), and in the rows that sweeps hold (`HeldBacked`), are backed by purchases, the table
knows the games the handlers know, and those that sweeps hold among them, so that the steps of `Library`,
whose known games are those of the table, see no difference. A bag's size is a fold over its domain, and a fold cannot be
unfolded by the provers; `SumOfBag` shows by least counterexample that any function that adds up
copies one by one gives the size, and `OneMore` what adding a vector does to it. A bag never
has more copies than there are signals (`DenseTaste`), which is what types it.

**GenerationProofs.**

| theorem | says |
|---|---|
| `TypeCorrect` | tables, sessions and batches within their limits; a ranking returns at most `Limit` games |
| `NoHalfList` | `NoHalfReplacedList`: of every stored list each row is there |
| `NoFalseAnnouncement` | `AnnouncedIsStored`, an action property |

`RanksDiffer` and `RankedFits` show that ranks by counting the better games are distinct, so that
the cut keeps `Limit` of them. What makes `NoHalfReplacedList` inductive is `SessionInv`:
the rows that a `DELETE` is waiting for (`targets`), and those it has locked, are whole lists
too, and sets of whole lists are closed under union and difference (`WholeSets`).

**OutboxProofs.**

| theorem | says |
|---|---|
| `TypeCorrect` | a batch holds stored rows, each once, `BatchSize` of them at most |
| `NoEventLost` | `PublishedWasSent` |
| `NotGivenUpEarly` | `DeadOnlyAfterMaxAttempts` |
| `NoUncausedDuplicate` | `DuplicatesHaveACause` |
| `NoUncausedOvertaking` | `OvertakenForACause`, an action property |

`Accounted` counts, for each row, the copies on the topic, the replicas that may yet send it
and the claim that is still free: together one more than its mishaps at most. `HeldInOrder`
says of a row to which nothing has happened (`Untroubled`) that it waits only while a replica
has it, and that whoever holds a later row of the user claimed it with this one or found it
claimed.

**ConsumerProofs** and **ReplicaProofs.** `ConsumerInv` adds to the types that a task settled
everything before its position, also one that is yet to be created for a consumer that joins,
and before the message in its hands (`Settles`), and that the consumer a round awaits is the one
that is joining (`JoiningAwaited`). That gives `NoMessageSkipped` (`CommittedIsSettled`) and
`EffectsInOrder` (`InPartitionOrder`). The steps of `Replica` that are steps of `Consumer` under a
condition reuse its lemmas; `TurnOf` ties what runs to the place in the lifecycle, and gives
`ReplicaTypeCorrect`. `OnlyStraysLeft` (`StoppedLeavesOnlyStrays`) needs three things more of every
replica: a consumer that is joining is the one its `_connect` awaits (`JoinsNow`), a subscriber that
stopped has left behind at most that one, together with a stray producer (`LeftBehind`), and one that has
not been started, or whose process has ended, is not in the group (`Gone`). What one replica does leaves
the connects of the others as they are (`Untouched`). `RacesAreHarmless` (`RacingUpgradesAreHarmless`) assumes
`MaxTrouble < MaxRetries`: every attempt that fails for a message a handler could handle is one of
the troubles that the instance allows, and with as many of them as attempts a fine message may
be rerouted, schema or no schema.

**ServingProofs.**

| theorem | says |
|---|---|
| `TypeCorrect` | lists name nothing twice and keep to their length, entries to the limit of their key |
| `EveryAnswerFits` | `AnswersFit` |
| `ListsAreTheBest` | what a sweep stores is the best there was to offer, best first, with no better game left out; no other step touches a list |
| `SameNeighbours` | `StoresAgree`: for any tables, self-join and loop count the same neighbours |
| `NothingOnlyForOwners` | `NeverEmptyHanded`, an action property |

`TopIsFirst` shows of any strict total order (`Orders`) that `Top` returns as many elements as
there are, up to the limit, each once; popularity, scores and cosines are shown to be
such orders (`PopularityOrders`, `ScoreOrders`, and `NearnessOrders`, which compares fractions).
`ServingInv` follows an answer from the tables into an entry of the cache and out of it again
under the same key. All of this needs scores to be numbers, and a cosine in the model is a number
only because a dot product is bounded by the magnitudes: `CosinesAreWhole` derives it from
`CauchySchwarz`. Sums over sets are folds, too, and are treated the way bags are: `AddsUp` says
of a function of subsets that it adds one element at a time, `SumOnSet` that it is then the sum, and
`SumExists` that there is one.

What the proof attempts found:

* `OvertakenForACause` was false with a third row: a batch that is abandoned leaves the rows
  behind the current one leased too. The history variable `abandoned` names that cause.
* `Stale` had missed that the flush compares a written row with the one in the identity map,
  which may be neither the one loaded nor the one in the table: the columns that agree by
  accident are not written, and the row becomes a mixture. Four reviews and three tasks show it;
  such a commit counts as stale now.
* `NothingSkipped` was false for publications with three users: each attempt of the backfill
  can collide with the first profile of another user, and after `MaxRetries` collisions the
  publication is on the retry topic, which nobody reads. It is excepted for publications;
  `EverythingProcessed` holds on the instance of its run, where there are fewer users than that takes.

Assumed of the constants, each in the module that declares them: finite sets of users, events, games and
dispatchers; positive caps, batch sizes and attempts; well-formed events; games and records ordered as
numbers; `Nobody` is no consumer.

Every invariant and action property of a passing run is stated by a theorem. Only model-checked:
the eight liveness properties (`EverythingProcessed`, `PurchaseEventuallyOwned`,
`EmbeddedAndFolded`, `ListsCatchUp`, `EverySettled`, `FailingNeverBlocks`, `StartsAndSubscribes`,
`AnswersCatchUp`), because fairness and `ENABLED` are out of the provers' reach. The four violation runs
are counterexamples of an instance, and need no proof.

## Not modelled

* Ranking in the dense space: `nearest_to` is one query, and coordinates are not
  modelled. What a dense taste is the sum of is (`EmbedPending`). In `Serving` unknown
  games (404) and the reasons, titles and scores of answers.
* Tokens, middleware, DTOs, logging, metrics, settings: no state the properties speak
  of. The probes read the state of `Replica` and change nothing.
* What a migration does: the schema is behind or at its head. A first upgrade on a
  database without `pgvector` is an upgrade that fails by itself.
* The in-process bus: a stand-in without offsets or retries.
* The explanation model: its answer changes the wording of reasons; generation
  awaits it, and that await is there. An answer whose content is null raises out of
  `explain` (`json.loads(None)` is a `TypeError`, `_parse` catches `ValueError`), which is
  a `GenerationFails`, where the docstring has every failure return an empty mapping.
* `.retry` and `.dlq` topics have no consumer (`presentation/consumers/registry.py`),
  so a rerouted message ends there.
* Which users a sweep takes when a batch does not hold them all (`with_signals`, by
  `updated_at`): any of them, so nothing is said of users beyond one batch.
* Clocks: only whether an instant has passed.

## Plan

Done: all modules, all runs and the theorems above. Of what the runs check only liveness is left
without a proof, and stays so. What would say more about the system from here:

1. Two tasks without a clash: `StaleByClashOnly` bounds where the tables may leave `Ingest`; an
   invariant for several tasks under the hypothesis that no two open transactions clash would
   carry `OneTaskKeepsTheBooks` over to any number of replicas with disjoint users and games.
2. Which users a sweep takes when there are more than fit into its batch (`with_signals`), for
   which `updated_at` would have to be modelled.
