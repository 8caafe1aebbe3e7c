------------------------------- MODULE Replica -------------------------------
(***************************************************************************)
(* The life of every replica of the service: _lifespan (http/app.py)       *)
(* starts the components that composition.py lists, one after the other,   *)
(* serves, and stops them in reverse.  The migrator, the event publisher   *)
(* and the subscriber depend on Postgres and on the broker, and on each    *)
(* other's having been started; the tasks of the subscriber, those of      *)
(* Consumer, run from the middle of the start to the middle of the stop.   *)
(* RUN_MIGRATIONS is on, and both backends are real.  The scheduler and    *)
(* the gauge, two more loops after the dispatcher, start and stop as it    *)
(* does and depend on nothing that starts before them.                     *)
(***************************************************************************)
EXTENDS Consumer, Sequences

CONSTANT
    Mortal          \* bound: the replicas that crash or are stopped

ASSUME MortalAssumption == Mortal \subseteq Processes

VARIABLES
    schema,         \* the schema in Postgres: "behind" the code, or at its "head"
    up,             \* the broker answers
    phase,          \* phase[p]: where _lifespan is
    at,             \* at[p]: the index of the component it starts or stops
    running,        \* running[p]: components with a connection or a task; of the subscriber, only
                    \* its _retry_connect
    strays,         \* replicas with a producer that an interrupted _connect left
    upgrading,      \* replicas with an upgrade begun
    botched         \* replicas whose upgrade ever failed though no other had done it

lvars == <<schema, up, phase, at, running, strays, upgrading, botched>>
rvars == <<vars, lvars>>

\* Mutant: the dispatcher before what it publishes through.
LifecycleDispatcherFirst ==
    <<"migrator", "dispatcher", "publisher", "subscriber">>

\* In the order in which composition.py appends them.
Lifecycle == <<"migrator", "publisher", "subscriber", "dispatcher">>

Components == {Lifecycle[i] : i \in DOMAIN Lifecycle}
Phases == {"down", "starting", "serving", "stopping", "stopped", "aborted", "gone"}

ReplicaInit ==
    /\ Init
    /\ schema \in {"behind", "head"}
    /\ up \in BOOLEAN
    /\ phase = [p \in Processes |-> "down"]
    /\ at = [p \in Processes |-> 1]
    /\ running = [p \in Processes |-> {}]
    /\ strays = {}
    /\ upgrading = {}
    /\ botched = {}

Starting(p, component) == phase[p] = "starting" /\ Lifecycle[at[p]] = component
Stopping(p, component) == phase[p] = "stopping" /\ Lifecycle[at[p]] = component

\* start() of the component returned; the last one lets the application serve.
Started(p) ==
    IF at[p] = Len(Lifecycle)
    THEN phase' = [phase EXCEPT ![p] = "serving"] /\ UNCHANGED at
    ELSE at' = [at EXCEPT ![p] = @ + 1] /\ UNCHANGED phase

\* stop() of the component returned.
Stopped(p) ==
    IF at[p] = 1
    THEN phase' = [phase EXCEPT ![p] = "stopped"] /\ UNCHANGED at
    ELSE at' = [at EXCEPT ![p] = @ - 1] /\ UNCHANGED phase

Runs(p, component) == running' = [running EXCEPT ![p] = @ \cup {component}]
Ends(p, component) == running' = [running EXCEPT ![p] = @ \ {component}]

\* _lifespan, up to the first component.
Boot(p) ==
    /\ phase[p] = "down"
    /\ phase' = [phase EXCEPT ![p] = "starting"]
    /\ at' = [at EXCEPT ![p] = 1]
    /\ UNCHANGED <<vars, schema, up, running, strays, upgrading, botched>>

-----------------------------------------------------------------------------
(* SchemaMigrator.  Alembic reads the revision and runs what is missing in *)
(* one transaction of DDL; another replica's waits for its locks, and      *)
(* fails when it commits.                                                  *)

\* Mutant: the upgrade is left to a task of its own.
BeginUpgradeInBackground(p) ==
    /\ Starting(p, "migrator")
    /\ schema = "behind"
    /\ p \notin upgrading
    /\ upgrading' = upgrading \cup {p}
    /\ Started(p)
    /\ UNCHANGED <<vars, schema, up, running, strays, botched>>

BeginUpgrade(p) ==
    /\ Starting(p, "migrator")
    /\ schema = "behind"
    /\ p \notin upgrading
    /\ upgrading' = upgrading \cup {p}
    /\ UNCHANGED <<vars, schema, up, phase, at, running, strays, botched>>

AtHeadAlready(p) ==
    /\ Starting(p, "migrator")
    /\ schema = "head"
    /\ p \notin upgrading
    /\ Started(p)
    /\ UNCHANGED <<vars, schema, up, running, strays, upgrading, botched>>

CommitUpgrade(p) ==
    /\ p \in upgrading
    /\ schema = "behind"
    /\ schema' = "head"
    /\ upgrading' = upgrading \ {p}
    /\ Started(p)
    /\ UNCHANGED <<vars, up, running, strays, botched>>

\* The failure is logged, and the service starts.
UpgradeFails(p) ==
    /\ p \in upgrading
    /\ IF schema = "head"
       THEN UNCHANGED <<trouble, botched>>
       ELSE Troubled /\ botched' = botched \cup {p}
    /\ upgrading' = upgrading \ {p}
    /\ Started(p)
    /\ UNCHANGED <<log, committed, owner, task, round, link, effects, retried, dropped,
                   schema, up, running, strays>>

-----------------------------------------------------------------------------
(* KafkaEventPublisher.                                                    *)

StartPublisher(p) ==
    /\ Starting(p, "publisher")
    /\ IF up THEN Runs(p, "publisher") ELSE UNCHANGED running
    /\ Started(p)
    /\ UNCHANGED <<vars, schema, up, strays, upgrading, botched>>

\* publish(), called by the dispatcher for a record of the outbox, connects if need be.
PublishConnects(p) ==
    /\ "dispatcher" \in running[p]
    /\ "publisher" \notin running[p]
    /\ up /\ schema = "head"
    /\ Runs(p, "publisher")
    /\ UNCHANGED <<vars, schema, up, phase, at, strays, upgrading, botched>>

StopPublisher(p) ==
    /\ Stopping(p, "publisher")
    /\ Ends(p, "publisher")
    /\ Stopped(p)
    /\ UNCHANGED <<vars, schema, up, strays, upgrading, botched>>

-----------------------------------------------------------------------------
(* KafkaSubscriber.                                                        *)

\* _connect is running: awaited by start(), or from _retry_connect.
Connecting(p) == Starting(p, "subscriber") \/ "subscriber" \in running[p]

\* A consumer in its start() waits for a broker that has gone.
SubscriberConnects(p) ==
    /\ Connecting(p)
    /\ StartProducer(p) \/ (up /\ (JoinGroup(p) \/ RecordConsumer(p)))
    /\ UNCHANGED lvars

\* start() is done, or _retry_connect is.
SubscriberConnected(p) ==
    /\ Connecting(p)
    /\ up
    /\ SetProducer(p)
    /\ IF Starting(p, "subscriber")
       THEN Started(p) /\ UNCHANGED running
       ELSE Ends(p, "subscriber") /\ UNCHANGED <<phase, at>>
    /\ UNCHANGED <<schema, up, strays, upgrading, botched>>

\* Mutant: start() does without _retry_connect.
StartSubscriberOnce(p) ==
    /\ Starting(p, "subscriber")
    /\ ~ up
    /\ ConnectBreaks(p)
    /\ Started(p)
    /\ UNCHANGED <<trouble, schema, up, running, strays, upgrading, botched>>

\* _connect fails without a broker, before this topic or behind it, and start() leaves the rest to
\* _retry_connect.
StartSubscriberUnconnected(p) ==
    /\ Starting(p, "subscriber")
    /\ ~ up
    /\ ConnectBreaks(p)
    /\ Runs(p, "subscriber")
    /\ Started(p)
    /\ UNCHANGED <<trouble, schema, up, strays, upgrading, botched>>

RetryBreaks(p) ==
    /\ "subscriber" \in running[p]
    /\ ~ up
    /\ ConnectBreaks(p)
    /\ UNCHANGED <<trouble, lvars>>

Failed(p) == \E c \in Consumers : c[1] = p /\ At(c, "failed")

Recorded(p) == {c \in Consumers : c[1] = p /\ ~ At(c, "joining")}

\* stop(): every task is cancelled, then the consumers it knows leave, and self._producer is stopped.
\* A _retry_connect cancelled in _connect handles nothing: its producer stays, and a consumer that
\* was in its start() does.
StopSubscriber(p) ==
    /\ Stopping(p, "subscriber")
    /\ ~ Failed(p)
    /\ Depart(Recorded(p))
    /\ link' = [link EXCEPT ![p] = "none"]
    /\ strays' = IF link[p] \in {"started", "joining", "joined"} THEN strays \cup {p} ELSE strays
    /\ Ends(p, "subscriber")
    /\ Stopped(p)
    /\ UNCHANGED <<log, committed, round, effects, retried, dropped, trouble, schema, up, upgrading, botched>>

\* Awaiting a task that had failed raises its exception, and _lifespan ends there.
StopBreaksOff(p) ==
    /\ Stopping(p, "subscriber")
    /\ Failed(p)
    /\ phase' = [phase EXCEPT ![p] = "aborted"]
    /\ UNCHANGED <<vars, schema, up, at, running, strays, upgrading, botched>>

-----------------------------------------------------------------------------
(* OutboxDispatcher: a task that swallows what goes wrong.                 *)

StartDispatcher(p) ==
    /\ Starting(p, "dispatcher")
    /\ Runs(p, "dispatcher")
    /\ Started(p)
    /\ UNCHANGED <<vars, schema, up, strays, upgrading, botched>>

StopDispatcher(p) ==
    /\ Stopping(p, "dispatcher")
    /\ Ends(p, "dispatcher")
    /\ Stopped(p)
    /\ UNCHANGED <<vars, schema, up, strays, upgrading, botched>>

StopMigrator(p) ==
    /\ Stopping(p, "migrator")
    /\ Stopped(p)
    /\ UNCHANGED <<vars, schema, up, running, strays, upgrading, botched>>

-----------------------------------------------------------------------------
(* The process.                                                            *)

\* A rollout stops the replica, for good.
Shutdown(p) ==
    /\ p \in Mortal
    /\ phase[p] = "serving"
    /\ phase' = [phase EXCEPT ![p] = "stopping"]
    /\ UNCHANGED <<vars, schema, up, at, running, strays, upgrading, botched>>

Dies(p) ==
    /\ Leave(p)
    /\ running' = [running EXCEPT ![p] = {}]
    /\ strays' = strays \ {p}
    /\ UNCHANGED <<log, committed, effects, retried, dropped, schema, up, at, botched>>

Alive(p) == phase[p] \in {"starting", "serving", "stopping"}

\* Mutant: Postgres keeps the transaction of a replica that is gone.
CrashMidUpgrade(p) ==
    /\ p \in Mortal
    /\ Alive(p)
    /\ Troubled
    /\ Dies(p)
    /\ phase' = [phase EXCEPT ![p] = "down"]
    /\ UNCHANGED upgrading

\* The replica dies, and is started again.  Its transaction is rolled back with it.
Crash(p) ==
    /\ p \in Mortal
    /\ Alive(p)
    /\ Troubled
    /\ Dies(p)
    /\ phase' = [phase EXCEPT ![p] = "down"]
    /\ upgrading' = upgrading \ {p}

\* The process ends after _lifespan, with what that left.
Exit(p) ==
    /\ phase[p] \in {"stopped", "aborted"}
    /\ Dies(p)
    /\ phase' = [phase EXCEPT ![p] = "gone"]
    /\ UNCHANGED <<trouble, upgrading>>

BrokerGoesDown ==
    /\ up
    /\ Troubled
    /\ up' = FALSE
    /\ UNCHANGED <<log, committed, owner, task, round, link, effects, retried, dropped,
                   schema, phase, at, running, strays, upgrading, botched>>

BrokerComesBack ==
    /\ ~ up
    /\ up' = TRUE
    /\ UNCHANGED <<vars, schema, phase, at, running, strays, upgrading, botched>>

-----------------------------------------------------------------------------
(* The tasks of Consumer.  A query of a handler fails on a schema that is  *)
(* behind; no handler waits for readiness.                                 *)

SchemaMissing(c) ==
    /\ schema = "behind"
    /\ AttemptFailed(c)
    /\ UNCHANGED <<Group, committed, effects, retried, dropped, trouble>>

TaskRuns(c) ==
    /\ \/ up /\ (Poll(c) \/ Reroute(c) \/ CommitOffset(c))
       \/ schema = "head" /\ (HandlerSucceeds(c) \/ HandlerRaises(c))
       \/ SchemaMissing(c)
    /\ UNCHANGED lvars

TaskBreaks(c) == BrokerRaises(c) /\ UNCHANGED lvars
GroupRebalances == up /\ Rebalance /\ UNCHANGED lvars

LifespanStep(p) ==
    \/ Boot(p)
    \/ BeginUpgrade(p) \/ AtHeadAlready(p) \/ CommitUpgrade(p) \/ UpgradeFails(p)
    \/ StartPublisher(p) \/ StopPublisher(p)
    \/ StartSubscriberUnconnected(p) \/ StopSubscriber(p) \/ StopBreaksOff(p)
    \/ StartDispatcher(p) \/ StopDispatcher(p) \/ StopMigrator(p)
    \/ Exit(p)

ConnectStep(p) == SubscriberConnects(p) \/ SubscriberConnected(p) \/ RetryBreaks(p)

\* Every replica is gone, or serves and waits for messages.
Quiet ==
    /\ up
    /\ \A p \in Processes :
          \/ phase[p] = "gone"
          \/ /\ phase[p] = "serving" /\ Connected(p)
             /\ "publisher" \in running[p] \/ schema = "behind"
    /\ TasksWait
    /\ UNCHANGED rvars

ReplicaNext ==
    \/ \E p \in Processes : LifespanStep(p) \/ ConnectStep(p) \/ PublishConnects(p)
    \/ \E p \in Processes : Shutdown(p) \/ Crash(p)
    \/ \E c \in Consumers : TaskRuns(c) \/ TaskBreaks(c)
    \/ GroupRebalances \/ BrokerGoesDown \/ BrokerComesBack
    \/ Quiet

ReplicaSpec == ReplicaInit /\ [][ReplicaNext]_rvars

\* _lifespan goes on, and so does _connect as long as the broker answers.  Nothing obliges the
\* broker to come back, or a message to be handled.
ReplicaFairness ==
    \A p \in Processes : WF_rvars(LifespanStep(p)) /\ WF_rvars(ConnectStep(p))

ReplicaFairSpec == ReplicaSpec /\ ReplicaFairness

-----------------------------------------------------------------------------
(* Properties.                                                             *)

\* Only a replica at its migrator has an upgrade begun, and a component runs only once its turn to
\* start has come.
ReplicaTypeOK ==
    /\ TypeOK
    /\ schema \in {"behind", "head"} /\ up \in BOOLEAN
    /\ phase \in [Processes -> Phases]
    /\ at \in [Processes -> DOMAIN Lifecycle]
    /\ running \in [Processes -> SUBSET Components]
    /\ strays \cup upgrading \cup botched \subseteq Processes
    /\ \A p \in upgrading : Starting(p, "migrator")
    /\ \A p \in Processes : phase[p] = "starting" =>
          running[p] \subseteq {Lifecycle[i] : i \in 1 .. at[p]}

\* Replicas that start together race for the upgrade, all but one fail, and one may die in the middle:
\* that is harmless.  A replica that serves finds its schema, and no message that a handler could
\* have handled is given up, unless an upgrade failed for a reason of its own.
RacingUpgradesAreHarmless ==
    botched = {} =>
        /\ \A p \in Processes : phase[p] = "serving" => schema = "head"
        /\ \A m \in retried \cup dropped : log[m] # "fine"

\* When _lifespan is through with its components no task of them is left, and none takes a message any
\* more: the dispatcher is stopped before the publisher it would connect again, and a _retry_connect
\* does not go on joining behind the subscriber's back.  What can be left, until the process ends, is
\* what a cancelled _connect held alone (subscriber.py:73-91): its producer, and with it the one
\* consumer that was in its start(), which keeps the partition it may have been given.
StoppedLeavesOnlyStrays ==
    \A p \in Processes : phase[p] \in {"stopped", "gone"} =>
        /\ running[p] = {}
        /\ link[p] = "none"
        /\ \A c \in Members(task) : c[1] = p =>
              p \in strays /\ At(c, "joining") /\ c[2] = round[p]
        /\ p \in strays => phase[p] = "stopped"

\* A replica starts without a broker (producer.py:26-28), and then keeps trying rather than giving up
\* at boot (subscriber.py:95-97): none is starting for ever, unless the broker went away while its
\* consumer was joining, which start() waits for, and none serves for ever without its consumer while
\* the broker answers.
StartsAndSubscribes ==
    []<>(\A p \in Processes :
            /\ phase[p] = "starting" => ~ up /\ link[p] = "joining"
            /\ (phase[p] = "serving" /\ up) => Connected(p))
=============================================================================
