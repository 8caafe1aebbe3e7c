------------------------------ MODULE Consumer ------------------------------
(***************************************************************************)
(* The Kafka subscriber (messaging/kafka/subscriber.py) on one partition   *)
(* of one topic: connecting, the consumer tasks of every replica, the      *)
(* retries of _handle, rerouting to <topic>.retry, and offsets.  Handlers  *)
(* are the units of work of Ingest: a message takes effect at most once,   *)
(* and a redelivery of it returns without a write.                         *)
(***************************************************************************)
EXTENDS Integers, FiniteSets

CONSTANTS
    Processes,      \* replicas of the service
    Rounds,         \* bound: Rounds[p] is how many rounds of _connect a life of p may have
    Length,         \* messages on the partition
    MaxRetries,     \* KafkaSubscriber._max_retries
    Nobody,
    Logs,           \* bound: the partitions tried, by the kind of each of their messages
    MaxTrouble      \* bound: handlers that raise for once, broker calls that raise, processes that
                    \* restart, partitions that move

ASSUME BoundsAssumption ==
    /\ Rounds \in [Processes -> Nat \ {0}] /\ Length \in Nat /\ MaxRetries \in Nat \ {0}
    /\ MaxTrouble \in Nat

Messages == 1 .. Length

\* fine: its handler succeeds.  failing: its handler always raises.  unhandled: no handler for its
\* event_type.  malformed: its bytes are not JSON, or record_from_envelope raises.
Kinds == {"fine", "failing", "unhandled", "malformed"}

ASSUME LogsAssumption == Logs \subseteq [Messages -> Kinds]

\* A consumer is named by its process and the round of _connect that started it.
Consumers == UNION {{p} \X (1 .. Rounds[p]) : p \in Processes}

ASSUME NobodyAssumption == Nobody \notin Consumers

VARIABLES
    log,            \* log[m]: the kind of the message m
    committed,      \* the offset of the consumer group
    owner,          \* the consumer the partition is assigned to
    task,           \* task[c]: the task _run(topic, c)
    round,          \* round[p]: rounds of _connect so far
    link,           \* link[p]: how far _connect is
    effects,        \* messages whose handler has committed
    retried,        \* messages on <topic>.retry
    dropped,        \* messages given up while self._producer was None
    trouble

vars == <<log, committed, owner, task, round, link, effects, retried, dropped, trouble>>

\* none: no round under way.  started: the round's own producer.start() was called.  joining and
\* joined: the consumer of this topic is in its start(), or past it.  producer: self._producer is set.
Links == {"none", "started", "joining", "joined", "producer"}

\* joining: the consumer is in the group, and nothing of the subscriber knows it yet.
Steps == {"off", "joining", "poll", "handle", "reroute", "commit", "failed"}

Task == [step : Steps, position : 0 .. Length, message : 0 .. Length, attempt : 0 .. MaxRetries]

NoTask == [step |-> "off", position |-> 0, message |-> 0, attempt |-> 0]

Init ==
    /\ log \in Logs
    /\ committed = 0
    /\ owner = Nobody
    /\ task = [c \in Consumers |-> NoTask]
    /\ round = [p \in Processes |-> 0]
    /\ link = [p \in Processes |-> "none"]
    /\ effects = {}
    /\ retried = {}
    /\ dropped = {}
    /\ trouble = 0

-----------------------------------------------------------------------------
(* The group.  A consumer whose task has failed is still a member of it:   *)
(* its heartbeat is not the task's.  If it is thrown out in the end, that  *)
(* is a Rebalance.                                                         *)

Troubled == trouble < MaxTrouble /\ trouble' = trouble + 1

Members(tasks) == {c \in Consumers : tasks[c].step # "off"}

\* Mutants: c starts at the beginning; or where the last owner was.
AssignedFromStart(tasks, c) == [tasks EXCEPT ![c].position = 0]
AssignedFromOwner(tasks, c) ==
    [tasks EXCEPT ![c].position = IF owner = Nobody THEN committed ELSE task[owner].position]

\* The partition goes to c, who will fetch from the committed offset.
AssignedTo(tasks, c) == [tasks EXCEPT ![c].position = committed]

\* The coordinator gives the partition to a member, if there is one.
Assign(tasks) ==
    \/ /\ Members(tasks) = {}
       /\ owner' = Nobody
       /\ task' = tasks
    \/ \E c \in Members(tasks) :
          /\ owner' = c
          /\ task' = AssignedTo(tasks, c)

Rebalance ==
    /\ Cardinality(Members(task)) > 1
    /\ Troubled
    /\ \E c \in Members(task) \ {owner} : owner' = c /\ task' = AssignedTo(task, c)
    /\ UNCHANGED <<log, committed, round, link, effects, retried, dropped>>

-----------------------------------------------------------------------------
(* The process.                                                            *)

Connected(p) == link[p] = "producer"

\* _connect, at start or from _retry_connect, begins with a producer of its own.
StartProducer(p) ==
    /\ link[p] = "none"
    /\ link' = [link EXCEPT ![p] = "started"]
    /\ UNCHANGED <<log, committed, owner, task, round, effects, retried, dropped, trouble>>

\* In start() the consumer of this topic joins its group, which may give it the partition.
JoinGroup(p) ==
    /\ link[p] = "started"
    /\ round[p] < Rounds[p]
    /\ round' = [round EXCEPT ![p] = @ + 1]
    /\ Assign([task EXCEPT ![<<p, round[p] + 1>>] = [NoTask EXCEPT !.step = "joining"]])
    /\ link' = [link EXCEPT ![p] = "joining"]
    /\ UNCHANGED <<log, committed, effects, retried, dropped, trouble>>

\* start() returned: the consumer is recorded and its task created.
RecordConsumer(p) ==
    /\ link[p] = "joining"
    /\ task' = [task EXCEPT ![<<p, round[p]>>].step = "poll"]
    /\ link' = [link EXCEPT ![p] = "joined"]
    /\ UNCHANGED <<log, committed, owner, round, effects, retried, dropped, trouble>>

\* It went through every topic; only now self._producer is set, and tasks run already.
SetProducer(p) ==
    /\ link[p] = "joined"
    /\ link' = [link EXCEPT ![p] = "producer"]
    /\ UNCHANGED <<log, committed, owner, task, round, effects, retried, dropped, trouble>>

Connect(p) == StartProducer(p) \/ JoinGroup(p) \/ RecordConsumer(p) \/ SetProducer(p)

\* It raises before this topic or at a later one, for a trouble that whoever takes this step accounts
\* for.  Its producer is stopped; a consumer of this topic stays, and the next round starts one more.
ConnectBreaks(p) ==
    /\ link[p] \in {"started", "joined"}
    /\ round[p] < Rounds[p]
    /\ link' = [link EXCEPT ![p] = "none"]
    /\ UNCHANGED <<log, committed, owner, task, round, effects, retried, dropped>>

\* Consumers leave the group.
Depart(leaving) ==
    LET tasks == [c \in Consumers |-> IF c \in leaving THEN NoTask ELSE task[c]]
    IN  IF owner \in leaving THEN Assign(tasks) ELSE task' = tasks /\ UNCHANGED owner

\* With the process everything of it goes.
Leave(p) ==
    /\ Depart({c \in Consumers : c[1] = p})
    /\ round' = [round EXCEPT ![p] = 0]
    /\ link' = [link EXCEPT ![p] = "none"]

\* The process stops, or dies, and starts again.
Restart(p) ==
    /\ round[p] > 0
    /\ Troubled
    /\ Leave(p)
    /\ UNCHANGED <<log, committed, effects, retried, dropped>>

-----------------------------------------------------------------------------
(* A task: async for message in consumer.                                  *)

At(c, step) == task[c].step = step
Goes(c, step) == task' = [task EXCEPT ![c].step = step]
Group == <<log, owner, round, link>>

\* Mutant: the offset is committed when the message is fetched.
PollAutoCommit(c) ==
    LET m == task[c].position + 1
    IN  /\ At(c, "poll")
        /\ owner = c
        /\ m \in Messages
        /\ committed' = m
        /\ task' = [task EXCEPT ![c] = [step |-> "handle", position |-> m, message |-> m, attempt |-> 1]]
        /\ UNCHANGED <<Group, effects, retried, dropped, trouble>>

\* The next message, and record_from_envelope and the look-up of its handlers.
Poll(c) ==
    LET m == task[c].position + 1
        next == CASE log[m] = "malformed" -> "failed"
                  [] log[m] = "unhandled" -> "commit"
                  [] OTHER                -> "handle"
    IN  /\ At(c, "poll")
        /\ owner = c
        /\ m \in Messages
        /\ task' = [task EXCEPT ![c] = [step |-> next, position |-> m, message |-> m, attempt |-> 1]]
        /\ UNCHANGED <<Group, committed, effects, retried, dropped, trouble>>

\* The handler returns, or finds its event processed already.
HandlerSucceeds(c) ==
    /\ At(c, "handle")
    /\ log[task[c].message] = "fine"
    /\ effects' = effects \cup {task[c].message}
    /\ Goes(c, "commit")
    /\ UNCHANGED <<Group, committed, retried, dropped, trouble>>

\* Another attempt, or none are left.
AttemptFailed(c) ==
    /\ At(c, "handle")
    /\ task' = IF task[c].attempt = MaxRetries
               THEN [task EXCEPT ![c].step = "reroute"]
               ELSE [task EXCEPT ![c].attempt = @ + 1]

\* The handler raises: because of its message, or for once.
HandlerRaises(c) ==
    /\ AttemptFailed(c)
    /\ IF log[task[c].message] = "failing" THEN UNCHANGED trouble ELSE Troubled
    /\ UNCHANGED <<Group, committed, effects, retried, dropped>>

\* _reroute; without a producer it returns and the message is gone.
Reroute(c) ==
    /\ At(c, "reroute")
    /\ IF Connected(c[1])
       THEN retried' = retried \cup {task[c].message} /\ UNCHANGED dropped
       ELSE dropped' = dropped \cup {task[c].message} /\ UNCHANGED retried
    /\ Goes(c, "commit")
    /\ UNCHANGED <<Group, committed, effects, trouble>>

\* send_and_wait or consumer.commit() raises: nobody awaits the task.
BrokerRaises(c) ==
    /\ At(c, "commit") \/ (At(c, "reroute") /\ Connected(c[1]))
    /\ Troubled
    /\ Goes(c, "failed")
    /\ UNCHANGED <<Group, committed, effects, retried, dropped>>

\* Mutant: a message that was not handled is fetched again.
CommitOnlyEffects(c) ==
    /\ At(c, "commit")
    /\ IF task[c].message \in effects
       THEN committed' = task[c].position /\ Goes(c, "poll")
       ELSE /\ task' = [task EXCEPT ![c].step = "poll", ![c].position = committed]
            /\ UNCHANGED committed
    /\ UNCHANGED <<Group, effects, retried, dropped, trouble>>

\* consumer.commit(): the positions of what is assigned to c by now.
CommitOffset(c) ==
    /\ At(c, "commit")
    /\ committed' = IF owner = c THEN task[c].position ELSE committed
    /\ Goes(c, "poll")
    /\ UNCHANGED <<Group, effects, retried, dropped, trouble>>

-----------------------------------------------------------------------------

TaskStep(c) ==
    Poll(c) \/ HandlerSucceeds(c) \/ HandlerRaises(c) \/ Reroute(c) \/ CommitOffset(c)

\* Every task waits for a message that does not come, or has ended.
TasksWait ==
    \A c \in Consumers :
        \/ At(c, "off") \/ At(c, "failed")
        \/ At(c, "poll") /\ (owner # c \/ task[c].position = Length)

Waiting ==
    /\ \A p \in Processes : Connected(p)
    /\ TasksWait
    /\ UNCHANGED vars

Next ==
    \/ Rebalance
    \/ \E p \in Processes : Connect(p) \/ (ConnectBreaks(p) /\ Troubled) \/ Restart(p)
    \/ \E c \in Consumers : TaskStep(c) \/ BrokerRaises(c)
    \/ Waiting

Spec == Init /\ [][Next]_vars

\* Tasks go on, and _retry_connect keeps trying.  A handler that raised for once is tried again.
Fairness ==
    /\ \A p \in Processes : WF_vars(Connect(p))
    /\ \A c \in Consumers : WF_vars(TaskStep(c))

FairSpec == Spec /\ Fairness

-----------------------------------------------------------------------------
(* Properties.                                                             *)

Settled(m) == m \in effects \cup retried \cup dropped \/ log[m] = "unhandled"

\* The group has an owner as long as it has a member, and the owner never falls behind the offset.
TypeOK ==
    /\ log \in [Messages -> Kinds]
    /\ committed \in 0 .. Length
    /\ owner \in Consumers \cup {Nobody}
    /\ task \in [Consumers -> Task]
    /\ round \in [Processes -> Nat] /\ \A p \in Processes : round[p] <= Rounds[p]
    /\ link \in [Processes -> Links]
    /\ effects \cup retried \cup dropped \subseteq Messages
    /\ trouble \in 0 .. MaxTrouble
    /\ owner = Nobody <=> Members(task) = {}
    /\ owner # Nobody => task[owner].position >= committed

\* Offsets are committed only for messages that were handled or given up, whatever rebalances,
\* restarts and failures came between (subscriber.py:25-27).
CommittedIsSettled == \A m \in Messages : m <= committed => Settled(m)

\* Messages take effect in the order of the partition: none does while an earlier one has neither
\* been handled nor given up, although two tasks may be working on the partition after a rebalance.
InPartitionOrder == \A m \in effects : \A n \in 1 .. m - 1 : Settled(n)

\* A handler that keeps failing does not stop the messages behind its own (subscriber.py:29-30): as
\* long as no task ends, every message is settled.
FailingNeverBlocks ==
    [](\A c \in Consumers : ~ At(c, "failed")) => <>(\A m \in Messages : Settled(m))
=============================================================================
