---------------------------- MODULE ReplicaProofs ----------------------------
(***************************************************************************)
(* Replica, for every number of replicas, rounds, messages, retries and    *)
(* troubles, on what ConsumerProofs shows of the tasks.                    *)
(***************************************************************************)
EXTENDS Replica, ConsumerProofs

-----------------------------------------------------------------------------
(* The tasks.                                                              *)

\* The steps of a replica do to its tasks what those of Consumer do, or nothing.
LEMMA ConsumerPart == ASSUME ConsumerInv, [ReplicaNext]_rvars PROVE ConsumerInv'
<1>0. ASSUME Troubled PROVE trouble' \in 0 .. MaxTrouble
  BY <1>0, BoundsAssumption DEF Troubled, ConsumerInv, TypeOK
<1>1. trouble' = trouble => trouble' \in 0 .. MaxTrouble
  BY DEF ConsumerInv, TypeOK
<1>2. ASSUME UNCHANGED vars PROVE ConsumerInv'
  BY <1>2, StutterInv
<1>3. ASSUME UNCHANGED <<log, committed, owner, task, round, link, effects, retried, dropped>>,
             trouble' \in 0 .. MaxTrouble
      PROVE  ConsumerInv'
  <2>1. link' \in [Processes -> Links] /\ \A p \in Processes : link'[p] = "joining" => link[p] = "joining"
    BY <1>3 DEF ConsumerInv, TypeOK
  <2> QED
    BY <1>3, <2>1, LinkInv
<1>4. ASSUME NEW p \in Processes, UpgradeFails(p) PROVE ConsumerInv'
  BY <1>0, <1>1, <1>3, <1>4 DEF UpgradeFails
<1>5. ASSUME NEW p \in Processes, StartSubscriberUnconnected(p) PROVE ConsumerInv'
  BY <1>1, <1>5, ConnectBreaksInv DEF StartSubscriberUnconnected
<1>6. ASSUME NEW p \in Processes, StopSubscriber(p) PROVE ConsumerInv'
  <2>1. /\ Depart(Recorded(p)) /\ link' = [link EXCEPT ![p] = "none"]
        /\ UNCHANGED <<log, committed, round, effects, retried, dropped, trouble>>
    BY <1>6 DEF StopSubscriber
  <2>2. ASSUME NEW q \in Processes, link'[q] = "joining"
        PROVE  link[q] = "joining" /\ round'[q] = round[q] /\ <<q, round[q]>> \notin Recorded(p)
    BY <2>1, <2>2 DEF ConsumerInv, TypeOK, Recorded
  <2>3. /\ round' \in [Processes -> Nat] /\ \A q \in Processes : round'[q] <= Rounds[q]
        /\ link' \in [Processes -> Links] /\ trouble' \in 0 .. MaxTrouble
    BY <1>1, <2>1 DEF ConsumerInv, TypeOK, Links
  <2>4. Recorded(p) \in SUBSET Consumers
    BY DEF Recorded
  <2> QED
    BY <2>1, <2>2, <2>3, <2>4, DepartInv
<1>7. ASSUME NEW p \in Processes, Crash(p) \/ Exit(p) PROVE ConsumerInv'
  BY <1>0, <1>1, <1>7, LeaveInv DEF Crash, Exit, Dies
<1>8. ASSUME NEW p \in Processes, ConnectStep(p) PROVE ConsumerInv'
  <2>1. CASE SubscriberConnects(p)
    BY <2>1, StartProducerInv, JoinGroupInv, RecordConsumerInv DEF SubscriberConnects
  <2>2. CASE SubscriberConnected(p)
    BY <2>2, SetProducerInv DEF SubscriberConnected
  <2>3. CASE RetryBreaks(p)
    BY <1>1, <2>3, ConnectBreaksInv DEF RetryBreaks
  <2> QED
    BY <1>8, <2>1, <2>2, <2>3 DEF ConnectStep
<1>9. ASSUME NEW c \in Consumers, TaskRuns(c) \/ TaskBreaks(c) PROVE ConsumerInv'
  <2>1. ASSUME SchemaMissing(c) PROVE ConsumerInv'
    BY <1>1, <2>1, AttemptFailedInv DEF SchemaMissing, Group
  <2> QED
    BY <1>9, <2>1, PollInv, HandlerSucceedsInv, HandlerRaisesInv, RerouteInv, CommitOffsetInv, BrokerRaisesInv
    DEF TaskRuns, TaskBreaks
<1>10. CASE GroupRebalances
  BY <1>10, RebalanceInv DEF GroupRebalances
<1>11. CASE BrokerGoesDown
  BY <1>0, <1>3, <1>11 DEF BrokerGoesDown
<1>12. ASSUME NEW p \in Processes,
              \/ Boot(p) \/ BeginUpgrade(p) \/ AtHeadAlready(p) \/ CommitUpgrade(p)
              \/ StartPublisher(p) \/ StopPublisher(p) \/ PublishConnects(p) \/ StopBreaksOff(p)
              \/ StartDispatcher(p) \/ StopDispatcher(p) \/ StopMigrator(p) \/ Shutdown(p)
       PROVE UNCHANGED vars
  BY <1>12 DEF Boot, BeginUpgrade, AtHeadAlready, CommitUpgrade, StartPublisher, StopPublisher,
     PublishConnects, StopBreaksOff, StartDispatcher, StopDispatcher, StopMigrator, Shutdown
<1>13. CASE BrokerComesBack \/ Quiet \/ UNCHANGED rvars
  BY <1>2, <1>13 DEF BrokerComesBack, Quiet, rvars
<1> QED
  BY <1>2, <1>4, <1>5, <1>6, <1>7, <1>8, <1>9, <1>10, <1>11, <1>12, <1>13 DEF ReplicaNext, LifespanStep

\* A replica without a link and without a member of the group.
Gone(p) == link[p] = "none" /\ \A c \in Members(task) : c[1] # p

\* A replica whose subscriber stopped: of its members only the one that a cancelled _connect awaited.
LeftBehind(p) ==
    /\ link[p] = "none"
    /\ \A c \in Members(task) : c[1] = p => p \in strays /\ At(c, "joining") /\ c[2] = round[p]

\* No consumer is in its start() but the one that the round under way awaits.
JoinsNow(p) ==
    \A c \in Members(task) : c[1] = p /\ At(c, "joining") => link[p] = "joining" /\ c[2] = round[p]

\* What becomes of a replica's consumers when another one takes a step, or when its tasks do.
Untouched(q) ==
    /\ link'[q] = link[q] /\ round'[q] = round[q]
    /\ \A c \in Consumers : c[1] = q =>
          /\ task'[c].step = "off" <=> task[c].step = "off"
          /\ task'[c].step = "joining" <=> task[c].step = "joining"

LEMMA Kept ==
    ASSUME NEW q, Untouched(q), q \in strays' <=> q \in strays
    PROVE  /\ Gone(q) => Gone(q)'
           /\ LeftBehind(q) => LeftBehind(q)'
           /\ JoinsNow(q) => JoinsNow(q)'
BY DEF Untouched, Gone, LeftBehind, JoinsNow, Members, At

LEMMA SameUntouched == ASSUME UNCHANGED <<task, link, round>>, NEW q PROVE Untouched(q)
BY DEF Untouched

\* The coordinator changes nothing but positions.
LEMMA AssignedTasks ==
    ASSUME ConsumerInv, NEW tasks \in [Consumers -> Task], Assign(tasks)
    PROVE  /\ \A c \in Consumers : /\ task'[c].step = tasks[c].step
                                   /\ task'[c].message = tasks[c].message
                                   /\ task'[c].attempt = tasks[c].attempt
           /\ Members(task') = Members(tasks)
<1>1. \A c \in Consumers : task'[c] = tasks[c] \/ task'[c] = [tasks[c] EXCEPT !.position = committed]
  BY AssignedType DEF ConsumerInv
<1>2. \A t \in Task : LET u == [t EXCEPT !.position = committed]
                      IN  u.step = t.step /\ u.message = t.message /\ u.attempt = t.attempt
  BY DEF Task
<1>3. \A c \in Consumers : /\ task'[c].step = tasks[c].step
                           /\ task'[c].message = tasks[c].message
                           /\ task'[c].attempt = tasks[c].attempt
  BY <1>1, <1>2
<1> QED
  BY <1>3 DEF Members

\* Connecting is a replica's own affair, and awaits at most the consumer of its round.
LEMMA ConnectTasks ==
    ASSUME ConsumerInv, NEW p \in Processes, JoinsNow(p),
           StartProducer(p) \/ JoinGroup(p) \/ RecordConsumer(p) \/ SetProducer(p) \/ ConnectBreaks(p)
    PROVE  JoinsNow(p)' /\ \A q \in Processes : q # p => Untouched(q)
<1>1. /\ task \in [Consumers -> Task] /\ link \in [Processes -> Links] /\ round \in [Processes -> Nat]
  BY DEF ConsumerInv, TypeOK
<1>2. CASE StartProducer(p) \/ SetProducer(p) \/ ConnectBreaks(p)
  <2>1. /\ UNCHANGED <<task, round>> /\ link[p] # "joining"
        /\ \A q \in Processes : q # p => link'[q] = link[q]
    BY <1>1, <1>2 DEF StartProducer, SetProducer, ConnectBreaks
  <2> QED
    BY <2>1 DEF JoinsNow, Untouched, At, Members
<1>3. CASE JoinGroup(p)
  <2> DEFINE new == <<p, round[p] + 1>>
             tasks == [task EXCEPT ![new] = [NoTask EXCEPT !.step = "joining"]]
  <2>1. tasks \in [Consumers -> Task] /\ Assign(tasks)
    <3>1. [NoTask EXCEPT !.step = "joining"] \in Task
      BY NoTaskType DEF Task, Steps
    <3> QED
      BY <1>1, <1>3, <3>1 DEF JoinGroup
  <2>2. \A c \in Consumers : c # new => tasks[c] = task[c]
    BY <1>1
  <2> HIDE DEF tasks
  <2>3. \A c \in Consumers : c # new => task'[c].step = task[c].step
    BY <2>1, <2>2, AssignedTasks
  <2>4. /\ link[p] = "started" /\ link'[p] = "joining" /\ round'[p] = round[p] + 1
        /\ \A q \in Processes : q # p => link'[q] = link[q] /\ round'[q] = round[q]
    BY <1>1, <1>3 DEF JoinGroup
  <2>5. \A c \in Consumers : c[1] = p => task[c].step # "joining"
    BY <2>4 DEF JoinsNow, Members, At
  <2>6. JoinsNow(p)'
    BY <2>3, <2>4, <2>5 DEF JoinsNow, Members, At
  <2>7. \A q \in Processes : q # p => Untouched(q)
    BY <2>3, <2>4 DEF Untouched
  <2> QED
    BY <2>6, <2>7
<1>4. CASE RecordConsumer(p)
  <2>1. /\ task' = [task EXCEPT ![<<p, round[p]>>].step = "poll"] /\ round' = round
        /\ link[p] = "joining" /\ \A q \in Processes : q # p => link'[q] = link[q]
    BY <1>1, <1>4 DEF RecordConsumer
  <2>2. <<p, round[p]>> \in Consumers
    BY <2>1 DEF ConsumerInv, JoiningAwaited, AwaitsJoin, Consumers
  <2>3. /\ task'[<<p, round[p]>>].step = "poll"
        /\ \A c \in Consumers : c # <<p, round[p]>> => task'[c] = task[c]
    BY <1>1, <2>1, <2>2 DEF Task
  <2>4. \A c \in Consumers : c = <<c[1], c[2]>>
    BY DEF Consumers
  <2>5. ASSUME NEW c \in Consumers, c[1] = p PROVE task'[c].step # "joining"
    BY <2>3, <2>4, <2>5 DEF JoinsNow, Members, At
  <2> QED
    BY <2>1, <2>3, <2>5 DEF JoinsNow, Members, At, Untouched
<1> QED
  BY <1>2, <1>3, <1>4

\* Those that depart are out, and the others as they were.
LEMMA DepartTasks ==
    ASSUME ConsumerInv, NEW leaving \in SUBSET Consumers, Depart(leaving)
    PROVE  \A c \in Consumers :
              IF c \in leaving THEN task'[c].step = "off"
              ELSE /\ task'[c].step = task[c].step /\ task'[c].message = task[c].message
                   /\ task'[c].attempt = task[c].attempt
<1> DEFINE tasks == [c \in Consumers |-> IF c \in leaving THEN NoTask ELSE task[c]]
<1>1. tasks \in [Consumers -> Task]
  BY NoTaskType DEF ConsumerInv, TypeOK
<1>2. \A c \in Consumers : IF c \in leaving THEN tasks[c].step = "off" ELSE tasks[c] = task[c]
  BY NoTaskType
<1>3. Assign(tasks) \/ task' = tasks
  BY DEF Depart
<1> HIDE DEF tasks
<1>4. \A c \in Consumers : /\ task'[c].step = tasks[c].step
                           /\ task'[c].message = tasks[c].message
                           /\ task'[c].attempt = tasks[c].attempt
  BY <1>1, <1>3, AssignedTasks
<1> QED
  BY <1>2, <1>4

\* Who leaves is gone, and nobody comes.
LEMMA LeaveGone ==
    ASSUME ConsumerInv, NEW p \in Processes, Leave(p)
    PROVE  Gone(p)' /\ \A q \in Processes : q # p => Untouched(q)
<1> DEFINE leaving == {c \in Consumers : c[1] = p}
<1>1. Depart(leaving) /\ link' = [link EXCEPT ![p] = "none"] /\ round' = [round EXCEPT ![p] = 0]
  BY DEF Leave
<1>2. leaving \in SUBSET Consumers
  OBVIOUS
<1>3. \A c \in Consumers : IF c \in leaving THEN task'[c].step = "off" ELSE task'[c].step = task[c].step
  BY <1>1, <1>2, DepartTasks
<1>4. /\ link'[p] = "none"
      /\ \A q \in Processes : q # p => link'[q] = link[q] /\ round'[q] = round[q]
  BY <1>1 DEF ConsumerInv, TypeOK
<1> QED
  BY <1>3, <1>4 DEF Gone, Members, Untouched

\* The steps of the tasks leave the group and the links as they are; the message at hand is the one
\* that was, or was just fetched; and a step needs a member.
LEMMA TaskSteps ==
    ASSUME ConsumerInv, NEW c \in Consumers, TaskRuns(c) \/ TaskBreaks(c)
    PROVE  /\ c \in Members(task) /\ \A q \in Processes : Untouched(q)
           /\ \A d \in Consumers : d # c => task'[d] = task[d]
<1>1. /\ UNCHANGED <<link, round, log>> /\ task[c].step \notin {"off", "joining"}
      /\ \E step \in Steps \ {"off", "joining"} :
            \/ task' = [task EXCEPT ![c].step = step]
            \/ \E n \in Messages : task' = [task EXCEPT ![c] = [step |-> step, position |-> n,
                                                                message |-> n, attempt |-> 1]]
            \/ task' = [task EXCEPT ![c].attempt = @ + 1]
  <2>1. CASE Poll(c)
    <3> DEFINE m == task[c].position + 1
               next == CASE log[m] = "malformed" -> "failed"
                         [] log[m] = "unhandled" -> "commit"
                         [] OTHER                -> "handle"
    <3>1. next \in {"failed", "commit", "handle"}
      OBVIOUS
    <3>2. /\ m \in Messages /\ task[c].step = "poll" /\ UNCHANGED <<link, round, log>>
          /\ task' = [task EXCEPT ![c] = [step |-> next, position |-> m, message |-> m, attempt |-> 1]]
      BY <2>1 DEF Poll, At, Group
    <3> HIDE DEF next, m
    <3> QED
      BY <3>1, <3>2 DEF Steps
  <2>2. CASE HandlerSucceeds(c) \/ Reroute(c) \/ CommitOffset(c) \/ BrokerRaises(c)
    BY <2>2 DEF HandlerSucceeds, Reroute, CommitOffset, BrokerRaises, At, Goes, Group, Steps
  <2>3. CASE HandlerRaises(c) \/ SchemaMissing(c)
    BY <2>3 DEF HandlerRaises, SchemaMissing, AttemptFailed, At, Group, Steps
  <2> QED
    BY <2>1, <2>2, <2>3 DEF TaskRuns, TaskBreaks
<1>2. task \in [Consumers -> Task] /\ task[c] \in Task
  BY DEF ConsumerInv, TypeOK
<1>3. task'[c].step \notin {"off", "joining"} /\ \A d \in Consumers : d # c => task'[d] = task[d]
  BY <1>1, <1>2 DEF Task
<1> QED
  BY <1>1, <1>3 DEF Members, Untouched

\* The same of a rebalance.
LEMMA RebalanceTasks ==
    ASSUME ConsumerInv, Rebalance
    PROVE  /\ \A q \in Processes : Untouched(q)
           /\ UNCHANGED <<log, retried, dropped>>
           /\ \A c \in Consumers : /\ task'[c].step = task[c].step
                                   /\ task'[c].message = task[c].message
                                   /\ task'[c].attempt = task[c].attempt
<1>1. task \in [Consumers -> Task] /\ Assign(task)
  BY DEF ConsumerInv, TypeOK, Rebalance, Assign
<1> QED
  BY <1>1, AssignedTasks DEF Rebalance, Untouched

-----------------------------------------------------------------------------
(* The lifecycle.                                                          *)

LEMMA LifecycleIs ==
    /\ DOMAIN Lifecycle = 1 .. 4 /\ Len(Lifecycle) = 4
    /\ Lifecycle[1] = "migrator" /\ Lifecycle[2] = "publisher"
    /\ Lifecycle[3] = "subscriber" /\ Lifecycle[4] = "dispatcher"
    /\ Components = {"migrator", "publisher", "subscriber", "dispatcher"}
<1>1. /\ DOMAIN Lifecycle = 1 .. 4 /\ Len(Lifecycle) = 4
      /\ Lifecycle[1] = "migrator" /\ Lifecycle[2] = "publisher"
      /\ Lifecycle[3] = "subscriber" /\ Lifecycle[4] = "dispatcher"
  BY DEF Lifecycle
<1>2. Components = {Lifecycle[i] : i \in 1 .. 4}
  BY <1>1 DEF Components
<1> QED
  BY <1>1, <1>2

\* Which component a replica is at says its index.
LEMMA IndexOf ==
    ASSUME NEW i \in DOMAIN Lifecycle
    PROVE  /\ i \in 1 .. 4
           /\ Lifecycle[i] = "migrator" <=> i = 1
           /\ Lifecycle[i] = "publisher" <=> i = 2
           /\ Lifecycle[i] = "subscriber" <=> i = 3
           /\ Lifecycle[i] = "dispatcher" <=> i = 4
BY LifecycleIs

\* The subscriber has its turn, or did not end it in order.
Subscribing(p) ==
    phase[p] \in {"starting", "serving", "aborted"} \/ (phase[p] = "stopping" /\ at[p] >= 3)

\* Components start in order and stop in reverse: what is behind the one at hand does not run, before
\* the subscriber starts the replica is gone from the group, and after it stopped it is, but for what
\* a cancelled _connect left behind.
TurnOf(p) ==
    /\ running[p] \subseteq {"publisher", "subscriber", "dispatcher"}
    /\ phase[p] \in {"down", "gone"} => running[p] = {} /\ Gone(p)
    /\ phase[p] = "gone" => p \notin strays
    /\ phase[p] = "stopped" => running[p] = {} /\ LeftBehind(p)
    /\ phase[p] \in {"starting", "stopping"} =>
          /\ at[p] = 1 => "publisher" \notin running[p]
          /\ at[p] <= 2 => "subscriber" \notin running[p]
          /\ at[p] <= 3 => "dispatcher" \notin running[p]
    /\ phase[p] = "starting" /\ at[p] <= 2 => Gone(p)
    /\ phase[p] = "stopping" /\ at[p] <= 2 => LeftBehind(p)
    /\ Subscribing(p) => JoinsNow(p)
    /\ phase[p] = "serving" => at[p] = 4

LifecycleInv ==
    /\ schema \in {"behind", "head"} /\ up \in BOOLEAN
    /\ phase \in [Processes -> Phases]
    /\ at \in [Processes -> DOMAIN Lifecycle]
    /\ running \in [Processes -> SUBSET Components]
    /\ strays \cup upgrading \cup botched \subseteq Processes
    /\ \A p \in upgrading : Starting(p, "migrator")
    /\ \A p \in Processes : TurnOf(p)

\* start() and stop() move a replica on by one component.
LEMMA StartedIs ==
    ASSUME LifecycleInv, NEW p \in Processes, phase[p] = "starting", Started(p)
    PROVE  /\ phase' \in [Processes -> Phases] /\ at' \in [Processes -> DOMAIN Lifecycle]
           /\ \A q \in Processes : q # p => phase'[q] = phase[q] /\ at'[q] = at[q]
           /\ at[p] = 4 => phase'[p] = "serving" /\ at'[p] = 4
           /\ at[p] # 4 => phase'[p] = "starting" /\ at'[p] = at[p] + 1
<1>1. /\ phase \in [Processes -> Phases] /\ at \in [Processes -> 1 .. 4] /\ DOMAIN Lifecycle = 1 .. 4
      /\ Len(Lifecycle) = 4
  BY LifecycleIs DEF LifecycleInv
<1>2. CASE at[p] = 4
  BY <1>1, <1>2 DEF Started, Phases
<1>3. CASE at[p] # 4
  <2>1. at' = [at EXCEPT ![p] = at[p] + 1] /\ phase' = phase
    BY <1>1, <1>3 DEF Started
  <2>2. at[p] + 1 \in 1 .. 4
    BY <1>1, <1>3
  <2> QED
    BY <1>1, <1>3, <2>1, <2>2
<1> QED
  BY <1>2, <1>3

LEMMA StoppedIs ==
    ASSUME LifecycleInv, NEW p \in Processes, phase[p] = "stopping", Stopped(p)
    PROVE  /\ phase' \in [Processes -> Phases] /\ at' \in [Processes -> DOMAIN Lifecycle]
           /\ \A q \in Processes : q # p => phase'[q] = phase[q] /\ at'[q] = at[q]
           /\ at[p] = 1 => phase'[p] = "stopped"
           /\ at[p] # 1 => phase'[p] = "stopping" /\ at'[p] = at[p] - 1
<1>1. /\ phase \in [Processes -> Phases] /\ at \in [Processes -> 1 .. 4] /\ DOMAIN Lifecycle = 1 .. 4
  BY LifecycleIs DEF LifecycleInv
<1>2. CASE at[p] = 1
  BY <1>1, <1>2 DEF Stopped, Phases
<1>3. CASE at[p] # 1
  <2>1. at' = [at EXCEPT ![p] = at[p] - 1] /\ phase' = phase
    BY <1>3 DEF Stopped
  <2>2. at[p] - 1 \in 1 .. 4
    BY <1>1, <1>3
  <2> QED
    BY <1>1, <1>3, <2>1, <2>2
<1> QED
  BY <1>2, <1>3

\* A replica that stays where it is, with its consumers.
LEMMA TurnStays ==
    ASSUME NEW q \in Processes, TurnOf(q), Untouched(q), q \in strays' <=> q \in strays,
           phase'[q] = phase[q], at'[q] = at[q], running'[q] = running[q]
    PROVE  TurnOf(q)'
BY Kept DEF TurnOf, Subscribing

\* What a step of the replica p has to show.
LEMMA OneMoves ==
    ASSUME LifecycleInv, NEW p \in Processes,
           schema' \in {"behind", "head"}, up' \in BOOLEAN, botched' \subseteq Processes,
           phase' \in [Processes -> Phases], at' \in [Processes -> DOMAIN Lifecycle],
           running' \in [Processes -> SUBSET Components], strays' \ {p} = strays \ {p},
           \A q \in Processes : q # p =>
              /\ phase'[q] = phase[q] /\ at'[q] = at[q] /\ running'[q] = running[q]
              /\ Untouched(q),
           upgrading' \subseteq upgrading \cup {p}, p \in upgrading' => Starting(p, "migrator")',
           TurnOf(p)'
    PROVE  LifecycleInv'
<1>1. \A q \in Processes : TurnOf(q)'
  BY TurnStays DEF LifecycleInv
<1>2. strays' \cup upgrading' \subseteq Processes
  BY DEF LifecycleInv
<1>3. ASSUME NEW q \in upgrading' PROVE Starting(q, "migrator")'
  BY <1>3 DEF LifecycleInv, Starting
<1> QED
  BY <1>1, <1>2, <1>3 DEF LifecycleInv

\* What a step that leaves the consumers alone has to show.
LEMMA ComponentMoves ==
    ASSUME LifecycleInv, NEW p \in Processes, UNCHANGED <<task, link, round, strays>>,
           schema' \in {"behind", "head"}, up' \in BOOLEAN, botched' \subseteq Processes,
           phase' \in [Processes -> Phases], at' \in [Processes -> DOMAIN Lifecycle],
           running' \in [Processes -> SUBSET Components],
           \A q \in Processes : q # p =>
              phase'[q] = phase[q] /\ at'[q] = at[q] /\ running'[q] = running[q],
           upgrading' \subseteq upgrading \cup {p}, p \in upgrading' => Starting(p, "migrator")',
           TurnOf(p)'
    PROVE  LifecycleInv'
BY OneMoves, SameUntouched

LEMMA GoneStays ==
    ASSUME UNCHANGED <<task, link, round, strays>>, NEW q
    PROVE  /\ Gone(q)' <=> Gone(q)
           /\ LeftBehind(q)' <=> LeftBehind(q)
           /\ JoinsNow(q)' <=> JoinsNow(q)
BY DEF Gone, LeftBehind, JoinsNow, Members, At

\* What the invariant says of one replica.
LEMMA TurnTypes ==
    ASSUME LifecycleInv, NEW p \in Processes
    PROVE  /\ TurnOf(p) /\ at[p] \in 1 .. 4
           /\ \A component : Starting(p, component) \/ Stopping(p, component) =>
                 /\ component = "migrator" <=> at[p] = 1
                 /\ component = "publisher" <=> at[p] = 2
                 /\ component = "subscriber" <=> at[p] = 3
                 /\ component = "dispatcher" <=> at[p] = 4
           /\ p \in upgrading => Starting(p, "migrator")
<1>1. at[p] \in DOMAIN Lifecycle
  BY DEF LifecycleInv
<1> QED
  BY <1>1, IndexOf DEF LifecycleInv, Starting, Stopping

LEMMA StartingTurn ==
    ASSUME LifecycleInv, NEW p \in Processes,
           \/ BeginUpgrade(p) \/ AtHeadAlready(p) \/ CommitUpgrade(p) \/ UpgradeFails(p)
           \/ StartPublisher(p) \/ StartDispatcher(p)
    PROVE  LifecycleInv'
<1>1. /\ UNCHANGED <<task, link, round, strays>>
      /\ Gone(p)' <=> Gone(p)
      /\ LeftBehind(p)' <=> LeftBehind(p)
      /\ JoinsNow(p)' <=> JoinsNow(p)
  BY GoneStays DEF BeginUpgrade, AtHeadAlready, CommitUpgrade, UpgradeFails, StartPublisher,
     StartDispatcher, vars
<1>2. TurnOf(p) /\ at[p] \in 1 .. 4 /\ phase[p] = "starting"
  BY TurnTypes DEF BeginUpgrade, AtHeadAlready, CommitUpgrade, UpgradeFails, StartPublisher,
     StartDispatcher, Starting
<1>3. up' = up /\ schema' \in {"behind", "head"} /\ botched' \subseteq Processes
  BY DEF BeginUpgrade, AtHeadAlready, CommitUpgrade, UpgradeFails, StartPublisher, StartDispatcher,
     LifecycleInv
<1>4. CASE BeginUpgrade(p)
  <2>1. UNCHANGED <<phase, at, running>> /\ upgrading' = upgrading \cup {p} /\ Starting(p, "migrator")
    BY <1>4 DEF BeginUpgrade
  <2>2. TurnOf(p)' /\ Starting(p, "migrator")'
    BY <1>1, <1>2, <2>1 DEF Starting, TurnOf, Subscribing
  <2> QED
    BY <1>1, <1>3, <2>1, <2>2, ComponentMoves DEF LifecycleInv
<1>5. CASE AtHeadAlready(p) \/ CommitUpgrade(p) \/ UpgradeFails(p)
  <2>1. /\ at[p] = 1 /\ Started(p) /\ running' = running
        /\ upgrading' \subseteq upgrading /\ p \notin upgrading'
    BY <1>5, TurnTypes DEF AtHeadAlready, CommitUpgrade, UpgradeFails
  <2>2. /\ phase' \in [Processes -> Phases] /\ at' \in [Processes -> DOMAIN Lifecycle]
        /\ \A q \in Processes : q # p => phase'[q] = phase[q] /\ at'[q] = at[q]
        /\ phase'[p] = "starting" /\ at'[p] = 2
    BY <1>2, <2>1, StartedIs
  <2>3. TurnOf(p)'
    BY <1>1, <1>2, <2>1, <2>2 DEF TurnOf, Subscribing
  <2> QED
    BY <1>1, <1>3, <2>1, <2>2, <2>3, ComponentMoves DEF LifecycleInv
<1>6. CASE StartPublisher(p)
  <2>1. /\ at[p] = 2 /\ Started(p) /\ upgrading' = upgrading /\ p \notin upgrading
        /\ running' = running \/ running' = [running EXCEPT ![p] = @ \cup {"publisher"}]
    BY <1>6, TurnTypes DEF StartPublisher, Runs
  <2>2. /\ phase' \in [Processes -> Phases] /\ at' \in [Processes -> DOMAIN Lifecycle]
        /\ \A q \in Processes : q # p => phase'[q] = phase[q] /\ at'[q] = at[q]
        /\ phase'[p] = "starting" /\ at'[p] = 3
    BY <1>2, <2>1, StartedIs
  <2>3. /\ running' \in [Processes -> SUBSET Components]
        /\ \A q \in Processes : q # p => running'[q] = running[q]
        /\ running'[p] \subseteq running[p] \cup {"publisher"}
    BY <2>1, LifecycleIs DEF LifecycleInv
  <2>4. TurnOf(p)'
    BY <1>1, <1>2, <2>1, <2>2, <2>3 DEF TurnOf, Subscribing
  <2> QED
    BY <1>1, <1>3, <2>1, <2>2, <2>3, <2>4, ComponentMoves DEF LifecycleInv
<1>7. CASE StartDispatcher(p)
  <2>1. /\ at[p] = 4 /\ Started(p) /\ upgrading' = upgrading /\ p \notin upgrading
        /\ running' = [running EXCEPT ![p] = @ \cup {"dispatcher"}]
    BY <1>7, TurnTypes DEF StartDispatcher, Runs
  <2>2. /\ phase' \in [Processes -> Phases] /\ at' \in [Processes -> DOMAIN Lifecycle]
        /\ \A q \in Processes : q # p => phase'[q] = phase[q] /\ at'[q] = at[q]
        /\ phase'[p] = "serving" /\ at'[p] = 4
    BY <1>2, <2>1, StartedIs
  <2>3. /\ running' \in [Processes -> SUBSET Components]
        /\ \A q \in Processes : q # p => running'[q] = running[q]
        /\ running'[p] \subseteq running[p] \cup {"dispatcher"}
    BY <2>1, LifecycleIs DEF LifecycleInv
  <2>4. TurnOf(p)'
    BY <1>1, <1>2, <2>1, <2>2, <2>3 DEF TurnOf, Subscribing
  <2> QED
    BY <1>1, <1>3, <2>1, <2>2, <2>3, <2>4, ComponentMoves DEF LifecycleInv
<1> QED
  BY <1>4, <1>5, <1>6, <1>7

LEMMA ConnectingTurn ==
    ASSUME ConsumerInv, LifecycleInv, NEW p \in Processes, ConnectStep(p) \/ StartSubscriberUnconnected(p)
    PROVE  LifecycleInv'
<1>1. TurnOf(p) /\ at[p] \in 1 .. 4
  BY TurnTypes
<1>2. \/ phase[p] = "starting" /\ at[p] = 3
      \/ "subscriber" \in running[p]
  BY TurnTypes DEF ConnectStep, SubscriberConnects, SubscriberConnected, RetryBreaks,
     StartSubscriberUnconnected, Connecting, Starting
<1>3. phase[p] \in {"starting", "serving", "stopping", "aborted"}
      /\ (phase[p] \in {"starting", "stopping"} => at[p] >= 3)
  BY <1>1, <1>2 DEF TurnOf, LifecycleInv, Phases
<1>4. JoinsNow(p)' /\ \A q \in Processes : q # p => Untouched(q)
  <2>1. JoinsNow(p)
    BY <1>1, <1>3 DEF TurnOf, Subscribing
  <2>2. StartProducer(p) \/ JoinGroup(p) \/ RecordConsumer(p) \/ SetProducer(p) \/ ConnectBreaks(p)
    BY DEF ConnectStep, SubscriberConnects, SubscriberConnected, RetryBreaks, StartSubscriberUnconnected
  <2> QED
    BY <2>1, <2>2, ConnectTasks
<1>5. /\ up' = up /\ schema' = schema /\ botched' = botched /\ upgrading' = upgrading
      /\ strays' = strays
  BY DEF ConnectStep, SubscriberConnects, SubscriberConnected, RetryBreaks, StartSubscriberUnconnected, lvars
<1>6. p \notin upgrading
  BY <1>1, <1>2, TurnTypes DEF TurnOf, Starting
<1>7. \/ UNCHANGED <<phase, at, running>>
      \/ UNCHANGED <<phase, at>> /\ running' = [running EXCEPT ![p] = @ \ {"subscriber"}]
      \/ /\ phase[p] = "starting" /\ at[p] = 3 /\ Started(p)
         /\ running' = running \/ running' = [running EXCEPT ![p] = @ \cup {"subscriber"}]
  BY TurnTypes DEF ConnectStep, SubscriberConnects, SubscriberConnected, RetryBreaks,
     StartSubscriberUnconnected, lvars, Runs, Ends, Starting
<1>8. /\ running' \in [Processes -> SUBSET Components]
      /\ \A q \in Processes : q # p => running'[q] = running[q]
      /\ running'[p] \subseteq running[p] \cup {"subscriber"}
  BY <1>7, LifecycleIs DEF LifecycleInv
<1>9. CASE UNCHANGED <<phase, at>> /\ running'[p] \subseteq running[p]
  <2>1. TurnOf(p)'
    BY <1>1, <1>3, <1>4, <1>9 DEF TurnOf, Subscribing
  <2> QED
    BY <1>4, <1>5, <1>6, <1>8, <1>9, <2>1, OneMoves DEF LifecycleInv
<1>10. CASE phase[p] = "starting" /\ at[p] = 3 /\ Started(p)
  <2>1. /\ phase' \in [Processes -> Phases] /\ at' \in [Processes -> DOMAIN Lifecycle]
        /\ \A q \in Processes : q # p => phase'[q] = phase[q] /\ at'[q] = at[q]
        /\ phase'[p] = "starting" /\ at'[p] = 4
    BY <1>10, StartedIs
  <2>2. TurnOf(p)'
    BY <1>1, <1>4, <1>8, <2>1 DEF TurnOf, Subscribing
  <2> QED
    BY <1>4, <1>5, <1>6, <1>8, <2>1, <2>2, OneMoves DEF LifecycleInv
<1>11. \/ UNCHANGED <<phase, at>> /\ running'[p] \subseteq running[p]
       \/ phase[p] = "starting" /\ at[p] = 3 /\ Started(p)
  BY <1>7 DEF LifecycleInv
<1> QED
  BY <1>9, <1>10, <1>11

LEMMA StoppingTurn ==
    ASSUME ConsumerInv, LifecycleInv, NEW p \in Processes,
           StopPublisher(p) \/ StopSubscriber(p) \/ StopDispatcher(p) \/ StopMigrator(p)
    PROVE  LifecycleInv'
<1>1. TurnOf(p) /\ at[p] \in 1 .. 4 /\ phase[p] = "stopping" /\ Stopped(p)
  BY TurnTypes DEF StopPublisher, StopSubscriber, StopDispatcher, StopMigrator, Stopping
<1>2. /\ phase' \in [Processes -> Phases] /\ at' \in [Processes -> DOMAIN Lifecycle]
      /\ \A q \in Processes : q # p => phase'[q] = phase[q] /\ at'[q] = at[q]
      /\ at[p] = 1 => phase'[p] = "stopped"
      /\ at[p] # 1 => phase'[p] = "stopping" /\ at'[p] = at[p] - 1
  BY <1>1, StoppedIs
<1>3. /\ up' = up /\ schema' = schema /\ botched' = botched /\ upgrading' = upgrading
      /\ p \notin upgrading
  BY <1>1, TurnTypes DEF StopPublisher, StopSubscriber, StopDispatcher, StopMigrator, Starting
<1>4. \E component \in Components :
         /\ at[p] = 1 <=> component = "migrator"
         /\ at[p] = 2 <=> component = "publisher"
         /\ at[p] = 3 <=> component = "subscriber"
         /\ at[p] = 4 <=> component = "dispatcher"
         /\ running' = [running EXCEPT ![p] = @ \ {component}]
  <2>1. CASE StopMigrator(p)
    <3>1. running' = [running EXCEPT ![p] = @ \ {"migrator"}]
      BY <1>1, <2>1 DEF StopMigrator, LifecycleInv, TurnOf
    <3> QED
      BY <2>1, <3>1, TurnTypes, LifecycleIs DEF StopMigrator
  <2>2. CASE StopPublisher(p) \/ StopSubscriber(p) \/ StopDispatcher(p)
    BY <2>2, TurnTypes, LifecycleIs DEF StopPublisher, StopSubscriber, StopDispatcher, Ends
  <2> QED
    BY <2>1, <2>2
<1>5. /\ running' \in [Processes -> SUBSET Components]
      /\ \A q \in Processes : q # p => running'[q] = running[q]
      /\ running'[p] \subseteq running[p]
      /\ at[p] = 2 => "publisher" \notin running'[p]
      /\ at[p] = 3 => "subscriber" \notin running'[p]
      /\ at[p] = 4 => "dispatcher" \notin running'[p]
  BY <1>4 DEF LifecycleInv
<1>6. CASE StopSubscriber(p)
  <2>1. /\ Depart(Recorded(p)) /\ link' = [link EXCEPT ![p] = "none"] /\ round' = round
        /\ strays' = IF link[p] \in {"started", "joining", "joined"} THEN strays \cup {p} ELSE strays
        /\ at[p] = 3
    BY <1>6, TurnTypes DEF StopSubscriber
  <2>2. /\ strays' \ {p} = strays \ {p} /\ (link[p] = "joining" => p \in strays') /\ link'[p] = "none"
        /\ \A q \in Processes : q # p => link'[q] = link[q]
    BY <2>1 DEF ConsumerInv, TypeOK
  <2>3. \A c \in Consumers : IF c \in Recorded(p) THEN task'[c].step = "off"
                                                  ELSE task'[c].step = task[c].step
    <3>1. Recorded(p) \in SUBSET Consumers
      BY DEF Recorded
    <3> QED
      BY <2>1, <3>1, DepartTasks
  <2>4. JoinsNow(p)
    BY <1>1, <2>1 DEF TurnOf, Subscribing
  <2>5. LeftBehind(p)'
    <3> SUFFICES ASSUME NEW c \in Consumers, task'[c].step # "off", c[1] = p
                 PROVE  p \in strays' /\ task'[c].step = "joining" /\ c[2] = round'[p]
      BY <2>2 DEF LeftBehind, Members, At
    <3>1. c \notin Recorded(p) /\ task'[c].step = task[c].step
      BY <2>3
    <3>2. task[c].step = "joining"
      BY <3>1 DEF Recorded, At
    <3> QED
      BY <2>1, <2>2, <2>4, <3>1, <3>2 DEF JoinsNow, Members, At
  <2>6. \A q \in Processes : q # p => Untouched(q)
    BY <2>1, <2>2, <2>3 DEF Untouched, Recorded
  <2>7. TurnOf(p)'
    BY <1>1, <1>2, <1>5, <2>1, <2>5 DEF TurnOf, Subscribing
  <2> QED
    BY <1>2, <1>3, <1>5, <2>2, <2>6, <2>7, OneMoves DEF LifecycleInv
<1>7. CASE StopPublisher(p) \/ StopDispatcher(p) \/ StopMigrator(p)
  <2>1. UNCHANGED <<task, link, round, strays>> /\ at[p] # 3
    BY <1>7, TurnTypes DEF StopPublisher, StopDispatcher, StopMigrator, vars
  <2>2. /\ LeftBehind(p)' <=> LeftBehind(p)
        /\ JoinsNow(p)' <=> JoinsNow(p)
    BY <2>1, GoneStays
  <2>3. TurnOf(p)'
    BY <1>1, <1>2, <1>5, <2>1, <2>2 DEF TurnOf, Subscribing
  <2> QED
    BY <1>2, <1>3, <1>5, <2>1, <2>3, ComponentMoves DEF LifecycleInv
<1> QED
  BY <1>6, <1>7

LEMMA RestTurn ==
    ASSUME ConsumerInv, LifecycleInv, NEW p \in Processes,
           \/ Boot(p) \/ PublishConnects(p) \/ StopBreaksOff(p) \/ Shutdown(p) \/ Crash(p) \/ Exit(p)
    PROVE  LifecycleInv'
<1>1. TurnOf(p) /\ at[p] \in 1 .. 4 /\ (p \in upgrading => phase[p] = "starting")
  BY TurnTypes DEF Starting
<1>2. up' = up /\ schema' = schema /\ botched' = botched
  BY DEF Boot, PublishConnects, StopBreaksOff, Shutdown, Crash, Exit, Dies
<1>3. CASE Boot(p) \/ StopBreaksOff(p) \/ Shutdown(p)
  <2>1. /\ UNCHANGED <<task, link, round, strays>>
        /\ Gone(p)' <=> Gone(p)
        /\ LeftBehind(p)' <=> LeftBehind(p)
        /\ JoinsNow(p)' <=> JoinsNow(p)
        /\ UNCHANGED <<running, upgrading>> /\ p \notin upgrading
    BY <1>1, <1>3, GoneStays DEF Boot, StopBreaksOff, Shutdown, Stopping, vars
  <2>2. /\ phase' \in [Processes -> Phases] /\ at' \in [Processes -> DOMAIN Lifecycle]
        /\ \A q \in Processes : q # p => phase'[q] = phase[q] /\ at'[q] = at[q]
        /\ \/ phase[p] = "down" /\ phase'[p] = "starting" /\ at'[p] = 1
           \/ phase[p] = "stopping" /\ at[p] = 3 /\ phase'[p] = "aborted" /\ at'[p] = at[p]
           \/ phase[p] = "serving" /\ phase'[p] = "stopping" /\ at'[p] = at[p]
    BY <1>3, LifecycleIs, TurnTypes DEF Boot, StopBreaksOff, Shutdown, Stopping, LifecycleInv, Phases
  <2>3. Gone(p) => JoinsNow(p)
    BY DEF Gone, JoinsNow
  <2>4. TurnOf(p)'
    BY <1>1, <2>1, <2>2, <2>3 DEF TurnOf, Subscribing
  <2> QED
    BY <1>2, <2>1, <2>2, <2>4, ComponentMoves DEF LifecycleInv
<1>4. CASE PublishConnects(p)
  <2>1. /\ UNCHANGED <<task, link, round, strays>>
        /\ Gone(p)' <=> Gone(p)
        /\ LeftBehind(p)' <=> LeftBehind(p)
        /\ JoinsNow(p)' <=> JoinsNow(p)
        /\ UNCHANGED <<phase, at, upgrading>> /\ "dispatcher" \in running[p]
        /\ running' = [running EXCEPT ![p] = @ \cup {"publisher"}]
    BY <1>4, GoneStays DEF PublishConnects, Runs, vars
  <2>2. /\ running' \in [Processes -> SUBSET Components]
        /\ \A q \in Processes : q # p => running'[q] = running[q]
        /\ running'[p] = running[p] \cup {"publisher"}
    BY <2>1, LifecycleIs DEF LifecycleInv
  <2>3. TurnOf(p)'
    BY <1>1, <2>1, <2>2 DEF TurnOf, Subscribing
  <2>4. p \in upgrading' => Starting(p, "migrator")'
    BY <2>1, TurnTypes DEF Starting
  <2> QED
    BY <1>2, <2>1, <2>2, <2>3, <2>4, ComponentMoves DEF LifecycleInv
<1>5. CASE Crash(p) \/ Exit(p)
  <2>1. Leave(p) /\ at' = at /\ running' = [running EXCEPT ![p] = {}] /\ strays' = strays \ {p}
    BY <1>5 DEF Crash, Exit, Dies
  <2>2. Gone(p)' /\ \A q \in Processes : q # p => Untouched(q)
    BY <2>1, LeaveGone
  <2>3. /\ phase' \in [Processes -> Phases] /\ phase'[p] \in {"down", "gone"}
        /\ \A q \in Processes : q # p => phase'[q] = phase[q]
    BY <1>5 DEF Crash, Exit, LifecycleInv, Phases
  <2>4. upgrading' \subseteq upgrading /\ p \notin upgrading'
    BY <1>1, <1>5 DEF Crash, Exit
  <2>5. /\ running' \in [Processes -> SUBSET Components] /\ running'[p] = {}
        /\ \A q \in Processes : q # p => running'[q] = running[q]
    BY <2>1 DEF LifecycleInv
  <2>6. TurnOf(p)'
    BY <2>1, <2>2, <2>3, <2>5 DEF TurnOf, Subscribing
  <2> QED
    BY <1>2, <2>1, <2>2, <2>3, <2>4, <2>5, <2>6, OneMoves DEF LifecycleInv
<1> QED
  BY <1>3, <1>4, <1>5

\* No replica moves, and none joins.
LEMMA NoneMoves ==
    ASSUME LifecycleInv, UNCHANGED <<schema, phase, at, running, strays, upgrading, botched>>, up' \in BOOLEAN,
           \A q \in Processes : Untouched(q)
    PROVE  LifecycleInv'
<1>1. \A q \in Processes : TurnOf(q)'
  BY TurnStays DEF LifecycleInv
<1>2. \A q \in upgrading' : Starting(q, "migrator")'
  BY DEF LifecycleInv, Starting
<1> QED
  BY <1>1, <1>2 DEF LifecycleInv

LEMMA LifecycleNext == ASSUME ConsumerInv, LifecycleInv, [ReplicaNext]_rvars PROVE LifecycleInv'
<1>1. ASSUME NEW c \in Consumers, TaskRuns(c) \/ TaskBreaks(c) PROVE LifecycleInv'
  <2>1. \A q \in Processes : Untouched(q)
    BY <1>1, TaskSteps
  <2>2. UNCHANGED lvars
    BY <1>1 DEF TaskRuns, TaskBreaks
  <2>3. up' \in BOOLEAN
    BY <2>2 DEF lvars, LifecycleInv
  <2> QED
    BY <2>1, <2>2, <2>3, NoneMoves DEF lvars
<1>2. CASE GroupRebalances
  <2>1. \A q \in Processes : Untouched(q)
    BY <1>2, RebalanceTasks DEF GroupRebalances
  <2>2. UNCHANGED lvars
    BY <1>2 DEF GroupRebalances
  <2>3. up' \in BOOLEAN
    BY <2>2 DEF lvars, LifecycleInv
  <2> QED
    BY <2>1, <2>2, <2>3, NoneMoves DEF lvars
<1>3. CASE BrokerGoesDown \/ BrokerComesBack \/ UNCHANGED rvars
  <2>1. /\ UNCHANGED <<task, link, round, schema, phase, at, running, strays, upgrading, botched>>
        /\ up' \in BOOLEAN
    BY <1>3 DEF BrokerGoesDown, BrokerComesBack, rvars, lvars, vars, LifecycleInv
  <2> QED
    BY <2>1, SameUntouched, NoneMoves
<1> QED
  BY <1>1, <1>2, <1>3, StartingTurn, ConnectingTurn, StoppingTurn, RestTurn
  DEF ReplicaNext, LifespanStep, Quiet

LEMMA LifecycleInit == ReplicaInit => ConsumerInv /\ LifecycleInv
<1> SUFFICES ASSUME ReplicaInit PROVE ConsumerInv /\ LifecycleInv
  OBVIOUS
<1>1. ConsumerInv
  BY ConsumerInitInv DEF ReplicaInit
<1>2. \A p \in Processes : Gone(p)
  <2>1. Members(task) = {}
    BY NoTaskType DEF ReplicaInit, Init, Members
  <2> QED
    BY <2>1 DEF ReplicaInit, Init, Gone
<1>3. \A p \in Processes : TurnOf(p)
  BY <1>2 DEF ReplicaInit, TurnOf, Subscribing
<1>4. 1 \in DOMAIN Lifecycle
  BY LifecycleIs
<1> QED
  BY <1>1, <1>3, <1>4 DEF ReplicaInit, LifecycleInv, Phases

ReplicaInv == ConsumerInv /\ LifecycleInv

LEMMA ReplicaInvariant == ReplicaSpec => []ReplicaInv
<1>1. ReplicaInit => ReplicaInv
  BY LifecycleInit DEF ReplicaInv
<1>2. ReplicaInv /\ [ReplicaNext]_rvars => ReplicaInv'
  BY ConsumerPart, LifecycleNext DEF ReplicaInv
<1> QED
  BY <1>1, <1>2, PTL DEF ReplicaSpec

\* Only a replica at its migrator has an upgrade begun, and a component runs only once its turn to
\* start has come: _lifespan's order holds in every interleaving with crashes and outages.
THEOREM ReplicaTypeCorrect == ReplicaSpec => []ReplicaTypeOK
<1>1. ReplicaInv => ReplicaTypeOK
  <2> SUFFICES ASSUME ReplicaInv, NEW p \in Processes, phase[p] = "starting"
               PROVE  running[p] \subseteq {Lifecycle[i] : i \in 1 .. at[p]}
    BY DEF ReplicaInv, ReplicaTypeOK, ConsumerInv, LifecycleInv
  <2>1. TurnOf(p) /\ at[p] \in 1 .. 4
    BY TurnTypes DEF ReplicaInv
  <2>2. /\ "publisher" \in running[p] => at[p] >= 2
        /\ "subscriber" \in running[p] => at[p] >= 3
        /\ "dispatcher" \in running[p] => at[p] >= 4
    BY <2>1 DEF TurnOf
  <2>3. running[p] \subseteq {"publisher", "subscriber", "dispatcher"}
    BY <2>1 DEF TurnOf
  <2> QED
    BY <2>1, <2>2, <2>3, LifecycleIs
<1> QED
  BY <1>1, ReplicaInvariant, PTL

\* When _lifespan is through with its components no task, no connection and no recorded consumer is
\* left, whatever _retry_connect and the dispatcher did in between; until the process ends there may be
\* a producer, and one member of the group that reads nothing, both from a _connect that stop() cancelled.
THEOREM OnlyStraysLeft == ReplicaSpec => []StoppedLeavesOnlyStrays
<1>1. ReplicaInv => StoppedLeavesOnlyStrays
  <2> SUFFICES ASSUME ReplicaInv, NEW p \in Processes, phase[p] \in {"stopped", "gone"}
               PROVE  /\ running[p] = {} /\ link[p] = "none"
                      /\ \A c \in Members(task) : c[1] = p =>
                            p \in strays /\ At(c, "joining") /\ c[2] = round[p]
                      /\ p \in strays => phase[p] = "stopped"
    BY DEF StoppedLeavesOnlyStrays
  <2>1. TurnOf(p)
    BY DEF ReplicaInv, LifecycleInv
  <2> QED
    BY <2>1 DEF TurnOf, Gone, LeftBehind
<1> QED
  BY <1>1, ReplicaInvariant, PTL

-----------------------------------------------------------------------------
(* Racing upgrades.                                                        *)

\* As long as no upgrade failed for a reason of its own, no replica is past its migrator on a schema
\* that is behind.
NobodyPastMigrator ==
    schema = "behind" =>
        \A p \in Processes : phase[p] = "down" \/ (phase[p] = "starting" /\ at[p] = 1)

\* A message that its handler could handle is tried once, and once more for each trouble.
Patient(t) ==
    (t.step \in {"handle", "reroute"} /\ log[t.message] = "fine") =>
        t.step = "handle" /\ t.attempt <= 1 + trouble

TasksPatient == \A c \in Consumers : Patient(task[c])
FineIsKept == \A m \in retried \cup dropped : log[m] # "fine"

HarmlessInv == botched = {} => NobodyPastMigrator /\ TasksPatient /\ FineIsKept

\* Troubles are counted up, upgrades that failed are not forgotten, and the log is what it is.
LEMMA TroubleGrows ==
    ASSUME ConsumerInv, [ReplicaNext]_rvars
    PROVE  log' = log /\ trouble \in Nat /\ trouble' \in Nat /\ trouble <= trouble' /\ botched \subseteq botched'
<1>1. trouble \in 0 .. MaxTrouble /\ trouble' \in 0 .. MaxTrouble /\ MaxTrouble \in Nat
  BY ConsumerPart, BoundsAssumption DEF ConsumerInv, TypeOK
<1>2. trouble' = trouble \/ trouble' = trouble + 1
  BY DEF ReplicaNext, rvars, vars, LifespanStep, ConnectStep, Boot, BeginUpgrade, AtHeadAlready, CommitUpgrade,
     UpgradeFails, StartPublisher, PublishConnects, StopPublisher, SubscriberConnects, SubscriberConnected,
     StartSubscriberUnconnected, RetryBreaks, StopSubscriber, StopBreaksOff, StartDispatcher, StopDispatcher,
     StopMigrator, Shutdown, Crash, Exit, BrokerGoesDown, BrokerComesBack, TaskRuns, TaskBreaks,
     GroupRebalances, Quiet, StartProducer, JoinGroup, RecordConsumer, SetProducer, Rebalance, Poll, HandlerSucceeds, HandlerRaises, Reroute,
     CommitOffset, BrokerRaises, SchemaMissing, Troubled
<1>3. log' = log
  BY DEF ReplicaNext, rvars, vars, LifespanStep, ConnectStep, Boot, BeginUpgrade, AtHeadAlready, CommitUpgrade,
     UpgradeFails, StartPublisher, PublishConnects, StopPublisher, SubscriberConnects, SubscriberConnected,
     StartSubscriberUnconnected, RetryBreaks, StopSubscriber, StopBreaksOff, StartDispatcher, StopDispatcher,
     StopMigrator, Shutdown, Crash, Exit, Dies, BrokerGoesDown, BrokerComesBack, TaskRuns, TaskBreaks,
     GroupRebalances, Quiet, StartProducer, JoinGroup, RecordConsumer, SetProducer, ConnectBreaks, Rebalance, Poll, HandlerSucceeds,
     HandlerRaises, Reroute, CommitOffset, BrokerRaises, SchemaMissing, Group
<1>4. botched \subseteq botched'
  BY DEF ReplicaNext, rvars, lvars, LifespanStep, ConnectStep, Boot, BeginUpgrade, AtHeadAlready, CommitUpgrade,
     UpgradeFails, StartPublisher, PublishConnects, StopPublisher, SubscriberConnects, SubscriberConnected,
     StartSubscriberUnconnected, RetryBreaks, StopSubscriber, StopBreaksOff, StartDispatcher, StopDispatcher,
     StopMigrator, Shutdown, Crash, Exit, Dies, BrokerGoesDown, BrokerComesBack, TaskRuns, TaskBreaks,
     GroupRebalances, Quiet
<1> QED
  BY <1>1, <1>2, <1>3, <1>4

LEMMA PatientStays ==
    ASSUME log' = log, trouble \in Nat, trouble' \in Nat, trouble <= trouble',
           NEW t, NEW u, t.step = u.step, t.message = u.message, t.attempt = u.attempt, Patient(t),
           t.attempt \in Nat
    PROVE  Patient(u)'
BY DEF Patient

\* A task that is not at a message.
LEMMA PatientElsewhere ==
    ASSUME NEW u, u.step \notin {"handle", "reroute"}
    PROVE  Patient(u)'
BY DEF Patient

LEMMA Attempts ==
    ASSUME ConsumerInv
    PROVE  \A c \in Consumers : task[c] \in Task /\ task[c].attempt \in Nat
BY BoundsAssumption DEF ConsumerInv, TypeOK, Task

\* Nobody gets past the migrator on a schema that is behind.
LEMMA NobodyPastNext ==
    ASSUME ReplicaInv, botched = {}, NobodyPastMigrator, [ReplicaNext]_rvars, botched' = {}
    PROVE  NobodyPastMigrator'
<1> SUFFICES ASSUME schema' = "behind", NEW q \in Processes
             PROVE  phase'[q] = "down" \/ (phase'[q] = "starting" /\ at'[q] = 1)
  BY DEF NobodyPastMigrator
<1>1. phase \in [Processes -> Phases] /\ at \in [Processes -> DOMAIN Lifecycle]
  BY DEF ReplicaInv, LifecycleInv
<1>2. ASSUME UNCHANGED <<schema, phase, at>>
      PROVE  phase'[q] = "down" \/ (phase'[q] = "starting" /\ at'[q] = 1)
  BY <1>2 DEF NobodyPastMigrator
<1>3. ASSUME NEW p \in Processes, Boot(p) \/ Crash(p)
      PROVE  phase'[q] = "down" \/ (phase'[q] = "starting" /\ at'[q] = 1)
  BY <1>1, <1>3 DEF Boot, Crash, Dies, NobodyPastMigrator
<1>4. ASSUME NEW p \in Processes, schema = "behind"
      PROVE  /\ ~ AtHeadAlready(p) /\ ~ Shutdown(p) /\ ~ Exit(p) /\ ~ UpgradeFails(p) /\ ~ CommitUpgrade(p)
             /\ \A component : ~ Stopping(p, component)
             /\ \A component : Starting(p, component) => component = "migrator"
  <2>1. phase[p] = "down" \/ (phase[p] = "starting" /\ at[p] = 1)
    BY <1>4 DEF NobodyPastMigrator
  <2>2. ~ AtHeadAlready(p) /\ ~ Shutdown(p) /\ ~ Exit(p) /\ ~ CommitUpgrade(p)
    BY <1>4, <2>1 DEF AtHeadAlready, Shutdown, Exit, CommitUpgrade
  <2>3. ~ UpgradeFails(p)
    BY <1>4 DEF UpgradeFails
  <2>4. \A component : ~ Stopping(p, component)
    BY <2>1 DEF Stopping
  <2>5. \A component : Starting(p, component) => component = "migrator"
    BY <2>1, LifecycleIs DEF Starting
  <2> QED
    BY <2>2, <2>3, <2>4, <2>5
<1>5. ASSUME NEW p \in Processes,
             \/ BeginUpgrade(p) \/ AtHeadAlready(p) \/ CommitUpgrade(p) \/ UpgradeFails(p)
             \/ StartPublisher(p) \/ StopPublisher(p) \/ StartSubscriberUnconnected(p) \/ StopSubscriber(p)
             \/ StopBreaksOff(p) \/ StartDispatcher(p) \/ StopDispatcher(p) \/ StopMigrator(p) \/ Exit(p)
             \/ Shutdown(p)
      PROVE  phase'[q] = "down" \/ (phase'[q] = "starting" /\ at'[q] = 1)
  <2>1. schema = "behind"
    BY <1>5 DEF BeginUpgrade, AtHeadAlready, CommitUpgrade, UpgradeFails, StartPublisher, StopPublisher,
       StartSubscriberUnconnected, StopSubscriber, StopBreaksOff, StartDispatcher, StopDispatcher, StopMigrator,
       Exit, Dies, Shutdown
  <2>2. BeginUpgrade(p)
    BY <1>4, <1>5, <2>1 DEF StartPublisher, StopPublisher, StartSubscriberUnconnected, StopSubscriber,
       StopBreaksOff, StartDispatcher, StopDispatcher, StopMigrator
  <2> QED
    BY <1>2, <2>2 DEF BeginUpgrade
<1>6. ASSUME NEW p \in Processes, ConnectStep(p) \/ PublishConnects(p)
      PROVE  phase'[q] = "down" \/ (phase'[q] = "starting" /\ at'[q] = 1)
  <2>1. schema = "behind"
    BY <1>6 DEF ConnectStep, SubscriberConnects, SubscriberConnected, RetryBreaks, PublishConnects, lvars
  <2>2. ~ Starting(p, "subscriber")
    BY <1>4, <2>1
  <2>3. UNCHANGED <<schema, phase, at>>
    BY <1>6, <2>2 DEF ConnectStep, SubscriberConnects, SubscriberConnected, RetryBreaks, PublishConnects, lvars
  <2> QED
    BY <1>2, <2>3
<1>7. ASSUME \/ \E c \in Consumers : TaskRuns(c) \/ TaskBreaks(c)
             \/ GroupRebalances \/ BrokerGoesDown \/ BrokerComesBack \/ UNCHANGED rvars
      PROVE  UNCHANGED <<schema, phase, at>>
  BY <1>7 DEF TaskRuns, TaskBreaks, GroupRebalances, BrokerGoesDown, BrokerComesBack, rvars, lvars
<1> QED
  BY <1>2, <1>3, <1>5, <1>6, <1>7 DEF ReplicaNext, LifespanStep, Quiet

\* With its schema at the head, a task gives up no message that its handler could handle: fewer
\* troubles are ahead than it has attempts.
LEMMA HarmlessTask ==
    ASSUME ReplicaInv, MaxTrouble < MaxRetries, botched = {}, NobodyPastMigrator, TasksPatient, FineIsKept,
           [ReplicaNext]_rvars, NEW c \in Consumers, TaskRuns(c) \/ TaskBreaks(c)
    PROVE  TasksPatient' /\ FineIsKept'
<1>1. /\ ConsumerInv /\ LifecycleInv /\ log' = log /\ trouble \in Nat /\ trouble' \in Nat /\ trouble <= trouble'
      /\ \A d \in Consumers : task[d] \in Task /\ task[d].attempt \in Nat
      /\ MaxRetries \in Nat /\ MaxTrouble \in Nat
  BY TroubleGrows, Attempts, BoundsAssumption DEF ReplicaInv
<1>2. /\ c \in Members(task) /\ \A d \in Consumers : d # c => task'[d] = task[d]
  BY <1>1, TaskSteps
<1>3. schema = "head"
  <2>1. c[1] \in Processes
    BY BoundsAssumption DEF Consumers
  <2>2. ~ Gone(c[1])
    BY <1>2 DEF Gone
  <2>3. TurnOf(c[1])
    BY <1>1, <2>1 DEF LifecycleInv
  <2>4. ~ (phase[c[1]] = "down" \/ (phase[c[1]] = "starting" /\ at[c[1]] = 1))
    BY <2>2, <2>3 DEF TurnOf
  <2> QED
    BY <1>1, <2>1, <2>4 DEF NobodyPastMigrator, LifecycleInv
<1>4. Patient(task[c])' /\ FineIsKept'
  <2>1. Patient(task[c]) /\ task[c] \in Task
    BY <1>1 DEF TasksPatient
  <2>2. CASE Poll(c)
    <3> DEFINE m == task[c].position + 1
               next == CASE log[m] = "malformed" -> "failed"
                         [] log[m] = "unhandled" -> "commit"
                         [] OTHER                -> "handle"
    <3>1. next # "reroute"
      OBVIOUS
    <3>2. /\ task' = [task EXCEPT ![c] = [step |-> next, position |-> m, message |-> m, attempt |-> 1]]
          /\ UNCHANGED <<retried, dropped>>
      BY <2>2 DEF Poll
    <3> HIDE DEF next, m
    <3>3. task'[c].step # "reroute" /\ task'[c].attempt = 1
      BY <3>1, <3>2 DEF ReplicaInv, ConsumerInv, TypeOK
    <3> QED
      BY <1>1, <3>2, <3>3 DEF Patient, FineIsKept
  <2>3. CASE HandlerSucceeds(c) \/ CommitOffset(c) \/ BrokerRaises(c)
    <3>1. \E step \in {"commit", "poll", "failed"} : task' = [task EXCEPT ![c].step = step]
      BY <2>3 DEF HandlerSucceeds, CommitOffset, BrokerRaises, Goes
    <3>2. task'[c].step \in {"commit", "poll", "failed"}
      BY <3>1, <2>1 DEF ReplicaInv, ConsumerInv, TypeOK, Task
    <3>3. UNCHANGED <<retried, dropped>>
      BY <2>3 DEF HandlerSucceeds, CommitOffset, BrokerRaises
    <3> QED
      BY <1>1, <3>2, <3>3 DEF Patient, FineIsKept
  <2>4. CASE Reroute(c)
    <3>1. task'[c].step = "commit"
      BY <2>1, <2>4 DEF Reroute, Goes, ReplicaInv, ConsumerInv, TypeOK, Task
    <3>2. log[task[c].message] # "fine"
      BY <2>1, <2>4 DEF Reroute, At, Patient
    <3>3. retried' \cup dropped' = retried \cup dropped \cup {task[c].message}
      BY <2>4 DEF Reroute
    <3> QED
      BY <1>1, <3>1, <3>2, <3>3 DEF Patient, FineIsKept
  <2>5. CASE HandlerRaises(c)
    <3>1. /\ task[c].step = "handle" /\ UNCHANGED <<retried, dropped>>
          /\ task' = IF task[c].attempt = MaxRetries
                     THEN [task EXCEPT ![c].step = "reroute"]
                     ELSE [task EXCEPT ![c].attempt = @ + 1]
          /\ log[task[c].message] = "failing" \/ (trouble < MaxTrouble /\ trouble' = trouble + 1)
      BY <2>5 DEF HandlerRaises, AttemptFailed, At, Troubled
    <3>2. task'[c].message = task[c].message
      BY <2>1, <3>1 DEF ReplicaInv, ConsumerInv, TypeOK, Task
    <3>3. CASE log[task[c].message] = "failing"
      BY <1>1, <3>1, <3>2, <3>3 DEF Patient, FineIsKept
    <3>4. CASE log[task[c].message] # "fine"
      BY <1>1, <3>1, <3>2, <3>4 DEF Patient, FineIsKept
    <3>5. CASE log[task[c].message] = "fine"
      <4>1. task[c].attempt <= 1 + trouble /\ trouble < MaxTrouble /\ trouble' = trouble + 1
        BY <2>1, <3>1, <3>5 DEF Patient
      <4>2. task[c].attempt # MaxRetries
        BY <1>1, <4>1
      <4>3. task' = [task EXCEPT ![c].attempt = @ + 1]
        BY <3>1, <4>2
      <4>4. task'[c].step = "handle" /\ task'[c].attempt = task[c].attempt + 1
        BY <2>1, <3>1, <4>3 DEF ReplicaInv, ConsumerInv, TypeOK, Task
      <4>5. task'[c].attempt <= 1 + trouble'
        BY <1>1, <4>1, <4>4
      <4> QED
        BY <1>1, <3>1, <4>4, <4>5 DEF Patient, FineIsKept
    <3> QED
      BY <3>4, <3>5
  <2> QED
    BY <1>3, <2>2, <2>3, <2>4, <2>5 DEF TaskRuns, TaskBreaks, SchemaMissing
<1>5. ASSUME NEW d \in Consumers, d # c PROVE Patient(task[d])'
  BY <1>1, <1>2, <1>5, PatientStays DEF TasksPatient
<1> QED
  BY <1>4, <1>5 DEF TasksPatient

\* The other steps leave the messages at hand alone, or drop their tasks.
LEMMA HarmlessRest ==
    ASSUME ReplicaInv, TasksPatient, FineIsKept, [ReplicaNext]_rvars,
           ~ \E c \in Consumers : TaskRuns(c) \/ TaskBreaks(c)
    PROVE  TasksPatient' /\ FineIsKept'
<1>1. /\ ConsumerInv /\ log' = log /\ trouble \in Nat /\ trouble' \in Nat /\ trouble <= trouble'
      /\ \A d \in Consumers : task[d] \in Task /\ task[d].attempt \in Nat
  BY TroubleGrows, Attempts DEF ReplicaInv
<1>2. ASSUME \A c \in Consumers : \/ /\ task'[c].step = task[c].step
                                     /\ task'[c].message = task[c].message
                                     /\ task'[c].attempt = task[c].attempt
                                  \/ task'[c].step \in {"off", "joining", "poll"}
      PROVE  TasksPatient'
  <2> SUFFICES ASSUME NEW c \in Consumers PROVE Patient(task[c])'
    BY DEF TasksPatient
  <2>1. CASE /\ task'[c].step = task[c].step
             /\ task'[c].message = task[c].message
             /\ task'[c].attempt = task[c].attempt
    BY <1>1, <2>1 DEF TasksPatient, Patient
  <2>2. CASE task'[c].step \in {"off", "joining", "poll"}
    BY <2>2 DEF Patient
  <2> QED
    BY <1>2, <2>1, <2>2
<1>3. ASSUME NEW p \in Processes, JoinGroup(p) \/ RecordConsumer(p) PROVE TasksPatient'
  <2>1. CASE RecordConsumer(p)
    <3>1. task' = [task EXCEPT ![<<p, round[p]>>].step = "poll"]
      BY <2>1 DEF RecordConsumer
    <3>2. \A c \in Consumers : task'[c] = task[c] \/ task'[c].step = "poll"
      BY <1>1, <3>1 DEF ConsumerInv, TypeOK, Task
    <3> QED
      BY <1>2, <3>2
  <2>2. CASE JoinGroup(p)
    <3> DEFINE new == <<p, round[p] + 1>>
               tasks == [task EXCEPT ![new] = [NoTask EXCEPT !.step = "joining"]]
    <3>1. [NoTask EXCEPT !.step = "joining"] \in Task /\ [NoTask EXCEPT !.step = "joining"].step = "joining"
      BY NoTaskType DEF Task, Steps
    <3>2. /\ tasks \in [Consumers -> Task]
          /\ \A c \in Consumers : tasks[c] = task[c] \/ tasks[c].step = "joining"
      BY <1>1, <3>1 DEF ConsumerInv, TypeOK
    <3>3. Assign(tasks)
      BY <2>2 DEF JoinGroup
    <3> HIDE DEF tasks
    <3>4. \A c \in Consumers : /\ task'[c].step = tasks[c].step
                               /\ task'[c].message = tasks[c].message
                               /\ task'[c].attempt = tasks[c].attempt
      BY <1>1, <3>2, <3>3, AssignedTasks
    <3> QED
      BY <1>2, <3>2, <3>4
  <2> QED
    BY <1>3, <2>1, <2>2
<1>4. ASSUME NEW leaving \in SUBSET Consumers, Depart(leaving) PROVE TasksPatient'
  <2>1. \A c \in Consumers :
           IF c \in leaving THEN task'[c].step = "off"
           ELSE /\ task'[c].step = task[c].step /\ task'[c].message = task[c].message
                /\ task'[c].attempt = task[c].attempt
    BY <1>1, <1>4, DepartTasks
  <2> QED
    BY <1>2, <2>1
<1>5. ASSUME Rebalance PROVE TasksPatient'
  BY <1>1, <1>2, <1>5, RebalanceTasks
<1>6. ASSUME task' = task PROVE TasksPatient'
  BY <1>2, <1>6
<1>7. \/ \E p \in Processes : JoinGroup(p) \/ RecordConsumer(p)
      \/ \E leaving \in SUBSET Consumers : Depart(leaving)
      \/ Rebalance \/ task' = task
  <2>1. ASSUME NEW p \in Processes, StopSubscriber(p) \/ Leave(p)
        PROVE  \E leaving \in SUBSET Consumers : Depart(leaving)
    BY <2>1 DEF StopSubscriber, Leave, Recorded
  <2>2. \/ \E p \in Processes : JoinGroup(p) \/ RecordConsumer(p) \/ StopSubscriber(p) \/ Leave(p)
        \/ Rebalance \/ task' = task
    BY DEF ReplicaNext, rvars, vars, LifespanStep, ConnectStep, Boot, BeginUpgrade, AtHeadAlready, CommitUpgrade,
       UpgradeFails, StartPublisher, PublishConnects, StopPublisher, SubscriberConnects, SubscriberConnected,
       StartSubscriberUnconnected, RetryBreaks, StopBreaksOff, StartDispatcher, StopDispatcher,
       StopMigrator, Shutdown, Crash, Exit, Dies, BrokerGoesDown, BrokerComesBack, GroupRebalances, Quiet,
       StartProducer, SetProducer, ConnectBreaks
  <2> QED
    BY <2>1, <2>2
<1>8. UNCHANGED <<retried, dropped>>
  BY DEF ReplicaNext, rvars, vars, LifespanStep, ConnectStep, Boot, BeginUpgrade, AtHeadAlready, CommitUpgrade,
     UpgradeFails, StartPublisher, PublishConnects, StopPublisher, SubscriberConnects, SubscriberConnected,
     StartSubscriberUnconnected, RetryBreaks, StopSubscriber, StopBreaksOff, StartDispatcher, StopDispatcher,
     StopMigrator, Shutdown, Crash, Exit, Dies, BrokerGoesDown, BrokerComesBack, GroupRebalances, Quiet,
     StartProducer, JoinGroup, RecordConsumer, SetProducer, ConnectBreaks, Rebalance
<1> QED
  BY <1>1, <1>3, <1>4, <1>5, <1>6, <1>7, <1>8 DEF FineIsKept

\* Replicas that start together race for the upgrade, all but one fail and one may die in the middle,
\* and that is harmless, whatever the broker does meanwhile: a replica that serves finds its schema,
\* and no message that a handler could have handled is given up.  The handlers have more attempts
\* than there are troubles; with as many troubles one message could meet them all.
THEOREM RacesAreHarmless ==
    ASSUME MaxTrouble < MaxRetries
    PROVE  ReplicaSpec => []RacingUpgradesAreHarmless
<1>1. ReplicaInit => HarmlessInv
  <2> SUFFICES ASSUME ReplicaInit PROVE HarmlessInv
    OBVIOUS
  <2>1. \A c \in Consumers : task[c].step = "off"
    BY NoTaskType DEF ReplicaInit, Init
  <2> QED
    BY <2>1 DEF ReplicaInit, Init, HarmlessInv, NobodyPastMigrator, TasksPatient, Patient, FineIsKept
<1>2. ReplicaInv /\ HarmlessInv /\ [ReplicaNext]_rvars => HarmlessInv'
  <2> SUFFICES ASSUME ReplicaInv, HarmlessInv, [ReplicaNext]_rvars, botched' = {}
               PROVE  NobodyPastMigrator' /\ TasksPatient' /\ FineIsKept'
    BY DEF HarmlessInv
  <2>1. botched = {} /\ NobodyPastMigrator /\ TasksPatient /\ FineIsKept
    BY TroubleGrows DEF HarmlessInv, ReplicaInv
  <2>2. NobodyPastMigrator'
    BY <2>1, NobodyPastNext
  <2>3. TasksPatient' /\ FineIsKept'
    BY <2>1, HarmlessTask, HarmlessRest
  <2> QED
    BY <2>2, <2>3
<1>3. ReplicaInv /\ HarmlessInv => RacingUpgradesAreHarmless
  BY DEF ReplicaInv, LifecycleInv, HarmlessInv, NobodyPastMigrator, FineIsKept, RacingUpgradesAreHarmless
<1> QED
  BY <1>1, <1>2, <1>3, ReplicaInvariant, PTL DEF ReplicaSpec
=============================================================================
