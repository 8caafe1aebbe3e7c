--------------------------- MODULE ConsumerProofs ---------------------------
(***************************************************************************)
(* Consumer, for every number of replicas, rounds, messages, retries and   *)
(* troubles.  The lemmas are about the sub-actions that the steps share,   *)
(* so that they serve for the steps of Replica too, which do more.         *)
(***************************************************************************)
EXTENDS Consumer, TLAPS

-----------------------------------------------------------------------------
(* The invariant.                                                          *)

\* The partition belongs to a member of the group.
OwnerIsMember == owner # Nobody => task[owner].step # "off"

\* Every message up to n has been handled or given up.
SettledUpTo(n) == \A m \in Messages : m <= n => Settled(m)

\* A task that may fetch or commit next has settled what lies before its position, also when it is
\* yet to be created.  One that has a
\* message at hand has settled what lies before the message, and its position is the message, or,
\* after the partition has left it and come back, the committed offset.
Settles(t) ==
    /\ t.step \in {"joining", "poll", "commit"} => SettledUpTo(t.position)
    /\ t.step \in {"handle", "reroute"} =>
          /\ t.message \in Messages /\ SettledUpTo(t.message - 1)
          /\ t.position = t.message \/ SettledUpTo(t.position)

TasksSettle == \A c \in Consumers : Settles(task[c])

\* The consumer whose start() _connect awaits is the one of its round.
AwaitsJoin(p, tasks, rounds) ==
    rounds[p] \in 1 .. Rounds[p] /\ tasks[<<p, rounds[p]>>].step = "joining"

JoiningAwaited == \A p \in Processes : link[p] = "joining" => AwaitsJoin(p, task, round)

ConsumerInv ==
    TypeOK /\ OwnerIsMember /\ JoiningAwaited /\ TasksSettle /\ CommittedIsSettled /\ InPartitionOrder

\* What no step takes back.
Settling ==
    log' = log /\ effects \subseteq effects' /\ retried \subseteq retried' /\ dropped \subseteq dropped'

LEMMA SettledStays == ASSUME Settling, NEW m, Settled(m) PROVE Settled(m)'
BY DEF Settling, Settled

LEMMA SettlesStays == ASSUME Settling, NEW t, Settles(t) PROVE Settles(t)'
BY SettledStays DEF Settles, SettledUpTo

LEMMA UpToStays == ASSUME Settling, NEW n, SettledUpTo(n) PROVE SettledUpTo(n)'
BY SettledStays DEF SettledUpTo

\* A task whose partition comes back to it fetches from the committed offset.
LEMMA SettlesAfterAssignment ==
    ASSUME CommittedIsSettled, NEW t \in Task, Settles(t)
    PROVE  Settles([t EXCEPT !.position = committed])
<1>1. SettledUpTo(committed)
  BY DEF CommittedIsSettled, SettledUpTo
<1>2. LET u == [t EXCEPT !.position = committed]
      IN  u.step = t.step /\ u.message = t.message /\ u.position = committed
  BY DEF Task
<1> QED
  BY <1>1, <1>2 DEF Settles

\* A task that is off has nothing to settle.
LEMMA NoTaskType == NoTask \in Task /\ NoTask.step = "off" /\ Settles(NoTask)
BY BoundsAssumption DEF NoTask, Task, Steps, Settles

-----------------------------------------------------------------------------
(* The group.                                                              *)

\* The coordinator leaves the tasks what they are, but for the position of the new owner.
LEMMA AssignedType ==
    ASSUME TypeOK, NEW tasks \in [Consumers -> Task], Assign(tasks)
    PROVE  /\ task' \in [Consumers -> Task]
           /\ owner' \in Consumers \cup {Nobody}
           /\ owner' = Nobody <=> Members(task') = {}
           /\ owner' # Nobody => task'[owner'].step # "off" /\ task'[owner'].position = committed
           /\ \A c \in Consumers : \/ task'[c] = tasks[c]
                                   \/ task'[c] = [tasks[c] EXCEPT !.position = committed]
<1>1. CASE Members(tasks) = {} /\ owner' = Nobody /\ task' = tasks
  BY <1>1
<1>2. ASSUME NEW c \in Members(tasks), owner' = c, task' = AssignedTo(tasks, c)
      PROVE  /\ task' \in [Consumers -> Task]
             /\ owner' \in Consumers \cup {Nobody}
             /\ owner' = Nobody <=> Members(task') = {}
             /\ owner' # Nobody => task'[owner'].step # "off" /\ task'[owner'].position = committed
             /\ \A d \in Consumers : \/ task'[d] = tasks[d]
                                     \/ task'[d] = [tasks[d] EXCEPT !.position = committed]
  <2>1. c \in Consumers /\ tasks[c].step # "off" /\ c # Nobody /\ tasks[c] \in Task
    BY NobodyAssumption DEF Members
  <2> DEFINE t == [tasks[c] EXCEPT !.position = committed]
  <2>2. t \in Task /\ t.step = tasks[c].step /\ t.position = committed
    BY <2>1 DEF Task, TypeOK
  <2>3. task' = [tasks EXCEPT ![c] = t]
    BY <1>2 DEF AssignedTo
  <2> HIDE DEF t
  <2>4. /\ task' \in [Consumers -> Task] /\ task'[c] = t
        /\ \A d \in Consumers : d # c => task'[d] = tasks[d]
    BY <2>1, <2>2, <2>3
  <2>5. c \in Members(task')
    BY <2>1, <2>2, <2>4 DEF Members
  <2> QED
    BY <1>2, <2>1, <2>2, <2>4, <2>5 DEF t
<1> QED
  BY <1>1, <1>2 DEF Assign

\* Whatever the tasks become before the partition is assigned, the invariant holds afterwards.
LEMMA AssignedInv ==
    ASSUME ConsumerInv, NEW tasks \in [Consumers -> Task], Assign(tasks),
           \A c \in Consumers : Settles(tasks[c]),
           UNCHANGED <<log, committed, effects, retried, dropped>>,
           round' \in [Processes -> Nat], \A p \in Processes : round'[p] <= Rounds[p],
           link' \in [Processes -> Links],
           \A p \in Processes : link'[p] = "joining" => AwaitsJoin(p, tasks, round'),
           trouble' \in 0 .. MaxTrouble
    PROVE  ConsumerInv'
<1>1. TypeOK /\ CommittedIsSettled /\ InPartitionOrder
  BY DEF ConsumerInv
<1>2. /\ task' \in [Consumers -> Task]
      /\ owner' \in Consumers \cup {Nobody}
      /\ owner' = Nobody <=> Members(task') = {}
      /\ owner' # Nobody => task'[owner'].step # "off" /\ task'[owner'].position = committed
      /\ \A c \in Consumers : \/ task'[c] = tasks[c]
                              \/ task'[c] = [tasks[c] EXCEPT !.position = committed]
  BY <1>1, AssignedType
<1>3. committed \in 0 .. Length /\ Length \in Nat
  BY <1>1, BoundsAssumption DEF TypeOK
<1>4. TypeOK'
  <2>1. owner' # Nobody => task'[owner'].position >= committed'
    BY <1>2, <1>3
  <2>2. (owner = Nobody <=> Members(task) = {})'
    BY <1>2
  <2> QED
    BY <1>1, <1>2, <2>1, <2>2 DEF TypeOK
<1>5. Settling
  BY DEF Settling
<1>6. TasksSettle'
  <2> SUFFICES ASSUME NEW c \in Consumers PROVE Settles(task[c])'
    BY DEF TasksSettle
  <2>1. Settles(tasks[c]) /\ tasks[c] \in Task
    OBVIOUS
  <2>2. Settles(task'[c])
    BY <1>1, <1>2, <2>1, SettlesAfterAssignment
  <2> QED
    BY <1>5, <2>2, SettlesStays
<1>7. OwnerIsMember'
  BY <1>2 DEF OwnerIsMember
<1>8. CommittedIsSettled' /\ InPartitionOrder'
  BY <1>1, <1>5, SettledStays DEF CommittedIsSettled, InPartitionOrder, Settled
<1>9. JoiningAwaited'
  <2> SUFFICES ASSUME NEW p \in Processes, link'[p] = "joining" PROVE AwaitsJoin(p, task', round')
    BY DEF JoiningAwaited, AwaitsJoin
  <2>1. AwaitsJoin(p, tasks, round')
    OBVIOUS
  <2>2. <<p, round'[p]>> \in Consumers
    BY <2>1 DEF AwaitsJoin, Consumers
  <2>3. task'[<<p, round'[p]>>].step = tasks[<<p, round'[p]>>].step
    BY <1>2, <2>2 DEF Task
  <2> QED
    BY <2>1, <2>3 DEF AwaitsJoin
<1> QED
  BY <1>4, <1>6, <1>7, <1>8, <1>9 DEF ConsumerInv

LEMMA RebalanceInv == ASSUME ConsumerInv, Rebalance PROVE ConsumerInv'
<1>1. task \in [Consumers -> Task]
  BY DEF ConsumerInv, TypeOK
<1>2. Assign(task)
  BY DEF Rebalance, Assign
<1>3. trouble' \in 0 .. MaxTrouble
  BY BoundsAssumption DEF Rebalance, Troubled, ConsumerInv, TypeOK
<1> QED
  BY <1>1, <1>2, <1>3, AssignedInv DEF Rebalance, ConsumerInv, TypeOK, TasksSettle, JoiningAwaited

-----------------------------------------------------------------------------
(* The process.                                                            *)

\* A consumer joins, for the next round.
LEMMA JoinGroupInv == ASSUME ConsumerInv, NEW p \in Processes, JoinGroup(p) PROVE ConsumerInv'
<1> DEFINE c == <<p, round[p] + 1>>
           new == [NoTask EXCEPT !.step = "joining"]
           tasks == [task EXCEPT ![c] = new]
<1>1. TypeOK /\ TasksSettle /\ JoiningAwaited
  BY DEF ConsumerInv
<1>2. round[p] < Rounds[p] /\ round[p] \in Nat /\ Rounds[p] \in Nat /\ link[p] = "started"
  BY <1>1, BoundsAssumption DEF JoinGroup, TypeOK
<1>3. round' = [round EXCEPT ![p] = round[p] + 1] /\ link' = [link EXCEPT ![p] = "joining"]
  BY DEF JoinGroup
<1>4. /\ round' \in [Processes -> Nat] /\ \A q \in Processes : round'[q] <= Rounds[q]
      /\ link' \in [Processes -> Links]
  <2>1. round[p] + 1 \in Nat /\ round[p] + 1 <= Rounds[p]
    BY <1>2
  <2> QED
    BY <1>1, <1>3, <2>1 DEF TypeOK, Links
<1>5. new \in Task /\ new.step = "joining" /\ Settles(new)
  <2>1. new = [step |-> "joining", position |-> 0, message |-> 0, attempt |-> 0]
    BY DEF NoTask
  <2>2. \A m \in Messages : ~ (m <= 0)
    BY BoundsAssumption DEF Messages
  <2> QED
    BY <2>1, <2>2, BoundsAssumption DEF Task, Steps, Settles, SettledUpTo
<1> HIDE DEF new
<1>6. tasks \in [Consumers -> Task] /\ \A d \in Consumers : Settles(tasks[d])
  BY <1>1, <1>5 DEF TypeOK, TasksSettle
<1>7. ASSUME NEW q \in Processes, link'[q] = "joining" PROVE AwaitsJoin(q, tasks, round')
  <2>1. CASE q = p
    <3>1. round'[p] = round[p] + 1 /\ round[p] + 1 \in 1 .. Rounds[p]
      BY <1>1, <1>2, <1>3 DEF TypeOK
    <3>2. c \in Consumers
      BY <3>1 DEF Consumers
    <3>3. tasks[c].step = "joining"
      BY <1>1, <1>5, <3>2 DEF TypeOK
    <3> QED
      BY <2>1, <3>1, <3>3 DEF AwaitsJoin
  <2>2. CASE q # p
    <3>1. round'[q] = round[q] /\ link[q] = "joining"
      BY <1>1, <1>3, <1>7, <2>2 DEF TypeOK
    <3>2. AwaitsJoin(q, task, round)
      BY <1>1, <3>1 DEF JoiningAwaited
    <3>3. <<q, round[q]>> \in Consumers /\ <<q, round[q]>> # c
      BY <2>2, <3>2 DEF AwaitsJoin, Consumers
    <3>4. tasks[<<q, round[q]>>] = task[<<q, round[q]>>]
      BY <1>1, <3>3 DEF TypeOK
    <3> QED
      BY <3>1, <3>2, <3>4 DEF AwaitsJoin
  <2> QED
    BY <2>1, <2>2
<1>8. Assign(tasks)
  BY DEF JoinGroup, new
<1>9. trouble' \in 0 .. MaxTrouble /\ UNCHANGED <<log, committed, effects, retried, dropped>>
  BY <1>1 DEF JoinGroup, TypeOK
<1> HIDE DEF tasks
<1> QED
  BY <1>4, <1>6, <1>7, <1>8, <1>9, AssignedInv

\* Whatever is left alone but for how far _connect is.
LEMMA LinkInv ==
    ASSUME ConsumerInv, UNCHANGED <<log, committed, owner, task, round, effects, retried, dropped>>,
           link' \in [Processes -> Links],
           \A p \in Processes : link'[p] = "joining" => link[p] = "joining", trouble' \in 0 .. MaxTrouble
    PROVE  ConsumerInv'
<1>1. Settling
  BY DEF Settling
<1>2. TasksSettle'
  <2> SUFFICES ASSUME NEW c \in Consumers PROVE Settles(task[c])'
    BY DEF TasksSettle
  <2>1. Settles(task'[c])
    BY DEF ConsumerInv, TasksSettle
  <2> QED
    BY <1>1, <2>1, SettlesStays
<1>3. CommittedIsSettled' /\ InPartitionOrder'
  BY <1>1, SettledStays DEF ConsumerInv, CommittedIsSettled, InPartitionOrder, Settled
<1>4. TypeOK' /\ OwnerIsMember' /\ JoiningAwaited'
  BY DEF ConsumerInv, TypeOK, OwnerIsMember, Members, JoiningAwaited, AwaitsJoin
<1> QED
  BY <1>2, <1>3, <1>4 DEF ConsumerInv

LEMMA StartProducerInv == ASSUME ConsumerInv, NEW p \in Processes, StartProducer(p) PROVE ConsumerInv'
<1>1. link' \in [Processes -> Links] /\ \A q \in Processes : link'[q] = "joining" => link[q] = "joining"
  BY DEF ConsumerInv, TypeOK, StartProducer, Links
<1>2. trouble' \in 0 .. MaxTrouble
  BY DEF ConsumerInv, TypeOK, StartProducer
<1> QED
  BY <1>1, <1>2, LinkInv DEF StartProducer

LEMMA SetProducerInv == ASSUME ConsumerInv, NEW p \in Processes, SetProducer(p) PROVE ConsumerInv'
<1>1. link' \in [Processes -> Links] /\ \A q \in Processes : link'[q] = "joining" => link[q] = "joining"
  BY DEF ConsumerInv, TypeOK, SetProducer, Links
<1>2. trouble' \in 0 .. MaxTrouble
  BY DEF ConsumerInv, TypeOK, SetProducer
<1> QED
  BY <1>1, <1>2, LinkInv DEF SetProducer

LEMMA ConnectBreaksInv ==
    ASSUME ConsumerInv, NEW p \in Processes, ConnectBreaks(p), trouble' \in 0 .. MaxTrouble
    PROVE  ConsumerInv'
<1>1. link' \in [Processes -> Links] /\ \A q \in Processes : link'[q] = "joining" => link[q] = "joining"
  BY DEF ConsumerInv, TypeOK, ConnectBreaks, Links
<1> QED
  BY <1>1, LinkInv DEF ConnectBreaks

\* Consumers that _connect does not await can depart.
LEMMA DepartInv ==
    ASSUME ConsumerInv, NEW leaving \in SUBSET Consumers, Depart(leaving), trouble' \in 0 .. MaxTrouble,
           UNCHANGED <<log, committed, effects, retried, dropped>>,
           round' \in [Processes -> Nat], \A q \in Processes : round'[q] <= Rounds[q],
           link' \in [Processes -> Links],
           \A q \in Processes : link'[q] = "joining" =>
              link[q] = "joining" /\ round'[q] = round[q] /\ <<q, round[q]>> \notin leaving
    PROVE  ConsumerInv'
<1> DEFINE tasks == [c \in Consumers |-> IF c \in leaving THEN NoTask ELSE task[c]]
<1>1. TypeOK /\ TasksSettle /\ OwnerIsMember /\ JoiningAwaited
  BY DEF ConsumerInv
<1>3. tasks \in [Consumers -> Task] /\ \A c \in Consumers : Settles(tasks[c])
  BY <1>1, NoTaskType DEF TypeOK, TasksSettle
<1>2. ASSUME NEW q \in Processes, link'[q] = "joining" PROVE AwaitsJoin(q, tasks, round')
  <2>1. AwaitsJoin(q, task, round) /\ round'[q] = round[q] /\ <<q, round[q]>> \notin leaving
    BY <1>1, <1>2 DEF JoiningAwaited
  <2>2. <<q, round[q]>> \in Consumers
    BY <2>1 DEF AwaitsJoin, Consumers
  <2> QED
    BY <2>1, <2>2 DEF AwaitsJoin
<1>4. CASE owner \in leaving
  <2>1. Assign(tasks)
    BY <1>4 DEF Depart
  <2> HIDE DEF tasks
  <2> QED
    BY <1>2, <1>3, <2>1, AssignedInv
<1>5. CASE owner \notin leaving
  <2>1. task' = tasks /\ owner' = owner
    BY <1>5 DEF Depart
  <2>2. owner # Nobody => owner \in Consumers /\ tasks[owner] = task[owner]
    BY <1>1, <1>5 DEF TypeOK
  <2>3. owner = Nobody => \A c \in Consumers : task[c].step = "off"
    BY <1>1 DEF TypeOK, Members
  <2>4. owner = Nobody => \A c \in Consumers : tasks[c].step = "off"
    BY <2>3, NoTaskType
  <2>5. TypeOK'
    <3>1. (owner = Nobody <=> Members(task) = {})'
      BY <1>1, <2>1, <2>2, <2>4 DEF Members, OwnerIsMember
    <3>2. (owner # Nobody => task[owner].position >= committed)'
      BY <1>1, <2>1, <2>2 DEF TypeOK
    <3> HIDE DEF tasks
    <3> QED
      BY <1>1, <1>3, <2>1, <3>1, <3>2 DEF TypeOK
  <2>6. OwnerIsMember' /\ JoiningAwaited'
    BY <1>1, <1>2, <2>1, <2>2 DEF OwnerIsMember, JoiningAwaited, AwaitsJoin
  <2>7. Settling
    BY DEF Settling
  <2>8. TasksSettle'
    <3> SUFFICES ASSUME NEW c \in Consumers PROVE Settles(task[c])'
      BY DEF TasksSettle
    <3>1. Settles(task'[c])
      BY <1>3, <2>1
    <3> QED
      BY <2>7, <3>1, SettlesStays
  <2>9. CommittedIsSettled' /\ InPartitionOrder'
    BY <2>7, SettledStays DEF ConsumerInv, CommittedIsSettled, InPartitionOrder, Settled
  <2> QED
    BY <2>5, <2>6, <2>8, <2>9 DEF ConsumerInv
<1> QED
  BY <1>4, <1>5

LEMMA LeaveInv ==
    ASSUME ConsumerInv, NEW p \in Processes, Leave(p), trouble' \in 0 .. MaxTrouble,
           UNCHANGED <<log, committed, effects, retried, dropped>>
    PROVE  ConsumerInv'
<1> DEFINE leaving == {c \in Consumers : c[1] = p}
<1>1. round' = [round EXCEPT ![p] = 0] /\ link' = [link EXCEPT ![p] = "none"] /\ Depart(leaving)
  BY DEF Leave
<1>2. /\ round' \in [Processes -> Nat] /\ \A q \in Processes : round'[q] <= Rounds[q]
      /\ link' \in [Processes -> Links]
  <2>1. 0 \in Nat /\ 0 <= Rounds[p]
    BY BoundsAssumption
  <2> QED
    BY <1>1, <2>1 DEF ConsumerInv, TypeOK, Links
<1>3. ASSUME NEW q \in Processes, link'[q] = "joining"
      PROVE  link[q] = "joining" /\ round'[q] = round[q] /\ <<q, round[q]>> \notin leaving
  <2>1. q # p
    BY <1>1, <1>3 DEF ConsumerInv, TypeOK
  <2> QED
    BY <1>1, <1>3, <2>1 DEF ConsumerInv, TypeOK
<1>4. leaving \in SUBSET Consumers
  OBVIOUS
<1> HIDE DEF leaving
<1> QED
  BY <1>1, <1>2, <1>3, <1>4, DepartInv

-----------------------------------------------------------------------------
(* A task.                                                                 *)

\* What a step of the task c has to show, whose record becomes t.
LEMMA TaskAndLinkMoveInv ==
    ASSUME ConsumerInv, NEW c \in Consumers, NEW t \in Task, task[c].step # "off", t.step # "off",
           task' = [task EXCEPT ![c] = t], UNCHANGED <<owner, round>>, Settling,
           link' \in [Processes -> Links],
           \A p \in Processes : link'[p] = "joining" => link[p] = "joining" /\ c # <<p, round[p]>>,
           effects' \cup retried' \cup dropped' \subseteq Messages, trouble' \in 0 .. MaxTrouble,
           committed' \in 0 .. Length, owner # c => committed' = committed,
           owner = c => t.position >= committed',
           Settles(t)', CommittedIsSettled', InPartitionOrder'
    PROVE  ConsumerInv'
<1>1. TypeOK /\ TasksSettle /\ OwnerIsMember /\ JoiningAwaited
  BY DEF ConsumerInv
<1>2. /\ task' \in [Consumers -> Task] /\ task'[c] = t
      /\ \A d \in Consumers : d # c => task'[d] = task[d]
  BY <1>1 DEF TypeOK
<1>3. Members(task') = Members(task)
  BY <1>2 DEF Members
<1>4. TypeOK'
  <2>1. (owner = Nobody <=> Members(task) = {})'
    BY <1>1, <1>3 DEF TypeOK
  <2>2. (owner # Nobody => task[owner].position >= committed)'
    BY <1>1, <1>2 DEF TypeOK
  <2>3. log' \in [Messages -> Kinds]
    BY <1>1 DEF TypeOK, Settling
  <2> QED
    BY <1>1, <1>2, <2>1, <2>2, <2>3 DEF TypeOK
<1>5. OwnerIsMember'
  BY <1>1, <1>2 DEF OwnerIsMember, TypeOK
<1>6. TasksSettle'
  <2> SUFFICES ASSUME NEW d \in Consumers PROVE Settles(task[d])'
    BY DEF TasksSettle
  <2>1. CASE d = c
    BY <1>2, <2>1
  <2>2. CASE d # c
    <3>1. Settles(task'[d])
      BY <1>1, <1>2, <2>2 DEF TasksSettle
    <3> QED
      BY <3>1, SettlesStays
  <2> QED
    BY <2>1, <2>2
<1>7. JoiningAwaited'
  <2> SUFFICES ASSUME NEW p \in Processes, link'[p] = "joining" PROVE AwaitsJoin(p, task', round')
    BY DEF JoiningAwaited, AwaitsJoin
  <2>1. AwaitsJoin(p, task, round) /\ c # <<p, round[p]>> /\ round' = round
    BY <1>1 DEF JoiningAwaited
  <2>2. <<p, round[p]>> \in Consumers
    BY <2>1 DEF AwaitsJoin, Consumers
  <2> QED
    BY <1>2, <2>1, <2>2 DEF AwaitsJoin
<1> QED
  BY <1>4, <1>5, <1>6, <1>7 DEF ConsumerInv

LEMMA TaskMovesInv ==
    ASSUME ConsumerInv, NEW c \in Consumers, NEW t \in Task, task[c].step \notin {"off", "joining"},
           t.step # "off", task' = [task EXCEPT ![c] = t], UNCHANGED <<owner, round, link>>, Settling,
           effects' \cup retried' \cup dropped' \subseteq Messages, trouble' \in 0 .. MaxTrouble,
           committed' \in 0 .. Length, owner # c => committed' = committed,
           owner = c => t.position >= committed',
           Settles(t)', CommittedIsSettled', InPartitionOrder'
    PROVE  ConsumerInv'
<1>1. link' \in [Processes -> Links]
  BY DEF ConsumerInv, TypeOK
<1>2. \A p \in Processes : link'[p] = "joining" => link[p] = "joining" /\ c # <<p, round[p]>>
  BY DEF ConsumerInv, JoiningAwaited, AwaitsJoin
<1> QED
  BY <1>1, <1>2, TaskAndLinkMoveInv

\* The same, for a step that takes no effect and commits nothing.
LEMMA TaskMovesQuietly ==
    ASSUME ConsumerInv, NEW c \in Consumers, NEW t \in Task, task[c].step \notin {"off", "joining"},
           t.step # "off", task' = [task EXCEPT ![c] = t],
           UNCHANGED <<owner, round, link, committed, effects>>, Settling,
           retried' \cup dropped' \subseteq Messages, trouble' \in 0 .. MaxTrouble,
           t.position >= task[c].position, Settles(t)'
    PROVE  ConsumerInv'
<1>1. CommittedIsSettled' /\ InPartitionOrder'
  BY SettledStays DEF ConsumerInv, CommittedIsSettled, InPartitionOrder, Settled
<1>2. committed' \in 0 .. Length /\ effects' \cup retried' \cup dropped' \subseteq Messages
  BY DEF ConsumerInv, TypeOK
<1>3. ASSUME owner = c PROVE t.position >= committed'
  <2>1. task[c].position >= committed
    BY <1>3, NobodyAssumption DEF ConsumerInv, TypeOK
  <2>2. task[c].position \in Int /\ t.position \in Int /\ committed \in Int
    BY DEF ConsumerInv, TypeOK, Task
  <2> QED
    BY <2>1, <2>2
<1> QED
  BY <1>1, <1>2, <1>3, TaskMovesInv

\* The record of a task.
LEMMA TaskType ==
    ASSUME ConsumerInv, NEW c \in Consumers
    PROVE  /\ task[c] \in Task /\ Settles(task[c]) /\ trouble \in 0 .. MaxTrouble
           /\ task[c].step \in Steps /\ task[c].position \in 0 .. Length
           /\ task[c].message \in 0 .. Length /\ task[c].attempt \in 0 .. MaxRetries
           /\ \A m \in Messages : m \in Nat
BY DEF ConsumerInv, TypeOK, TasksSettle, Task, Messages

\* The record of a task that goes to another step.
LEMMA MovedTask ==
    ASSUME ConsumerInv, NEW c \in Consumers, NEW step \in Steps, task' = [task EXCEPT ![c].step = step]
    PROVE  \E t \in Task : /\ t.step = step /\ t.position = task[c].position
                           /\ task' = [task EXCEPT ![c] = t]
<1> DEFINE t == [task[c] EXCEPT !.step = step]
<1>1. t \in Task /\ t.step = step /\ t.position = task[c].position
  BY TaskType DEF Task
<1>2. task' = [task EXCEPT ![c] = t]
  OBVIOUS
<1> QED
  BY <1>1, <1>2

\* start() returned: the consumer has its task.
LEMMA RecordConsumerInv == ASSUME ConsumerInv, NEW p \in Processes, RecordConsumer(p) PROVE ConsumerInv'
<1> DEFINE c == <<p, round[p]>>
<1>1. /\ link[p] = "joining" /\ task' = [task EXCEPT ![c].step = "poll"]
      /\ link' = [link EXCEPT ![p] = "joined"]
      /\ UNCHANGED <<log, committed, owner, round, effects, retried, dropped, trouble>>
  BY DEF RecordConsumer
<1>2. c \in Consumers /\ task[c].step = "joining"
  BY <1>1 DEF ConsumerInv, JoiningAwaited, AwaitsJoin, Consumers
<1>3. PICK t \in Task :
         t.step = "poll" /\ t.position = task[c].position /\ task' = [task EXCEPT ![c] = t]
  <2> HIDE DEF c
  <2> QED
    BY <1>1, <1>2, MovedTask DEF Steps
<1>4. Settling /\ Settles(task[c])
  BY <1>1, <1>2, TaskType DEF Settling
<1>5. Settles(t)'
  BY <1>2, <1>3, <1>4, UpToStays DEF Settles
<1>6. CommittedIsSettled' /\ InPartitionOrder'
  BY <1>1, <1>4, SettledStays DEF ConsumerInv, CommittedIsSettled, InPartitionOrder, Settled
<1>7. /\ effects' \cup retried' \cup dropped' \subseteq Messages /\ trouble' \in 0 .. MaxTrouble
      /\ committed' \in 0 .. Length
  BY <1>1 DEF ConsumerInv, TypeOK
<1>8. owner = c => t.position >= committed'
  BY <1>1, <1>2, <1>3, NobodyAssumption DEF ConsumerInv, TypeOK
<1>9. /\ link' \in [Processes -> Links]
      /\ \A q \in Processes : link'[q] = "joining" => link[q] = "joining" /\ c # <<q, round[q]>>
  BY <1>1 DEF ConsumerInv, TypeOK, Links
<1> HIDE DEF c
<1> QED
  BY <1>1, <1>2, <1>3, <1>4, <1>5, <1>6, <1>7, <1>8, <1>9, TaskAndLinkMoveInv

LEMMA ConnectInv == ASSUME ConsumerInv, NEW p \in Processes, Connect(p) PROVE ConsumerInv'
BY StartProducerInv, JoinGroupInv, RecordConsumerInv, SetProducerInv DEF Connect

\* A message is settled after the ones before it.
LEMMA SettledThrough ==
    ASSUME Settling, NEW m \in Messages, SettledUpTo(m - 1), Settled(m)'
    PROVE  SettledUpTo(m)'
<1> SUFFICES ASSUME NEW k \in Messages, k <= m PROVE Settled(k)'
  BY DEF SettledUpTo
<1>1. k = m \/ k <= m - 1
  BY BoundsAssumption DEF Messages
<1> QED
  BY <1>1, SettledStays DEF SettledUpTo

LEMMA PollInv == ASSUME ConsumerInv, NEW c \in Consumers, Poll(c) PROVE ConsumerInv'
<1>1. /\ task[c].step = "poll" /\ SettledUpTo(task[c].position) /\ task[c].position \in Nat
      /\ UNCHANGED <<log, owner, round, link, committed, effects, retried, dropped, trouble>>
  BY TaskType, BoundsAssumption DEF Poll, At, Group, Settles
<1>2. PICK m \in Messages : m = task[c].position + 1
  BY DEF Poll
<1> DEFINE next == CASE log[m] = "malformed" -> "failed"
                     [] log[m] = "unhandled" -> "commit"
                     [] OTHER                -> "handle"
<1>3. PICK step \in {"failed", "commit", "handle"} :
         step = next /\ (step = "commit" => log[m] = "unhandled")
  OBVIOUS
<1>4. task' = [task EXCEPT ![c] = [step |-> step, position |-> m, message |-> m, attempt |-> 1]]
  BY <1>2, <1>3 DEF Poll
<1> HIDE DEF next
<1>5. PICK t \in Task : /\ t.step = step /\ t.position = m /\ t.message = m
                       /\ task' = [task EXCEPT ![c] = t]
  <2>1. [step |-> step, position |-> m, message |-> m, attempt |-> 1] \in Task
    BY <1>3, BoundsAssumption DEF Task, Steps, Messages
  <2> QED
    BY <1>4, <2>1
<1>6. Settling /\ retried' \cup dropped' \subseteq Messages /\ trouble' \in 0 .. MaxTrouble
  BY <1>1 DEF Settling, ConsumerInv, TypeOK
<1>7. Settles(t)'
  <2>1. SettledUpTo(m - 1) /\ (step = "commit" => Settled(m)')
    BY <1>1, <1>2, <1>3 DEF Settled
  <2>2. SettledUpTo(m - 1)'
    BY <1>6, <2>1, UpToStays
  <2>3. step = "commit" => SettledUpTo(m)'
    BY <1>6, <2>1, SettledThrough
  <2> QED
    BY <1>3, <1>5, <2>2, <2>3 DEF Settles
<1>8. t.position >= task[c].position /\ task[c].step \notin {"off", "joining"} /\ t.step # "off"
  BY <1>1, <1>2, <1>3, <1>5
<1> QED
  BY <1>1, <1>5, <1>6, <1>7, <1>8, TaskMovesQuietly

LEMMA HandlerSucceedsInv == ASSUME ConsumerInv, NEW c \in Consumers, HandlerSucceeds(c) PROVE ConsumerInv'
<1>1. /\ task[c].step = "handle" /\ task' = [task EXCEPT ![c].step = "commit"]
      /\ UNCHANGED <<log, owner, round, link, committed, retried, dropped, trouble>>
  BY DEF HandlerSucceeds, At, Goes, Group
<1>2. PICK m \in Messages :
         /\ task[c].message = m /\ effects' = effects \cup {m} /\ SettledUpTo(m - 1)
         /\ task[c].position = m \/ SettledUpTo(task[c].position)
  BY <1>1, TaskType DEF HandlerSucceeds, Settles
<1>3. PICK t \in Task :
         t.step = "commit" /\ t.position = task[c].position /\ task' = [task EXCEPT ![c] = t]
  BY <1>1, MovedTask DEF Steps
<1>4. Settling
  BY <1>1, <1>2 DEF Settling
<1>5. SettledUpTo(m)'
  BY <1>1, <1>2, <1>4, SettledThrough DEF Settled
<1>6. Settles(t)'
  BY <1>2, <1>3, <1>4, <1>5, UpToStays DEF Settles
<1>7. CommittedIsSettled' /\ InPartitionOrder'
  <2>1. CommittedIsSettled'
    BY <1>1, <1>4, SettledStays DEF ConsumerInv, CommittedIsSettled
  <2>2. ASSUME NEW k \in effects', NEW n \in 1 .. k - 1 PROVE Settled(n)'
    <3>1. CASE k \in effects
      BY <1>4, <2>2, <3>1, SettledStays DEF ConsumerInv, InPartitionOrder
    <3>2. CASE k = m
      <4>1. n \in Messages /\ n <= m - 1
        BY <2>2, <3>2, BoundsAssumption DEF Messages
      <4> QED
        BY <1>2, <1>4, <4>1, SettledStays DEF SettledUpTo
    <3> QED
      BY <1>2, <3>1, <3>2
  <2> QED
    BY <2>1, <2>2 DEF InPartitionOrder
<1>8. /\ effects' \cup retried' \cup dropped' \subseteq Messages /\ trouble' \in 0 .. MaxTrouble
      /\ committed' \in 0 .. Length
  BY <1>1, <1>2 DEF ConsumerInv, TypeOK
<1>9. owner = c => t.position >= committed'
  BY <1>1, <1>3, NobodyAssumption DEF ConsumerInv, TypeOK
<1> QED
  BY <1>1, <1>3, <1>4, <1>6, <1>7, <1>8, <1>9, TaskMovesInv

LEMMA AttemptFailedInv ==
    ASSUME ConsumerInv, NEW c \in Consumers, AttemptFailed(c), trouble' \in 0 .. MaxTrouble,
           UNCHANGED <<log, owner, round, link, committed, effects, retried, dropped>>
    PROVE  ConsumerInv'
<1>1. /\ task[c] \in Task /\ task[c].step = "handle" /\ Settles(task[c])
      /\ task[c].attempt \in 0 .. MaxRetries /\ MaxRetries \in Nat /\ task[c].position \in Nat
  BY TaskType, BoundsAssumption DEF AttemptFailed, At
<1>2. PICK t \in Task :
         /\ task' = [task EXCEPT ![c] = t] /\ t.step \in {"handle", "reroute"}
         /\ t.message = task[c].message /\ t.position = task[c].position
  <2>1. CASE task[c].attempt = MaxRetries
    <3> DEFINE t == [task[c] EXCEPT !.step = "reroute"]
    <3>1. t \in Task /\ t.step = "reroute" /\ t.message = task[c].message /\ t.position = task[c].position
      BY <1>1 DEF Task, Steps
    <3>2. task' = [task EXCEPT ![c] = t]
      BY <2>1 DEF AttemptFailed
    <3> QED
      BY <3>1, <3>2
  <2>2. CASE task[c].attempt # MaxRetries
    <3> DEFINE t == [task[c] EXCEPT !.attempt = @ + 1]
    <3>1. task[c].attempt + 1 \in 0 .. MaxRetries
      BY <1>1, <2>2
    <3>2. t \in Task /\ t.step = "handle" /\ t.message = task[c].message /\ t.position = task[c].position
      BY <1>1, <3>1 DEF Task, Steps
    <3>3. task' = [task EXCEPT ![c] = t]
      BY <2>2 DEF AttemptFailed
    <3> QED
      BY <3>2, <3>3
  <2> QED
    BY <2>1, <2>2
<1>3. Settles(t)
  BY <1>1, <1>2 DEF Settles
<1>4. Settling /\ retried' \cup dropped' \subseteq Messages
  BY DEF Settling, ConsumerInv, TypeOK
<1>5. Settles(t)'
  BY <1>3, <1>4, SettlesStays
<1>6. t.step # "off" /\ task[c].step \notin {"off", "joining"} /\ t.position >= task[c].position
  BY <1>1, <1>2
<1> QED
  BY <1>2, <1>4, <1>5, <1>6, TaskMovesQuietly

LEMMA HandlerRaisesInv == ASSUME ConsumerInv, NEW c \in Consumers, HandlerRaises(c) PROVE ConsumerInv'
<1>1. trouble' \in 0 .. MaxTrouble
  BY BoundsAssumption DEF HandlerRaises, Troubled, ConsumerInv, TypeOK
<1> QED
  BY <1>1, AttemptFailedInv DEF HandlerRaises, Group

LEMMA RerouteInv == ASSUME ConsumerInv, NEW c \in Consumers, Reroute(c) PROVE ConsumerInv'
<1>1. /\ task[c].step = "reroute" /\ task' = [task EXCEPT ![c].step = "commit"]
      /\ UNCHANGED <<log, owner, round, link, committed, effects, trouble>>
  BY DEF Reroute, At, Goes, Group
<1>2. PICK m \in Messages :
         /\ task[c].message = m /\ SettledUpTo(m - 1)
         /\ task[c].position = m \/ SettledUpTo(task[c].position)
         /\ retried' \cup dropped' = retried \cup dropped \cup {m}
         /\ retried \subseteq retried' /\ dropped \subseteq dropped'
  <2>1. task[c].message \in Messages /\ SettledUpTo(task[c].message - 1)
    BY <1>1, TaskType DEF Settles
  <2>2. task[c].position = task[c].message \/ SettledUpTo(task[c].position)
    BY <1>1, TaskType DEF Settles
  <2>3. /\ retried' \cup dropped' = retried \cup dropped \cup {task[c].message}
        /\ retried \subseteq retried' /\ dropped \subseteq dropped'
    BY DEF Reroute
  <2> QED
    BY <2>1, <2>2, <2>3
<1>3. PICK t \in Task :
         t.step = "commit" /\ t.position = task[c].position /\ task' = [task EXCEPT ![c] = t]
  BY <1>1, MovedTask DEF Steps
<1>4. Settling
  BY <1>1, <1>2 DEF Settling
<1>5. SettledUpTo(m)'
  BY <1>1, <1>2, <1>4, SettledThrough DEF Settled
<1>6. Settles(t)'
  BY <1>2, <1>3, <1>4, <1>5, UpToStays DEF Settles
<1>7. retried' \cup dropped' \subseteq Messages /\ trouble' \in 0 .. MaxTrouble
  BY <1>1, <1>2 DEF ConsumerInv, TypeOK
<1>8. t.position >= task[c].position
  BY <1>3, TaskType
<1> QED
  BY <1>1, <1>3, <1>4, <1>6, <1>7, <1>8, TaskMovesQuietly

LEMMA BrokerRaisesInv == ASSUME ConsumerInv, NEW c \in Consumers, BrokerRaises(c) PROVE ConsumerInv'
<1>1. /\ task[c].step \in {"commit", "reroute"} /\ task' = [task EXCEPT ![c].step = "failed"]
      /\ UNCHANGED <<log, owner, round, link, committed, effects, retried, dropped>>
  BY DEF BrokerRaises, At, Goes, Group
<1>2. PICK t \in Task :
         t.step = "failed" /\ t.position = task[c].position /\ task' = [task EXCEPT ![c] = t]
  BY <1>1, MovedTask DEF Steps
<1>3. Settles(t)'
  BY <1>2 DEF Settles
<1>4. Settling /\ retried' \cup dropped' \subseteq Messages
  BY <1>1 DEF Settling, ConsumerInv, TypeOK
<1>5. trouble' \in 0 .. MaxTrouble
  BY BoundsAssumption DEF BrokerRaises, Troubled, ConsumerInv, TypeOK
<1>6. t.position >= task[c].position
  BY <1>2, TaskType
<1> QED
  BY <1>1, <1>2, <1>3, <1>4, <1>5, <1>6, TaskMovesQuietly

LEMMA CommitOffsetInv == ASSUME ConsumerInv, NEW c \in Consumers, CommitOffset(c) PROVE ConsumerInv'
<1>1. /\ task[c].step = "commit" /\ task' = [task EXCEPT ![c].step = "poll"]
      /\ committed' = IF owner = c THEN task[c].position ELSE committed
      /\ UNCHANGED <<log, owner, round, link, effects, retried, dropped, trouble>>
  BY DEF CommitOffset, At, Goes, Group
<1>2. PICK n \in 0 .. Length : task[c].position = n /\ SettledUpTo(n)
  BY <1>1, TaskType DEF Settles
<1>3. PICK t \in Task : t.step = "poll" /\ t.position = n /\ task' = [task EXCEPT ![c] = t]
  <2>1. "poll" \in Steps
    BY DEF Steps
  <2>2. \E t \in Task : /\ t.step = "poll" /\ t.position = task[c].position
                        /\ task' = [task EXCEPT ![c] = t]
    BY <1>1, <2>1, MovedTask
  <2> QED
    BY <1>2, <2>2
<1>4. Settling
  BY <1>1 DEF Settling
<1>5. Settles(t)'
  BY <1>2, <1>3, <1>4, UpToStays DEF Settles
<1>6. CommittedIsSettled' /\ InPartitionOrder'
  <2>1. SettledUpTo(committed')
    BY <1>1, <1>2 DEF ConsumerInv, CommittedIsSettled, SettledUpTo
  <2>2. CommittedIsSettled'
    BY <1>4, <2>1, SettledStays DEF CommittedIsSettled, SettledUpTo
  <2>3. InPartitionOrder'
    BY <1>1, <1>4, SettledStays DEF ConsumerInv, InPartitionOrder
  <2> QED
    BY <2>2, <2>3
<1>7. /\ effects' \cup retried' \cup dropped' \subseteq Messages /\ trouble' \in 0 .. MaxTrouble
      /\ committed' \in 0 .. Length
      /\ owner # c => committed' = committed
      /\ owner = c => t.position >= committed'
  BY <1>1, <1>2, <1>3 DEF ConsumerInv, TypeOK
<1> QED
  BY <1>1, <1>3, <1>4, <1>5, <1>6, <1>7, TaskMovesInv

-----------------------------------------------------------------------------
(* The theorems.                                                           *)

LEMMA ConsumerInitInv == Init => ConsumerInv
<1> SUFFICES ASSUME Init PROVE ConsumerInv
  OBVIOUS
<1>1. \A c \in Consumers : task[c] = NoTask
  BY DEF Init
<1>2. Members(task) = {}
  BY <1>1, NoTaskType DEF Members
<1>3. TypeOK
  <2>1. log \in [Messages -> Kinds] /\ 0 \in 0 .. Length /\ 0 \in 0 .. MaxTrouble
    BY LogsAssumption, BoundsAssumption DEF Init
  <2>2. task \in [Consumers -> Task]
    BY NoTaskType DEF Init
  <2>3. round \in [Processes -> Nat] /\ \A p \in Processes : round[p] <= Rounds[p]
    BY BoundsAssumption DEF Init
  <2> QED
    BY <1>2, <2>1, <2>2, <2>3 DEF Init, TypeOK, Links
<1>4. OwnerIsMember /\ InPartitionOrder /\ JoiningAwaited
  BY DEF Init, OwnerIsMember, InPartitionOrder, JoiningAwaited
<1>5. TasksSettle
  BY <1>1, NoTaskType DEF TasksSettle
<1>6. CommittedIsSettled
  BY DEF Init, CommittedIsSettled, Messages
<1> QED
  BY <1>3, <1>4, <1>5, <1>6 DEF ConsumerInv

LEMMA StutterInv == ASSUME ConsumerInv, UNCHANGED vars PROVE ConsumerInv'
<1>1. link' \in [Processes -> Links] /\ trouble' \in 0 .. MaxTrouble
  BY DEF ConsumerInv, TypeOK, vars
<1> QED
  BY <1>1, LinkInv DEF vars

LEMMA ConsumerNextInv == ConsumerInv /\ [Next]_vars => ConsumerInv'
<1> SUFFICES ASSUME ConsumerInv, [Next]_vars PROVE ConsumerInv'
  OBVIOUS
<1>1. ASSUME Troubled PROVE trouble' \in 0 .. MaxTrouble
  BY <1>1, BoundsAssumption DEF Troubled, ConsumerInv, TypeOK
<1>2. ASSUME NEW p \in Processes, ConnectBreaks(p) /\ Troubled PROVE ConsumerInv'
  BY <1>1, <1>2, ConnectBreaksInv
<1>3. ASSUME NEW p \in Processes, Restart(p) PROVE ConsumerInv'
  BY <1>1, <1>3, LeaveInv DEF Restart
<1>4. ASSUME NEW c \in Consumers, TaskStep(c) PROVE ConsumerInv'
  BY <1>4, PollInv, HandlerSucceedsInv, HandlerRaisesInv, RerouteInv, CommitOffsetInv DEF TaskStep
<1> QED
  BY <1>2, <1>3, <1>4, RebalanceInv, ConnectInv, BrokerRaisesInv, StutterInv
  DEF Next, Waiting

LEMMA ConsumerInvariant == Spec => []ConsumerInv
BY ConsumerInitInv, ConsumerNextInv, PTL DEF Spec

\* The group has an owner as long as it has a member, and an owner that is behind the offset does
\* not come about: after a rebalance, a restart or a broken connect the partition is read on from
\* the committed offset.
THEOREM TypeCorrect == Spec => []TypeOK
<1>1. ConsumerInv => TypeOK
  BY DEF ConsumerInv
<1> QED
  BY <1>1, ConsumerInvariant, PTL

\* Offsets are committed only for messages that were handled or given up: consumer.commit() never
\* covers a message that another task, or no task, has settled only in part.
THEOREM NoMessageSkipped == Spec => []CommittedIsSettled
<1>1. ConsumerInv => CommittedIsSettled
  BY DEF ConsumerInv
<1> QED
  BY <1>1, ConsumerInvariant, PTL

\* Messages take effect in the order of the partition, also when the task of a former owner goes on
\* working on its message (_run, _handle).
THEOREM EffectsInOrder == Spec => []InPartitionOrder
<1>1. ConsumerInv => InPartitionOrder
  BY DEF ConsumerInv
<1> QED
  BY <1>1, ConsumerInvariant, PTL
=============================================================================
