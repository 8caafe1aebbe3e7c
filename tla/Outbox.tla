------------------------------- MODULE Outbox -------------------------------
(***************************************************************************)
(* The transactional outbox on its way to the reco-events topic: the       *)
(* table, the claim that leases rows to one replica (sql/outbox_store.py), *)
(* the dispatcher of every replica (outbox/dispatcher.py) and the broker.  *)
(*                                                                         *)
(* Time is abstracted to whether next_attempt_at still lies ahead: a lease *)
(* or a backoff may run out at any moment, also while the replica that     *)
(* claimed the row is working through the rest of its batch.               *)
(***************************************************************************)
EXTENDS Integers, Sequences, FiniteSets, Functions

CONSTANTS
    Records,        \* the numbers of the outbox rows of one user, in the order of occurred_at
    Poison,         \* rows no broker accepts
    Dispatchers,    \* OutboxDispatcher._run tasks, one per replica
    MaxAttempts,    \* dispatcher.MAX_ATTEMPTS
    BatchSize,      \* rows claimed by one poll
    MaxMishaps,     \* bound: acknowledgements lost, batches abandoned, leases outlived
    MaxOutages      \* bound: how often the broker goes down

ASSUME RecordsAssumption == Records \subseteq Nat /\ IsFiniteSet(Records) /\ Poison \subseteq Records
ASSUME AttemptsAssumption == MaxAttempts \in Nat \ {0} /\ BatchSize \in Nat \ {0}
ASSUME DispatchersAssumption == IsFiniteSet(Dispatchers)
ASSUME BoundsAssumption == MaxMishaps \in Nat /\ MaxOutages \in Nat

VARIABLES
    rows,           \* rows[r]: the row of the table outbox
    enqueued,       \* the rows, in the order in which they were committed
    held,           \* held[d]: the records d claimed and has not settled
    outcome,        \* outcome[d]: how the publish of the oldest of them ended
    topic,          \* the records as the broker appended them
    up,             \* the broker answers
    outages,
    mishaps,        \* mishaps[r]: what went wrong with r so far that may send it twice
    abandoned,      \* rows abandoned behind the one that their replica was working on
    tries           \* tries[r]: publishes of r that raised

vars == <<rows, enqueued, held, outcome, topic, up, outages, mishaps, abandoned, tries>>

Row ==
    [attempts  : 0 .. MaxAttempts,
     waiting   : BOOLEAN,       \* next_attempt_at lies ahead
     published : BOOLEAN,       \* published_at is set
     dead      : BOOLEAN]       \* dead_lettered

\* The copy of a row that a dispatcher works on.
OutboxRecord == [id : Records, attempts : 0 .. MaxAttempts - 1]

Outcomes == {"none", "sent", "raised"}

Init ==
    /\ rows = [r \in Records |-> [attempts |-> 0, waiting |-> FALSE, published |-> FALSE, dead |-> FALSE]]
    /\ enqueued = << >>
    /\ held = [d \in Dispatchers |-> {}]
    /\ outcome = [d \in Dispatchers |-> "none"]
    /\ topic = << >>
    /\ up = TRUE
    /\ outages = 0
    /\ mishaps = [r \in Records |-> 0]
    /\ abandoned = {}
    /\ tries = [r \in Records |-> 0]

-----------------------------------------------------------------------------
(* The table.                                                              *)

Stored(r) == r \in Range(enqueued)

\* SqlOutbox.enqueue and the commit of its unit of work.  occurred_at was stamped before the
\* commit, so rows do not become visible in its order.
Enqueue(r) ==
    /\ ~ Stored(r)
    /\ enqueued' = Append(enqueued, r)
    /\ UNCHANGED <<rows, held, outcome, topic, up, outages, mishaps, tries, abandoned>>

\* Mutant: a row whose publish failed is never taken again.
NeverTried == {r \in Records : Stored(r) /\ ~ rows[r].published /\ ~ rows[r].dead
                                 /\ ~ rows[r].waiting /\ rows[r].attempts = 0}

Due == {r \in Records : Stored(r) /\ ~ rows[r].published /\ ~ rows[r].dead /\ ~ rows[r].waiting}

\* ORDER BY occurred_at LIMIT BatchSize
FirstDue == {r \in Due : Cardinality({q \in Due : q < r}) < BatchSize}

\* The claimed rows, as the records the dispatcher works on.
Claimed == {[id |-> r, attempts |-> rows[r].attempts] : r \in FirstDue}

\* Mutant: the lease is not taken.
ClaimUnleased(d) ==
    /\ held[d] = {}
    /\ Due # {}
    /\ held' = [held EXCEPT ![d] = Claimed]
    /\ UNCHANGED <<enqueued, rows, outcome, topic, up, outages, mishaps, tries, abandoned>>

\* due: SELECT ... FOR UPDATE SKIP LOCKED, the lease and the commit are one transaction, and a
\* concurrent poll skips its rows, so it claims what this one leaves.
Claim(d) ==
    /\ held[d] = {}
    /\ Due # {}
    /\ held' = [held EXCEPT ![d] = Claimed]
    /\ rows' = [r \in Records |->
                   IF r \in FirstDue THEN [rows[r] EXCEPT !.waiting = TRUE] ELSE rows[r]]
    /\ UNCHANGED <<enqueued, outcome, topic, up, outages, mishaps, tries, abandoned>>

Holders(r) == {d \in Dispatchers : \E record \in held[d] : record.id = r}

\* A lease or a backoff runs out.  A replica that still holds the row has outlived its lease.
Elapse(r) ==
    /\ rows[r].waiting
    /\ rows' = [rows EXCEPT ![r].waiting = FALSE]
    /\ IF Holders(r) = {}
       THEN UNCHANGED mishaps
       ELSE /\ mishaps[r] < MaxMishaps
            /\ mishaps' = [mishaps EXCEPT ![r] = @ + 1]
    /\ UNCHANGED <<enqueued, held, outcome, topic, up, outages, tries, abandoned>>

-----------------------------------------------------------------------------
(* The dispatcher: _publish, for the oldest record left in the batch.      *)

\* Mutant: the batch is worked through from its end.
CurrentNewest(d) == CHOOSE record \in held[d] : \A other \in held[d] : record.id >= other.id

Current(d) == CHOOSE record \in held[d] : \A other \in held[d] : record.id <= other.id
Working(d, o) == held[d] # {} /\ outcome[d] = o

\* The broker has the record and said so.
PublishAcknowledged(d) ==
    LET r == Current(d).id
    IN  /\ Working(d, "none")
        /\ up
        /\ r \notin Poison
        /\ topic' = Append(topic, r)
        /\ outcome' = [outcome EXCEPT ![d] = "sent"]
        /\ UNCHANGED <<enqueued, rows, held, up, outages, mishaps, tries, abandoned>>

\* The broker has the record, but its answer never came: send_and_wait raises.
PublishUnacknowledged(d) ==
    LET r == Current(d).id
    IN  /\ Working(d, "none")
        /\ up
        /\ r \notin Poison
        /\ mishaps[r] < MaxMishaps
        /\ mishaps' = [mishaps EXCEPT ![r] = @ + 1]
        /\ topic' = Append(topic, r)
        /\ outcome' = [outcome EXCEPT ![d] = "raised"]
        /\ tries' = [tries EXCEPT ![r] = @ + 1]
        /\ UNCHANGED <<enqueued, rows, held, up, outages, abandoned>>

\* The producer is not connected, or the record is refused.
PublishFails(d) ==
    LET r == Current(d).id
    IN  /\ Working(d, "none")
        /\ ~ up \/ r \in Poison
        /\ outcome' = [outcome EXCEPT ![d] = "raised"]
        /\ tries' = [tries EXCEPT ![r] = @ + 1]
        /\ UNCHANGED <<enqueued, rows, held, topic, up, outages, mishaps, abandoned>>

\* Mutant: whatever publish did, the record is done with.
RecordPublishedAnyway(d) ==
    LET record == Current(d)
    IN  /\ held[d] # {}
        /\ outcome[d] # "none"
        /\ rows' = [rows EXCEPT ![record.id].published = TRUE,
                                ![record.id].attempts  = record.attempts + 1]
        /\ held' = [held EXCEPT ![d] = @ \ {record}]
        /\ outcome' = [outcome EXCEPT ![d] = "none"]
        /\ UNCHANGED <<enqueued, topic, up, outages, mishaps, tries, abandoned>>

\* record_published
RecordPublished(d) ==
    LET record == Current(d)
    IN  /\ Working(d, "sent")
        /\ rows' = [rows EXCEPT ![record.id].published = TRUE,
                                ![record.id].attempts  = record.attempts + 1]
        /\ held' = [held EXCEPT ![d] = @ \ {record}]
        /\ outcome' = [outcome EXCEPT ![d] = "none"]
        /\ UNCHANGED <<enqueued, topic, up, outages, mishaps, tries, abandoned>>

\* Mutants: one attempt too few; one too many.
ExhaustedEarly(attempts) == attempts >= MaxAttempts - 1
ExhaustedLate(attempts) == attempts > MaxAttempts

Exhausted(attempts) == attempts >= MaxAttempts

\* record_failure: absolute values, computed from the copy.  A dead-lettered row gets back the
\* next_attempt_at it was claimed with, which has passed.
RecordFailure(d) ==
    LET record == Current(d)
        attempts == record.attempts + 1
    IN  /\ Working(d, "raised")
        /\ rows' = [rows EXCEPT ![record.id].attempts = attempts,
                                ![record.id].dead     = Exhausted(attempts),
                                ![record.id].waiting  = ~ Exhausted(attempts)]
        /\ held' = [held EXCEPT ![d] = @ \ {record}]
        /\ outcome' = [outcome EXCEPT ![d] = "none"]
        /\ UNCHANGED <<enqueued, topic, up, outages, mishaps, tries, abandoned>>

\* stop() cancels the task, the process dies, or the outcome cannot be written and drain_once ends:
\* nothing is recorded, and the leases of the rest of the batch are left to run out.
Abandon(d) ==
    LET r == Current(d).id
    IN  /\ held[d] # {}
        /\ mishaps[r] < MaxMishaps
        /\ mishaps' = [mishaps EXCEPT ![r] = @ + 1]
        /\ abandoned' = abandoned \cup {record.id : record \in held[d] \ {Current(d)}}
        /\ held' = [held EXCEPT ![d] = {}]
        /\ outcome' = [outcome EXCEPT ![d] = "none"]
        /\ UNCHANGED <<enqueued, rows, topic, up, outages, tries>>

-----------------------------------------------------------------------------
(* The broker.                                                             *)

BrokerGoesDown ==
    /\ up
    /\ outages < MaxOutages
    /\ up' = FALSE
    /\ outages' = outages + 1
    /\ UNCHANGED <<enqueued, rows, held, outcome, topic, mishaps, tries, abandoned>>

BrokerComesBack ==
    /\ ~ up
    /\ up' = TRUE
    /\ UNCHANGED <<enqueued, rows, held, outcome, topic, outages, mishaps, tries, abandoned>>

-----------------------------------------------------------------------------

DrainStep(d) ==
    \/ Claim(d)
    \/ PublishAcknowledged(d) \/ PublishUnacknowledged(d) \/ PublishFails(d)
    \/ RecordPublished(d) \/ RecordFailure(d)

\* Every dispatcher polls an outbox that holds nothing to send.
Idle ==
    /\ up
    /\ \A r \in Records : Stored(r) /\ (rows[r].published \/ rows[r].dead)
    /\ \A d \in Dispatchers : held[d] = {}
    /\ UNCHANGED vars

Next ==
    \/ \E r \in Records : Enqueue(r) \/ Elapse(r)
    \/ \E d \in Dispatchers : DrainStep(d) \/ Abandon(d)
    \/ BrokerGoesDown \/ BrokerComesBack
    \/ Idle

Spec == Init /\ [][Next]_vars

\* Dispatchers keep polling and finish what they started, time passes, and outages end.  Nothing
\* obliges a user's list to be generated or anything to go wrong.
Fairness ==
    /\ \A d \in Dispatchers : WF_vars(DrainStep(d))
    /\ \A r \in Records : WF_vars(Elapse(r))
    /\ WF_vars(BrokerComesBack)

FairSpec == Spec /\ Fairness

-----------------------------------------------------------------------------
(* Properties.                                                             *)

Sent(r) == {i \in DOMAIN topic : topic[i] = r}

\* A batch is made of stored rows, each once, with an attempt left; BatchSize of them at most.
TypeOK ==
    /\ rows \in [Records -> Row]
    /\ enqueued \in Seq(Records) /\ IsInjective(enqueued)
    /\ held \in [Dispatchers -> SUBSET OutboxRecord]
    /\ outcome \in [Dispatchers -> Outcomes]
    /\ topic \in Seq(Records)
    /\ up \in BOOLEAN
    /\ outages \in 0 .. MaxOutages
    /\ mishaps \in [Records -> 0 .. MaxMishaps]
    /\ abandoned \subseteq Records
    /\ tries \in [Records -> Nat]
    /\ \A d \in Dispatchers :
          /\ Cardinality(held[d]) <= BatchSize
          /\ \A record \in held[d] : Stored(record.id)
          /\ \A record, other \in held[d] : record.id = other.id => record = other

\* The outbox never loses an event between the table and the topic: a row is taken for published
\* only when the broker has it, and the broker has nothing that was not committed
\* (unit_of_work.py:67-68).
PublishedWasSent ==
    \A r \in Records :
        /\ rows[r].published => Sent(r) # {}
        /\ Sent(r) # {} => Stored(r)

\* Two replicas draining the same outbox do not both send the same row (outbox_store.py:14-16),
\* unless an acknowledgement was lost, a batch was abandoned or a lease was outlived: every
\* duplicate on the topic has its own mishap.
DuplicatesHaveACause ==
    \A r \in Records : Cardinality(Sent(r)) <= 1 + mishaps[r]

\* No row is given up before MaxAttempts publishes of it have raised, although replicas overwrite
\* each other's attempt counts with absolute values.
DeadOnlyAfterMaxAttempts ==
    \A r \in Records : rows[r].dead => tries[r] >= MaxAttempts

\* A poison record stalls nothing behind it, an outage ends, a crashed replica's rows are picked up:
\* every event is published or dead-lettered in the end (dispatcher.py:15-18).
EverySettled ==
    \A r \in Records : Stored(r) ~> (rows[r].published \/ rows[r].dead)

Before(seq, r, q) == \E i, j \in DOMAIN seq : i < j /\ seq[i] = r /\ seq[j] = q

\* An event reaches the topic ahead of an older one of its user, committed before it, only for a
\* cause: a publish of the older one raised, its lease was outlived or its batch abandoned, or another
\* replica has it in hand.  Two replicas polling, and a row claimed late, do not reorder a list and
\* its successor.
OvertakenForACause ==
    [][\A r, q \in Records :
          (r < q /\ Before(enqueued, r, q) /\ Sent(r) = {} /\ topic' = Append(topic, q)) =>
             \/ tries[r] > 0
             \/ mishaps[r] > 0 \/ r \in abandoned
             \/ \E d \in Holders(r) : outcome'[d] = outcome[d]]_vars

-----------------------------------------------------------------------------
(* What the documentation says and the code does not keep.                 *)

\* The key keeps successive regenerations of one user's list mutually ordered, so a read-model cannot
\* apply an older set over a newer one (serialization.py:61-65): not when the publish of the older
\* one raised and its backoff lets the newer one pass.
RegenerationsInOrder ==
    \A r, q \in Records :
        (r < q /\ Before(enqueued, r, q) /\ Sent(r) # {} /\ Sent(q) # {}) => Before(topic, r, q)
=============================================================================
