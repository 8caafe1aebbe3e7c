---------------------------- MODULE OutboxProofs ----------------------------
(***************************************************************************)
(* Outbox, for every number of rows, replicas, attempts and mishaps.       *)
(***************************************************************************)
EXTENDS Outbox, FiniteSetTheorems, TLAPS

-----------------------------------------------------------------------------
(* Counting and choosing.                                                  *)

\* Of the members of a finite set that are ranked without ties, at most n are ranked below n.
LEMMA FewRankedBelow ==
    ASSUME NEW S, IsFiniteSet(S), NEW rank \in [S -> Nat], NEW n \in Nat,
           \A x, y \in S : rank[x] = rank[y] => x = y
    PROVE  Cardinality({x \in S : rank[x] < n}) <= n
<1> DEFINE T == {x \in S : rank[x] < n}
           f == [x \in T |-> rank[x]]
<1>1. f \in Injection(T, 0 .. n - 1)
  BY DEF Injection, IsInjective
<1>2. IsFiniteSet(0 .. n - 1) /\ Cardinality(0 .. n - 1) = n
  BY FS_Interval
<1> QED
  BY <1>1, <1>2, FS_Injection

\* A set of naturals that is not empty has a least member.
LEMMA LeastNatural ==
    ASSUME NEW S \in SUBSET Nat, S # {}
    PROVE  \E m \in S : \A n \in S : m <= n
<1>1. PICK m \in S : \A n \in S : ~ (<<n, m>> \in OpToRel(<, Nat))
  BY NatLessThanWellFounded, WFMin
<1>2. ASSUME NEW n \in S PROVE m <= n
  <2>1. m \in Nat /\ n \in Nat
    OBVIOUS
  <2>2. ~ (n < m)
    BY <1>1, <2>1 DEF OpToRel
  <2> QED
    BY <2>1, <2>2
<1> QED
  BY <1>2

-----------------------------------------------------------------------------
(* The batch at hand.                                                      *)

\* The record of a batch that is published first.
Oldest(batch) == CHOOSE record \in batch : \A other \in batch : record.id <= other.id

\* Current depends on the batch alone.
LEMMA CurrentIsOldest ==
    ASSUME NEW d PROVE Current(d) = Oldest(held[d]) /\ Current(d)' = Oldest(held'[d])
BY DEF Current, Oldest

\* A batch that is not empty has an oldest record.
LEMMA OldestType ==
    ASSUME NEW batch \in SUBSET OutboxRecord, batch # {}
    PROVE  /\ Oldest(batch) \in batch
           /\ Oldest(batch) \in OutboxRecord
           /\ \A other \in batch : Oldest(batch).id <= other.id
<1> DEFINE ids == {record.id : record \in batch}
<1>1. ids \in SUBSET Nat /\ ids # {}
  BY RecordsAssumption DEF OutboxRecord
<1>2. PICK m \in ids : \A n \in ids : m <= n
  BY <1>1, LeastNatural
<1>3. \E record \in batch : \A other \in batch : record.id <= other.id
  BY <1>2
<1> QED
  BY <1>3 DEF Oldest

-----------------------------------------------------------------------------
(* Type correctness.                                                       *)

\* A dispatcher without a batch has no outcome to record.
OutcomesHaveBatches == \A d \in Dispatchers : held[d] = {} => outcome[d] = "none"

\* A row that may still be claimed has an attempt left.
AttemptsLeft ==
    \A r \in Records : rows[r].published \/ rows[r].dead \/ rows[r].attempts < MaxAttempts

TypeInv == TypeOK /\ OutcomesHaveBatches /\ AttemptsLeft

\* SELECT ... LIMIT BatchSize takes BatchSize rows at most.
LEMMA FirstDueSize ==
    /\ IsFiniteSet(FirstDue) /\ FirstDue \subseteq Due /\ Due \subseteq Records
    /\ Cardinality(FirstDue) <= BatchSize
<1>1. Due \subseteq Records /\ Due \subseteq Nat /\ IsFiniteSet(Due)
  BY RecordsAssumption, FS_Subset DEF Due
<1> DEFINE Below(r) == {q \in Due : q < r}
           rank == [r \in Due |-> Cardinality(Below(r))]
<1>2. \A r \in Due : IsFiniteSet(Below(r)) /\ Cardinality(Below(r)) \in Nat
  <2> SUFFICES ASSUME NEW r \in Due PROVE IsFiniteSet(Below(r)) /\ Cardinality(Below(r)) \in Nat
    OBVIOUS
  <2>1. Below(r) \in SUBSET Due
    OBVIOUS
  <2> QED
    BY <1>1, <2>1, FS_Subset, FS_CardinalityType
<1>3. ASSUME NEW x \in Due, NEW y \in Due, x < y PROVE rank[x] # rank[y]
  <2>1. \A q \in Below(x) : q \in Below(y)
    BY <1>1, <1>3
  <2>2. x \in Below(y) /\ x \notin Below(x)
    BY <1>1, <1>3
  <2>3. Cardinality(Below(y)) # Cardinality(Below(x))
    BY <1>2, <2>1, <2>2, FS_Subset
  <2> QED
    BY <2>3
<1>4. \A x, y \in Due : rank[x] = rank[y] => x = y
  BY <1>1, <1>3
<1>5. rank \in [Due -> Nat] /\ BatchSize \in Nat
  BY <1>2, AttemptsAssumption
<1> HIDE DEF rank
<1>6. Cardinality({r \in Due : rank[r] < BatchSize}) <= BatchSize
  BY <1>1, <1>4, <1>5, FewRankedBelow
<1>7. FirstDue = {r \in Due : rank[r] < BatchSize}
  BY DEF FirstDue, rank
<1>8. FirstDue \subseteq Due /\ IsFiniteSet(FirstDue)
  BY <1>1, <1>7, FS_Subset
<1> QED
  BY <1>1, <1>6, <1>7, <1>8

\* What a poll claims is a batch: stored rows, each once, with an attempt left.
LEMMA ClaimedType ==
    ASSUME TypeInv
    PROVE  /\ Claimed \in SUBSET OutboxRecord
           /\ Cardinality(Claimed) <= BatchSize
           /\ \A record \in Claimed : record.id \in FirstDue /\ Stored(record.id)
           /\ \A record, other \in Claimed : record.id = other.id => record = other
<1>1. \A r \in FirstDue : r \in Records /\ Stored(r) /\ [id |-> r, attempts |-> rows[r].attempts] \in OutboxRecord
  BY FirstDueSize, AttemptsAssumption DEF Due, TypeInv, TypeOK, AttemptsLeft, OutboxRecord, Row
<1>2. Cardinality(Claimed) <= BatchSize
  <2> DEFINE f == [r \in FirstDue |-> [id |-> r, attempts |-> rows[r].attempts]]
  <2>1. f \in Surjection(FirstDue, Claimed)
    BY DEF Surjection, Claimed
  <2>2. /\ IsFiniteSet(FirstDue) /\ IsFiniteSet(Claimed)
        /\ Cardinality(Claimed) <= Cardinality(FirstDue)
    BY <2>1, FirstDueSize, FS_Surjection
  <2>3. Cardinality(Claimed) \in Nat /\ Cardinality(FirstDue) \in Nat /\ BatchSize \in Nat
    BY <2>2, FS_CardinalityType, AttemptsAssumption
  <2> QED
    BY <2>2, <2>3, FirstDueSize
<1> QED
  BY <1>1, <1>2 DEF Claimed

\* The empty outbox has its type.
LEMMA InitType == Init => TypeInv
<1> SUFFICES ASSUME Init PROVE TypeInv
  OBVIOUS
<1>1. \A d \in Dispatchers : Cardinality(held[d]) <= BatchSize
  BY FS_EmptySet, AttemptsAssumption DEF Init
<1>2. rows \in [Records -> Row]
  BY AttemptsAssumption DEF Init, Row
<1>3. << >> \in Seq(Records) /\ IsInjective(<< >>)
  BY DEF IsInjective
<1> QED
  BY <1>1, <1>2, <1>3, AttemptsAssumption, BoundsAssumption
  DEF Init, TypeInv, TypeOK, OutcomesHaveBatches, AttemptsLeft, Outcomes

\* A row that is enqueued is in the table once.
LEMMA EnqueueType ==
    ASSUME TypeInv, NEW r \in Records, Enqueue(r)
    PROVE  /\ enqueued' \in Seq(Records) /\ IsInjective(enqueued')
           /\ \A q : Stored(q)' <=> Stored(q) \/ q = r
<1>1. enqueued \in Seq(Records) /\ IsInjective(enqueued)
  BY DEF TypeInv, TypeOK
<1>2. enqueued' = Append(enqueued, r) /\ r \notin Range(enqueued)
  BY DEF Enqueue, Stored
<1>3. enqueued' \in Seq(Records) /\ Len(enqueued') = Len(enqueued) + 1
  BY <1>1, <1>2
<1>4. /\ \A i \in 1 .. Len(enqueued) : enqueued'[i] = enqueued[i]
      /\ enqueued'[Len(enqueued) + 1] = r
  BY <1>1, <1>2
<1>5. DOMAIN enqueued = 1 .. Len(enqueued) /\ DOMAIN enqueued' = 1 .. Len(enqueued) + 1
  BY <1>1, <1>3
<1>6. Len(enqueued) \in Nat
  BY <1>1
<1>7. IsInjective(enqueued')
  BY <1>1, <1>2, <1>4, <1>5, <1>6 DEF IsInjective, Range
<1>8. \A q : Stored(q)' <=> Stored(q) \/ q = r
  BY <1>4, <1>5, <1>6 DEF Stored, Range
<1> QED
  BY <1>3, <1>7, <1>8

\* The record that is settled or sent: it is the batch's, and its row's.
LEMMA CurrentType ==
    ASSUME TypeInv, NEW d \in Dispatchers, held[d] # {}
    PROVE  /\ Current(d) \in held[d] /\ Current(d) \in OutboxRecord
           /\ Current(d).id \in Records /\ Current(d).attempts \in 0 .. MaxAttempts - 1
           /\ Stored(Current(d).id)
           /\ \A other \in held[d] : Current(d).id <= other.id
<1>1. held[d] \in SUBSET OutboxRecord
  BY DEF TypeInv, TypeOK
<1>2. Current(d) \in held[d] /\ \A other \in held[d] : Current(d).id <= other.id
  BY <1>1, OldestType, CurrentIsOldest
<1> QED
  BY <1>1, <1>2 DEF TypeInv, TypeOK, OutboxRecord

\* What is left of a batch is a batch.
LEMMA SettledBatchType ==
    ASSUME TypeInv, NEW d \in Dispatchers, NEW batch \in SUBSET held[d], held' = [held EXCEPT ![d] = batch]
    PROVE  /\ held' \in [Dispatchers -> SUBSET OutboxRecord]
           /\ \A e \in Dispatchers : Cardinality(held'[e]) <= BatchSize /\ held'[e] \subseteq held[e]
<1>1. held[d] \in SUBSET OutboxRecord /\ held \in [Dispatchers -> SUBSET OutboxRecord]
  BY DEF TypeInv, TypeOK
<1>2. IsFiniteSet(OutboxRecord)
  <2> DEFINE pairs == Records \X (0 .. MaxAttempts - 1)
             f == [pair \in pairs |-> [id |-> pair[1], attempts |-> pair[2]]]
  <2>1. IsFiniteSet(pairs)
    <3>1. IsFiniteSet(0 .. MaxAttempts - 1)
      BY AttemptsAssumption, FS_Interval
    <3> QED
      BY <3>1, RecordsAssumption, FS_Product
  <2>2. f \in Surjection(pairs, OutboxRecord)
    <3>1. ASSUME NEW record \in OutboxRecord PROVE \E pair \in pairs : f[pair] = record
      <4>1. <<record.id, record.attempts>> \in pairs /\ f[<<record.id, record.attempts>>] = record
        BY DEF OutboxRecord
      <4> QED
        BY <4>1
    <3>2. f \in [pairs -> OutboxRecord]
      BY DEF OutboxRecord
    <3> QED
      BY <3>1, <3>2 DEF Surjection
  <2> QED
    BY <2>1, <2>2, FS_Surjection
<1>3. IsFiniteSet(held[d])
  BY <1>1, <1>2, FS_Subset
<1>4. Cardinality(batch) <= Cardinality(held[d]) /\ Cardinality(batch) \in Nat /\ Cardinality(held[d]) \in Nat
  BY <1>3, FS_Subset, FS_CardinalityType
<1>5. Cardinality(held[d]) <= BatchSize /\ BatchSize \in Nat
  BY AttemptsAssumption DEF TypeInv, TypeOK
<1>6. \A e \in Dispatchers : held'[e] = IF e = d THEN batch ELSE held[e]
  BY <1>1
<1>7. Cardinality(batch) <= BatchSize
  BY <1>4, <1>5
<1> QED
  BY <1>1, <1>6, <1>7 DEF TypeInv, TypeOK

\* Recording what became of a row keeps it a row.
LEMMA RecordedRowType ==
    ASSUME TypeOK, AttemptsLeft, NEW r \in Records, NEW attempts \in 1 .. MaxAttempts,
           \/ rows' = [rows EXCEPT ![r].published = TRUE, ![r].attempts = attempts]
           \/ rows' = [rows EXCEPT ![r].attempts = attempts,
                                   ![r].dead     = Exhausted(attempts),
                                   ![r].waiting  = ~ Exhausted(attempts)]
    PROVE  rows' \in [Records -> Row] /\ AttemptsLeft'
<1> USE AttemptsAssumption
<1>1. rows[r] \in Row /\ rows \in [Records -> Row]
  BY DEF TypeOK
<1> DEFINE done == [rows[r] EXCEPT !.published = TRUE, !.attempts = attempts]
           failed == [rows[r] EXCEPT !.attempts = attempts, !.dead = Exhausted(attempts),
                                     !.waiting = ~ Exhausted(attempts)]
<1>10. attempts \in 0 .. MaxAttempts
  OBVIOUS
<1>2. done \in Row /\ done.published
  BY <1>1, <1>10, Zenon DEF Row
<1>3. failed \in Row /\ (failed.dead \/ failed.attempts < MaxAttempts)
  <2>1. Exhausted(attempts) \in BOOLEAN /\ (~ Exhausted(attempts) => attempts < MaxAttempts)
    BY DEF Exhausted
  <2>2. failed \in Row /\ failed.dead = Exhausted(attempts) /\ failed.attempts = attempts
    BY <1>1, <1>10, <2>1, Zenon DEF Row
  <2> QED
    BY <2>1, <2>2, Zenon
<1>4. rows' = [rows EXCEPT ![r] = done] \/ rows' = [rows EXCEPT ![r] = failed]
  BY <1>1 DEF Row
<1> HIDE DEF done, failed
<1>5. rows' \in [Records -> Row]
  BY <1>1, <1>2, <1>3, <1>4
<1>6. \A q \in Records : rows'[q] = rows[q] \/ (q = r /\ rows'[q] \in {done, failed})
  BY <1>1, <1>4
<1> QED
  BY <1>2, <1>3, <1>5, <1>6 DEF AttemptsLeft

\* A mishap is counted below its bound only.
LEMMA CountedOnce ==
    ASSUME NEW n \in Nat, NEW f \in [Records -> 0 .. n], NEW g, NEW r \in Records,
           g = f \/ (f[r] < n /\ g = [f EXCEPT ![r] = @ + 1])
    PROVE  g \in [Records -> 0 .. n] /\ \A q \in Records : f[q] <= g[q]
<1>1. CASE g = f
  BY <1>1
<1>2. CASE f[r] < n /\ g = [f EXCEPT ![r] = @ + 1]
  <2>1. f[r] + 1 \in 0 .. n
    BY <1>2
  <2>2. \A q \in Records : g[q] = IF q = r THEN f[r] + 1 ELSE f[q]
    BY <1>2
  <2>3. g \in [Records -> 0 .. n]
    BY <1>2, <2>1
  <2> QED
    BY <2>2, <2>3
<1> QED
  BY <1>1, <1>2

\* Every step keeps the types, the batches and the attempts in their bounds.
LEMMA NextType == TypeInv /\ [Next]_vars => TypeInv'
<1> SUFFICES ASSUME TypeInv, [Next]_vars PROVE TypeInv'
  OBVIOUS
<1>0. /\ mishaps \in [Records -> 0 .. MaxMishaps] /\ tries \in [Records -> Nat] /\ topic \in Seq(Records)
      /\ MaxMishaps \in Nat
  BY BoundsAssumption DEF TypeInv, TypeOK
<1>1. ASSUME NEW r \in Records, Enqueue(r) PROVE TypeInv'
  <2>1. /\ enqueued' \in Seq(Records) /\ IsInjective(enqueued')
        /\ \A q : Stored(q)' <=> Stored(q) \/ q = r
    BY <1>1, EnqueueType
  <2> QED
    BY <1>1, <2>1 DEF Enqueue, TypeInv, TypeOK, OutcomesHaveBatches, AttemptsLeft
<1>2. ASSUME NEW r \in Records, Elapse(r) PROVE TypeInv'
  <2>1. rows' = [rows EXCEPT ![r].waiting = FALSE] /\ rows' \in [Records -> Row]
    BY <1>2 DEF Elapse, TypeInv, TypeOK, Row
  <2>2. mishaps' \in [Records -> 0 .. MaxMishaps]
    <3>1. mishaps' = mishaps \/ (mishaps[r] < MaxMishaps /\ mishaps' = [mishaps EXCEPT ![r] = @ + 1])
      BY <1>2 DEF Elapse
    <3> QED
      BY <1>0, <3>1, CountedOnce
  <2>3. AttemptsLeft'
    BY <2>1 DEF TypeInv, TypeOK, AttemptsLeft, Row
  <2>4. \A q : Stored(q)' <=> Stored(q)
    BY <1>2 DEF Elapse, Stored
  <2> QED
    BY <1>2, <2>1, <2>2, <2>3, <2>4 DEF Elapse, TypeInv, TypeOK, OutcomesHaveBatches
<1>3. ASSUME NEW d \in Dispatchers, Claim(d) PROVE TypeInv'
  <2>1. rows' \in [Records -> Row] /\ AttemptsLeft'
    BY <1>3 DEF Claim, TypeInv, TypeOK, AttemptsLeft, Row
  <2>2. \A q : Stored(q)' <=> Stored(q)
    BY <1>3 DEF Claim, Stored
  <2>3. held' = [held EXCEPT ![d] = Claimed]
    BY <1>3 DEF Claim
  <2>4. held' \in [Dispatchers -> SUBSET OutboxRecord]
    BY <2>3, ClaimedType DEF TypeInv, TypeOK
  <2>5. \A e \in Dispatchers : held'[e] = IF e = d THEN Claimed ELSE held[e]
    BY <2>3 DEF TypeInv, TypeOK
  <2>6. ASSUME NEW e \in Dispatchers
        PROVE  /\ Cardinality(held'[e]) <= BatchSize
               /\ \A record \in held'[e] : Stored(record.id)'
               /\ \A record, other \in held'[e] : record.id = other.id => record = other
    BY <2>2, <2>5, ClaimedType DEF TypeInv, TypeOK
  <2>7. OutcomesHaveBatches'
    BY <1>3, <2>5 DEF Claim, TypeInv, OutcomesHaveBatches
  <2> QED
    BY <1>3, <2>1, <2>4, <2>6, <2>7 DEF Claim, TypeInv, TypeOK
<1>4. ASSUME NEW d \in Dispatchers, PublishAcknowledged(d) \/ PublishUnacknowledged(d) \/ PublishFails(d)
      PROVE  TypeInv'
  <2>1. held[d] # {} /\ UNCHANGED <<rows, enqueued, held, up, outages, abandoned>>
    BY <1>4 DEF PublishAcknowledged, PublishUnacknowledged, PublishFails, Working
  <2>2. PICK r \in Records : r = Current(d).id
    BY <2>1, CurrentType
  <2>3. \E o \in {"sent", "raised"} : outcome' = [outcome EXCEPT ![d] = o]
    BY <1>4, <2>2 DEF PublishAcknowledged, PublishUnacknowledged, PublishFails
  <2>4. topic' = topic \/ topic' = Append(topic, r)
    BY <1>4, <2>2 DEF PublishAcknowledged, PublishUnacknowledged, PublishFails
  <2>5. tries' = tries \/ tries' = [tries EXCEPT ![r] = @ + 1]
    BY <1>4, <2>2 DEF PublishAcknowledged, PublishUnacknowledged, PublishFails
  <2>6. mishaps' = mishaps \/ (mishaps[r] < MaxMishaps /\ mishaps' = [mishaps EXCEPT ![r] = @ + 1])
    BY <1>4, <2>2 DEF PublishAcknowledged, PublishUnacknowledged, PublishFails
  <2>7. outcome' \in [Dispatchers -> Outcomes] /\ OutcomesHaveBatches'
    BY <2>1, <2>3 DEF TypeInv, TypeOK, OutcomesHaveBatches, Outcomes
  <2>8. topic' \in Seq(Records)
    <3>1. Append(topic, r) \in Seq(Records)
      BY <1>0
    <3> QED
      BY <1>0, <2>4, <3>1
  <2>9. tries' \in [Records -> Nat]
    BY <1>0, <2>5
  <2>10. mishaps' \in [Records -> 0 .. MaxMishaps]
    BY <1>0, <2>6, CountedOnce
  <2>11. \A q : Stored(q)' <=> Stored(q)
    BY <2>1 DEF Stored
  <2> QED
    BY <2>1, <2>7, <2>8, <2>9, <2>10, <2>11 DEF TypeInv, TypeOK, AttemptsLeft
<1>5. ASSUME NEW d \in Dispatchers, RecordPublished(d) \/ RecordFailure(d)
      PROVE  TypeInv'
  <2>1. /\ held[d] # {}
        /\ held' = [held EXCEPT ![d] = @ \ {Current(d)}]
        /\ outcome' = [outcome EXCEPT ![d] = "none"]
        /\ UNCHANGED <<enqueued, topic, up, outages, mishaps, tries, abandoned>>
    BY <1>5 DEF RecordPublished, RecordFailure, Working
  <2>2. PICK r \in Records, attempts \in 1 .. MaxAttempts :
           r = Current(d).id /\ attempts = Current(d).attempts + 1
    <3>1. Current(d).id \in Records /\ Current(d).attempts + 1 \in 1 .. MaxAttempts
      BY <2>1, CurrentType, AttemptsAssumption
    <3> QED
      BY <3>1
  <2>3. \/ rows' = [rows EXCEPT ![r].published = TRUE, ![r].attempts = attempts]
        \/ rows' = [rows EXCEPT ![r].attempts = attempts,
                                ![r].dead     = Exhausted(attempts),
                                ![r].waiting  = ~ Exhausted(attempts)]
    BY <1>5, <2>2 DEF RecordPublished, RecordFailure
  <2>4. rows' \in [Records -> Row] /\ AttemptsLeft'
    BY <2>3, RecordedRowType DEF TypeInv
  <2>5. /\ held' \in [Dispatchers -> SUBSET OutboxRecord]
        /\ \A e \in Dispatchers : Cardinality(held'[e]) <= BatchSize /\ held'[e] \subseteq held[e]
    <3>1. held' = [held EXCEPT ![d] = held[d] \ {Current(d)}]
      BY <2>1
    <3>2. held[d] \ {Current(d)} \in SUBSET held[d]
      OBVIOUS
    <3> QED
      BY <3>1, <3>2, SettledBatchType
  <2>6. outcome' \in [Dispatchers -> Outcomes] /\ OutcomesHaveBatches'
    BY <2>1 DEF TypeInv, TypeOK, OutcomesHaveBatches, Outcomes
  <2>7. \A q : Stored(q)' <=> Stored(q)
    BY <2>1 DEF Stored
  <2> QED
    BY <2>1, <2>4, <2>5, <2>6, <2>7 DEF TypeInv, TypeOK
<1>6. ASSUME NEW d \in Dispatchers, Abandon(d) PROVE TypeInv'
  <2>1. /\ held[d] # {}
        /\ abandoned' = abandoned \cup {record.id : record \in held[d] \ {Current(d)}}
        /\ held' = [held EXCEPT ![d] = {}]
        /\ outcome' = [outcome EXCEPT ![d] = "none"]
        /\ UNCHANGED <<enqueued, rows, topic, up, outages, tries>>
    BY <1>6 DEF Abandon
  <2>2. PICK r \in Records : r = Current(d).id
    BY <2>1, CurrentType
  <2>3. abandoned' \subseteq Records
    BY <2>1 DEF TypeInv, TypeOK, OutboxRecord
  <2>4. mishaps' \in [Records -> 0 .. MaxMishaps]
    <3>1. mishaps[r] < MaxMishaps /\ mishaps' = [mishaps EXCEPT ![r] = @ + 1]
      BY <1>6, <2>2 DEF Abandon
    <3> QED
      BY <1>0, <3>1, CountedOnce
  <2>5. /\ held' \in [Dispatchers -> SUBSET OutboxRecord]
        /\ \A e \in Dispatchers : Cardinality(held'[e]) <= BatchSize /\ held'[e] \subseteq held[e]
    BY <2>1, SettledBatchType
  <2>6. outcome' \in [Dispatchers -> Outcomes] /\ OutcomesHaveBatches'
    BY <2>1 DEF TypeInv, TypeOK, OutcomesHaveBatches, Outcomes
  <2>7. \A q : Stored(q)' <=> Stored(q)
    BY <2>1 DEF Stored
  <2> QED
    BY <2>1, <2>3, <2>4, <2>5, <2>6, <2>7 DEF TypeInv, TypeOK, AttemptsLeft
<1>7. CASE BrokerGoesDown \/ BrokerComesBack
  <2>1. UNCHANGED <<enqueued, rows, held, outcome, topic, mishaps, tries, abandoned>>
    BY <1>7 DEF BrokerGoesDown, BrokerComesBack
  <2>2. up' \in BOOLEAN
    BY <1>7 DEF BrokerGoesDown, BrokerComesBack
  <2>4. outages' \in 0 .. MaxOutages
    <3>1. outages' = outages \/ (outages < MaxOutages /\ outages' = outages + 1)
      BY <1>7 DEF BrokerGoesDown, BrokerComesBack
    <3> QED
      BY <3>1, BoundsAssumption DEF TypeInv, TypeOK
  <2>3. \A q : Stored(q)' <=> Stored(q)
    BY <2>1 DEF Stored
  <2> QED
    BY <2>1, <2>2, <2>3, <2>4 DEF TypeInv, TypeOK, OutcomesHaveBatches, AttemptsLeft
<1>8. CASE UNCHANGED vars
  BY <1>8 DEF vars, TypeInv, TypeOK, OutcomesHaveBatches, AttemptsLeft, Stored
<1> QED
  BY <1>1, <1>2, <1>3, <1>4, <1>5, <1>6, <1>7, <1>8 DEF Next, DrainStep, Idle

LEMMA TypeInvariant == Spec => []TypeInv
BY InitType, NextType, PTL DEF Spec

\* Batches hold stored rows, each once and BatchSize at most, and no copy of a row is ever tried
\* more than MaxAttempts times.
THEOREM TypeCorrect == Spec => []TypeOK
<1>1. TypeInv => TypeOK
  BY DEF TypeInv
<1> QED
  BY <1>1, TypeInvariant, PTL

-----------------------------------------------------------------------------
(* What the steps do, row by row and dispatcher by dispatcher.             *)

\* Every way a publish ends: the broker has the record or not, and raised or not.
LEMMA Publishing ==
    ASSUME TypeInv, NEW d \in Dispatchers,
           PublishAcknowledged(d) \/ PublishUnacknowledged(d) \/ PublishFails(d)
    PROVE  \E r \in Records :
              /\ r = Current(d).id /\ Working(d, "none")
              /\ UNCHANGED <<enqueued, rows, held, up, outages, abandoned>>
              /\ \A e \in Dispatchers : e # d => outcome'[e] = outcome[e]
              /\ \/ /\ outcome'[d] = "sent" /\ topic' = Append(topic, r)
                    /\ UNCHANGED <<mishaps, tries>>
                 \/ /\ outcome'[d] = "raised" /\ tries' = [tries EXCEPT ![r] = @ + 1]
                    /\ topic' = Append(topic, r) /\ mishaps' = [mishaps EXCEPT ![r] = @ + 1]
                 \/ /\ outcome'[d] = "raised" /\ tries' = [tries EXCEPT ![r] = @ + 1]
                    /\ UNCHANGED <<topic, mishaps>>
<1>1. Working(d, "none")
  BY DEF PublishAcknowledged, PublishUnacknowledged, PublishFails
<1>2. PICK r \in Records : r = Current(d).id
  BY <1>1, CurrentType DEF Working
<1>3. d \in DOMAIN outcome
  BY DEF TypeInv, TypeOK
<1>4. CASE PublishAcknowledged(d)
  BY <1>1, <1>2, <1>3, <1>4 DEF PublishAcknowledged
<1>5. CASE PublishUnacknowledged(d)
  <2>1. /\ topic' = Append(topic, r) /\ outcome' = [outcome EXCEPT ![d] = "raised"]
        /\ tries' = [tries EXCEPT ![r] = @ + 1] /\ mishaps' = [mishaps EXCEPT ![r] = @ + 1]
        /\ UNCHANGED <<enqueued, rows, held, up, outages, abandoned>>
    BY <1>2, <1>5, Zenon DEF PublishUnacknowledged
  <2>2. outcome'[d] = "raised" /\ \A e \in Dispatchers : e # d => outcome'[e] = outcome[e]
    BY <1>3, <2>1 DEF TypeInv, TypeOK
  <2> QED
    BY <1>1, <1>2, <2>1, <2>2, Zenon
<1>6. CASE PublishFails(d)
  <2>1. /\ outcome' = [outcome EXCEPT ![d] = "raised"] /\ tries' = [tries EXCEPT ![r] = @ + 1]
        /\ UNCHANGED <<enqueued, rows, held, up, outages, abandoned, topic, mishaps>>
    BY <1>2, <1>6, Zenon DEF PublishFails
  <2>2. outcome'[d] = "raised" /\ \A e \in Dispatchers : e # d => outcome'[e] = outcome[e]
    BY <1>3, <2>1 DEF TypeInv, TypeOK
  <2> QED
    BY <1>1, <1>2, <2>1, <2>2, Zenon
<1> QED
  BY <1>4, <1>5, <1>6

\* Recording an outcome takes the oldest record out of the batch and writes its row.
LEMMA Settling ==
    ASSUME TypeInv, NEW d \in Dispatchers, RecordPublished(d) \/ RecordFailure(d)
    PROVE  \E r \in Records, attempts \in 1 .. MaxAttempts :
              /\ r = Current(d).id /\ attempts = Current(d).attempts + 1 /\ held[d] # {}
              /\ UNCHANGED <<enqueued, topic, up, outages, mishaps, tries, abandoned>>
              /\ \A e \in Dispatchers : e # d => outcome'[e] = outcome[e] /\ held'[e] = held[e]
              /\ outcome'[d] = "none" /\ held'[d] = held[d] \ {Current(d)}
              /\ \A q \in Records : q # r => rows'[q] = rows[q]
              /\ rows'[r].attempts = attempts
              /\ \/ /\ outcome[d] = "sent" /\ rows'[r].published
                    /\ rows'[r].dead = rows[r].dead /\ rows'[r].waiting = rows[r].waiting
                 \/ /\ outcome[d] = "raised" /\ rows'[r].published = rows[r].published
                    /\ rows'[r].dead = Exhausted(attempts) /\ rows'[r].waiting = ~ Exhausted(attempts)
<1>1. held[d] # {}
  BY DEF RecordPublished, RecordFailure, Working
<1>2. PICK r \in Records, attempts \in 1 .. MaxAttempts :
         r = Current(d).id /\ attempts = Current(d).attempts + 1
  <2>1. Current(d).id \in Records /\ Current(d).attempts + 1 \in 1 .. MaxAttempts
    BY <1>1, CurrentType, AttemptsAssumption
  <2> QED
    BY <2>1
<1>3. /\ d \in DOMAIN outcome /\ d \in DOMAIN held /\ r \in DOMAIN rows
      /\ rows[r] = [attempts |-> rows[r].attempts, waiting |-> rows[r].waiting,
                    published |-> rows[r].published, dead |-> rows[r].dead]
  BY DEF TypeInv, TypeOK, Row
<1>4. /\ UNCHANGED <<enqueued, topic, up, outages, mishaps, tries, abandoned>>
      /\ held' = [held EXCEPT ![d] = @ \ {Current(d)}]
      /\ outcome' = [outcome EXCEPT ![d] = "none"]
  BY DEF RecordPublished, RecordFailure
<1>5. /\ \A e \in Dispatchers : e # d => outcome'[e] = outcome[e] /\ held'[e] = held[e]
      /\ outcome'[d] = "none" /\ held'[d] = held[d] \ {Current(d)}
  BY <1>3, <1>4 DEF TypeInv, TypeOK
<1>6. CASE RecordPublished(d)
  <2>1. /\ outcome[d] = "sent"
        /\ rows' = [rows EXCEPT ![r].published = TRUE, ![r].attempts = attempts]
    BY <1>2, <1>6 DEF RecordPublished, Working
  <2>2. /\ \A q \in Records : q # r => rows'[q] = rows[q]
        /\ rows'[r].attempts = attempts /\ rows'[r].published
        /\ rows'[r].dead = rows[r].dead /\ rows'[r].waiting = rows[r].waiting
    BY <1>3, <2>1, Zenon DEF TypeInv, TypeOK
  <2> QED
    BY <1>1, <1>2, <1>4, <1>5, <2>1, <2>2
<1>7. CASE RecordFailure(d)
  <2>1. /\ outcome[d] = "raised"
        /\ rows' = [rows EXCEPT ![r].attempts = attempts,
                                ![r].dead     = Exhausted(attempts),
                                ![r].waiting  = ~ Exhausted(attempts)]
    BY <1>2, <1>7 DEF RecordFailure, Working
  <2>2. /\ \A q \in Records : q # r => rows'[q] = rows[q]
        /\ rows'[r].attempts = attempts /\ rows'[r].published = rows[r].published
        /\ rows'[r].dead = Exhausted(attempts) /\ rows'[r].waiting = ~ Exhausted(attempts)
    BY <1>3, <2>1, Zenon DEF TypeInv, TypeOK
  <2> QED
    BY <1>1, <1>2, <1>4, <1>5, <2>1, <2>2
<1> QED
  BY <1>6, <1>7

\* The other steps of a replica.
LEMMA Claiming ==
    ASSUME TypeInv, NEW d \in Dispatchers, Claim(d)
    PROVE  /\ held[d] = {} /\ held'[d] = Claimed
           /\ \A e \in Dispatchers : e # d => held'[e] = held[e]
           /\ UNCHANGED <<enqueued, outcome, topic, up, outages, mishaps, tries, abandoned>>
           /\ \A r \in Records :
                 /\ rows'[r].attempts = rows[r].attempts
                 /\ rows'[r].published = rows[r].published /\ rows'[r].dead = rows[r].dead
                 /\ r \in FirstDue => rows'[r].waiting
                 /\ r \notin FirstDue => rows'[r] = rows[r]
<1>1. /\ held[d] = {} /\ held'[d] = Claimed
      /\ \A e \in Dispatchers : e # d => held'[e] = held[e]
      /\ UNCHANGED <<enqueued, outcome, topic, up, outages, mishaps, tries, abandoned>>
  BY DEF Claim, TypeInv, TypeOK
<1>2. ASSUME NEW r \in Records
      PROVE  /\ rows'[r].attempts = rows[r].attempts
             /\ rows'[r].published = rows[r].published /\ rows'[r].dead = rows[r].dead
             /\ r \in FirstDue => rows'[r].waiting
             /\ r \notin FirstDue => rows'[r] = rows[r]
  <2>1. rows'[r] = IF r \in FirstDue THEN [rows[r] EXCEPT !.waiting = TRUE] ELSE rows[r]
    BY DEF Claim
  <2>2. \A row \in Row : /\ [row EXCEPT !.waiting = TRUE].attempts = row.attempts
                        /\ [row EXCEPT !.waiting = TRUE].published = row.published
                        /\ [row EXCEPT !.waiting = TRUE].dead = row.dead
                        /\ [row EXCEPT !.waiting = TRUE].waiting
    BY DEF Row
  <2>3. rows[r] \in Row
    BY DEF TypeInv, TypeOK
  <2> QED
    BY <2>1, <2>2, <2>3
<1> QED
  BY <1>1, <1>2

LEMMA Abandoning ==
    ASSUME TypeInv, NEW d \in Dispatchers, Abandon(d)
    PROVE  \E r \in Records :
              /\ r = Current(d).id /\ held[d] # {} /\ held'[d] = {} /\ outcome'[d] = "none"
              /\ \A e \in Dispatchers : e # d => outcome'[e] = outcome[e] /\ held'[e] = held[e]
              /\ UNCHANGED <<enqueued, rows, topic, up, outages, tries>>
              /\ mishaps' = [mishaps EXCEPT ![r] = @ + 1]
              /\ abandoned' = abandoned \cup {record.id : record \in held[d] \ {Current(d)}}
<1>1. PICK r \in Records : r = Current(d).id
  BY CurrentType DEF Abandon
<1> QED
  BY <1>1 DEF Abandon, TypeInv, TypeOK

\* The topic after the broker appended a record.
LEMMA SentAfterAppend ==
    ASSUME TypeInv, NEW r \in Records, topic' = Append(topic, r)
    PROVE  /\ \A q : Sent(q)' = IF q = r THEN Sent(q) \cup {Len(topic) + 1} ELSE Sent(q)
           /\ \A q : Len(topic) + 1 \notin Sent(q)
<1>1. topic \in Seq(Records) /\ topic' \in Seq(Records)
  BY DEF TypeInv, TypeOK
<1>2. DOMAIN topic = 1 .. Len(topic) /\ DOMAIN topic' = 1 .. Len(topic) + 1 /\ Len(topic) \in Nat
  BY <1>1
<1>3. /\ \A i \in 1 .. Len(topic) : topic'[i] = topic[i]
      /\ topic'[Len(topic) + 1] = r
  BY <1>1
<1> QED
  BY <1>2, <1>3 DEF Sent

\* A row's places on the topic can be counted.
LEMMA SentFinite == ASSUME TypeInv, NEW q PROVE IsFiniteSet(Sent(q)) /\ Cardinality(Sent(q)) \in Nat
<1>1. DOMAIN topic = 1 .. Len(topic) /\ Len(topic) \in Nat
  BY DEF TypeInv, TypeOK
<1>2. IsFiniteSet(DOMAIN topic)
  BY <1>1, FS_Interval
<1> QED
  BY <1>2, FS_Subset, FS_CardinalityType DEF Sent

LEMMA Unmoved == ASSUME UNCHANGED <<enqueued, topic, held>>
                 PROVE  /\ \A q : Sent(q)' = Sent(q) /\ (Stored(q)' <=> Stored(q)) /\ Holders(q)' = Holders(q)
                        /\ \A d : Current(d)' = Current(d)
BY DEF Sent, Stored, Holders, Current

-----------------------------------------------------------------------------
(* No event is lost.                                                       *)

\* A publish that is taken for acknowledged put its record on the topic.
SentOutcomesWereSent == \A d \in Dispatchers : outcome[d] = "sent" => Sent(Current(d).id) # {}

LEMMA PublishedNext ==
    ASSUME TypeInv, PublishedWasSent, SentOutcomesWereSent, [Next]_vars
    PROVE  PublishedWasSent' /\ SentOutcomesWereSent'
<1> USE DEF PublishedWasSent, SentOutcomesWereSent
<1>1. ASSUME NEW r \in Records, Enqueue(r) PROVE PublishedWasSent' /\ SentOutcomesWereSent'
  <2>1. \A q : Sent(q)' = Sent(q) /\ (Stored(q) => Stored(q)')
    BY <1>1, EnqueueType DEF Enqueue, Sent
  <2>2. \A d : Current(d)' = Current(d)
    BY <1>1 DEF Enqueue, Current
  <2> QED
    BY <1>1, <2>1, <2>2 DEF Enqueue
<1>2. ASSUME NEW r \in Records, Elapse(r) PROVE PublishedWasSent' /\ SentOutcomesWereSent'
  <2>1. UNCHANGED <<enqueued, topic, held, outcome>>
    BY <1>2 DEF Elapse
  <2>2. \A q \in Records : rows'[q].published = rows[q].published
    BY <1>2 DEF Elapse, TypeInv, TypeOK, Row
  <2> QED
    BY <2>1, <2>2, Unmoved
<1>3. ASSUME NEW d \in Dispatchers, Claim(d) PROVE PublishedWasSent' /\ SentOutcomesWereSent'
  <2>1. UNCHANGED <<enqueued, topic, outcome>> /\ held[d] = {} /\ \A e \in Dispatchers : e # d => held'[e] = held[e]
    BY <1>3, Claiming
  <2>2. \A q \in Records : rows'[q].published = rows[q].published
    BY <1>3, Claiming
  <2>3. \A q : Sent(q)' = Sent(q) /\ (Stored(q)' <=> Stored(q))
    BY <2>1 DEF Sent, Stored
  <2>4. \A e \in Dispatchers : outcome[e] = "sent" => Current(e)' = Current(e)
    BY <2>1 DEF Current, TypeInv, OutcomesHaveBatches
  <2> QED
    BY <2>1, <2>2, <2>3, <2>4
<1>4. ASSUME NEW d \in Dispatchers, PublishAcknowledged(d) \/ PublishUnacknowledged(d) \/ PublishFails(d)
      PROVE  PublishedWasSent' /\ SentOutcomesWereSent'
  <2>1. PICK r \in Records :
              /\ r = Current(d).id /\ held[d] # {}
              /\ UNCHANGED <<enqueued, rows, held>>
              /\ \A e \in Dispatchers : e # d => outcome'[e] = outcome[e]
              /\ outcome'[d] = "sent" => topic' = Append(topic, r)
              /\ topic' = topic \/ topic' = Append(topic, r)
    BY <1>4, Publishing DEF Working
  <2>2. (\A q : Stored(q)' <=> Stored(q)) /\ \A e : Current(e)' = Current(e)
    BY <2>1 DEF Stored, Current
  <2>3. Stored(r)
    BY <2>1, CurrentType
  <2>4. CASE topic' = Append(topic, r)
    <3>1. \A q : Sent(q)' = IF q = r THEN Sent(q) \cup {Len(topic) + 1} ELSE Sent(q)
      BY <2>4, SentAfterAppend
    <3> QED
      BY <2>1, <2>2, <2>3, <3>1
  <2>5. CASE topic' = topic /\ outcome'[d] # "sent"
    <3>1. \A q : Sent(q)' = Sent(q)
      BY <2>5 DEF Sent
    <3> QED
      BY <2>1, <2>2, <2>5, <3>1
  <2> QED
    BY <2>1, <2>4, <2>5
<1>5. ASSUME NEW d \in Dispatchers, RecordPublished(d) \/ RecordFailure(d)
      PROVE  PublishedWasSent' /\ SentOutcomesWereSent'
  <2>1. PICK r \in Records :
              /\ r = Current(d).id
              /\ UNCHANGED <<enqueued, topic>>
              /\ \A e \in Dispatchers : e # d => outcome'[e] = outcome[e] /\ held'[e] = held[e]
              /\ outcome'[d] = "none"
              /\ \A q \in Records : q # r => rows'[q] = rows[q]
              /\ outcome[d] = "sent" \/ rows'[r].published = rows[r].published
    BY <1>5, Settling
  <2>2. \A q : Sent(q)' = Sent(q) /\ (Stored(q)' <=> Stored(q))
    BY <2>1 DEF Sent, Stored
  <2>3. \A e \in Dispatchers : e # d => Current(e)' = Current(e)
    BY <2>1 DEF Current
  <2> QED
    BY <2>1, <2>2, <2>3
<1>6. ASSUME NEW d \in Dispatchers, Abandon(d) PROVE PublishedWasSent' /\ SentOutcomesWereSent'
  <2>1. /\ UNCHANGED <<enqueued, topic, rows>>
        /\ \A e \in Dispatchers : e # d => outcome'[e] = outcome[e] /\ held'[e] = held[e]
        /\ outcome'[d] = "none"
    BY <1>6, Abandoning
  <2>2. \A q : Sent(q)' = Sent(q) /\ (Stored(q)' <=> Stored(q))
    BY <2>1 DEF Sent, Stored
  <2>3. \A e \in Dispatchers : e # d => Current(e)' = Current(e)
    BY <2>1 DEF Current
  <2> QED
    BY <2>1, <2>2, <2>3
<1>7. CASE UNCHANGED <<enqueued, topic, held, outcome, rows>>
  BY <1>7, Unmoved
<1> QED
  BY <1>1, <1>2, <1>3, <1>4, <1>5, <1>6, <1>7
  DEF Next, DrainStep, Idle, vars, BrokerGoesDown, BrokerComesBack

\* The outbox never loses an event between the table and the topic: what is taken for published is
\* on the topic, and what is on the topic was committed (record_published, unit_of_work.py).
THEOREM NoEventLost == Spec => []PublishedWasSent
<1>1. Init => PublishedWasSent /\ SentOutcomesWereSent
  BY DEF Init, PublishedWasSent, SentOutcomesWereSent, Sent
<1>2. TypeInv /\ (PublishedWasSent /\ SentOutcomesWereSent) /\ [Next]_vars
         => (PublishedWasSent /\ SentOutcomesWereSent)'
  BY PublishedNext
<1> QED
  BY <1>1, <1>2, TypeInvariant, PTL DEF Spec

-----------------------------------------------------------------------------
(* No event is given up early.                                             *)

\* An attempt count never runs ahead of the publishes that raised: not a copy's, and not a row's
\* that may still be claimed, whichever of its copies was written last.
AttemptsWereTried ==
    /\ \A d \in Dispatchers :
          /\ \A record \in held[d] : record.attempts <= tries[record.id]
          /\ outcome[d] = "raised" => Current(d).attempts + 1 <= tries[Current(d).id]
    /\ \A r \in Records : rows[r].published \/ rows[r].attempts <= tries[r]

TriesInv == AttemptsWereTried /\ DeadOnlyAfterMaxAttempts

\* The facts about numbers that the steps need.
LEMMA TriesTypes ==
    ASSUME TypeInv
    PROVE  /\ \A r \in Records : tries[r] \in Nat /\ rows[r].attempts \in Nat
           /\ \A d \in Dispatchers : \A record \in held[d] : record.id \in Records /\ record.attempts \in Nat
           /\ \A d \in Dispatchers : held[d] # {} => Current(d) \in held[d]
           /\ MaxAttempts \in Nat
<1>1. \A r \in Records : tries[r] \in Nat /\ rows[r].attempts \in Nat
  BY AttemptsAssumption DEF TypeInv, TypeOK, Row
<1>2. \A d \in Dispatchers : \A record \in held[d] : record.id \in Records /\ record.attempts \in Nat
  BY AttemptsAssumption DEF TypeInv, TypeOK, OutboxRecord
<1> QED
  BY <1>1, <1>2, CurrentType, AttemptsAssumption

LEMMA TriesNext ==
    ASSUME TypeInv, TriesInv, [Next]_vars
    PROVE  TriesInv'
<1> USE DEF TriesInv, AttemptsWereTried, DeadOnlyAfterMaxAttempts
<1>0. /\ \A r \in Records : tries[r] \in Nat /\ rows[r].attempts \in Nat
      /\ \A d \in Dispatchers : \A record \in held[d] : record.id \in Records /\ record.attempts \in Nat
      /\ \A d \in Dispatchers : held[d] # {} => Current(d) \in held[d]
      /\ \A d \in Dispatchers : outcome[d] # "none" => held[d] # {}
      /\ MaxAttempts \in Nat
  BY TriesTypes DEF TypeInv, OutcomesHaveBatches
<1>2. ASSUME NEW r \in Records, Elapse(r) PROVE TriesInv'
  <2>1. UNCHANGED <<held, outcome, tries>>
    BY <1>2 DEF Elapse
  <2>2. \A q \in Records : /\ rows'[q].published = rows[q].published
                           /\ rows'[q].attempts = rows[q].attempts /\ rows'[q].dead = rows[q].dead
    BY <1>2 DEF Elapse, TypeInv, TypeOK, Row
  <2>3. \A d : Current(d)' = Current(d)
    BY <2>1 DEF Current
  <2> QED
    BY <2>1, <2>2, <2>3
<1>3. ASSUME NEW d \in Dispatchers, Claim(d) PROVE TriesInv'
  <2>1. /\ UNCHANGED <<outcome, tries>> /\ held[d] = {} /\ held'[d] = Claimed
        /\ \A e \in Dispatchers : e # d => held'[e] = held[e]
    BY <1>3, Claiming
  <2>2. \A q \in Records : /\ rows'[q].published = rows[q].published
                           /\ rows'[q].attempts = rows[q].attempts /\ rows'[q].dead = rows[q].dead
    BY <1>3, Claiming
  <2>3. \A e \in Dispatchers : outcome[e] # "none" => e # d /\ Current(e)' = Current(e)
    BY <2>1 DEF Current, TypeInv, OutcomesHaveBatches
  <2>4. \A record \in Claimed : record.attempts <= tries[record.id]
    BY FirstDueSize DEF Claimed, Due
  <2> QED
    BY <2>1, <2>2, <2>3, <2>4
<1>4. ASSUME NEW d \in Dispatchers, PublishAcknowledged(d) \/ PublishUnacknowledged(d) \/ PublishFails(d)
      PROVE  TriesInv'
  <2>1. PICK r \in Records :
              /\ r = Current(d).id /\ held[d] # {}
              /\ UNCHANGED <<rows, held>>
              /\ \A e \in Dispatchers : e # d => outcome'[e] = outcome[e]
              /\ \/ outcome'[d] = "sent" /\ tries' = tries
                 \/ tries' = [tries EXCEPT ![r] = @ + 1]
    BY <1>4, Publishing DEF Working
  <2>2. \A e : Current(e)' = Current(e)
    BY <2>1 DEF Current
  <2>3. /\ \A q \in Records : tries'[q] \in Nat /\ tries[q] <= tries'[q]
        /\ outcome'[d] = "raised" => tries'[r] = tries[r] + 1
    <3>1. CASE outcome'[d] = "sent" /\ tries' = tries
      BY <1>0, <3>1
    <3>2. CASE tries' = [tries EXCEPT ![r] = @ + 1]
      <4>1. \A q \in Records : tries'[q] = IF q = r THEN tries[r] + 1 ELSE tries[q]
        BY <3>2 DEF TypeInv, TypeOK
      <4> QED
        BY <1>0, <4>1
    <3> QED
      BY <2>1, <3>1, <3>2
  <2>4. \A e \in Dispatchers : \A record \in held'[e] : record.attempts <= tries'[record.id]
    BY <1>0, <2>1, <2>3
  <2>5. \A q \in Records : /\ rows'[q].published \/ rows'[q].attempts <= tries'[q]
                           /\ rows'[q].dead => tries'[q] >= MaxAttempts
    BY <1>0, <2>1, <2>3
  <2>6. ASSUME NEW e \in Dispatchers, outcome'[e] = "raised"
        PROVE  Current(e).attempts + 1 <= tries'[Current(e).id]
    <3>1. held[e] # {} /\ Current(e) \in held[e] /\ Current(e).attempts <= tries[Current(e).id]
      BY <1>0, <2>1, <2>6
    <3>2. CASE e = d
      BY <1>0, <2>1, <2>3, <2>6, <3>1, <3>2
    <3>3. CASE e # d
      BY <1>0, <2>1, <2>3, <2>6, <3>1, <3>3
    <3> QED
      BY <3>2, <3>3
  <2> QED
    BY <2>2, <2>4, <2>5, <2>6
<1>5. ASSUME NEW d \in Dispatchers, RecordPublished(d) \/ RecordFailure(d)
      PROVE  TriesInv'
  <2>1. PICK r \in Records, attempts \in 1 .. MaxAttempts :
              /\ r = Current(d).id /\ attempts = Current(d).attempts + 1
              /\ tries' = tries /\ held[d] # {}
              /\ \A e \in Dispatchers : e # d => outcome'[e] = outcome[e] /\ held'[e] = held[e]
              /\ outcome'[d] = "none" /\ held'[d] = held[d] \ {Current(d)}
              /\ \A q \in Records : q # r => rows'[q] = rows[q]
              /\ rows'[r].attempts = attempts
              /\ \/ rows'[r].published /\ rows'[r].dead = rows[r].dead
                 \/ outcome[d] = "raised" /\ rows'[r].dead = Exhausted(attempts)
    BY <1>5, Settling, SMTT(30)
  <2>2. \A e \in Dispatchers : e # d => Current(e)' = Current(e)
    BY <2>1 DEF Current
  <2>3. /\ rows'[r].published \/ rows'[r].attempts <= tries[r]
        /\ rows'[r].dead => tries[r] >= MaxAttempts
    <3>1. Current(d) \in held[d] /\ tries[r] \in Nat /\ (outcome[d] = "raised" => attempts <= tries[r])
      BY <1>0, <2>1
    <3>2. CASE rows'[r].published /\ rows'[r].dead = rows[r].dead
      BY <3>2
    <3>3. CASE outcome[d] = "raised" /\ rows'[r].dead = Exhausted(attempts)
      <4>1. Exhausted(attempts) => tries[r] >= MaxAttempts
        BY <1>0, <3>1, <3>3 DEF Exhausted
      <4> QED
        BY <2>1, <3>1, <3>3, <4>1
    <3> QED
      BY <2>1, <3>2, <3>3
  <2> QED
    BY <2>1, <2>2, <2>3
<1>6. ASSUME NEW d \in Dispatchers, Abandon(d) PROVE TriesInv'
  <2>1. /\ UNCHANGED <<rows, tries>> /\ outcome'[d] = "none" /\ held'[d] = {}
        /\ \A e \in Dispatchers : e # d => outcome'[e] = outcome[e] /\ held'[e] = held[e]
    BY <1>6, Abandoning
  <2>2. \A e \in Dispatchers : e # d => Current(e)' = Current(e)
    BY <2>1 DEF Current
  <2> QED
    BY <2>1, <2>2
<1>7. CASE UNCHANGED <<held, outcome, rows, tries>>
  BY <1>7 DEF Current
<1> QED
  BY <1>2, <1>3, <1>4, <1>5, <1>6, <1>7
  DEF Next, DrainStep, Idle, vars, BrokerGoesDown, BrokerComesBack, Enqueue

\* No row is given up before MaxAttempts publishes of it have raised, however many replicas write
\* their stale attempt counts over each other's (record_failure).
THEOREM NotGivenUpEarly == Spec => []DeadOnlyAfterMaxAttempts
<1>1. Init => TriesInv
  BY AttemptsAssumption DEF Init, TriesInv, AttemptsWereTried, DeadOnlyAfterMaxAttempts
<1>2. TypeInv /\ TriesInv /\ [Next]_vars => TriesInv'
  BY TriesNext
<1>3. TriesInv => DeadOnlyAfterMaxAttempts
  BY DEF TriesInv
<1> QED
  BY <1>1, <1>2, <1>3, TypeInvariant, PTL DEF Spec

-----------------------------------------------------------------------------
(* Every duplicate has a mishap of its own.                                *)

\* The replicas that have the row in hand and may yet send it.
Unsent(r) == {d \in Holders(r) : ~ (outcome[d] = "sent" /\ Current(d).id = r)}

\* The row may be claimed, at once or when its backoff runs out, without anything going wrong.
Free(r) == ~ rows[r].published /\ ~ rows[r].dead /\ (~ rows[r].waiting \/ Holders(r) = {})

\* What was sent of a row and what may still be sent of it is one publish for each mishap and one
\* for the row.
Accounted(r) ==
    Cardinality(Sent(r)) + Cardinality(Unsent(r)) + (IF Free(r) THEN 1 ELSE 0) <= 1 + mishaps[r]

LEMMA UnsentFinite ==
    ASSUME NEW q
    PROVE  /\ IsFiniteSet(Unsent(q)) /\ Cardinality(Unsent(q)) \in Nat
           /\ Unsent(q) \subseteq Dispatchers
           /\ IsFiniteSet(Unsent(q)') /\ Cardinality(Unsent(q)') \in Nat
<1>1. Unsent(q) \subseteq Dispatchers /\ Unsent(q)' \subseteq Dispatchers
  BY DEF Unsent, Holders
<1> QED
  BY <1>1, DispatchersAssumption, FS_Subset, FS_CardinalityType

\* A row whose copies, places on the topic and mishaps are as they were.
LEMMA AccountedStep ==
    ASSUME TypeInv, NEW q \in Records, Accounted(q),
           Sent(q)' = Sent(q), Unsent(q)' \subseteq Unsent(q), Free(q)' => Free(q), mishaps'[q] = mishaps[q]
    PROVE  Accounted(q)'
<1>1. Cardinality(Unsent(q)') <= Cardinality(Unsent(q))
  BY UnsentFinite, FS_Subset
<1>2. /\ Cardinality(Sent(q)) \in Nat /\ mishaps[q] \in Nat
      /\ Cardinality(Unsent(q)) \in Nat /\ Cardinality(Unsent(q)') \in Nat
  BY SentFinite, UnsentFinite, BoundsAssumption DEF TypeInv, TypeOK
<1> QED
  BY <1>1, <1>2 DEF Accounted

LEMMA AccountedClaim ==
    ASSUME TypeInv, NEW d \in Dispatchers, Claim(d), NEW q \in Records, Accounted(q)
    PROVE  Accounted(q)'
<1>1. /\ UNCHANGED <<topic, outcome, mishaps>> /\ held[d] = {} /\ held'[d] = Claimed /\ outcome[d] = "none"
      /\ \A e \in Dispatchers : e # d => held'[e] = held[e]
      /\ q \in FirstDue => rows'[q].waiting
      /\ q \notin FirstDue => rows'[q] = rows[q]
  BY Claiming DEF TypeInv, OutcomesHaveBatches
<1>2. Holders(q)' = IF q \in FirstDue THEN Holders(q) \cup {d} ELSE Holders(q)
  <2>1. (\E record \in Claimed : record.id = q) <=> q \in FirstDue
    <3>1. q \in FirstDue => [id |-> q, attempts |-> rows[q].attempts] \in Claimed
      BY DEF Claimed
    <3>2. \A record \in Claimed : record.id \in FirstDue
      BY ClaimedType
    <3> QED
      BY <3>1, <3>2
  <2> QED
    BY <1>1, <2>1 DEF Holders
<1>3. \A e \in Holders(q) : Current(e)' = Current(e)
  BY <1>1 DEF Current, Holders
<1>4. Sent(q)' = Sent(q) /\ mishaps'[q] = mishaps[q]
  BY <1>1 DEF Sent
<1>5. CASE q \notin FirstDue
  <2>1. Unsent(q)' = Unsent(q) /\ (Free(q)' <=> Free(q))
    BY <1>1, <1>2, <1>3, <1>5 DEF Unsent, Free
  <2> QED
    BY <1>4, <2>1, AccountedStep
<1>6. CASE q \in FirstDue
  <2>1. Unsent(q)' = Unsent(q) \cup {d} /\ d \notin Unsent(q)
    BY <1>1, <1>2, <1>3, <1>6 DEF Unsent, Holders
  <2>2. Free(q) /\ ~ Free(q)'
    BY <1>1, <1>2, <1>6, FirstDueSize DEF Free, Due
  <2>3. Cardinality(Unsent(q)') = Cardinality(Unsent(q)) + 1
    BY <2>1, UnsentFinite, FS_AddElement
  <2>4. /\ Cardinality(Sent(q)) \in Nat /\ mishaps[q] \in Nat /\ Cardinality(Unsent(q)) \in Nat
    BY SentFinite, UnsentFinite, BoundsAssumption DEF TypeInv, TypeOK
  <2> QED
    BY <1>4, <2>2, <2>3, <2>4 DEF Accounted
<1> QED
  BY <1>5, <1>6

LEMMA AccountedElapse ==
    ASSUME TypeInv, NEW r \in Records, Elapse(r), NEW q \in Records, Accounted(q)
    PROVE  Accounted(q)'
<1>1. UNCHANGED <<enqueued, topic, outcome, held>> /\ rows' = [rows EXCEPT ![r].waiting = FALSE]
  BY DEF Elapse
<1>2. Sent(q)' = Sent(q) /\ Holders(q)' = Holders(q) /\ Unsent(q)' = Unsent(q)
  BY <1>1, Unmoved DEF Unsent
<1>3. /\ rows'[q].published = rows[q].published /\ rows'[q].dead = rows[q].dead
      /\ q # r => rows'[q] = rows[q]
  BY <1>1 DEF TypeInv, TypeOK, Row
<1>4. mishaps \in [Records -> 0 .. MaxMishaps] /\ MaxMishaps \in Nat
  BY BoundsAssumption DEF TypeInv, TypeOK
<1>5. CASE q # r \/ Holders(r) = {}
  <2>1. mishaps'[q] = mishaps[q]
    BY <1>4, <1>5 DEF Elapse
  <2>2. Free(q)' => Free(q)
    BY <1>2, <1>3, <1>5 DEF Free
  <2> QED
    BY <1>2, <2>1, <2>2, AccountedStep
<1>6. CASE q = r /\ Holders(r) # {}
  <2>1. mishaps'[q] = mishaps[q] + 1
    BY <1>4, <1>6 DEF Elapse
  <2>2. /\ Cardinality(Sent(q)) \in Nat /\ mishaps[q] \in Nat /\ Cardinality(Unsent(q)) \in Nat
    BY <1>4, SentFinite, UnsentFinite
  <2> QED
    BY <1>2, <2>1, <2>2 DEF Accounted
<1> QED
  BY <1>5, <1>6

LEMMA AccountedPublish ==
    ASSUME TypeInv, NEW d \in Dispatchers,
           PublishAcknowledged(d) \/ PublishUnacknowledged(d) \/ PublishFails(d),
           NEW q \in Records, Accounted(q)
    PROVE  Accounted(q)'
<1>1. PICK r \in Records :
         /\ r = Current(d).id /\ held[d] # {} /\ outcome[d] = "none"
         /\ UNCHANGED <<enqueued, rows, held>>
         /\ \A e \in Dispatchers : e # d => outcome'[e] = outcome[e]
         /\ \/ outcome'[d] = "sent" /\ topic' = Append(topic, r) /\ UNCHANGED mishaps
            \/ /\ outcome'[d] = "raised" /\ topic' = Append(topic, r)
               /\ mishaps' = [mishaps EXCEPT ![r] = @ + 1]
            \/ outcome'[d] = "raised" /\ UNCHANGED <<topic, mishaps>>
  BY Publishing DEF Working
<1>2. Holders(q)' = Holders(q) /\ (Free(q)' <=> Free(q)) /\ \A e : Current(e)' = Current(e)
  BY <1>1 DEF Holders, Free, Current
<1>3. mishaps \in [Records -> Nat]
  BY BoundsAssumption DEF TypeInv, TypeOK
<1>4. CASE outcome'[d] = "raised" /\ UNCHANGED <<topic, mishaps>>
  <2>1. Sent(q)' = Sent(q)
    BY <1>4 DEF Sent
  <2>2. Unsent(q)' = Unsent(q)
    BY <1>1, <1>2, <1>4 DEF Unsent, Holders
  <2> QED
    BY <1>2, <1>4, <2>1, <2>2, AccountedStep
<1>5. CASE topic' = Append(topic, r) /\ q # r
  <2>1. Sent(q)' = Sent(q)
    BY <1>5, SentAfterAppend
  <2>2. Unsent(q)' = Unsent(q)
    BY <1>1, <1>2, <1>5 DEF Unsent, Holders
  <2>3. mishaps'[q] = mishaps[q]
    BY <1>1, <1>3, <1>5
  <2> QED
    BY <1>2, <2>1, <2>2, <2>3, AccountedStep
<1>6. CASE topic' = Append(topic, r) /\ q = r
  <2>1. Cardinality(Sent(q)') = Cardinality(Sent(q)) + 1 /\ Cardinality(Sent(q)) \in Nat
    <3>1. Sent(q)' = Sent(q) \cup {Len(topic) + 1} /\ Len(topic) + 1 \notin Sent(q)
      BY <1>6, SentAfterAppend
    <3> QED
      BY <3>1, SentFinite, FS_AddElement
  <2>2. d \in Unsent(q)
    BY <1>1, <1>6, CurrentType DEF Unsent, Holders
  <2>3. CASE outcome'[d] = "sent" /\ UNCHANGED mishaps
    <3>1. Unsent(q)' = Unsent(q) \ {d}
      BY <1>1, <1>2, <1>6, <2>3 DEF Unsent, Holders
    <3>2. Cardinality(Unsent(q)') = Cardinality(Unsent(q)) - 1 /\ Cardinality(Unsent(q)) \in Nat
      BY <2>2, <3>1, UnsentFinite, FS_RemoveElement
    <3> QED
      BY <1>2, <1>3, <2>1, <2>3, <3>2 DEF Accounted
  <2>4. CASE outcome'[d] = "raised" /\ mishaps' = [mishaps EXCEPT ![r] = @ + 1]
    <3>1. Unsent(q)' = Unsent(q)
      BY <1>1, <1>2, <1>6, <2>4 DEF Unsent, Holders
    <3>2. mishaps'[q] = mishaps[q] + 1 /\ mishaps[q] \in Nat /\ Cardinality(Unsent(q)) \in Nat
      BY <1>3, <1>6, <2>4, UnsentFinite
    <3> QED
      BY <1>2, <2>1, <3>1, <3>2 DEF Accounted
  <2>5. topic' # topic
    <3>1. Sent(q)' # Sent(q)
      BY <1>6, SentAfterAppend
    <3> QED
      BY <3>1 DEF Sent
  <2> QED
    BY <1>1, <2>3, <2>4, <2>5
<1> QED
  BY <1>1, <1>4, <1>5, <1>6

LEMMA AccountedSettle ==
    ASSUME TypeInv, NEW d \in Dispatchers, RecordPublished(d) \/ RecordFailure(d),
           NEW q \in Records, Accounted(q)
    PROVE  Accounted(q)'
<1>1. PICK r \in Records :
         /\ r = Current(d).id /\ held[d] # {}
         /\ UNCHANGED <<topic, mishaps>>
         /\ \A e \in Dispatchers : e # d => outcome'[e] = outcome[e] /\ held'[e] = held[e]
         /\ outcome'[d] = "none" /\ held'[d] = held[d] \ {Current(d)}
         /\ \A p \in Records : p # r => rows'[p] = rows[p]
         /\ outcome[d] = "raised" \/ rows'[r].published
  BY Settling
<1>2. /\ Current(d) \in held[d]
      /\ \A record, other \in held[d] : record.id = other.id => record = other
  BY <1>1, CurrentType DEF TypeInv, TypeOK
<1>3. Holders(q)' = IF q = r THEN Holders(q) \ {d} ELSE Holders(q)
  BY <1>1, <1>2 DEF Holders
<1>4. Sent(q)' = Sent(q) /\ mishaps'[q] = mishaps[q]
  BY <1>1 DEF Sent
<1>5. \A e \in Dispatchers : e # d => Current(e)' = Current(e)
  BY <1>1 DEF Current
<1>6. CASE q # r
  <2>1. Unsent(q)' = Unsent(q)
    BY <1>1, <1>3, <1>5, <1>6 DEF Unsent, Holders
  <2>2. Free(q)' <=> Free(q)
    BY <1>1, <1>3, <1>6 DEF Free
  <2> QED
    BY <1>4, <2>1, <2>2, AccountedStep
<1>7. CASE q = r
  <2>1. Unsent(q)' = Unsent(q) \ {d}
    BY <1>1, <1>3, <1>5, <1>7 DEF Unsent, Holders
  <2>2. CASE rows'[r].published
    <3>1. ~ Free(q)'
      BY <1>7, <2>2 DEF Free
    <3> QED
      BY <1>4, <2>1, <3>1, AccountedStep
  <2>3. CASE outcome[d] = "raised"
    <3>1. d \in Unsent(q)
      BY <1>1, <1>2, <1>7, <2>3 DEF Unsent, Holders
    <3>2. Cardinality(Unsent(q)') = Cardinality(Unsent(q)) - 1 /\ Cardinality(Unsent(q)) \in Nat
      BY <2>1, <3>1, UnsentFinite, FS_RemoveElement
    <3>3. Cardinality(Sent(q)) \in Nat /\ mishaps[q] \in Nat
      BY SentFinite, BoundsAssumption DEF TypeInv, TypeOK
    <3> QED
      BY <1>4, <3>2, <3>3 DEF Accounted
  <2> QED
    BY <1>1, <2>2, <2>3
<1> QED
  BY <1>6, <1>7

LEMMA AccountedAbandon ==
    ASSUME TypeInv, NEW d \in Dispatchers, Abandon(d), NEW q \in Records, Accounted(q)
    PROVE  Accounted(q)'
<1>1. PICK r \in Records :
         /\ r = Current(d).id /\ held[d] # {} /\ held'[d] = {} /\ outcome'[d] = "none"
         /\ \A e \in Dispatchers : e # d => outcome'[e] = outcome[e] /\ held'[e] = held[e]
         /\ UNCHANGED <<rows, topic>> /\ mishaps' = [mishaps EXCEPT ![r] = @ + 1]
  BY Abandoning
<1>2. Holders(q)' = Holders(q) \ {d}
  BY <1>1 DEF Holders
<1>3. \A e \in Dispatchers : e # d => Current(e)' = Current(e)
  BY <1>1 DEF Current
<1>4. Sent(q)' = Sent(q)
  BY <1>1 DEF Sent
<1>5. Unsent(q)' = Unsent(q) \ {d}
  BY <1>1, <1>2, <1>3 DEF Unsent, Holders
<1>6. mishaps \in [Records -> Nat]
  BY BoundsAssumption DEF TypeInv, TypeOK
<1>7. Cardinality(Unsent(q)') <= Cardinality(Unsent(q))
  BY <1>5, UnsentFinite, FS_Subset
<1>8. /\ Cardinality(Sent(q)) \in Nat /\ mishaps[q] \in Nat
      /\ Cardinality(Unsent(q)) \in Nat /\ Cardinality(Unsent(q)') \in Nat
  BY <1>6, SentFinite, UnsentFinite
<1>9. CASE q = r
  <2>1. mishaps'[q] = mishaps[q] + 1
    BY <1>1, <1>6, <1>9
  <2> QED
    BY <1>4, <1>7, <1>8, <2>1 DEF Accounted
<1>10. CASE q # r
  <2>1. mishaps'[q] = mishaps[q]
    BY <1>1, <1>6, <1>10
  <2>2. CASE d \in Holders(q)
    <3>1. d \in Unsent(q)
      BY <1>1, <1>10, <2>2 DEF Unsent
    <3>2. Cardinality(Unsent(q)') = Cardinality(Unsent(q)) - 1
      BY <1>5, <3>1, UnsentFinite, FS_RemoveElement
    <3> QED
      BY <1>4, <1>8, <2>1, <3>2 DEF Accounted
  <2>3. CASE d \notin Holders(q)
    <3>1. Free(q)' <=> Free(q)
      BY <1>1, <1>2, <2>3 DEF Free
    <3> QED
      BY <1>4, <1>5, <2>1, <3>1, AccountedStep
  <2> QED
    BY <2>2, <2>3
<1> QED
  BY <1>9, <1>10

LEMMA AccountedNext ==
    ASSUME TypeInv, [Next]_vars, NEW q \in Records, Accounted(q)
    PROVE  Accounted(q)'
<1>1. CASE (\E r \in Records : Enqueue(r)) \/ UNCHANGED <<rows, held, outcome, topic, mishaps>>
  <2>1. UNCHANGED <<rows, held, outcome, topic, mishaps>>
    BY <1>1 DEF Enqueue
  <2>2. Sent(q)' = Sent(q) /\ Unsent(q)' = Unsent(q) /\ Free(q)' = Free(q)
    BY <2>1 DEF Sent, Unsent, Free, Holders, Current
  <2> QED
    BY <2>1, <2>2 DEF Accounted
<1> QED
  BY <1>1, AccountedElapse, AccountedClaim, AccountedPublish, AccountedSettle, AccountedAbandon
  DEF Next, DrainStep, Idle, vars, BrokerGoesDown, BrokerComesBack

\* Two replicas draining the same outbox do not both send a row: a row is on the topic once, and
\* once more at most for every acknowledgement lost, batch abandoned or lease outlived (due).
THEOREM NoUncausedDuplicate == Spec => []DuplicatesHaveACause
<1> DEFINE AllAccounted == \A q \in Records : Accounted(q)
<1>1. Init => AllAccounted
  <2> SUFFICES ASSUME Init, NEW q \in Records PROVE Accounted(q)
    OBVIOUS
  <2>1. Sent(q) = {} /\ Unsent(q) = {} /\ mishaps[q] = 0
    BY DEF Init, Sent, Unsent, Holders
  <2> QED
    BY <2>1, FS_EmptySet DEF Accounted
<1>2. TypeInv /\ AllAccounted /\ [Next]_vars => AllAccounted'
  BY AccountedNext
<1>3. TypeInv /\ AllAccounted => DuplicatesHaveACause
  <2> SUFFICES ASSUME TypeInv, AllAccounted, NEW q \in Records PROVE Cardinality(Sent(q)) <= 1 + mishaps[q]
    BY DEF DuplicatesHaveACause
  <2>1. Accounted(q)
    OBVIOUS
  <2>2. Cardinality(Sent(q)) \in Nat /\ Cardinality(Unsent(q)) \in Nat /\ mishaps[q] \in Nat
    BY SentFinite, UnsentFinite, BoundsAssumption DEF TypeInv, TypeOK
  <2> QED
    BY <2>1, <2>2 DEF Accounted
<1> HIDE DEF AllAccounted
<1> QED
  BY <1>1, <1>2, <1>3, TypeInvariant, PTL DEF Spec

-----------------------------------------------------------------------------
(* No event is overtaken without a cause.                                  *)

\* Nothing has happened to the row that could let a later one pass it.
Untroubled(r) == Sent(r) = {} /\ tries[r] = 0 /\ mishaps[r] = 0 /\ r \notin abandoned

\* Such a row waits only while a replica works on it, and a replica that works on a later row of the
\* user claimed it with this one, or found it claimed.
HeldInOrder ==
    /\ \A r \in Records : rows[r].waiting => Stored(r)
    /\ \A r \in Records : Untroubled(r) /\ rows[r].waiting => Holders(r) # {}
    /\ \A r, q \in Records :
          r < q /\ Holders(q) # {} /\ Before(enqueued, r, q) /\ Untroubled(r) => Holders(r) # {}

\* What the steps need to know of a row.
OrderInv == PublishedWasSent /\ SentOutcomesWereSent /\ TriesInv /\ HeldInOrder

\* A row once troubled stays so.
LEMMA UntroubledBefore ==
    ASSUME TypeInv, [Next]_vars, NEW r \in Records, Untroubled(r)'
    PROVE  Untroubled(r)
<1>1. /\ mishaps \in [Records -> 0 .. MaxMishaps] /\ tries \in [Records -> Nat] /\ MaxMishaps \in Nat
      /\ mishaps[r] \in Nat
  BY BoundsAssumption DEF TypeInv, TypeOK
<1> SUFFICES /\ Sent(r) # {} => Sent(r)' # {}
             /\ tries[r] # 0 => tries'[r] # 0
             /\ mishaps[r] # 0 => mishaps'[r] # 0
             /\ abandoned \subseteq abandoned'
  BY DEF Untroubled
<1>2. ASSUME NEW d \in Dispatchers, PublishAcknowledged(d) \/ PublishUnacknowledged(d) \/ PublishFails(d)
      PROVE  /\ Sent(r) # {} => Sent(r)' # {}
             /\ tries[r] # 0 => tries'[r] # 0
             /\ mishaps[r] # 0 => mishaps'[r] # 0
             /\ abandoned' = abandoned
  <2>1. PICK q \in Records :
           /\ abandoned' = abandoned
           /\ topic' = topic \/ topic' = Append(topic, q)
           /\ tries' = tries \/ tries' = [tries EXCEPT ![q] = @ + 1]
           /\ mishaps' = mishaps \/ mishaps' = [mishaps EXCEPT ![q] = @ + 1]
    BY <1>2, Publishing
  <2>2. Sent(r) # {} => Sent(r)' # {}
    <3>1. CASE topic' = topic
      BY <3>1 DEF Sent
    <3>2. CASE topic' = Append(topic, q)
      BY <3>2, SentAfterAppend
    <3> QED
      BY <2>1, <3>1, <3>2
  <2>3. tries[r] # 0 => tries'[r] # 0
    BY <1>1, <2>1
  <2>4. mishaps[r] # 0 => mishaps'[r] # 0
    BY <1>1, <2>1
  <2> QED
    BY <2>1, <2>2, <2>3, <2>4
<1>3. ASSUME NEW d \in Dispatchers, Abandon(d)
      PROVE  /\ UNCHANGED <<topic, tries>> /\ abandoned \subseteq abandoned'
             /\ mishaps[r] # 0 => mishaps'[r] # 0
  <2>1. PICK q \in Records : mishaps' = [mishaps EXCEPT ![q] = @ + 1]
    BY <1>3, Abandoning
  <2>2. mishaps[r] # 0 => mishaps'[r] # 0
    BY <1>1, <2>1
  <2>3. UNCHANGED <<topic, tries>> /\ abandoned \subseteq abandoned'
    BY <1>3 DEF Abandon
  <2> QED
    BY <2>2, <2>3
<1>4. ASSUME NEW q \in Records, Elapse(q)
      PROVE  UNCHANGED <<topic, tries, abandoned>> /\ (mishaps[r] # 0 => mishaps'[r] # 0)
  <2>1. mishaps' = mishaps \/ mishaps' = [mishaps EXCEPT ![q] = @ + 1]
    BY <1>4 DEF Elapse
  <2> QED
    BY <1>1, <1>4, <2>1 DEF Elapse
<1>5. ASSUME NEW d \in Dispatchers, RecordPublished(d) \/ RecordFailure(d) \/ Claim(d)
      PROVE  UNCHANGED <<topic, tries, mishaps, abandoned>>
  BY <1>5 DEF RecordPublished, RecordFailure, Claim
<1>6. CASE UNCHANGED <<topic, tries, mishaps, abandoned>> \/ \E q \in Records : Enqueue(q)
  BY <1>6 DEF Enqueue, Sent
<1>7. UNCHANGED topic => (Sent(r)' = Sent(r))
  BY DEF Sent
<1> QED
  BY <1>2, <1>3, <1>4, <1>5, <1>6, <1>7 DEF Next, DrainStep, Idle, vars, BrokerGoesDown, BrokerComesBack

\* A row that nothing happened to is still to be sent.
LEMMA UntroubledIsOpen ==
    ASSUME TypeInv, OrderInv, NEW r \in Records, Untroubled(r)
    PROVE  ~ rows[r].published /\ ~ rows[r].dead
BY AttemptsAssumption DEF OrderInv, PublishedWasSent, TriesInv, DeadOnlyAfterMaxAttempts, Untroubled

\* A row whose outcome is recorded is no longer untroubled: it was sent, or its publish raised.
LEMMA SettledIsTroubled ==
    ASSUME TypeInv, OrderInv, NEW d \in Dispatchers, outcome[d] # "none"
    PROVE  ~ Untroubled(Current(d).id)
<1>1. held[d] # {} /\ outcome[d] \in {"sent", "raised"}
  BY DEF TypeInv, TypeOK, OutcomesHaveBatches, Outcomes
<1>2. CASE outcome[d] = "sent"
  BY <1>2 DEF OrderInv, SentOutcomesWereSent, Untroubled
<1>3. CASE outcome[d] = "raised"
  <2>1. Current(d).attempts + 1 <= tries[Current(d).id]
    BY <1>3 DEF OrderInv, TriesInv, AttemptsWereTried
  <2>2. Current(d).attempts \in Nat
    BY <1>1, CurrentType, AttemptsAssumption
  <2> QED
    BY <2>1, <2>2 DEF Untroubled
<1> QED
  BY <1>1, <1>2, <1>3

\* A poll that takes a row takes every older one that is due.
LEMMA OlderDueFirst ==
    ASSUME NEW r \in Due, NEW q \in FirstDue, r < q
    PROVE  r \in FirstDue
<1>1. Due \subseteq Nat /\ IsFiniteSet(Due) /\ q \in Due
  BY RecordsAssumption, FirstDueSize, FS_Subset
<1> DEFINE Below(p) == {x \in Due : x < p}
<1>2. Below(r) \subseteq Below(q) /\ Below(q) \subseteq Due
  <2>1. \A x \in Due : x < r => x < q
    BY <1>1
  <2> QED
    BY <2>1
<1>3. IsFiniteSet(Below(q))
  BY <1>1, <1>2, FS_Subset
<1>4. /\ Cardinality(Below(r)) <= Cardinality(Below(q))
      /\ Cardinality(Below(r)) \in Nat /\ Cardinality(Below(q)) \in Nat
  BY <1>2, <1>3, FS_Subset, FS_CardinalityType
<1>5. Cardinality(Below(q)) < BatchSize /\ BatchSize \in Nat
  BY AttemptsAssumption DEF FirstDue
<1>6. Cardinality(Below(r)) < BatchSize
  BY <1>4, <1>5
<1> QED
  BY <1>6 DEF FirstDue

LEMMA OrderEnqueue ==
    ASSUME TypeInv, OrderInv, [Next]_vars, NEW p \in Records, Enqueue(p)
    PROVE  HeldInOrder'
<1>1. UNCHANGED <<rows, held>> /\ enqueued' = Append(enqueued, p) /\ ~ Stored(p)
  BY DEF Enqueue
<1>2. \A q : Holders(q)' = Holders(q) /\ (Stored(q) => Stored(q)')
  BY <1>1, EnqueueType DEF Holders
<1>3. ASSUME NEW r \in Records, NEW q \in Records, Before(enqueued', r, q), q # p
      PROVE  Before(enqueued, r, q)
  <2>1. enqueued \in Seq(Records) /\ enqueued' \in Seq(Records) /\ Len(enqueued) \in Nat
    BY <1>1 DEF TypeInv, TypeOK
  <2>2. /\ DOMAIN enqueued = 1 .. Len(enqueued) /\ DOMAIN enqueued' = 1 .. Len(enqueued) + 1
        /\ \A i \in 1 .. Len(enqueued) : enqueued'[i] = enqueued[i]
        /\ enqueued'[Len(enqueued) + 1] = p
    BY <1>1, <2>1
  <2>3. PICK i, j \in DOMAIN enqueued' : i < j /\ enqueued'[i] = r /\ enqueued'[j] = q
    BY <1>3 DEF Before
  <2>4. i \in DOMAIN enqueued /\ j \in DOMAIN enqueued
    BY <1>3, <2>1, <2>2, <2>3
  <2> QED
    BY <2>2, <2>3, <2>4 DEF Before
<1>4. \A q \in Records : Holders(q) # {} => q # p
  BY <1>1 DEF TypeInv, TypeOK, Holders
<1> QED
  BY <1>1, <1>2, <1>3, <1>4, UntroubledBefore DEF OrderInv, HeldInOrder

LEMMA OrderClaim ==
    ASSUME TypeInv, OrderInv, [Next]_vars, NEW d \in Dispatchers, Claim(d)
    PROVE  HeldInOrder'
<1>1. /\ held[d] = {} /\ held'[d] = Claimed /\ enqueued' = enqueued
      /\ \A e \in Dispatchers : e # d => held'[e] = held[e]
      /\ \A q \in Records : q \notin FirstDue => rows'[q] = rows[q]
  BY Claiming
<1>2. \A q \in Records : (\E record \in Claimed : record.id = q) <=> q \in FirstDue
  <2>1. \A q \in FirstDue : [id |-> q, attempts |-> rows[q].attempts] \in Claimed
    BY DEF Claimed
  <2> QED
    BY <2>1, ClaimedType
<1>3. \A q \in Records : Holders(q)' = IF q \in FirstDue THEN Holders(q) \cup {d} ELSE Holders(q)
  BY <1>1, <1>2 DEF Holders
<1>4. \A q : Stored(q)' <=> Stored(q)
  BY <1>1 DEF Stored
<1>5. \A q \in FirstDue : Stored(q)
  BY FirstDueSize DEF Due
<1>6. ASSUME NEW r \in Records, NEW q \in Records,
             r < q, Holders(q)' # {}, Before(enqueued', r, q), Untroubled(r)'
      PROVE  Holders(r)' # {}
  <2>1. Untroubled(r) /\ Before(enqueued, r, q)
    BY <1>1, <1>6, UntroubledBefore
  <2>2. CASE Holders(q) # {}
    BY <1>3, <1>6, <2>1, <2>2 DEF OrderInv, HeldInOrder
  <2>3. CASE q \in FirstDue
    <3>1. Stored(r)
      BY <2>1 DEF Before, Stored, Range
    <3>2. CASE rows[r].waiting
      BY <1>3, <2>1, <3>2 DEF OrderInv, HeldInOrder
    <3>3. CASE ~ rows[r].waiting
      <4>1. r \in Due
        BY <2>1, <3>1, <3>3, UntroubledIsOpen DEF Due
      <4> QED
        BY <1>3, <1>6, <2>3, <4>1, OlderDueFirst
    <3> QED
      BY <3>2, <3>3
  <2> QED
    BY <1>3, <1>6, <2>2, <2>3
<1> QED
  BY <1>1, <1>3, <1>4, <1>5, <1>6, UntroubledBefore DEF OrderInv, HeldInOrder

LEMMA OrderSettle ==
    ASSUME TypeInv, OrderInv, [Next]_vars, NEW d \in Dispatchers, RecordPublished(d) \/ RecordFailure(d)
    PROVE  HeldInOrder'
<1>1. PICK r \in Records :
         /\ r = Current(d).id /\ held[d] # {} /\ enqueued' = enqueued /\ outcome[d] # "none"
         /\ \A e \in Dispatchers : e # d => held'[e] = held[e]
         /\ held'[d] = held[d] \ {Current(d)}
         /\ \A p \in Records : p # r => rows'[p] = rows[p]
  BY Settling
<1>2. Current(d) \in held[d] /\ Stored(r)
  BY <1>1, CurrentType
<1>3. \A q \in Records : Holders(q)' \subseteq Holders(q) /\ (q # r => Holders(q)' = Holders(q))
  BY <1>1, <1>2 DEF Holders
<1>4. ~ Untroubled(r)
  BY <1>1, SettledIsTroubled
<1>5. \A q : Stored(q)' <=> Stored(q)
  BY <1>1 DEF Stored
<1> QED
  BY <1>1, <1>2, <1>3, <1>4, <1>5, UntroubledBefore DEF OrderInv, HeldInOrder

LEMMA OrderAbandon ==
    ASSUME TypeInv, OrderInv, [Next]_vars, NEW d \in Dispatchers, Abandon(d)
    PROVE  HeldInOrder'
<1>1. PICK r \in Records :
         /\ r = Current(d).id /\ held'[d] = {}
         /\ \A e \in Dispatchers : e # d => held'[e] = held[e]
         /\ UNCHANGED <<enqueued, rows>> /\ mishaps' = [mishaps EXCEPT ![r] = @ + 1]
         /\ abandoned' = abandoned \cup {record.id : record \in held[d] \ {Current(d)}}
  BY Abandoning
<1>2. \A q \in Records : Holders(q)' = Holders(q) \ {d}
  BY <1>1 DEF Holders
<1>3. \A q : Stored(q)' <=> Stored(q)
  BY <1>1 DEF Stored
<1>4. ASSUME NEW q \in Records, d \in Holders(q) PROVE ~ Untroubled(q)'
  <2>1. PICK record \in held[d] : record.id = q
    BY <1>4 DEF Holders
  <2>2. CASE record = Current(d)
    <3>1. mishaps'[q] = mishaps[q] + 1 /\ mishaps[q] \in Nat
      BY <1>1, <2>1, <2>2, BoundsAssumption DEF TypeInv, TypeOK
    <3> QED
      BY <3>1 DEF Untroubled
  <2>3. CASE record # Current(d)
    BY <1>1, <2>1, <2>3 DEF Untroubled
  <2> QED
    BY <2>2, <2>3
<1>5. \A q \in Records : Untroubled(q)' => Holders(q)' = Holders(q)
  BY <1>2, <1>4
<1> QED
  BY <1>1, <1>2, <1>3, <1>5, UntroubledBefore DEF OrderInv, HeldInOrder

LEMMA OrderNext ==
    ASSUME TypeInv, OrderInv, [Next]_vars
    PROVE  HeldInOrder'
<1>1. ASSUME NEW r \in Records, Elapse(r) PROVE HeldInOrder'
  <2>1. UNCHANGED <<enqueued, held>> /\ \A q \in Records : rows'[q].waiting => rows[q].waiting
    BY <1>1 DEF Elapse, TypeInv, TypeOK, Row
  <2>2. \A q : Holders(q)' = Holders(q) /\ (Stored(q)' <=> Stored(q))
    BY <2>1 DEF Holders, Stored
  <2> QED
    BY <2>1, <2>2, UntroubledBefore DEF OrderInv, HeldInOrder
<1>2. CASE UNCHANGED <<enqueued, rows, held>>
  <2>1. \A q : Holders(q)' = Holders(q) /\ (Stored(q)' <=> Stored(q))
    BY <1>2 DEF Holders, Stored
  <2> QED
    BY <1>2, <2>1, UntroubledBefore DEF OrderInv, HeldInOrder
<1>3. ASSUME NEW d \in Dispatchers, PublishAcknowledged(d) \/ PublishUnacknowledged(d) \/ PublishFails(d)
      PROVE  UNCHANGED <<enqueued, rows, held>>
  BY <1>3 DEF PublishAcknowledged, PublishUnacknowledged, PublishFails
<1> QED
  BY <1>1, <1>2, <1>3, OrderEnqueue, OrderClaim, OrderSettle, OrderAbandon
  DEF Next, DrainStep, Idle, vars, BrokerGoesDown, BrokerComesBack

\* The step that puts an event on the topic has the cause the property asks for.
LEMMA OvertakingStep ==
    ASSUME TypeInv, OrderInv, Next, NEW r \in Records, NEW q \in Records,
           r < q, Before(enqueued, r, q), Sent(r) = {}, topic' = Append(topic, q),
           ~ (tries[r] > 0), ~ (mishaps[r] > 0), r \notin abandoned
    PROVE  \E e \in Holders(r) : outcome'[e] = outcome[e]
<1>1. topic \in Seq(Records) /\ tries[r] \in Nat /\ mishaps[r] \in Nat
  BY BoundsAssumption DEF TypeInv, TypeOK
<1>2. topic' # topic
  <2>1. Len(topic') = Len(topic) + 1 /\ Len(topic) \in Nat
    BY <1>1
  <2> QED
    BY <2>1
<1>3. Untroubled(r)
  BY <1>1, SMTT(30) DEF Untroubled
<1>4. PICK d \in Dispatchers : PublishAcknowledged(d) \/ PublishUnacknowledged(d) \/ PublishFails(d)
  BY <1>2 DEF Next, DrainStep, Idle, vars, BrokerGoesDown, BrokerComesBack, Enqueue, Elapse, Claim,
     RecordPublished, RecordFailure, Abandon
<1>5. PICK p \in Records :
         /\ p = Current(d).id /\ held[d] # {} /\ topic' = Append(topic, p)
         /\ \A e \in Dispatchers : e # d => outcome'[e] = outcome[e]
  BY <1>2, <1>4, Publishing DEF Working
<1>6. p = q
  <2>1. \A x \in Records : Append(topic, x)[Len(topic) + 1] = x
    BY <1>1
  <2> QED
    BY <1>5, <2>1
<1>7. d \in Holders(q) /\ \A other \in held[d] : q <= other.id
  BY <1>5, <1>6, CurrentType DEF Holders
<1>8. PICK e \in Holders(r) : TRUE
  BY <1>3, <1>7 DEF OrderInv, HeldInOrder
<1>9. e # d
  BY <1>7, <1>8, RecordsAssumption DEF Holders
<1> QED
  BY <1>5, <1>8, <1>9 DEF Holders

\* Two replicas polling, and a row claimed late, do not reorder a list and its successor: whatever
\* the batches and the interleaving, an event passes an older one of its user only after a publish
\* of that one raised, its lease was outlived or its batch abandoned, or while another replica has
\* it in hand (due, _publish).
THEOREM NoUncausedOvertaking == Spec => OvertakenForACause
<1>1. Init => OrderInv
  <2> SUFFICES ASSUME Init PROVE OrderInv
    OBVIOUS
  <2>1. PublishedWasSent /\ SentOutcomesWereSent
    BY DEF Init, PublishedWasSent, SentOutcomesWereSent, Sent
  <2>2. TriesInv
    BY AttemptsAssumption DEF Init, TriesInv, AttemptsWereTried, DeadOnlyAfterMaxAttempts
  <2>3. HeldInOrder
    BY DEF Init, HeldInOrder, Holders
  <2> QED
    BY <2>1, <2>2, <2>3 DEF OrderInv
<1>2. TypeInv /\ OrderInv /\ [Next]_vars => OrderInv'
  BY PublishedNext, TriesNext, OrderNext DEF OrderInv
<1>3. TypeInv /\ OrderInv /\ [Next]_vars =>
         [\A r, q \in Records :
            (r < q /\ Before(enqueued, r, q) /\ Sent(r) = {} /\ topic' = Append(topic, q)) =>
               \/ tries[r] > 0
               \/ mishaps[r] > 0 \/ r \in abandoned
               \/ \E d \in Holders(r) : outcome'[d] = outcome[d]]_vars
  BY OvertakingStep
<1> QED
  BY <1>1, <1>2, <1>3, TypeInvariant, PTL DEF Spec, OvertakenForACause
=============================================================================
