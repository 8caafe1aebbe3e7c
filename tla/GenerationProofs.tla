--------------------------- MODULE GenerationProofs ---------------------------
(***************************************************************************)
(* Generation, for every number of users, games, sweeps, edits and         *)
(* failures.                                                               *)
(***************************************************************************)
EXTENDS Generation, FiniteSetTheorems, TLAPS

-----------------------------------------------------------------------------
(* The ranking.                                                            *)

\* The rank of g among the eligible games grows strictly along Better, so two games never share one.
LEMMA RanksDiffer ==
    ASSUME NEW owned \in SUBSET Games, NEW E \in SUBSET Games,
           NEW g \in E, NEW h \in E, g # h
    PROVE  Cardinality({k \in E : Better(owned, k, g)}) # Cardinality({k \in E : Better(owned, k, h)})
<1> DEFINE Above(x) == {k \in E : Better(owned, k, x)}
<1>1. \A x \in E : x \in Nat /\ Blend(owned, x) \in Nat
  BY GamesAssumption, BlendAssumption
<1>2. \A x \in E : IsFiniteSet(Above(x)) /\ Cardinality(Above(x)) \in Nat
  BY GamesAssumption, FS_Subset, FS_CardinalityType
<1>3. ASSUME NEW x \in E, NEW y \in E, Better(owned, x, y)
      PROVE  Cardinality(Above(x)) < Cardinality(Above(y))
  <2>1. Above(x) \subseteq Above(y)
    BY <1>1, <1>3 DEF Better
  <2>2. x \in Above(y) /\ x \notin Above(x)
    BY <1>1, <1>3 DEF Better
  <2>3. Cardinality(Above(x)) <= Cardinality(Above(y)) /\ Cardinality(Above(x)) # Cardinality(Above(y))
    BY <2>1, <2>2, <1>2, FS_Subset
  <2> QED
    BY <2>3, <1>2
<1>4. Better(owned, g, h) \/ Better(owned, h, g)
  BY <1>1 DEF Better
<1> QED
  BY <1>2, <1>3, <1>4

\* HybridRanker.rank returns at most Limit games of the catalogue, none of them owned.
LEMMA RankedFits ==
    ASSUME NEW owned \in SUBSET Games, NEW candidates \in SUBSET Games
    PROVE  /\ Ranked(owned, candidates) \subseteq candidates \ owned
           /\ Cardinality(Ranked(owned, candidates)) <= Limit
<1> DEFINE E == {g \in candidates \ owned : Blend(owned, g) > 0}
           rank == [g \in E |-> Cardinality({h \in E : Better(owned, h, g)})]
           R == Ranked(owned, candidates)
           f == [g \in R |-> rank[g]]
<1>1. R = {g \in E : rank[g] < Limit}
  BY DEF Ranked
<1>2. \A g \in E : rank[g] \in Nat
  BY GamesAssumption, FS_Subset, FS_CardinalityType
<1>3. ASSUME NEW g \in E, NEW h \in E, rank[g] = rank[h] PROVE g = h
  <2>1. E \in SUBSET Games
    OBVIOUS
  <2>2. Cardinality({k \in E : Better(owned, k, g)}) = Cardinality({k \in E : Better(owned, k, h)})
    BY <1>3
  <2> HIDE DEF E
  <2> QED
    BY <2>1, <2>2, RanksDiffer
<1> HIDE DEF rank
<1>4. f \in Injection(R, 0 .. Limit - 1)
  <2>1. \A g \in R : g \in E /\ rank[g] \in 0 .. Limit - 1
    BY <1>1, <1>2, SizesAssumption
  <2>2. \A g, h \in R : rank[g] = rank[h] => g = h
    BY <2>1, <1>3
  <2> HIDE DEF R
  <2> QED
    BY <2>1, <2>2 DEF Injection, IsInjective
<1>5. IsFiniteSet(0 .. Limit - 1) /\ Cardinality(0 .. Limit - 1) = Limit
  BY FS_Interval, SizesAssumption
<1>6. Cardinality(R) <= Limit
  <2> HIDE DEF R, f
  <2> QED
    BY <1>4, <1>5, FS_Injection
<1> QED
  BY <1>6 DEF Ranked

-----------------------------------------------------------------------------
(* Lists that are stored and deleted as a whole.                           *)

\* Of each list that has a row here, every row is here.
Whole(R) ==
    \A row \in R : row.game \in row.of /\ \A g \in row.of : [game |-> g, of |-> row.of] \in R

\* Inserting or deleting whole lists leaves whole lists.
LEMMA WholeSets ==
    ASSUME NEW A \in SUBSET RecommendationRow, NEW B \in SUBSET RecommendationRow, Whole(A), Whole(B)
    PROVE  Whole(A \cup B) /\ Whole(A \ B)
<1>1. Whole(A \cup B)
  BY DEF Whole
<1>2. ASSUME NEW row \in A \ B, NEW g \in row.of
      PROVE  [game |-> g, of |-> row.of] \in A \ B
  <2> DEFINE other == [game |-> g, of |-> row.of]
  <2>1. row = [game |-> row.game, of |-> row.of]
    BY DEF RecommendationRow
  <2>2. other \in A /\ row.game \in row.of
    BY DEF Whole
  <2>3. other \in B => row \in B
    BY <2>1, <2>2 DEF Whole
  <2> QED
    BY <2>2, <2>3
<1> QED
  BY <1>1, <1>2 DEF Whole

\* The rows of a list of its own are whole.
LEMMA WholeList ==
    ASSUME NEW picks \in SUBSET Games
    PROVE  Whole([game : picks, of : {picks}])
BY DEF Whole

-----------------------------------------------------------------------------
(* The inductive invariant.                                                *)

\* A session in its place: what it holds has its type and size, and what it is about to delete, or
\* has deleted, is whole lists.
SessionInv(s) ==
    /\ gen[s] \in Transaction
    /\ todo[s] \in SUBSET Users
    /\ Cardinality(gen[s].picks) <= Limit
    /\ Cardinality(todo[s]) <= BatchSize
    /\ IF At(s, "idle") THEN gen[s] = NoTx ELSE For(s) \in todo[s]
    /\ At(s, "lock") => Whole(gen[s].targets)
    /\ At(s, "commit") => Whole(gen[s].locked)

\* What is stored for u.
ListInv(u) ==
    /\ Whole(list[u])
    /\ \A row, other \in list[u] : row.game = other.game => row = other

TablesOK ==
    /\ bought \in [Users -> SUBSET Games]
    /\ library \in [Users -> SUBSET Games]
    /\ published \subseteq Games
    /\ list \in [Users -> SUBSET RecommendationRow]
    /\ announced \in [Users -> SUBSET Games]
    /\ edits \in 0 .. MaxEdits
    /\ failures \in 0 .. MaxFailures

GenInv ==
    /\ TablesOK
    /\ gen \in [Sweeps -> Transaction] /\ todo \in [Sweeps -> SUBSET Users]
    /\ \A s \in Sweeps : SessionInv(s)
    /\ \A u \in Users : ListInv(u)

LEMMA GenInvMeans == GenInv => TypeOK /\ NoHalfReplacedList
<1> SUFFICES ASSUME GenInv PROVE TypeOK /\ NoHalfReplacedList
  OBVIOUS
<1>1. TypeOK
  BY DEF GenInv, TablesOK, SessionInv, ListInv, TypeOK
<1>2. ASSUME NEW u \in Users, NEW row \in list[u], NEW g \in row.of
      PROVE  g \in ListedGames(u)
  <2>1. [game |-> g, of |-> row.of] \in list[u]
    BY DEF GenInv, ListInv, Whole
  <2> QED
    BY <2>1 DEF ListedGames, GamesOf
<1> QED
  BY <1>1, <1>2 DEF NoHalfReplacedList

\* Nothing is open at first, and a session that is closed leaves nothing.
LEMMA NoTxType == NoTx \in Transaction /\ Cardinality(NoTx.picks) <= Limit
<1>1. NoTx \in Transaction
  BY DEF NoTx, Transaction, Steps
<1>2. Cardinality(NoTx.picks) = 0
  BY FS_EmptySet DEF NoTx
<1> QED
  BY <1>1, <1>2, SizesAssumption

LEMMA ClosedSession ==
    ASSUME NEW s \in Sweeps, gen[s] = NoTx, todo[s] \in SUBSET Users, Cardinality(todo[s]) <= BatchSize
    PROVE  SessionInv(s)
BY NoTxType DEF SessionInv, At, NoTx

LEMMA InitInv == Init => GenInv
<1> SUFFICES ASSUME Init PROVE GenInv
  OBVIOUS
<1>1. TablesOK
  BY GamesAssumption, BoundsAssumption DEF Init, TablesOK
<1>2. gen \in [Sweeps -> Transaction] /\ todo \in [Sweeps -> SUBSET Users]
  BY NoTxType DEF Init
<1>3. \A s \in Sweeps : SessionInv(s)
  <2> TAKE s \in Sweeps
  <2>1. gen[s] = NoTx /\ todo[s] = {}
    BY DEF Init
  <2>2. Cardinality({}) <= BatchSize
    BY FS_EmptySet, SizesAssumption
  <2> QED
    BY <2>1, <2>2, ClosedSession
<1>4. \A u \in Users : ListInv(u)
  BY DEF Init, ListInv, Whole
<1> QED
  BY <1>1, <1>2, <1>3, <1>4 DEF GenInv

\* A step of one sweep that leaves the lists alone has only that sweep to answer for.
LEMMA OneSweep ==
    ASSUME GenInv, TablesOK', NEW s \in Sweeps, UNCHANGED list,
           NEW tx \in Transaction, gen' = [gen EXCEPT ![s] = tx],
           NEW users \in SUBSET Users, todo' = [todo EXCEPT ![s] = users],
           SessionInv(s)'
    PROVE  GenInv'
<1>1. gen' \in [Sweeps -> Transaction] /\ todo' \in [Sweeps -> SUBSET Users]
  BY DEF GenInv
<1>2. \A v \in Sweeps : SessionInv(v)'
  <2> SUFFICES ASSUME NEW v \in Sweeps, v # s PROVE SessionInv(v)'
    OBVIOUS
  <2>1. gen'[v] = gen[v] /\ todo'[v] = todo[v] /\ SessionInv(v)
    BY DEF GenInv
  <2> QED
    BY <2>1 DEF SessionInv, At, For
<1>3. \A u \in Users : ListInv(u)'
  BY DEF GenInv, ListInv
<1> QED
  BY <1>1, <1>2, <1>3 DEF GenInv

\* A step of the surroundings has no sweep and no list to answer for.
LEMMA NoSweep ==
    ASSUME GenInv, TablesOK', UNCHANGED <<list, gen, todo>>
    PROVE  GenInv'
<1>1. \A v \in Sweeps : SessionInv(v)'
  BY DEF GenInv, SessionInv, At, For
<1>2. \A u \in Users : ListInv(u)'
  BY DEF GenInv, ListInv
<1> QED
  BY <1>1, <1>2 DEF GenInv

-----------------------------------------------------------------------------
(* Steps that change no list.                                              *)

LEMMA StartSweepInv == ASSUME GenInv, NEW s \in Sweeps, StartSweep(s) PROVE GenInv'
<1>1. PICK batch \in Batches : todo' = [todo EXCEPT ![s] = batch]
  BY DEF StartSweep
<1>2. batch \in SUBSET Users /\ Cardinality(batch) <= BatchSize
  <2>1. BatchSize \in Nat /\ Active \in SUBSET Users
    BY SizesAssumption DEF Active
  <2>2. CASE Cardinality(Active) <= BatchSize
    BY <1>1, <2>1, <2>2 DEF Batches
  <2>3. CASE ~ (Cardinality(Active) <= BatchSize)
    <3>1. batch \in SUBSET Active /\ Cardinality(batch) = BatchSize
      BY <1>1, <2>3, Zenon DEF Batches
    <3> QED
      BY <3>1, <2>1
  <2> QED
    BY <2>2, <2>3
<1>3. UNCHANGED gen /\ gen \in [Sweeps -> Transaction] /\ todo \in [Sweeps -> SUBSET Users]
  BY DEF StartSweep, GenInv
<1>4. gen[s] = NoTx
  BY DEF StartSweep, Between, GenInv, SessionInv
<1>5. SessionInv(s)'
  <2>1. gen'[s] = NoTx /\ todo'[s] = batch
    BY <1>1, <1>3, <1>4
  <2> QED
    BY <2>1, <1>2, NoTxType DEF SessionInv, At, NoTx
<1>6. TablesOK' /\ UNCHANGED list
  BY DEF StartSweep, GenInv, TablesOK
<1>7. gen[s] \in Transaction /\ gen' = [gen EXCEPT ![s] = gen[s]]
  BY <1>3
<1> QED
  BY <1>1, <1>2, <1>5, <1>6, <1>7, OneSweep

LEMMA RefreshOneInv == ASSUME GenInv, NEW s \in Sweeps, NEW u \in Users, RefreshOne(s, u) PROVE GenInv'
<1>1. Cardinality({u}) <= BatchSize
  BY FS_Singleton, SizesAssumption
<1>2. UNCHANGED gen /\ gen \in [Sweeps -> Transaction] /\ todo \in [Sweeps -> SUBSET Users]
  BY DEF RefreshOne, GenInv
<1>3. gen[s] = NoTx
  BY DEF RefreshOne, Between, GenInv, SessionInv
<1>4. SessionInv(s)'
  <2>1. gen'[s] = NoTx /\ todo'[s] = {u}
    BY <1>2, <1>3 DEF RefreshOne
  <2> QED
    BY <2>1, <1>1, NoTxType DEF SessionInv, At, NoTx
<1>5. TablesOK' /\ UNCHANGED list
  BY DEF RefreshOne, GenInv, TablesOK
<1>6. gen[s] \in Transaction /\ gen' = [gen EXCEPT ![s] = gen[s]]
  BY <1>2
<1>7. todo' = [todo EXCEPT ![s] = {u}]
  BY DEF RefreshOne
<1> QED
  BY <1>4, <1>5, <1>6, <1>7, OneSweep

\* What the statements of a transaction that is running have in common: the tables stay, and so do
\* the users that are left, of whom this is one.
LEMMA Statement ==
    ASSUME GenInv, NEW s \in Sweeps, UNCHANGED <<Env, todo>>, For(s) \in todo[s],
           NEW tx \in Transaction, gen' = [gen EXCEPT ![s] = tx],
           tx.pc # "idle", tx.user = For(s), Cardinality(tx.picks) <= Limit,
           tx.pc = "lock" => Whole(tx.targets), tx.pc = "commit" => Whole(tx.locked)
    PROVE  GenInv'
<1>1. gen \in [Sweeps -> Transaction] /\ todo \in [Sweeps -> SUBSET Users]
  BY DEF GenInv
<1>2. TablesOK' /\ UNCHANGED list
  BY DEF Env, GenInv, TablesOK
<1>3. SessionInv(s)'
  <2>1. gen'[s] = tx /\ todo'[s] = todo[s]
    BY <1>1
  <2>2. todo[s] \in SUBSET Users /\ Cardinality(todo[s]) <= BatchSize
    BY DEF GenInv, SessionInv
  <2> QED
    BY <2>1, <2>2 DEF SessionInv, At, For
<1>4. todo[s] \in SUBSET Users /\ todo' = [todo EXCEPT ![s] = todo[s]]
  BY <1>1
<1> QED
  BY <1>2, <1>3, <1>4, OneSweep

\* A session that is open is of a user its sweep has yet to finish.
LEMMA OpenSession ==
    ASSUME GenInv, NEW s \in Sweeps, ~ At(s, "idle")
    PROVE  /\ gen[s] \in Transaction /\ gen[s].user \in Users /\ For(s) \in todo[s]
           /\ Cardinality(gen[s].picks) <= Limit
BY DEF GenInv, SessionInv, For

LEMMA GetPreferenceInv == ASSUME GenInv, NEW s \in Sweeps, GetPreference(s) PROVE GenInv'
<1>1. PICK u \in todo[s] :
          gen' = [gen EXCEPT ![s] =
                     [NoTx EXCEPT !.user  = u,
                                  !.owned = library[u],
                                  !.base  = library[u],
                                  !.pc    = IF Cold(library[u]) THEN "delete"
                                            ELSE IF s \in DenseSweeps THEN "dense" ELSE "rank"]]
  BY DEF GetPreference
<1> DEFINE step == IF Cold(library[u]) THEN "delete"
                   ELSE IF s \in DenseSweeps THEN "dense" ELSE "rank"
           tx == [NoTx EXCEPT !.user = u, !.owned = library[u], !.base = library[u], !.pc = step]
<1>2. u \in Users /\ library[u] \in SUBSET Games
  BY DEF GenInv, TablesOK
<1>3. step \in {"dense", "rank", "delete"}
  OBVIOUS
<1>4. gen' = [gen EXCEPT ![s] = tx]
  BY <1>1
<1> HIDE DEF step
<1>5. tx \in Transaction /\ tx.pc = step /\ tx.user = u /\ tx.picks = {}
  BY <1>2, <1>3 DEF NoTx, Transaction, Steps
<1>6. Cardinality(tx.picks) <= Limit
  BY <1>5, FS_EmptySet, SizesAssumption
<1>7. gen \in [Sweeps -> Transaction] /\ todo \in [Sweeps -> SUBSET Users]
  BY DEF GenInv
<1>8. TablesOK' /\ UNCHANGED list
  BY DEF GetPreference, Env, GenInv, TablesOK
<1> HIDE DEF tx
<1>9. SessionInv(s)'
  <2>1. gen'[s] = tx /\ todo'[s] = todo[s]
    BY <1>4, <1>7 DEF GetPreference
  <2>2. todo[s] \in SUBSET Users /\ Cardinality(todo[s]) <= BatchSize
    BY DEF GenInv, SessionInv
  <2> QED
    BY <2>1, <2>2, <1>3, <1>5, <1>6 DEF SessionInv, At, For
<1>10. todo[s] \in SUBSET Users /\ todo' = [todo EXCEPT ![s] = todo[s]]
  BY <1>7 DEF GetPreference
<1> QED
  BY <1>4, <1>5, <1>8, <1>9, <1>10, OneSweep

LEMMA UpsertPreferenceInv == ASSUME GenInv, NEW s \in Sweeps, UpsertPreference(s) PROVE GenInv'
<1>1. ~ At(s, "idle")
  BY DEF UpsertPreference, At
<1>2. PICK row \in {library[For(s)], gen[s].owned} :
          gen' = [gen EXCEPT ![s].base = row, ![s].pc = "rank"]
  BY DEF UpsertPreference
<1> DEFINE tx == [gen[s] EXCEPT !.base = row, !.pc = "rank"]
<1>3. row \in SUBSET Games
  BY <1>1, <1>2, OpenSession DEF GenInv, TablesOK, Transaction, For
<1>4. gen' = [gen EXCEPT ![s] = tx]
  BY <1>2, <1>1, OpenSession DEF GenInv, Transaction
<1>5. tx \in Transaction /\ tx.pc = "rank" /\ tx.user = For(s) /\ tx.picks = gen[s].picks
  BY <1>3, <1>1, OpenSession DEF Transaction, Steps, For
<1> HIDE DEF tx
<1> QED
  BY <1>1, <1>4, <1>5, OpenSession, Statement DEF UpsertPreference

LEMMA RankInv == ASSUME GenInv, NEW s \in Sweeps, Rank(s) PROVE GenInv'
<1>1. ~ At(s, "idle")
  BY DEF Rank, At
<1> DEFINE picks == Ranked(gen[s].owned, published)
           tx == [gen[s] EXCEPT !.picks = picks, !.pc = "delete"]
<1>2. picks \in SUBSET Games /\ Cardinality(picks) <= Limit
  <2>1. gen[s].owned \in SUBSET Games /\ published \in SUBSET Games
    BY <1>1, OpenSession DEF GenInv, TablesOK, Transaction
  <2> QED
    BY <2>1, RankedFits
<1>3. gen' = [gen EXCEPT ![s] = tx]
  BY DEF Rank
<1> HIDE DEF picks
<1>4. tx \in Transaction /\ tx.pc = "delete" /\ tx.user = For(s) /\ tx.picks = picks
  BY <1>2, <1>1, OpenSession DEF Transaction, Steps, For
<1> HIDE DEF tx
<1> QED
  BY <1>1, <1>2, <1>3, <1>4, OpenSession, Statement DEF Rank

LEMMA FindRowsInv == ASSUME GenInv, NEW s \in Sweeps, FindRows(s) PROVE GenInv'
<1>1. ~ At(s, "idle")
  BY DEF FindRows, At
<1> DEFINE tx == [gen[s] EXCEPT !.targets = list[For(s)], !.pc = "lock"]
<1>2. list[For(s)] \in SUBSET RecommendationRow /\ Whole(list[For(s)])
  BY <1>1, OpenSession DEF GenInv, TablesOK, ListInv, For
<1>3. gen' = [gen EXCEPT ![s] = tx]
  BY DEF FindRows
<1>4. /\ tx \in Transaction /\ tx.pc = "lock" /\ tx.user = For(s) /\ tx.picks = gen[s].picks
      /\ tx.targets = list[For(s)]
  BY <1>2, <1>1, OpenSession DEF Transaction, Steps, For
<1>5. Whole(tx.targets)
  BY <1>2, <1>4
<1> HIDE DEF tx
<1> QED
  BY <1>1, <1>3, <1>4, <1>5, OpenSession, Statement DEF FindRows

LEMMA LockRowsInv == ASSUME GenInv, NEW s \in Sweeps, LockRows(s) PROVE GenInv'
<1>1. ~ At(s, "idle")
  BY DEF LockRows, At
<1> DEFINE tx == [gen[s] EXCEPT !.locked = gen[s].targets, !.pc = "commit"]
<1>2. Whole(gen[s].targets)
  BY DEF LockRows, GenInv, SessionInv
<1>3. gen' = [gen EXCEPT ![s] = tx]
  BY DEF LockRows
<1>4. /\ tx \in Transaction /\ tx.pc = "commit" /\ tx.user = For(s) /\ tx.picks = gen[s].picks
      /\ tx.locked = gen[s].targets
  BY <1>1, OpenSession DEF Transaction, Steps, For
<1>5. Whole(tx.locked)
  BY <1>2, <1>4
<1> HIDE DEF tx
<1> QED
  BY <1>1, <1>3, <1>4, <1>5, OpenSession, Statement DEF LockRows

-----------------------------------------------------------------------------
(* Steps that end a session, and the surroundings.                         *)

\* A session that is closed without its list: the sweep goes on with what it has left.
LEMMA Closing ==
    ASSUME GenInv, TablesOK', NEW s \in Sweeps, UNCHANGED list, Rollback(s),
           NEW users \in SUBSET todo[s], todo' = [todo EXCEPT ![s] = users]
    PROVE  GenInv'
<1>1. gen \in [Sweeps -> Transaction] /\ todo \in [Sweeps -> SUBSET Users]
  BY DEF GenInv
<1>2. users \in SUBSET Users /\ Cardinality(users) <= BatchSize
  <2>1. todo[s] \in SUBSET Users /\ Cardinality(todo[s]) <= BatchSize
    BY DEF GenInv, SessionInv
  <2>2. IsFiniteSet(todo[s])
    BY <2>1, UsersAssumption, FS_Subset
  <2>3. Cardinality(users) <= Cardinality(todo[s]) /\ IsFiniteSet(users)
    BY <2>2, FS_Subset
  <2>4. Cardinality(users) \in Nat /\ Cardinality(todo[s]) \in Nat
    BY <2>2, <2>3, FS_CardinalityType
  <2> QED
    BY <2>1, <2>3, <2>4, SizesAssumption
<1>3. gen' = [gen EXCEPT ![s] = NoTx]
  BY DEF Rollback
<1>4. SessionInv(s)'
  <2>1. gen'[s] = NoTx /\ todo'[s] = users
    BY <1>1, <1>3
  <2> QED
    BY <2>1, <1>2, NoTxType DEF SessionInv, At, NoTx
<1> QED
  BY <1>2, <1>3, <1>4, NoTxType, OneSweep

LEMMA CommitFailsInv == ASSUME GenInv, NEW s \in Sweeps, CommitFails(s) PROVE GenInv'
<1>1. TablesOK' /\ UNCHANGED list
  BY DEF CommitFails, Env, GenInv, TablesOK
<1>2. todo[s] \ {For(s)} \in SUBSET todo[s] /\ todo' = [todo EXCEPT ![s] = todo[s] \ {For(s)}]
  BY DEF CommitFails
<1> QED
  BY <1>1, <1>2, Closing DEF CommitFails

LEMMA FailureCount ==
    ASSUME GenInv, failures < MaxFailures, failures' = failures + 1,
           UNCHANGED <<bought, library, published, list, announced, edits>>
    PROVE  TablesOK' /\ UNCHANGED list
<1>1. failures' \in 0 .. MaxFailures
  BY BoundsAssumption DEF GenInv, TablesOK
<1> QED
  BY <1>1 DEF GenInv, TablesOK

LEMMA GenerationFailsInv == ASSUME GenInv, NEW s \in Sweeps, GenerationFails(s) PROVE GenInv'
<1>1. TablesOK' /\ UNCHANGED list
  BY FailureCount DEF GenerationFails
<1>2. todo[s] \ {For(s)} \in SUBSET todo[s] /\ todo' = [todo EXCEPT ![s] = todo[s] \ {For(s)}]
  BY DEF GenerationFails
<1> QED
  BY <1>1, <1>2, Closing DEF GenerationFails

LEMMA SweepCutShortInv == ASSUME GenInv, NEW s \in Sweeps, SweepCutShort(s) PROVE GenInv'
<1>1. TablesOK' /\ UNCHANGED list
  BY FailureCount DEF SweepCutShort
<1>2. {} \in SUBSET todo[s] /\ todo' = [todo EXCEPT ![s] = {}]
  BY DEF SweepCutShort
<1> QED
  BY <1>1, <1>2, Closing DEF SweepCutShort

LEMMA PurchaseInv == ASSUME GenInv, NEW u \in Users, NEW g \in Games, Purchase(u, g) PROVE GenInv'
<1>1. bought' \in [Users -> SUBSET Games] /\ library' \in [Users -> SUBSET Games]
  BY DEF Purchase, GenInv, TablesOK
<1>2. TablesOK'
  BY <1>1 DEF Purchase, GenInv, TablesOK
<1> QED
  BY <1>2, NoSweep DEF Purchase

LEMMA EditInv == ASSUME GenInv, NEW g \in Games, Edit(g) PROVE GenInv'
<1>1. edits' \in 0 .. MaxEdits
  BY BoundsAssumption DEF Edit, GenInv, TablesOK
<1>2. TablesOK'
  BY <1>1 DEF Edit, GenInv, TablesOK
<1> QED
  BY <1>2, NoSweep DEF Edit

-----------------------------------------------------------------------------
(* The commit.                                                             *)

\* A rival that waits for rows which are now gone keeps its place, without them.
LEMMA RivalWaits ==
    ASSUME GenInv, NEW s \in Sweeps, NEW v \in Sweeps, v # s, Commit(s)
    PROVE  SessionInv(v)'
<1>1. SessionInv(v) /\ SessionInv(s) /\ todo'[v] = todo[v] /\ gen'[v] = Committed(s)[v]
  BY DEF GenInv, Commit
<1>2. CASE ~ (At(v, "lock") /\ For(v) = For(s))
  <2>1. gen'[v] = gen[v]
    BY <1>1, <1>2 DEF Committed
  <2> QED
    BY <1>1, <2>1 DEF SessionInv, At, For
<1>3. CASE At(v, "lock") /\ For(v) = For(s)
  <2> DEFINE left == gen[v].targets \ gen[s].locked
             tx == [gen[v] EXCEPT !.targets = left]
  <2>1. gen'[v] = tx
    BY <1>1, <1>3 DEF Committed
  <2>2. gen[v] \in Transaction /\ gen[s] \in Transaction
    BY <1>1 DEF SessionInv
  <2>3. Whole(gen[v].targets) /\ Whole(gen[s].locked)
    BY <1>1, <1>3 DEF SessionInv, Commit
  <2>4. left \in SUBSET RecommendationRow /\ Whole(left)
    <3>1. gen[v].targets \in SUBSET RecommendationRow /\ gen[s].locked \in SUBSET RecommendationRow
      BY <2>2 DEF Transaction
    <3> QED
      BY <3>1, <2>3, WholeSets
  <2> HIDE DEF left
  <2>5. /\ tx \in Transaction /\ tx.pc = "lock" /\ tx.user = gen[v].user /\ tx.picks = gen[v].picks
        /\ tx.targets = left
    BY <2>2, <2>4, <1>3 DEF Transaction, At
  <2> HIDE DEF tx
  <2> QED
    BY <1>1, <1>3, <2>1, <2>4, <2>5 DEF SessionInv, At, For
<1> QED
  BY <1>2, <1>3

\* What the commit stores: the rows it has not deleted, and its own list as a whole; the unique
\* constraint has found no game twice.
LEMMA CommitStores ==
    ASSUME GenInv, NEW s \in Sweeps, Commit(s), NEW u, u = For(s)
    PROVE  /\ u \in Users
           /\ list' \in [Users -> SUBSET RecommendationRow]
           /\ ListInv(u)'
           /\ gen[s].picks \in SUBSET Games
           /\ gen[s].picks \subseteq ListedGames(u)'
<1> DEFINE picks == gen[s].picks
           own == [game : picks, of : {picks}]
<1>1. u \in Users /\ gen[s] \in Transaction /\ picks \in SUBSET Games /\ gen[s].locked \in SUBSET RecommendationRow
  <2>1. ~ At(s, "idle")
    BY DEF Commit, At
  <2> QED
    BY <2>1, OpenSession DEF For, Transaction
<1>2. Whole(gen[s].locked)
  BY DEF Commit, GenInv, SessionInv
<1>3. list[u] \in SUBSET RecommendationRow /\ ListInv(u)
  BY <1>1 DEF GenInv, TablesOK
<1>4. own \in SUBSET RecommendationRow /\ Whole(own) /\ \A row \in own : row.game \in picks /\ row.of = picks
  BY <1>1, WholeList DEF RecommendationRow
<1>5. Kept(s) \in SUBSET RecommendationRow /\ Whole(Kept(s))
  BY <1>2, <1>3, <1>1, WholeSets DEF Kept, ListInv
<1>6. Whole(Kept(s) \cup own)
  BY <1>4, <1>5, WholeSets
<1>7. list' = [list EXCEPT ![u] = Kept(s) \cup own] /\ list'[u] = Kept(s) \cup own
  BY <1>1 DEF Commit, GenInv, TablesOK
<1>8. ASSUME NEW row \in list'[u], NEW other \in list'[u], row.game = other.game PROVE row = other
  <2>1. \A r \in Kept(s) : r.game \notin picks
    BY DEF Commit, DuplicateKey, GamesOf
  <2>2. CASE row \in Kept(s) /\ other \in Kept(s)
    BY <2>2, <1>8, <1>3 DEF Kept, ListInv
  <2>3. CASE row \in own /\ other \in own
    <3>1. row = [game |-> row.game, of |-> picks] /\ other = [game |-> other.game, of |-> picks]
      BY <2>3
    <3> QED
      BY <3>1, <1>8
  <2> QED
    BY <2>1, <2>2, <2>3, <1>4, <1>7, <1>8
<1>9. ASSUME NEW g \in picks PROVE g \in ListedGames(u)'
  <2>1. [game |-> g, of |-> picks] \in list'[u]
    BY <1>7
  <2>2. g \in {row.game : row \in list'[u]}
    BY <2>1
  <2> QED
    BY <2>2 DEF ListedGames, GamesOf
<1> HIDE DEF own
<1>10. list' \in [Users -> SUBSET RecommendationRow]
  BY <1>4, <1>5, <1>7 DEF GenInv, TablesOK
<1>11. ListInv(u)'
  BY <1>6, <1>7, <1>8 DEF ListInv
<1> QED
  BY <1>1, <1>9, <1>10, <1>11

LEMMA CommitInv == ASSUME GenInv, NEW s \in Sweeps, Commit(s) PROVE GenInv'
<1>1. PICK u : u = For(s)
  OBVIOUS
<1>2. /\ u \in Users /\ list' \in [Users -> SUBSET RecommendationRow] /\ ListInv(u)'
      /\ gen[s].picks \in SUBSET Games
  BY <1>1, CommitStores
<1>3. gen \in [Sweeps -> Transaction] /\ todo \in [Sweeps -> SUBSET Users] /\ gen[s].owned \in SUBSET Games
  BY DEF GenInv, Transaction
<1>4. TablesOK'
  <2>1. announced' \in [Users -> SUBSET Games]
    BY <1>2 DEF Commit, GenInv, TablesOK
  <2>2. library' \in [Users -> SUBSET Games]
    BY <1>2, <1>3 DEF Commit, GenInv, TablesOK
  <2> QED
    BY <1>2, <2>1, <2>2 DEF Commit, GenInv, TablesOK
<1>5. SessionInv(s)'
  <2>1. gen'[s] = NoTx
    BY DEF Commit, Committed
  <2>2. todo'[s] = todo[s] \ {u} /\ todo[s] \in SUBSET Users
    BY <1>1, <1>3 DEF Commit
  <2>3. Cardinality(todo[s] \ {u}) <= BatchSize
    <3>1. IsFiniteSet(todo[s]) /\ Cardinality(todo[s]) <= BatchSize
      BY <2>2, UsersAssumption, FS_Subset DEF GenInv, SessionInv
    <3>2. Cardinality(todo[s]) \in Nat /\ BatchSize \in Nat
      BY <3>1, FS_CardinalityType, SizesAssumption
    <3>3. Cardinality(todo[s] \ {u}) = IF u \in todo[s] THEN Cardinality(todo[s]) - 1 ELSE Cardinality(todo[s])
      BY <3>1, FS_RemoveElement
    <3> QED
      BY <3>1, <3>2, <3>3
  <2> QED
    BY <2>1, <2>2, <2>3, NoTxType DEF SessionInv, At, NoTx
<1>6. \A v \in Sweeps : SessionInv(v)'
  BY <1>5, RivalWaits
<1>7. gen' \in [Sweeps -> Transaction] /\ todo' \in [Sweeps -> SUBSET Users]
  <2>1. gen' = [v \in Sweeps |-> gen'[v]]
    BY DEF Commit, Committed
  <2>2. \A v \in Sweeps : gen'[v] \in Transaction
    BY <1>6 DEF SessionInv
  <2>3. todo' \in [Sweeps -> SUBSET Users]
    BY <1>3 DEF Commit
  <2> QED
    BY <2>1, <2>2, <2>3
<1>8. \A w \in Users : ListInv(w)'
  <2> SUFFICES ASSUME NEW w \in Users, w # u PROVE ListInv(w)'
    BY <1>2
  <2>1. list'[w] = list[w] /\ ListInv(w)
    BY <1>1 DEF Commit, GenInv, TablesOK
  <2> QED
    BY <2>1 DEF ListInv
<1> QED
  BY <1>4, <1>6, <1>7, <1>8 DEF GenInv

-----------------------------------------------------------------------------

LEMMA NextInv == GenInv /\ [Next]_vars => GenInv'
<1> SUFFICES ASSUME GenInv, [Next]_vars PROVE GenInv'
  OBVIOUS
<1>1. CASE UNCHANGED vars
  <2>1. TablesOK' /\ UNCHANGED <<list, gen, todo>>
    BY <1>1 DEF vars, GenInv, TablesOK
  <2> QED
    BY <2>1, NoSweep
<1>2. ASSUME NEW s \in Sweeps, SweepStep(s) PROVE GenInv'
  BY <1>2, StartSweepInv, GetPreferenceInv, UpsertPreferenceInv, RankInv, FindRowsInv, LockRowsInv,
     CommitInv, CommitFailsInv DEF SweepStep
<1>3. ASSUME NEW s \in Sweeps, NEW u \in Users, RefreshOne(s, u) PROVE GenInv'
  BY <1>3, RefreshOneInv
<1>4. ASSUME NEW s \in Sweeps, GenerationFails(s) \/ SweepCutShort(s) PROVE GenInv'
  BY <1>4, GenerationFailsInv, SweepCutShortInv
<1>5. ASSUME NEW u \in Users, NEW g \in Games, Purchase(u, g) PROVE GenInv'
  BY <1>5, PurchaseInv
<1>6. ASSUME NEW g \in Games, Edit(g) PROVE GenInv'
  BY <1>6, EditInv
<1> QED
  BY <1>1, <1>2, <1>3, <1>4, <1>5, <1>6 DEF Next

LEMMA Invariant == Spec => []GenInv
BY InitInv, NextInv, PTL DEF Spec

\* Rows and transactions have their types and sizes, a session leaves nothing behind, and a game
\* stands once in a user's list, whatever the generations of replace_for that overlap.
THEOREM TypeCorrect == Spec => []TypeOK
BY Invariant, GenInvMeans, PTL

\* Of each list that has a row in the table every row is there (repositories.py:228): a DELETE only
\* ever takes lists as a whole, also when it waited for a rival that took some of its rows.
THEOREM NoHalfList == Spec => []NoHalfReplacedList
BY Invariant, GenInvMeans, PTL

\* RecommendationGenerated is enqueued only by the transaction that stores the list it names
\* (unit_of_work.py:23-26).
THEOREM NoFalseAnnouncement == Spec => AnnouncedIsStored
<1>1. ASSUME GenInv, [Next]_vars, NEW u \in Users, announced'[u] # announced[u]
      PROVE  announced'[u] \subseteq ListedGames(u)'
  <2>1. PICK s \in Sweeps : Commit(s)
    BY <1>1, Zenon DEF Next, SweepStep, vars, Env, Purchase, Edit, StartSweep, RefreshOne, GetPreference,
       UpsertPreference, Rank, FindRows, LockRows, CommitFails, GenerationFails, SweepCutShort
  <2>2. u = For(s) /\ announced'[u] = gen[s].picks
    BY <1>1, <2>1 DEF Commit, GenInv, TablesOK
  <2>3. gen[s].picks \subseteq ListedGames(u)'
    BY <1>1, <2>1, <2>2, CommitStores
  <2> QED
    BY <2>2, <2>3
<1>2. GenInv /\ [Next]_vars
        => [\A u \in Users : announced'[u] # announced[u] => announced'[u] \subseteq ListedGames(u)']_vars
  BY <1>1
<1> QED
  BY <1>2, Invariant, PTL DEF Spec, AnnouncedIsStored
=============================================================================
