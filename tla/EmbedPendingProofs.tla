-------------------------- MODULE EmbedPendingProofs --------------------------
(***************************************************************************)
(* EmbedPending, for every number of users, games, events and sweeps.      *)
(***************************************************************************)
EXTENDS EmbedPending, IngestProofs, NaturalsInduction, WellFoundedInduction

-----------------------------------------------------------------------------
(* Sums of bags.                                                           *)

\* A set of naturals that is not empty has a least member.
LEMMA LeastNatural ==
    ASSUME NEW S \in SUBSET Nat, S # {}
    PROVE  \E m \in S : \A n \in S : m <= n
<1>1. PICK m \in S : \A n \in S : ~ (<<n, m>> \in OpToRel(<, Nat))
  BY NatLessThanWellFounded, WFMin
<1>2. ASSUME NEW n \in S PROVE m <= n
  <2>1. m \in Nat /\ n \in Nat
    OBVIOUS
  <2>2. ~ (n < m)
    BY <1>1, <2>1 DEF OpToRel
  <2> QED
    BY <2>1, <2>2
<1> QED
  BY <1>2

\* sum adds up the copies of the members of S, for each S within D.
Adds(sum, B, D) ==
    /\ sum \in [SUBSET D -> Nat]
    /\ sum[{}] = 0
    /\ \A S \in SUBSET D : \A e \in S : sum[S] = B[e] + sum[S \ {e}]

\* The definition of BagCardinality takes the members one by one in an order of its own choice; there
\* is a function that adds as it does, and whatever adds up the copies has the same values.
LEMMA SumOfBag ==
    ASSUME NEW B, NEW D, D = DOMAIN B, IsFiniteSet(D), NEW sum, Adds(sum, B, D)
    PROVE  BagCardinality(B) = sum[D]
<1> DEFINE Step(g, S) == LET elt == CHOOSE e \in S : TRUE
                          IN  IF S = {} THEN 0 ELSE B[elt] + g[S \ {elt}]
           Recursion(g) == g = [S \in SUBSET DOMAIN B |-> Step(g, S)]
<1>1. BagCardinality(B) = (CHOOSE g : Recursion(g))[DOMAIN B]
  BY DEF BagCardinality
<1>2. Recursion(sum)
  <2>1. ASSUME NEW S \in SUBSET D PROVE sum[S] = Step(sum, S)
    BY <2>1 DEF Adds
  <2> QED
    BY <2>1 DEF Adds
<1> HIDE DEF Recursion
<1>3. PICK g : g = (CHOOSE f : Recursion(f)) /\ Recursion(g)
  BY <1>2, Zenon
<1>4. ASSUME NEW S \in SUBSET D PROVE g[S] = Step(g, S)
  BY <1>3 DEF Recursion
<1> DEFINE Wrong == {n \in Nat : \E S \in SUBSET D : Cardinality(S) = n /\ g[S] # sum[S]}
<1>5. Wrong = {}
  <2> SUFFICES ASSUME Wrong # {} PROVE FALSE
    OBVIOUS
  <2>1. PICK n \in Wrong : \A m \in Wrong : n <= m
    BY LeastNatural
  <2>2. PICK S \in SUBSET D : Cardinality(S) = n /\ g[S] # sum[S]
    BY <2>1
  <2>3. IsFiniteSet(S)
    BY FS_Subset
  <2>4. S # {}
    BY <1>4, <2>2 DEF Adds
  <2>5. PICK e : e = (CHOOSE x \in S : TRUE) /\ e \in S
    BY <2>4
  <2>6. Cardinality(S \ {e}) = n - 1 /\ n \in Nat /\ Cardinality(S \ {e}) \in Nat
    BY <2>2, <2>3, <2>5, FS_RemoveElement, FS_CardinalityType
  <2>7. n - 1 \notin Wrong
    BY <2>1, <2>6
  <2>8. g[S \ {e}] = sum[S \ {e}]
    BY <2>6, <2>7
  <2>9. g[S] = B[e] + g[S \ {e}]
    BY <1>4, <2>4, <2>5
  <2> QED
    BY <2>2, <2>5, <2>8, <2>9 DEF Adds
<1>6. Cardinality(D) \in Nat
  BY FS_CardinalityType
<1>7. g[D] = sum[D]
  BY <1>5, <1>6
<1> QED
  BY <1>1, <1>3, <1>7

\* The copies of the members of S in the bag B, one by one.
Copies(B, S) == {c \in S \X Nat : c[2] \in 1 .. B[c[1]]}

LEMMA CopiesOfOne ==
    ASSUME NEW B, IsABag(B), NEW e \in DOMAIN B
    PROVE  LET one == {e} \X (1 .. B[e]) IN IsFiniteSet(one) /\ Cardinality(one) = B[e]
<1>1. B[e] \in Nat
  BY DEF IsABag
<1>2. IsFiniteSet({e}) /\ Cardinality({e}) = 1
  BY FS_Singleton
<1>3. IsFiniteSet(1 .. B[e]) /\ Cardinality(1 .. B[e]) = B[e]
  BY <1>1, FS_Interval
<1>4. /\ IsFiniteSet({e} \X (1 .. B[e]))
      /\ Cardinality({e} \X (1 .. B[e])) = Cardinality({e}) * Cardinality(1 .. B[e])
  BY <1>2, <1>3, FS_Product, Zenon
<1> QED
  BY <1>1, <1>2, <1>3, <1>4

LEMMA CopiesFinite ==
    ASSUME NEW B, IsABag(B), IsFiniteSet(DOMAIN B), NEW S \in SUBSET DOMAIN B
    PROVE  IsFiniteSet(Copies(B, S)) /\ Cardinality(Copies(B, S)) \in Nat
<1> DEFINE blocks == {{e} \X (1 .. B[e]) : e \in S}
           block == [e \in S |-> {e} \X (1 .. B[e])]
<1>1. IsFiniteSet(S)
  BY FS_Subset
<1>2. block \in Surjection(S, blocks)
  BY DEF Surjection
<1>3. IsFiniteSet(blocks)
  BY <1>1, <1>2, FS_Surjection
<1>4. \A b \in blocks : IsFiniteSet(b)
  BY CopiesOfOne
<1>5. IsFiniteSet(UNION blocks)
  BY <1>3, <1>4, FS_UNION
<1>6. Copies(B, S) = UNION blocks
  BY DEF Copies, IsABag
<1> QED
  BY <1>5, <1>6, FS_CardinalityType

LEMMA CopiesAdd ==
    ASSUME NEW B, IsABag(B), IsFiniteSet(DOMAIN B)
    PROVE  Adds([S \in SUBSET DOMAIN B |-> Cardinality(Copies(B, S))], B, DOMAIN B)
<1>1. Copies(B, {}) = {}
  BY DEF Copies
<1>2. ASSUME NEW S \in SUBSET DOMAIN B, NEW e \in S
      PROVE  Cardinality(Copies(B, S)) = B[e] + Cardinality(Copies(B, S \ {e}))
  <2> DEFINE one == {e} \X (1 .. B[e])
             rest == Copies(B, S \ {e})
  <2>1. Copies(B, S) = one \cup rest /\ one \cap rest = {}
    BY DEF Copies, IsABag
  <2>2. IsFiniteSet(one) /\ Cardinality(one) = B[e] /\ B[e] \in Nat
    BY CopiesOfOne DEF IsABag
  <2>3. IsFiniteSet(rest) /\ Cardinality(rest) \in Nat
    BY CopiesFinite
  <2> HIDE DEF one, rest
  <2>4. Cardinality(one \cup rest) = Cardinality(one) + Cardinality(rest) - Cardinality(one \cap rest)
    BY <2>2, <2>3, FS_Union, Zenon
  <2>5. Cardinality(one \cap rest) = 0
    BY <2>1, FS_EmptySet, Zenon
  <2> QED
    BY <2>1, <2>2, <2>3, <2>4, <2>5 DEF rest
<1> QED
  BY <1>1, <1>2, CopiesFinite, FS_EmptySet DEF Adds

\* The size of a bag is the number of its copies.
LEMMA BagSize ==
    ASSUME NEW B, IsABag(B), IsFiniteSet(DOMAIN B)
    PROVE  BagCardinality(B) = Cardinality(Copies(B, DOMAIN B)) /\ BagCardinality(B) \in Nat
<1>1. PICK sum : sum = [S \in SUBSET DOMAIN B |-> Cardinality(Copies(B, S))]
  OBVIOUS
<1>2. Adds(sum, B, DOMAIN B)
  BY <1>1, CopiesAdd
<1>3. BagCardinality(B) = sum[DOMAIN B]
  BY <1>2, SumOfBag
<1> QED
  BY <1>1, <1>3, CopiesFinite

\* One more copy of anything.
LEMMA OneMore ==
    ASSUME NEW B, IsABag(B), IsFiniteSet(DOMAIN B), NEW w, NEW C, C = B (+) SetToBag({w})
    PROVE  /\ IsABag(C) /\ DOMAIN C = DOMAIN B \cup {w} /\ IsFiniteSet(DOMAIN C)
           /\ BagCardinality(C) = BagCardinality(B) + 1
<1> DEFINE count == IF w \in DOMAIN B THEN B[w] ELSE 0
<1>1. DOMAIN C = DOMAIN B \cup {w} /\ C = [x \in DOMAIN C |-> C[x]]
  BY DEF (+), SetToBag
<1>2. C[w] = count + 1 /\ \A x \in DOMAIN B \ {w} : C[x] = B[x]
  BY DEF (+), SetToBag, IsABag
<1>3. count \in Nat /\ \A x \in DOMAIN B : B[x] \in Nat /\ B[x] > 0
  BY DEF IsABag
<1>4. IsABag(C)
  <2>1. ASSUME NEW x \in DOMAIN C PROVE C[x] \in {n \in Nat : n > 0}
    BY <1>1, <1>2, <1>3
  <2> QED
    BY <1>1, <2>1 DEF IsABag
<1>5. IsFiniteSet(DOMAIN C)
  BY <1>1, FS_AddElement
<1>6. Copies(C, DOMAIN C) = Copies(B, DOMAIN B) \cup {<<w, count + 1>>}
  <2>1. ASSUME NEW c \in Copies(C, DOMAIN C) PROVE c \in Copies(B, DOMAIN B) \cup {<<w, count + 1>>}
    <3>1. PICK x \in DOMAIN C, n \in Nat : c = <<x, n>> /\ n \in 1 .. C[x]
      BY <2>1 DEF Copies
    <3>2. CASE x # w
      BY <1>1, <1>2, <3>1, <3>2 DEF Copies
    <3>3. CASE x = w
      BY <1>1, <1>2, <1>3, <3>1, <3>3 DEF Copies
    <3> QED
      BY <3>2, <3>3
  <2>2. ASSUME NEW c \in Copies(B, DOMAIN B) PROVE c \in Copies(C, DOMAIN C)
    <3>1. PICK x \in DOMAIN B, n \in Nat : c = <<x, n>> /\ n \in 1 .. B[x]
      BY <2>2 DEF Copies
    <3>2. x \in DOMAIN C /\ n \in 1 .. C[x]
      BY <1>1, <1>2, <1>3, <3>1
    <3> QED
      BY <3>1, <3>2 DEF Copies
  <2>3. <<w, count + 1>> \in Copies(C, DOMAIN C)
    BY <1>1, <1>2, <1>3 DEF Copies
  <2> QED
    BY <2>1, <2>2, <2>3
<1>7. <<w, count + 1>> \notin Copies(B, DOMAIN B)
  BY <1>3 DEF Copies
<1>8. Cardinality(Copies(C, DOMAIN C)) = Cardinality(Copies(B, DOMAIN B)) + 1
  BY <1>6, <1>7, CopiesFinite, FS_AddElement
<1> QED
  BY <1>1, <1>4, <1>5, <1>8, BagSize

\* Things counted by what they are labelled with: the bag of the labels is as large as the set.
LEMMA Labelled ==
    ASSUME NEW K, IsFiniteSet(K), NEW label, NEW B,
           B = [w \in {label[i] : i \in K} |-> Cardinality({i \in K : label[i] = w})]
    PROVE  IsABag(B) /\ IsFiniteSet(DOMAIN B) /\ BagCardinality(B) = Cardinality(K)
<1> DEFINE Of(S) == {i \in K : label[i] \in S}
           sum == [S \in SUBSET DOMAIN B |-> Cardinality(Of(S))]
<1>1. DOMAIN B = {label[i] : i \in K}
  OBVIOUS
<1>2. ASSUME NEW S PROVE IsFiniteSet(Of(S)) /\ Cardinality(Of(S)) \in Nat
  BY FS_Subset, FS_CardinalityType
<1>3. ASSUME NEW w \in DOMAIN B PROVE B[w] = Cardinality(Of({w})) /\ B[w] > 0
  <2>1. B[w] = Cardinality(Of({w}))
    <3>1. Of({w}) = {i \in K : label[i] = w}
      OBVIOUS
    <3> QED
      BY <1>1, <3>1
  <2>2. Of({w}) # {}
    BY <1>1
  <2>3. PICK T : T = Of({w})
    OBVIOUS
  <2>4. IsFiniteSet(T) /\ Cardinality(T) \in Nat
    BY <1>2, <2>3
  <2>5. Cardinality(T) # 0
    BY <2>2, <2>3, <2>4, FS_EmptySet
  <2> QED
    BY <2>1, <2>3, <2>4, <2>5
<1>4. IsABag(B)
  BY <1>1, <1>2, <1>3 DEF IsABag
<1>5. IsFiniteSet(DOMAIN B)
  <2> DEFINE f == [i \in K |-> label[i]]
  <2>1. f \in Surjection(K, DOMAIN B)
    BY <1>1 DEF Surjection
  <2> QED
    BY <2>1, FS_Surjection
<1>6. Adds(sum, B, DOMAIN B)
  <2>1. Of({}) = {}
    OBVIOUS
  <2>2. ASSUME NEW S \in SUBSET DOMAIN B, NEW e \in S
        PROVE  Cardinality(Of(S)) = B[e] + Cardinality(Of(S \ {e}))
    <3>1. Of(S) = Of({e}) \cup Of(S \ {e}) /\ Of({e}) \cap Of(S \ {e}) = {}
      OBVIOUS
    <3>2. PICK one, rest : one = Of({e}) /\ rest = Of(S \ {e})
      OBVIOUS
    <3>3. /\ IsFiniteSet(one) /\ Cardinality(one) \in Nat /\ Cardinality(one) = B[e]
          /\ IsFiniteSet(rest) /\ Cardinality(rest) \in Nat
      BY <1>2, <1>3, <3>2
    <3>4. one \cap rest = {} /\ Cardinality(Of(S)) = Cardinality(one \cup rest)
      BY <3>1, <3>2
    <3>5. Cardinality(one \cup rest) = Cardinality(one) + Cardinality(rest) - Cardinality(one \cap rest)
      BY <3>3, FS_Union
    <3>6. Cardinality(one \cap rest) = 0
      BY <3>4, FS_EmptySet
    <3> QED
      BY <3>2, <3>3, <3>4, <3>5, <3>6
  <2> HIDE DEF Of
  <2> QED
    BY <1>2, <2>1, <2>2, FS_EmptySet DEF Adds
<1>7. BagCardinality(B) = sum[DOMAIN B]
  <2> HIDE DEF sum
  <2> QED
    BY <1>5, <1>6, SumOfBag
<1>8. Of(DOMAIN B) = K
  BY <1>1
<1> QED
  BY <1>4, <1>5, <1>7, <1>8

LEMMA EmptySize == IsABag(EmptyBag) /\ BagCardinality(EmptyBag) = 0 /\ DOMAIN EmptyBag = {}
<1>1. DOMAIN EmptyBag = {} /\ IsABag(EmptyBag)
  BY DEF EmptyBag, SetToBag, IsABag
<1>2. Copies(EmptyBag, {}) = {}
  BY DEF Copies
<1> QED
  BY <1>1, <1>2, BagSize, FS_EmptySet

-----------------------------------------------------------------------------
(* The inductive invariant.                                                *)

\* The row the upsert of the open handler selected: the one of its own game, if it writes that at all.
BaseRow ==
    /\ base = [g \in DOMAIN base |-> base[g]]
    /\ \A g \in DOMAIN base :
          /\ g \in Games /\ base[g] \in GameProfile
          /\ handling # NoEvent /\ g = Body[handling].game /\ Upserts(handling)

\* What a sweep holds while the provider works: rows of published games that had no vector; and the
\* rows its upserts selected since.
HeldRows(s) ==
    IF waiting[s] = NoBatch
    THEN selected[s] = NoRows
    ELSE /\ DOMAIN waiting[s] \subseteq Games
         /\ Cardinality(DOMAIN waiting[s]) \in 1 .. BatchSize
         /\ \A g \in DOMAIN waiting[s] : waiting[s][g] \in GameProfile /\ NeedsEmbedding(waiting[s][g])
         /\ DOMAIN selected[s] \subseteq DOMAIN waiting[s]
         /\ \A g \in DOMAIN selected[s] : selected[s][g] \in GameProfile

\* The dense taste of a user sums no more vectors than there were signals, of which the history keeps
\* the last ones; it is what a recomputation has to go by.
DenseTaste(u) ==
    /\ IsABag(taste_dense[u]) /\ BagToSet(taste_dense[u]) \subseteq WeighedVector
    /\ BagCardinality(taste_dense[u]) <= prefs[u].signal_count
    /\ Len(prefs[u].history) <= prefs[u].signal_count

EmbedInv ==
    /\ TypeOK
    /\ game_profiles \in [Games -> GameProfile]
    /\ handling \in Descriptions \ processed
    /\ BaseRow
    /\ waiting = [s \in Sweeps |-> waiting[s]]
    /\ selected = [s \in Sweeps |-> selected[s]]
    /\ \A s \in Sweeps : HeldRows(s)
    /\ taste_dense = [u \in Users |-> taste_dense[u]]
    /\ \A u \in Users : DenseTaste(u)

LEMMA WeighedFinite == IsFiniteSet(WeighedVector)
<1> DEFINE f == [w \in WeighedVector |-> <<w.vector, w.kind>>]
<1>1. IsFiniteSet(SignalKinds)
  <2>1. SignalKinds = ({"PURCHASE"} \cup {"REVIEW_LIKE"}) \cup {"REVIEW_DISLIKE"}
    BY DEF SignalKinds
  <2>2. IsFiniteSet({"PURCHASE"})
    BY FS_Singleton
  <2> QED
    BY <2>1, <2>2, FS_AddElement
<1>2. f \in Injection(WeighedVector, Events \X SignalKinds)
  BY DEF Injection, IsInjective, WeighedVector
<1>3. IsFiniteSet(Events \X SignalKinds)
  BY <1>1, FiniteAssumption, FS_Product
<1> QED
  BY <1>2, <1>3, FS_Injection

\* The signal observed last is the last of the history, whether or not another one fell out of it.
LEMMA LastSignal ==
    ASSUME NEW p \in UserPreference, NEW g \in Games, NEW k \in SignalKinds
    PROVE  LET h == Observe(p, g, k).history
           IN  h[Len(h)] = [game_id |-> g, kind |-> k] /\ Len(h) <= Len(p.history) + 1
<1> DEFINE record == [game_id |-> g, kind |-> k]
           longer == Append(p.history, record)
<1>1. p.history \in Seq(SignalRecord) /\ record \in SignalRecord
  BY DEF UserPreference, SignalRecord
<1>2. longer \in Seq(SignalRecord) /\ Len(longer) = Len(p.history) + 1 /\ Len(p.history) \in Nat
      /\ longer[Len(longer)] = record
  BY <1>1
<1> HIDE DEF record, longer
<1>3. Observe(p, g, k).history = IF Len(longer) > HistoryCap THEN Tail(longer) ELSE longer
  BY DEF Observe, Remember, longer, record
<1>4. CASE Len(longer) > HistoryCap
  <2>1. Len(longer) > 1
    BY <1>2, <1>4, LimitAssumption
  <2>2. Len(Tail(longer)) = Len(longer) - 1 /\ Tail(longer)[Len(longer) - 1] = longer[Len(longer)]
    BY <1>2, <2>1
  <2>3. PICK h : h = Tail(longer)
    OBVIOUS
  <2>4. Len(h) = Len(longer) - 1
    BY <2>2, <2>3
  <2>5. h[Len(h)] = record
    BY <1>2, <2>2, <2>3, <2>4, Zenon
  <2>6. Len(h) <= Len(p.history) + 1
    BY <1>2, <2>4
  <2>7. Observe(p, g, k).history = h
    BY <1>3, <1>4, <2>3
  <2> QED
    BY <2>5, <2>6, <2>7 DEF record
<1>5. CASE ~ (Len(longer) > HistoryCap)
  BY <1>2, <1>3, <1>5 DEF record
<1> QED
  BY <1>4, <1>5

\* A handler leaves a profile as it is or has it observe one signal.
LEMMA HandleObserves ==
    ASSUME TypeOK, NEW e \in Events, Handle(e), NEW u \in Users
    PROVE  \/ prefs'[u] = prefs[u]
           \/ \E g \in Games, k \in SignalKinds : prefs'[u] = Observe(prefs[u], g, k)
<1>1. Body[e].game \in Games /\ "PURCHASE" \in SignalKinds /\ ReviewKind(Body[e]) \in SignalKinds
  BY BodyType DEF SignalKinds, ReviewKind
<1>2. CASE HandleGamePublished(e)
  BY <1>1, <1>2 DEF HandleGamePublished, Backfill
<1>3. CASE HandleGameWithdrawn(e) \/ PurchaseOfUnknownGame(e)
  BY <1>3 DEF HandleGameWithdrawn, PurchaseOfUnknownGame
<1>4. CASE PurchaseOfKnownGame(e)
  BY <1>1, <1>4 DEF PurchaseOfKnownGame, TypeOK
<1>5. CASE HandleReviewPosted(e)
  BY <1>1, <1>5 DEF HandleReviewPosted, TypeOK
<1> QED
  BY <1>2, <1>3, <1>4, <1>5 DEF Handle, HandlePurchaseCompleted

\* A signal adds one vector at most.
LEMMA ObservedTaste ==
    ASSUME EmbedInv, TypeOK', NEW e \in Events, Handle(e),
           taste_dense' = [v \in Users |-> Observed(v)], NEW u \in Users
    PROVE  DenseTaste(u)'
<1>1. taste_dense'[u] = Observed(u)
  OBVIOUS
<1>2. CASE prefs'[u] = prefs[u]
  <2>1. taste_dense'[u] = taste_dense[u]
    BY <1>1, <1>2 DEF Observed
  <2> QED
    BY <1>2, <2>1 DEF EmbedInv, DenseTaste
<1>3. CASE prefs'[u] # prefs[u]
  <2>1. PICK g \in Games, k \in SignalKinds : prefs'[u] = Observe(prefs[u], g, k)
    BY <1>3, HandleObserves DEF EmbedInv
  <2>2. PICK p \in UserPreference : p = prefs[u]
    BY DEF EmbedInv, TypeOK
  <2>3. PICK q : q = prefs'[u]
    OBVIOUS
  <2>4. q.history[Len(q.history)] = [game_id |-> g, kind |-> k] /\ Len(q.history) <= Len(p.history) + 1
    BY <2>1, <2>2, <2>3, LastSignal
  <2>5. q.signal_count = p.signal_count + 1 /\ p.signal_count \in Nat /\ Len(p.history) \in Nat
        /\ Len(q.history) \in Nat
    <3>1. q \in UserPreference
      BY <2>3 DEF TypeOK
    <3> QED
      BY <2>1, <2>2, <2>3, <3>1 DEF Observe, UserPreference
  <2>6. PICK dense : dense = games'[g].dense
    OBVIOUS
  <2>7. dense \in Events \cup {NoEvent}
    BY <2>6 DEF TypeOK, GameProfile, Descriptions
  <2>8. PICK B : B = taste_dense[u]
    OBVIOUS
  <2>9. taste_dense'[u] = Plus(B, dense, k)
    BY <1>1, <1>3, <2>3, <2>4, <2>6, <2>8 DEF Observed
  <2>10. /\ IsABag(B) /\ DOMAIN B \subseteq WeighedVector /\ BagCardinality(B) <= p.signal_count
         /\ Len(p.history) <= p.signal_count
    BY <2>2, <2>8 DEF EmbedInv, DenseTaste, BagToSet
  <2>11. IsFiniteSet(DOMAIN B) /\ BagCardinality(B) \in Nat
    BY <2>10, WeighedFinite, FS_Subset, BagSize
  <2>12. PICK C : C = taste_dense'[u]
    OBVIOUS
  <2>13. IsABag(C) /\ DOMAIN C \subseteq WeighedVector /\ BagCardinality(C) <= p.signal_count + 1
    <3>1. CASE dense = NoEvent
      BY <2>5, <2>9, <2>10, <2>11, <2>12, <3>1 DEF Plus
    <3>2. CASE dense # NoEvent
      <4>1. PICK w \in WeighedVector : w = [vector |-> dense, kind |-> k]
        BY <2>7, <3>2 DEF WeighedVector
      <4>2. C = B (+) SetToBag({w})
        BY <2>9, <2>12, <3>2, <4>1 DEF Plus
      <4>3. IsABag(C) /\ DOMAIN C = DOMAIN B \cup {w} /\ BagCardinality(C) = BagCardinality(B) + 1
        BY <2>10, <2>11, <4>2, OneMore
      <4> QED
        BY <2>5, <2>10, <2>11, <4>1, <4>3
    <3> QED
      BY <3>1, <3>2
  <2> QED
    BY <2>3, <2>4, <2>5, <2>10, <2>12, <2>13 DEF DenseTaste, BagToSet
<1> QED
  BY <1>2, <1>3

\* A recomputation sums one vector at most of each signal that is remembered.
LEMMA RebuiltTaste ==
    ASSUME EmbedInv, NEW u \in Users
    PROVE  /\ IsABag(RebuiltIn(u)) /\ DOMAIN RebuiltIn(u) \subseteq WeighedVector
           /\ BagCardinality(RebuiltIn(u)) <= prefs[u].signal_count
<1>1. PICK p \in UserPreference : p = prefs[u]
  BY DEF EmbedInv, TypeOK
<1>2. p.history \in Seq(SignalRecord) /\ Len(p.history) \in Nat /\ DOMAIN p.history = 1 .. Len(p.history)
  BY DEF UserPreference
<1> DEFINE vector(i) == game_profiles[p.history[i].game_id].dense
           weighed(i) == [vector |-> vector(i), kind |-> p.history[i].kind]
           known == {i \in DOMAIN p.history : vector(i) # NoEvent}
           label == [i \in known |-> weighed(i)]
<1>3. IsFiniteSet(known) /\ Cardinality(known) <= Len(p.history)
  <2>1. known \in SUBSET (1 .. Len(p.history))
    BY <1>2
  <2>2. IsFiniteSet(1 .. Len(p.history)) /\ Cardinality(1 .. Len(p.history)) = Len(p.history)
    BY <1>2, FS_Interval
  <2> HIDE DEF known
  <2> QED
    BY <2>1, <2>2, FS_Subset
<1>4. ASSUME NEW i \in known PROVE weighed(i) \in WeighedVector
  <2>1. p.history[i] \in SignalRecord
    BY <1>2
  <2>2. p.history[i].game_id \in Games /\ p.history[i].kind \in SignalKinds
    BY <2>1 DEF SignalRecord
  <2>3. vector(i) \in Events
    BY <2>2 DEF EmbedInv, GameProfile, Descriptions
  <2> QED
    BY <2>2, <2>3 DEF WeighedVector
<1>5. RebuiltIn(u) = [w \in {weighed(i) : i \in known} |-> Cardinality({i \in known : weighed(i) = w})]
  BY <1>1 DEF RebuiltIn
<1>6. RebuiltIn(u) = [w \in {label[i] : i \in known} |-> Cardinality({i \in known : label[i] = w})]
  <2>1. \A i \in known : label[i] = weighed(i)
    OBVIOUS
  <2> HIDE DEF known, label, weighed, vector
  <2>2. {label[i] : i \in known} = {weighed(i) : i \in known}
    BY <2>1
  <2>3. ASSUME NEW w PROVE {i \in known : label[i] = w} = {i \in known : weighed(i) = w}
    BY <2>1
  <2> QED
    BY <1>5, <2>2, <2>3
<1>7. DOMAIN RebuiltIn(u) \subseteq WeighedVector
  BY <1>4, <1>5
<1> HIDE DEF known, label
<1>8. IsABag(RebuiltIn(u)) /\ BagCardinality(RebuiltIn(u)) = Cardinality(known)
  BY <1>3, <1>6, Labelled
<1>9. Len(p.history) <= p.signal_count /\ p.signal_count \in Nat /\ Cardinality(known) \in Nat
  BY <1>1, <1>3, FS_CardinalityType DEF EmbedInv, DenseTaste, UserPreference
<1> QED
  BY <1>1, <1>2, <1>3, <1>7, <1>8, <1>9

LEMMA EmbedInitInv == EmbedInit => EmbedInv
<1> SUFFICES ASSUME EmbedInit PROVE EmbedInv
  OBVIOUS
<1>1. TypeOK
  BY InitType DEF EmbedInit
<1>2. game_profiles \in [Games -> GameProfile]
  BY <1>1 DEF EmbedInit, TypeOK
<1>3. handling \in Descriptions \ processed
  BY DEF EmbedInit, Init, Descriptions
<1>4. BaseRow
  BY DEF EmbedInit, BaseRow, NoRows
<1>5. /\ waiting = [s \in Sweeps |-> waiting[s]] /\ selected = [s \in Sweeps |-> selected[s]]
      /\ \A s \in Sweeps : HeldRows(s)
  BY DEF EmbedInit, HeldRows
<1>6. taste_dense = [u \in Users |-> taste_dense[u]]
  BY DEF EmbedInit
<1>7. ASSUME NEW u \in Users PROVE DenseTaste(u)
  <2>1. taste_dense[u] = EmptyBag /\ prefs[u] = Blank
    BY DEF EmbedInit, Init
  <2>2. Blank.history = << >> /\ Blank.signal_count = 0
    BY DEF Blank
  <2> QED
    BY <2>1, <2>2, EmptySize DEF DenseTaste, BagToSet
<1> QED
  BY <1>1, <1>2, <1>3, <1>4, <1>5, <1>6, <1>7 DEF EmbedInv

-----------------------------------------------------------------------------
(* What a flush leaves in the table.                                       *)

\* Every column is the one the session wants or the one the row has; words and vector tell which.
LEMMA FlushedColumns ==
    ASSUME NEW new \in GameProfile, NEW sel \in GameProfile, NEW row \in GameProfile
    PROVE  LET f == Flushed(new, sel, row) IN
           /\ f \in GameProfile
           /\ f.description = IF new.description # sel.description THEN new.description ELSE row.description
           /\ f.dense = IF new.dense # sel.dense THEN new.dense ELSE row.dense
           /\ f.purchase_count \in {new.purchase_count, row.purchase_count}
<1> DEFINE f == Flushed(new, sel, row)
           column(c) == IF new[c] # sel[c] THEN new[c] ELSE row[c]
<1>1. DOMAIN row = {"description", "is_published", "purchase_count", "dense"}
  BY DEF GameProfile
<1>2. f = [description    |-> column("description"),
           is_published   |-> column("is_published"),
           purchase_count |-> column("purchase_count"),
           dense          |-> column("dense")]
  BY <1>1 DEF Flushed
<1> QED
  BY <1>2 DEF GameProfile

LEMMA FlushedTable ==
    ASSUME game_profiles \in [Games -> GameProfile], NEW new, NEW rows, Flush(new, rows),
           \A g \in DOMAIN rows : g \in Games /\ rows[g] \in GameProfile /\ new[g] \in GameProfile
    PROVE  /\ game_profiles' \in [Games -> GameProfile]
           /\ \A g \in Games \ DOMAIN rows : game_profiles'[g] = game_profiles[g]
           /\ \A g \in DOMAIN rows :
                 LET f == game_profiles'[g]
                     row == game_profiles[g]
                 IN  /\ f.description = IF new[g].description # rows[g].description
                                         THEN new[g].description ELSE row.description
                     /\ f.dense = new[g].dense \/ (new[g].dense = rows[g].dense /\ f.dense = row.dense)
                     /\ f.purchase_count \in {new[g].purchase_count, row.purchase_count}
<1>1. PICK vectors : game_profiles' = Written(new, rows, vectors)
  BY DEF Flush
<1>2. ASSUME NEW g \in Games, g \notin DOMAIN rows PROVE game_profiles'[g] = game_profiles[g]
  BY <1>1, <1>2 DEF Written
<1>3. ASSUME NEW g \in DOMAIN rows
      PROVE  LET f == game_profiles'[g]
                 row == game_profiles[g]
             IN  /\ f \in GameProfile
                 /\ f.description = IF new[g].description # rows[g].description
                                     THEN new[g].description ELSE row.description
                 /\ f.dense = new[g].dense \/ (new[g].dense = rows[g].dense /\ f.dense = row.dense)
                 /\ f.purchase_count \in {new[g].purchase_count, row.purchase_count}
  <2>1. PICK n, sel, row \in GameProfile : n = new[g] /\ sel = rows[g] /\ row = game_profiles[g]
    BY <1>3
  <2>2. PICK flushed \in GameProfile :
           /\ flushed = Flushed(n, sel, row)
           /\ flushed.description = IF n.description # sel.description THEN n.description ELSE row.description
           /\ flushed.dense = IF n.dense # sel.dense THEN n.dense ELSE row.dense
           /\ flushed.purchase_count \in {n.purchase_count, row.purchase_count}
    BY FlushedColumns
  <2>3. game_profiles'[g] \in {flushed, Embedded(flushed, n.dense)}
    BY <1>1, <1>3, <2>1, <2>2 DEF Written
  <2>4. CASE game_profiles'[g] = flushed
    BY <2>1, <2>2, <2>4
  <2>5. CASE game_profiles'[g] = Embedded(flushed, n.dense)
    <3>1. PICK f : f = Embedded(flushed, n.dense)
      OBVIOUS
    <3>2. /\ f \in GameProfile /\ f.dense = n.dense /\ f.description = flushed.description
          /\ f.purchase_count = flushed.purchase_count
      BY <3>1 DEF Embedded, GameProfile
    <3> QED
      BY <2>1, <2>2, <2>5, <3>1, <3>2
  <2> QED
    BY <2>3, <2>4, <2>5
<1>4. game_profiles' \in [Games -> GameProfile]
  <2>1. game_profiles' = [g \in Games |-> game_profiles'[g]]
    BY <1>1 DEF Written
  <2>2. \A g \in Games : game_profiles'[g] \in GameProfile
    BY <1>2, <1>3
  <2> QED
    BY <2>1, <2>2
<1> QED
  BY <1>2, <1>3, <1>4

-----------------------------------------------------------------------------
(* The invariant holds.                                                    *)

\* The handlers leave the other games alone.
LEMMA HandleWrites ==
    ASSUME TypeOK, NEW e \in Events, Handle(e)
    PROVE  /\ e \notin processed /\ Mark(e)
           /\ \A g \in Games : g # Body[e].game => games'[g] = games[g]
           /\ LET row == games[Body[e].game] IN
              games'[Body[e].game] \in {row, Published(e), Redescribed(row, e), Withdrawn(row), Bought(row)}
BY BodyType DEF TypeOK, Handle, HandleGamePublished, HandleGameWithdrawn, HandlePurchaseCompleted,
   PurchaseOfKnownGame, PurchaseOfUnknownGame, HandleReviewPosted

\* A step that leaves the profiles and the tastes alone leaves every taste as it should be.
LEMMA TastesKept ==
    ASSUME EmbedInv, UNCHANGED <<prefs, taste_dense>>
    PROVE  (taste_dense = [u \in Users |-> taste_dense[u]])' /\ \A u \in Users : DenseTaste(u)'
BY DEF EmbedInv, DenseTaste

\* So does one that leaves the sweeps alone.
LEMMA SweepsKept ==
    ASSUME EmbedInv, UNCHANGED sweeping
    PROVE  /\ (waiting = [s \in Sweeps |-> waiting[s]])' /\ (selected = [s \in Sweeps |-> selected[s]])'
           /\ \A s \in Sweeps : HeldRows(s)'
BY DEF EmbedInv, HeldRows, sweeping

\* A step of a sweep, or of the generation, leaves the open handler and its books alone.
LEMMA HandlerKept ==
    ASSUME EmbedInv, UNCHANGED <<vars, transaction>>
    PROVE  TypeOK' /\ (handling \in Descriptions \ processed)' /\ BaseRow'
BY DEF EmbedInv, TypeOK, BaseRow, Upserts, transaction, vars

LEMMA GetGameInv == ASSUME EmbedInv, NEW e \in Events, GetGame(e) PROVE EmbedInv'
<1>1. /\ handling' = e /\ e \notin processed /\ games' = game_profiles /\ handling = NoEvent
      /\ UNCHANGED <<game_profiles, prefs, ownership, processed, base, taste_dense>> /\ UNCHANGED sweeping
  BY DEF GetGame, sweeping
<1>2. TypeOK' /\ (game_profiles \in [Games -> GameProfile])'
  BY <1>1 DEF EmbedInv, TypeOK
<1>3. (handling \in Descriptions \ processed)'
  BY <1>1 DEF Descriptions
<1>4. BaseRow'
  BY <1>1 DEF EmbedInv, BaseRow
<1> QED
  BY <1>1, <1>2, <1>3, <1>4, TastesKept, SweepsKept DEF EmbedInv

LEMMA UpsertGameInv == ASSUME EmbedInv, UpsertGame PROVE EmbedInv'
<1> DEFINE g == Body[handling].game
<1>1. /\ handling # NoEvent /\ Upserts(handling)
      /\ UNCHANGED <<vars, game_profiles, handling, taste_dense>> /\ UNCHANGED sweeping
  BY DEF UpsertGame, tables, sweeping
<1>2. PICK row \in Bases(game_profiles[g], games[g], UnknownGame) : base' = [h \in {g} |-> row]
  BY DEF UpsertGame
<1>3. g \in Games
  BY <1>1, BodyType DEF EmbedInv, Descriptions
<1>4. row \in GameProfile
  BY <1>2, <1>3 DEF Bases, EmbedInv, TypeOK
<1>5. BaseRow'
  BY <1>1, <1>2, <1>3, <1>4 DEF BaseRow, Upserts, vars
<1>6. TypeOK'
  BY <1>1 DEF EmbedInv, TypeOK, vars
<1> QED
  BY <1>1, <1>5, <1>6, TastesKept, SweepsKept DEF EmbedInv, vars

LEMMA CommitHandlerInv == ASSUME EmbedInv, CommitHandler PROVE EmbedInv'
<1>1. handling \in Events
  BY DEF CommitHandler, EmbedInv, Descriptions
<1>2. TypeOK'
  BY <1>1, NextType DEF EmbedInv, CommitHandler, Next
<1>3. game_profiles' \in [Games -> GameProfile]
  <2>1. \A g \in DOMAIN base : g \in Games /\ base[g] \in GameProfile /\ games'[g] \in GameProfile
    BY <1>2 DEF EmbedInv, BaseRow, TypeOK
  <2> QED
    BY <2>1, FlushedTable DEF EmbedInv, CommitHandler
<1>4. (handling \in Descriptions \ processed)'
  BY <1>2, BodyAssumption DEF CommitHandler, Descriptions, TypeOK
<1>5. BaseRow'
  BY DEF CommitHandler, BaseRow, NoRows
<1>6. \A u \in Users : DenseTaste(u)'
  BY <1>1, <1>2, ObservedTaste DEF CommitHandler
<1>7. taste_dense' = [u \in Users |-> taste_dense'[u]]
  BY DEF CommitHandler
<1> QED
  BY <1>2, <1>3, <1>4, <1>5, <1>6, <1>7, SweepsKept DEF CommitHandler, EmbedInv

LEMMA HandlerFailsInv == ASSUME EmbedInv, HandlerFails PROVE EmbedInv'
<1>1. /\ handling' = NoEvent /\ base' = NoRows
      /\ UNCHANGED <<vars, game_profiles, taste_dense>> /\ UNCHANGED sweeping
  BY DEF HandlerFails, tables, sweeping
<1>2. BaseRow'
  BY <1>1 DEF BaseRow, NoRows
<1>3. TypeOK' /\ (handling \in Descriptions \ processed)'
  BY <1>1, BodyAssumption DEF EmbedInv, TypeOK, vars, Descriptions
<1> QED
  BY <1>1, <1>2, <1>3, TastesKept, SweepsKept DEF EmbedInv, vars

LEMMA RebuildInv == ASSUME EmbedInv, NEW u \in Users, Rebuild(u) PROVE EmbedInv'
<1>1. UNCHANGED <<vars, transaction>> /\ UNCHANGED <<game_profiles, prefs>> /\ UNCHANGED sweeping
  BY DEF Rebuild, tables, vars, sweeping
<1>2. taste_dense' = [taste_dense EXCEPT ![u] = RebuiltIn(u)]
  BY DEF Rebuild
<1>3. ASSUME NEW v \in Users PROVE DenseTaste(v)'
  <2>1. CASE v # u
    <3>1. taste_dense'[v] = taste_dense[v]
      BY <1>2, <2>1 DEF EmbedInv
    <3> QED
      BY <1>1, <3>1 DEF EmbedInv, DenseTaste
  <2>2. CASE v = u
    <3>1. taste_dense'[u] = RebuiltIn(u)
      BY <1>2 DEF EmbedInv
    <3>2. Len(prefs[u].history) <= prefs[u].signal_count
      BY DEF EmbedInv, DenseTaste
    <3> QED
      BY <1>1, <2>2, <3>1, <3>2, RebuiltTaste DEF DenseTaste, BagToSet
  <2> QED
    BY <2>1, <2>2
<1>4. taste_dense' = [v \in Users |-> taste_dense'[v]]
  BY <1>2 DEF EmbedInv
<1> QED
  BY <1>1, <1>3, <1>4, HandlerKept, SweepsKept DEF EmbedInv

LEMMA ReadPendingInv == ASSUME EmbedInv, NEW s \in Sweeps, ReadPending(s) PROVE EmbedInv'
<1>1. PICK batch \in PendingBatches \ {{}} : waiting' = [waiting EXCEPT ![s] = [g \in batch |-> game_profiles[g]]]
  BY DEF ReadPending
<1>2. batch \subseteq Pending /\ Cardinality(batch) <= BatchSize /\ batch # {} /\ Pending \subseteq Games
  BY <1>1 DEF PendingBatches, Pending
<1>3. /\ UNCHANGED <<vars, transaction>> /\ UNCHANGED <<game_profiles, prefs, selected, taste_dense>>
      /\ waiting[s] = NoBatch
  BY DEF ReadPending, tables, vars
<1>4. ASSUME NEW v \in Sweeps PROVE HeldRows(v)'
  <2>1. CASE v # s
    <3>1. waiting'[v] = waiting[v]
      BY <1>1, <2>1 DEF EmbedInv
    <3> QED
      BY <1>3, <3>1 DEF EmbedInv, HeldRows
  <2>2. CASE v = s
    <3>1. waiting'[v] = [g \in batch |-> game_profiles[g]] /\ selected'[v] = NoRows
      BY <1>1, <1>3, <2>2 DEF EmbedInv, HeldRows
    <3>2. Cardinality(batch) \in 1 .. BatchSize
      <4>1. IsFiniteSet(batch)
        BY <1>2, BatchAssumption, FS_Subset
      <4>2. Cardinality(batch) \in Nat /\ Cardinality(batch) # 0
        BY <1>2, <4>1, FS_CardinalityType, FS_EmptySet
      <4> QED
        BY <1>2, <4>2, BatchAssumption
    <3>3. DOMAIN NoRows = {}
      BY DEF NoRows
    <3> QED
      BY <1>2, <3>1, <3>2, <3>3 DEF EmbedInv, HeldRows, Pending
  <2> QED
    BY <2>1, <2>2
<1>5. (waiting = [v \in Sweeps |-> waiting[v]])' /\ (selected = [v \in Sweeps |-> selected[v]])'
  BY <1>1, <1>3 DEF EmbedInv
<1> QED
  BY <1>3, <1>4, <1>5, TastesKept, HandlerKept DEF EmbedInv

\* A sweep that has given up, or has committed, holds nothing.
LEMMA Released ==
    ASSUME EmbedInv, NEW s \in Sweeps,
           waiting' = [waiting EXCEPT ![s] = NoBatch], selected' = [selected EXCEPT ![s] = NoRows]
    PROVE  /\ (waiting = [v \in Sweeps |-> waiting[v]])' /\ (selected = [v \in Sweeps |-> selected[v]])'
           /\ \A v \in Sweeps : HeldRows(v)'
<1>1. ASSUME NEW v \in Sweeps PROVE HeldRows(v)'
  <2>1. CASE v = s
    BY <2>1 DEF EmbedInv, HeldRows
  <2>2. CASE v # s
    <3>1. waiting'[v] = waiting[v] /\ selected'[v] = selected[v]
      BY <2>2 DEF EmbedInv
    <3> QED
      BY <3>1 DEF EmbedInv, HeldRows
  <2> QED
    BY <2>1, <2>2
<1> QED
  BY <1>1 DEF EmbedInv

LEMMA SweepFailsInv == ASSUME EmbedInv, NEW s \in Sweeps, SweepFails(s) PROVE EmbedInv'
<1>1. UNCHANGED <<vars, transaction>> /\ UNCHANGED <<game_profiles, prefs, taste_dense>>
  BY DEF SweepFails, tables, vars
<1> QED
  BY <1>1, Released, TastesKept, HandlerKept DEF SweepFails, EmbedInv

LEMMA UpsertEmbeddedInv == ASSUME EmbedInv, NEW s \in Sweeps, UpsertEmbedded(s) PROVE EmbedInv'
<1>1. /\ UNCHANGED <<vars, transaction>> /\ UNCHANGED <<game_profiles, prefs, waiting, taste_dense>>
      /\ waiting[s] # NoBatch
  BY DEF UpsertEmbedded, tables, vars
<1>2. PICK g \in DOMAIN waiting[s] \ DOMAIN selected[s] :
         selected' = [selected EXCEPT ![s] = [h \in DOMAIN selected[s] \cup {g} |->
                                                 IF h = g THEN game_profiles[g] ELSE selected[s][h]]]
  BY DEF UpsertEmbedded
<1>3. ASSUME NEW v \in Sweeps PROVE HeldRows(v)'
  <2>1. CASE v # s
    <3>1. selected'[v] = selected[v]
      BY <1>2, <2>1 DEF EmbedInv
    <3> QED
      BY <1>1, <3>1 DEF EmbedInv, HeldRows
  <2>2. CASE v = s
    <3>1. selected'[v] = [h \in DOMAIN selected[s] \cup {g} |->
                             IF h = g THEN game_profiles[g] ELSE selected[s][h]]
      BY <1>2, <2>2 DEF EmbedInv
    <3>2. HeldRows(s) /\ game_profiles \in [Games -> GameProfile]
      BY DEF EmbedInv
    <3> QED
      BY <1>1, <1>2, <2>2, <3>1, <3>2 DEF HeldRows
  <2> QED
    BY <2>1, <2>2
<1>4. (waiting = [v \in Sweeps |-> waiting[v]])' /\ (selected = [v \in Sweeps |-> selected[v]])'
  BY <1>1, <1>2 DEF EmbedInv
<1> QED
  BY <1>1, <1>3, <1>4, TastesKept, HandlerKept DEF EmbedInv

\* What a write-back wants in the rows it selected: the games as they were read, with their vectors.
LEMMA WantedRows ==
    ASSUME EmbedInv, NEW s \in Sweeps, waiting[s] # NoBatch, NEW g \in DOMAIN selected[s]
    PROVE  /\ g \in Games /\ selected[s][g] \in GameProfile /\ g \in DOMAIN waiting[s]
           /\ waiting[s][g] \in GameProfile /\ WithVectors(waiting[s])[g] \in GameProfile
           /\ Known(waiting[s][g])
           /\ LET new == WithVectors(waiting[s])[g]
                   old == waiting[s][g]
               IN  /\ new.description = old.description /\ new.dense = old.description
                   /\ new.purchase_count = old.purchase_count
<1>1. g \in DOMAIN waiting[s] /\ g \in Games /\ selected[s][g] \in GameProfile
  BY DEF EmbedInv, HeldRows
<1>2. PICK old \in GameProfile : old = waiting[s][g] /\ Known(old)
  BY <1>1 DEF EmbedInv, HeldRows, NeedsEmbedding
<1>3. WithVectors(waiting[s])[g] = Embedded(old, old.description)
  BY <1>1, <1>2 DEF WithVectors
<1> QED
  BY <1>1, <1>2, <1>3 DEF Embedded, GameProfile

LEMMA WriteBackInv == ASSUME EmbedInv, NEW s \in Sweeps, WriteBack(s) PROVE EmbedInv'
<1>1. UNCHANGED <<vars, transaction>> /\ UNCHANGED <<prefs, taste_dense>> /\ waiting[s] # NoBatch
  BY DEF WriteBack, vars
<1>2. game_profiles' \in [Games -> GameProfile]
  BY <1>1, WantedRows, FlushedTable DEF WriteBack, EmbedInv
<1> QED
  BY <1>1, <1>2, Released, TastesKept, HandlerKept DEF WriteBack, EmbedInv

LEMMA EmbedNextInv == EmbedInv /\ [EmbedNext]_evars => EmbedInv'
<1> SUFFICES ASSUME EmbedInv, [EmbedNext]_evars PROVE EmbedInv'
  OBVIOUS
<1>1. CASE UNCHANGED evars
  <2>1. /\ UNCHANGED <<vars, transaction>> /\ UNCHANGED <<game_profiles, prefs, taste_dense>>
        /\ UNCHANGED sweeping
    BY <1>1 DEF evars, tables, vars, transaction, sweeping
  <2> QED
    BY <2>1, TastesKept, SweepsKept, HandlerKept DEF EmbedInv
<1> QED
  BY <1>1, GetGameInv, UpsertGameInv, CommitHandlerInv, HandlerFailsInv, RebuildInv, ReadPendingInv,
     SweepFailsInv, UpsertEmbeddedInv, WriteBackInv DEF EmbedNext

LEMMA EmbedInvariant == EmbedSpec => []EmbedInv
BY EmbedInitInv, EmbedNextInv, PTL DEF EmbedSpec

\* The rows keep their types beside the sweeps, a sweep holds at most its batch, of published games
\* that had no vector when it read them, and no taste is the sum of more vectors than its user has given
\* signals: not even one that was recomputed, whatever was embedded in the meantime (profile.py:61-75).
THEOREM TypeCorrectBesideSweeps == EmbedSpec => []EmbedTypeOK
<1>1. EmbedInv => EmbedTypeOK
  BY DEF EmbedInv, EmbedTypeOK, BaseRow, HeldRows, DenseTaste
<1> QED
  BY <1>1, EmbedInvariant, PTL

-----------------------------------------------------------------------------
(* Words and vectors.                                                      *)

\* Every operation of a handler on a row takes its vector away with its words, or keeps both.
LEMMA Kept ==
    ASSUME NEW row \in GameProfile, Describes(row), NEW e \in Events,
           NEW new \in {row, Published(e), Redescribed(row, e), Withdrawn(row), Bought(row)}
    PROVE  Describes(new)
<1> USE DEF Describes
<1>1. CASE new = Published(e)
  BY <1>1 DEF Published
<1>2. CASE new = Redescribed(row, e)
  BY <1>2 DEF Redescribed, GameProfile
<1>3. CASE new = Withdrawn(row)
  BY <1>3 DEF Withdrawn, GameProfile
<1>4. CASE new = Bought(row)
  BY <1>4 DEF Bought, GameProfile
<1> QED
  BY <1>1, <1>2, <1>3, <1>4

\* A handler whose read and whose upsert saw the words and the vector of the row as they are now leaves
\* the ones it wants, and those belong together.
LEMMA CommitMisplaces ==
    ASSUME EmbedInv, CommitHandler, NEW g \in Games,
           Describes(game_profiles[g]), ~ Describes(game_profiles'[g])
    PROVE  ActsOnStaleText(g)
<1>1. handling \in Events /\ Handle(handling) /\ handling' = NoEvent /\ handling # NoEvent /\ TypeOK
  BY DEF CommitHandler, EmbedInv, Descriptions
<1>2. TypeOK'
  BY <1>1, NextType DEF Next
<1>3. Flush(games', base) /\ game_profiles \in [Games -> GameProfile]
  BY DEF CommitHandler, EmbedInv
<1>4. \A h \in DOMAIN base : h \in Games /\ base[h] \in GameProfile /\ games'[h] \in GameProfile
  BY <1>2 DEF EmbedInv, BaseRow, TypeOK
<1>5. CASE g \notin DOMAIN base
  <2>1. game_profiles'[g] = game_profiles[g]
    BY <1>3, <1>4, <1>5, FlushedTable
  <2> QED
    BY <2>1
<1>6. CASE g \in DOMAIN base
  <2> SUFFICES ASSUME SameText(games[g], game_profiles[g]), SameText(base[g], game_profiles[g]) PROVE FALSE
    BY <1>1, <1>6 DEF ActsOnStaleText
  <2>1. PICK read, sel, row, new, f :
           /\ read = games[g] /\ sel = base[g] /\ row = game_profiles[g] /\ new = games'[g]
           /\ f = game_profiles'[g]
    OBVIOUS
  <2>2. /\ f.description = IF new.description # sel.description THEN new.description ELSE row.description
        /\ f.dense = new.dense \/ (new.dense = sel.dense /\ f.dense = row.dense)
    BY <1>3, <1>4, <1>6, <2>1, FlushedTable
  <2>3. read \in GameProfile /\ Describes(read)
    BY <2>1 DEF SameText, Describes, EmbedInv, TypeOK
  <2>4. g = Body[handling].game
    BY <1>6 DEF EmbedInv, BaseRow
  <2>5. new \in {read, Published(handling), Redescribed(read, handling), Withdrawn(read), Bought(read)}
    BY <1>1, <2>1, <2>4, HandleWrites
  <2>6. Describes(new)
    BY <1>1, <2>3, <2>5, Kept
  <2>7. sel.description = row.description /\ sel.dense = row.dense
    BY <2>1 DEF SameText
  <2>8. f.description = new.description /\ f.dense = new.dense
    BY <2>2, <2>7
  <2> QED
    BY <2>1, <2>6, <2>8 DEF Describes
<1> QED
  BY <1>5, <1>6

\* So does a write-back.
LEMMA WriteBackMisplaces ==
    ASSUME EmbedInv, NEW s \in Sweeps, WriteBack(s), NEW g \in Games,
           Describes(game_profiles[g]), ~ Describes(game_profiles'[g])
    PROVE  ActsOnStaleText(g)
<1>1. /\ waiting[s] # NoBatch /\ Flush(WithVectors(waiting[s]), selected[s])
      /\ game_profiles \in [Games -> GameProfile] /\ waiting'[s] = NoBatch
  BY DEF WriteBack, EmbedInv
<1>2. \A h \in DOMAIN selected[s] :
         h \in Games /\ selected[s][h] \in GameProfile /\ WithVectors(waiting[s])[h] \in GameProfile
  BY <1>1, WantedRows
<1>3. CASE g \notin DOMAIN selected[s]
  <2>1. game_profiles'[g] = game_profiles[g]
    BY <1>1, <1>2, <1>3, FlushedTable
  <2> QED
    BY <2>1
<1>4. CASE g \in DOMAIN selected[s]
  <2> SUFFICES ASSUME SameText(waiting[s][g], game_profiles[g]), SameText(selected[s][g], game_profiles[g])
               PROVE  FALSE
    BY <1>1, <1>4 DEF ActsOnStaleText
  <2>1. PICK old, sel, row, new, f :
           /\ old = waiting[s][g] /\ sel = selected[s][g] /\ row = game_profiles[g]
           /\ new = WithVectors(waiting[s])[g] /\ f = game_profiles'[g]
    OBVIOUS
  <2>2. /\ f.description = IF new.description # sel.description THEN new.description ELSE row.description
        /\ f.dense = new.dense \/ (new.dense = sel.dense /\ f.dense = row.dense)
    BY <1>1, <1>2, <1>4, <2>1, FlushedTable
  <2>3. new.description = old.description /\ new.dense = old.description
    BY <1>1, <1>4, <2>1, WantedRows
  <2>4. sel.description = row.description /\ sel.dense = row.dense
    BY <2>1 DEF SameText
  <2> QED
    BY <2>1, <2>2, <2>3, <2>4 DEF Describes
<1> QED
  BY <1>3, <1>4

LEMMA OthersKeepTable ==
    ASSUME [EmbedNext]_evars, ~ CommitHandler, \A s \in Sweeps : ~ WriteBack(s)
    PROVE  UNCHANGED game_profiles
BY DEF EmbedNext, evars, tables, GetGame, UpsertGame, HandlerFails, ReadPending, SweepFails, UpsertEmbedded,
   Rebuild

\* A vector comes to stand beside words it was not computed from only in a commit that acts on words, or
\* on a vector, another transaction has replaced since: no handler and no sweep misplaces one by
\* itself, and an edit never keeps the old one (game_profile.py:76-78).
THEOREM VectorsMisplacedByRacesOnly == EmbedSpec => OnlyRacesMisplaceVectors
<1>1. ASSUME EmbedInv, [EmbedNext]_evars, NEW g \in Games,
             Describes(game_profiles[g]), ~ Describes(game_profiles'[g])
      PROVE  ActsOnStaleText(g)
  <2>1. CASE CommitHandler
    BY <1>1, <2>1, CommitMisplaces
  <2>2. CASE \E s \in Sweeps : WriteBack(s)
    BY <1>1, <2>2, WriteBackMisplaces
  <2>3. CASE ~ CommitHandler /\ \A s \in Sweeps : ~ WriteBack(s)
    BY <1>1, <2>3, OthersKeepTable
  <2> QED
    BY <2>1, <2>2, <2>3
<1>2. EmbedInv /\ [EmbedNext]_evars =>
         [\A g \in Games : Describes(game_profiles[g]) /\ ~ Describes(game_profiles'[g]) => ActsOnStaleText(g)]_evars
  BY <1>1
<1> QED
  BY <1>2, EmbedInvariant, PTL DEF EmbedSpec, OnlyRacesMisplaceVectors

-----------------------------------------------------------------------------
(* What no write-back of a stale row can break.  It restores columns of a  *)
(* game, and no more: Library does not see it.                             *)

\* The table knows the games the handlers know, and counts no more purchases than were processed.
TableBacked(g) ==
    /\ Known(game_profiles[g]) <=> Known(games[g])
    /\ ~ Known(game_profiles[g]) => game_profiles[g] = UnknownGame
    /\ game_profiles[g].purchase_count <= Cardinality(PurchasesOf(g) \cap processed)
    /\ g \in DOMAIN base /\ ~ Known(games[g]) => ~ Known(base[g])

\* A row that is held was read when its game was known, and a game stays known; the purchases it counts
\* were processed by then.
HeldBacked(s) ==
    waiting[s] # NoBatch =>
        \A g \in DOMAIN waiting[s] :
            /\ Known(game_profiles[g])
            /\ waiting[s][g].purchase_count <= Cardinality(PurchasesOf(g) \cap processed)

SweepInv ==
    /\ EmbedInv
    /\ IInv
    /\ \A g \in Games : TableBacked(g)
    /\ \A s \in Sweeps : HeldBacked(s)

LEMMA SweepInitInv == EmbedInit => SweepInv
<1> SUFFICES ASSUME EmbedInit PROVE SweepInv
  OBVIOUS
<1>1. EmbedInv /\ IInv
  BY EmbedInitInv, InitInvariant DEF EmbedInit
<1>2. \A g \in Games : TableBacked(g)
  BY <1>1 DEF EmbedInit, NoRows, TableBacked, IInv, UnknownRowsBlank, CountBackedByPurchases
<1>3. \A s \in Sweeps : HeldBacked(s)
  BY DEF EmbedInit, HeldBacked
<1> QED
  BY <1>1, <1>2, <1>3 DEF SweepInv

\* A handler makes the game of a publication known, and none unknown.
LEMMA HandleKnows ==
    ASSUME IInv, NEW e \in Events, Handle(e), NEW g \in Games
    PROVE  Known(games'[g]) <=> (Known(games[g]) \/ (Body[e].type = "GamePublished" /\ g = Body[e].game))
<1>1. CASE HandleGamePublished(e)
  BY <1>1, PublicationEffect DEF IInv, HandleGamePublished
<1>2. CASE HandleGameWithdrawn(e) \/ PurchaseOfKnownGame(e)
  <2>1. games[g] \in GameProfile
    BY DEF IInv, TypeOK
  <2>2. games'[g] \in {games[g], Withdrawn(games[g]), Bought(games[g])} /\ Body[e].type # "GamePublished"
    BY <1>2, BodyType DEF HandleGameWithdrawn, PurchaseOfKnownGame, IInv, TypeOK
  <2> QED
    BY <2>1, <2>2 DEF Withdrawn, Bought, GameProfile, Known
<1>3. CASE PurchaseOfUnknownGame(e) \/ HandleReviewPosted(e)
  BY <1>3 DEF PurchaseOfUnknownGame, HandleReviewPosted
<1> QED
  BY <1>1, <1>2, <1>3 DEF Handle, HandlePurchaseCompleted

\* No fewer purchases are processed after it.
LEMMA HandleProcesses ==
    ASSUME TypeOK, NEW e \in Events, Handle(e), NEW g \in Games
    PROVE  /\ Cardinality(PurchasesOf(g) \cap processed) \in Nat
           /\ Cardinality(PurchasesOf(g) \cap processed') \in Nat
           /\ Cardinality(PurchasesOf(g) \cap processed) <= Cardinality(PurchasesOf(g) \cap processed')
<1>1. processed \subseteq processed' /\ processed' \subseteq Events
  BY HandleWrites DEF Mark, TypeOK
<1>2. PICK before, after : before = PurchasesOf(g) \cap processed /\ after = PurchasesOf(g) \cap processed'
  OBVIOUS
<1>3. before \in SUBSET after /\ after \in SUBSET Events
  BY <1>1, <1>2
<1>4. IsFiniteSet(after) /\ IsFiniteSet(before) /\ Cardinality(before) <= Cardinality(after)
  BY <1>3, FiniteAssumption, FS_Subset
<1> QED
  BY <1>2, <1>4, FS_CardinalityType

\* The books speak of rows that only a commit of a handler writes, but for the columns of a game.
LEMMA BooksKept ==
    ASSUME IInv, TypeOK', UNCHANGED <<prefs, ownership, processed>>,
           UnknownRowsBlank', CountBackedByPurchases'
    PROVE  IInv'
BY DEF IInv, OwnershipMatchesPurchases, CreditedIffCounted, CreditsBackedByPurchases, Credits

\* A step that leaves the tables alone, and what the handlers know of them.
LEMMA TablesKept ==
    ASSUME SweepInv, UNCHANGED tables
    PROVE  IInv' /\ (UNCHANGED base => \A g \in Games : TableBacked(g)')
<1>1. UNCHANGED vars /\ game_profiles' = game_profiles /\ UNCHANGED <<games, processed>>
  BY DEF tables, vars
<1>2. IInv'
  BY <1>1, NextInvariant DEF SweepInv
<1>3. UNCHANGED base => \A g \in Games : TableBacked(g)'
  BY <1>1 DEF SweepInv, TableBacked
<1> QED
  BY <1>2, <1>3

\* A step that leaves what the sweeps hold alone, and forgets no game and no event.
LEMMA HeldKept ==
    ASSUME SweepInv, UNCHANGED <<waiting, processed>>,
           \A g \in Games : Known(game_profiles[g]) => Known(game_profiles'[g])
    PROVE  \A s \in Sweeps : HeldBacked(s)'
<1> SUFFICES ASSUME NEW s \in Sweeps PROVE HeldBacked(s)'
  OBVIOUS
<1>1. waiting[s] # NoBatch => DOMAIN waiting[s] \subseteq Games
  BY DEF SweepInv, EmbedInv, HeldRows
<1> QED
  BY <1>1 DEF SweepInv, HeldBacked

LEMMA GetGameSweepInv == ASSUME SweepInv, NEW e \in Events, GetGame(e) PROVE SweepInv'
<1>1. EmbedInv'
  BY GetGameInv DEF SweepInv
<1>2. /\ UNCHANGED <<game_profiles, prefs, ownership, processed, base, waiting>>
      /\ games' = game_profiles /\ handling = NoEvent
  BY DEF GetGame, sweeping
<1>3. UnknownRowsBlank' /\ CountBackedByPurchases'
  BY <1>2 DEF SweepInv, TableBacked, UnknownRowsBlank, CountBackedByPurchases
<1>4. IInv'
  BY <1>1, <1>2, <1>3, BooksKept DEF SweepInv, EmbedInv
<1>5. DOMAIN base = {}
  BY <1>2 DEF SweepInv, EmbedInv, BaseRow
<1>6. \A g \in Games : TableBacked(g)'
  BY <1>2, <1>5 DEF SweepInv, TableBacked
<1> QED
  BY <1>1, <1>2, <1>4, <1>6, HeldKept DEF SweepInv

LEMMA UpsertGameSweepInv == ASSUME SweepInv, UpsertGame PROVE SweepInv'
<1>1. EmbedInv'
  BY UpsertGameInv DEF SweepInv
<1>2. UNCHANGED tables /\ UNCHANGED <<game_profiles, games, processed, waiting>>
  BY DEF UpsertGame, sweeping, tables, vars
<1>3. ASSUME NEW g \in Games PROVE TableBacked(g)'
  <2>1. TableBacked(g)
    BY DEF SweepInv
  <2>2. g \in DOMAIN base' /\ ~ Known(games[g]) => base'[g] \in {game_profiles[g], games[g]}
    BY DEF UpsertGame, Bases
  <2> QED
    BY <1>2, <2>1, <2>2 DEF TableBacked
<1> QED
  BY <1>1, <1>2, <1>3, TablesKept, HeldKept DEF SweepInv

\* What the commit of a handler leaves in the row of a game.
LEMMA CommittedRow ==
    ASSUME SweepInv, CommitHandler, NEW g \in Games
    PROVE  /\ TableBacked(g)'
           /\ Known(game_profiles[g]) => Known(game_profiles'[g])
<1>1. handling \in Events /\ Handle(handling) /\ TypeOK
  BY DEF CommitHandler, SweepInv, EmbedInv, Descriptions
<1>2. IInv'
  BY <1>1, NextInvariant DEF SweepInv, Next
<1>3. /\ Known(games'[g]) <=>
             (Known(games[g]) \/ (Body[handling].type = "GamePublished" /\ g = Body[handling].game))
      /\ games'[g].purchase_count <= Cardinality(PurchasesOf(g) \cap processed')
      /\ games'[g] \in GameProfile /\ (~ Known(games'[g]) => games'[g] = UnknownGame)
  BY <1>1, <1>2, HandleKnows DEF SweepInv, IInv, CountBackedByPurchases, TypeOK, UnknownRowsBlank
<1>4. /\ Cardinality(PurchasesOf(g) \cap processed) \in Nat
      /\ Cardinality(PurchasesOf(g) \cap processed') \in Nat
      /\ Cardinality(PurchasesOf(g) \cap processed) <= Cardinality(PurchasesOf(g) \cap processed')
  BY <1>1, HandleProcesses
<1>5. TableBacked(g) /\ game_profiles[g] \in GameProfile /\ game_profiles \in [Games -> GameProfile]
  BY DEF SweepInv, EmbedInv
<1>6. Flush(games', base) /\ DOMAIN base' = {}
  BY DEF CommitHandler, NoRows
<1>7. \A h \in DOMAIN base : h \in Games /\ base[h] \in GameProfile /\ games'[h] \in GameProfile
  BY <1>2 DEF SweepInv, EmbedInv, BaseRow, IInv, TypeOK
<1>8. game_profiles'[g].purchase_count <= Cardinality(PurchasesOf(g) \cap processed')
  <2>1. game_profiles'[g].purchase_count \in {games'[g].purchase_count, game_profiles[g].purchase_count}
    BY <1>5, <1>6, <1>7, FlushedTable
  <2>2. game_profiles[g].purchase_count \in Nat
    BY <1>5 DEF GameProfile
  <2> QED
    BY <1>3, <1>4, <1>5, <2>1, <2>2 DEF TableBacked
<1>9. /\ Known(game_profiles'[g]) <=> Known(games'[g])
      /\ ~ Known(game_profiles'[g]) => game_profiles'[g] = UnknownGame
  <2>1. CASE g \in DOMAIN base
    <3>1. Upserts(handling) /\ g = Body[handling].game
      BY <2>1 DEF SweepInv, EmbedInv, BaseRow
    <3>2. Known(games'[g])
      BY <1>3, <3>1 DEF Upserts
    <3>3. game_profiles'[g].description =
             IF games'[g].description # base[g].description
             THEN games'[g].description ELSE game_profiles[g].description
      BY <1>5, <1>6, <1>7, <2>1, FlushedTable
    <3>4. Known(game_profiles[g]) \/ ~ Known(base[g])
      BY <1>5, <2>1 DEF TableBacked
    <3> QED
      BY <3>2, <3>3, <3>4 DEF Known
  <2>2. CASE g \notin DOMAIN base
    <3>1. game_profiles'[g] = game_profiles[g]
      BY <1>5, <1>6, <1>7, <2>2, FlushedTable
    <3>2. ~ (Body[handling].type = "GamePublished" /\ g = Body[handling].game)
      <4>1. SUFFICES ASSUME Body[handling].type = "GamePublished", g = Body[handling].game PROVE FALSE
        OBVIOUS
      <4>2. base # NoRows
        BY <4>1 DEF CommitHandler, Upserts
      <4>3. base = [h \in DOMAIN base |-> base[h]] /\ \A h \in DOMAIN base : h = g
        BY <4>1 DEF SweepInv, EmbedInv, BaseRow
      <4>4. DOMAIN base = {}
        BY <2>2, <4>3
      <4> QED
        BY <4>2, <4>3, <4>4 DEF NoRows
    <3> QED
      BY <1>3, <1>5, <3>1, <3>2 DEF TableBacked
  <2> QED
    BY <2>1, <2>2
<1>10. Known(game_profiles[g]) => Known(game_profiles'[g])
  BY <1>3, <1>5, <1>9 DEF TableBacked
<1> QED
  BY <1>6, <1>8, <1>9, <1>10 DEF TableBacked, PurchasesOf

LEMMA CommitHandlerSweepInv == ASSUME SweepInv, CommitHandler PROVE SweepInv'
<1>1. handling \in Events /\ Handle(handling) /\ TypeOK /\ waiting' = waiting
  BY DEF CommitHandler, SweepInv, EmbedInv, Descriptions, sweeping
<1>2. EmbedInv' /\ IInv'
  BY <1>1, CommitHandlerInv, NextInvariant DEF SweepInv, Next
<1>3. \A g \in Games : TableBacked(g)'
  BY CommittedRow
<1>4. ASSUME NEW s \in Sweeps, waiting[s] # NoBatch, NEW g \in DOMAIN waiting[s]
      PROVE  /\ Known(game_profiles'[g])
             /\ waiting[s][g].purchase_count <= Cardinality(PurchasesOf(g) \cap processed')
  <2>1. g \in Games /\ waiting[s][g] \in GameProfile
    BY <1>4 DEF SweepInv, EmbedInv, HeldRows
  <2>2. waiting[s][g].purchase_count \in Nat
    BY <2>1 DEF GameProfile
  <2>3. /\ Known(game_profiles[g])
        /\ waiting[s][g].purchase_count <= Cardinality(PurchasesOf(g) \cap processed)
    BY <1>4 DEF SweepInv, HeldBacked
  <2>4. Known(game_profiles'[g])
    BY <2>1, <2>3, CommittedRow
  <2>5. /\ Cardinality(PurchasesOf(g) \cap processed) \in Nat
        /\ Cardinality(PurchasesOf(g) \cap processed') \in Nat
        /\ Cardinality(PurchasesOf(g) \cap processed) <= Cardinality(PurchasesOf(g) \cap processed')
    BY <1>1, <2>1, HandleProcesses
  <2> QED
    BY <2>2, <2>3, <2>4, <2>5
<1>5. \A s \in Sweeps : HeldBacked(s)'
  BY <1>1, <1>4 DEF HeldBacked, PurchasesOf
<1> QED
  BY <1>2, <1>3, <1>5 DEF SweepInv

LEMMA HandlerFailsSweepInv == ASSUME SweepInv, HandlerFails PROVE SweepInv'
<1>1. EmbedInv'
  BY HandlerFailsInv DEF SweepInv
<1>2. UNCHANGED tables /\ UNCHANGED <<game_profiles, games, processed, waiting>> /\ base' = NoRows
  BY DEF HandlerFails, sweeping, tables, vars
<1>3. \A g \in Games : TableBacked(g)'
  BY <1>2 DEF SweepInv, TableBacked, NoRows
<1> QED
  BY <1>1, <1>2, <1>3, TablesKept, HeldKept DEF SweepInv

LEMMA ReadPendingSweepInv == ASSUME SweepInv, NEW s \in Sweeps, ReadPending(s) PROVE SweepInv'
<1>1. EmbedInv'
  BY ReadPendingInv DEF SweepInv
<1>2. PICK batch \in PendingBatches :
         waiting' = [waiting EXCEPT ![s] = [g \in batch |-> game_profiles[g]]]
  BY DEF ReadPending
<1>3. /\ UNCHANGED tables /\ UNCHANGED <<game_profiles, processed, base>>
      /\ batch \subseteq Games /\ \A g \in batch : Known(game_profiles[g])
  BY <1>2 DEF ReadPending, tables, vars, transaction, PendingBatches, Pending, NeedsEmbedding
<1>4. \A g \in Games : game_profiles[g].purchase_count <= Cardinality(PurchasesOf(g) \cap processed)
  BY DEF SweepInv, TableBacked
<1>5. ASSUME NEW v \in Sweeps PROVE HeldBacked(v)'
  <2>1. CASE v # s
    <3>1. waiting'[v] = waiting[v]
      BY <1>2, <2>1 DEF SweepInv, EmbedInv
    <3> QED
      BY <1>3, <3>1 DEF SweepInv, HeldBacked
  <2>2. CASE v = s
    <3>1. waiting'[v] = [g \in batch |-> game_profiles[g]]
      BY <1>2, <2>2 DEF SweepInv, EmbedInv
    <3> QED
      BY <1>3, <1>4, <3>1 DEF HeldBacked
  <2> QED
    BY <2>1, <2>2
<1> QED
  BY <1>1, <1>3, <1>5, TablesKept DEF SweepInv

\* A sweep that is done holds nothing; the others hold what they held.
LEMMA ReleasedBacked ==
    ASSUME SweepInv, NEW s \in Sweeps, waiting' = [waiting EXCEPT ![s] = NoBatch], processed' = processed,
           \A g \in Games : Known(game_profiles[g]) => Known(game_profiles'[g])
    PROVE  \A v \in Sweeps : HeldBacked(v)'
<1> SUFFICES ASSUME NEW v \in Sweeps PROVE HeldBacked(v)'
  OBVIOUS
<1>1. waiting'[v] \in {NoBatch, waiting[v]}
  BY DEF SweepInv, EmbedInv
<1>2. waiting[v] # NoBatch => DOMAIN waiting[v] \subseteq Games
  BY DEF SweepInv, EmbedInv, HeldRows
<1> QED
  BY <1>1, <1>2 DEF SweepInv, HeldBacked

LEMMA SweepFailsSweepInv == ASSUME SweepInv, NEW s \in Sweeps, SweepFails(s) PROVE SweepInv'
<1>1. EmbedInv' /\ UNCHANGED tables /\ UNCHANGED <<game_profiles, processed, base>>
  BY SweepFailsInv DEF SweepInv, SweepFails, tables, vars, transaction
<1> QED
  BY <1>1, TablesKept, ReleasedBacked DEF SweepInv, SweepFails

LEMMA UpsertEmbeddedSweepInv == ASSUME SweepInv, NEW s \in Sweeps, UpsertEmbedded(s) PROVE SweepInv'
<1>1. EmbedInv' /\ UNCHANGED tables /\ UNCHANGED <<game_profiles, processed, base, waiting>>
  BY UpsertEmbeddedInv DEF SweepInv, UpsertEmbedded, tables, vars, transaction
<1> QED
  BY <1>1, TablesKept, HeldKept DEF SweepInv

\* The row that is written back is of a known game, and counts purchases that were processed.
LEMMA WrittenBack ==
    ASSUME SweepInv, NEW s \in Sweeps, WriteBack(s), NEW g \in Games
    PROVE  /\ Known(game_profiles'[g]) <=> Known(game_profiles[g])
           /\ ~ Known(game_profiles[g]) => game_profiles'[g] = game_profiles[g]
           /\ game_profiles'[g].purchase_count <= Cardinality(PurchasesOf(g) \cap processed)
<1>1. /\ waiting[s] # NoBatch /\ Flush(WithVectors(waiting[s]), selected[s])
      /\ EmbedInv /\ game_profiles \in [Games -> GameProfile] /\ TableBacked(g)
  BY DEF WriteBack, SweepInv, EmbedInv
<1>2. \A h \in DOMAIN selected[s] :
         h \in Games /\ selected[s][h] \in GameProfile /\ WithVectors(waiting[s])[h] \in GameProfile
  BY <1>1, WantedRows
<1>3. CASE g \in DOMAIN selected[s]
  <2>1. PICK new, f : new = WithVectors(waiting[s])[g] /\ f = game_profiles'[g]
    OBVIOUS
  <2>2. /\ f.description = IF new.description # selected[s][g].description
                            THEN new.description ELSE game_profiles[g].description
        /\ f.purchase_count \in {new.purchase_count, game_profiles[g].purchase_count}
    BY <1>1, <1>2, <1>3, <2>1, FlushedTable
  <2>3. /\ g \in DOMAIN waiting[s] /\ Known(waiting[s][g])
        /\ new.description = waiting[s][g].description
        /\ new.purchase_count = waiting[s][g].purchase_count
    BY <1>1, <1>3, <2>1, WantedRows
  <2>4. /\ Known(game_profiles[g])
        /\ waiting[s][g].purchase_count <= Cardinality(PurchasesOf(g) \cap processed)
    BY <1>1, <2>3 DEF SweepInv, HeldBacked
  <2>5. game_profiles[g].purchase_count <= Cardinality(PurchasesOf(g) \cap processed)
    BY <1>1 DEF TableBacked
  <2>6. Known(f)
    BY <2>2, <2>3, <2>4 DEF Known
  <2> QED
    BY <2>1, <2>2, <2>3, <2>4, <2>5, <2>6
<1>4. CASE g \notin DOMAIN selected[s]
  <2>1. game_profiles'[g] = game_profiles[g]
    BY <1>1, <1>2, <1>4, FlushedTable
  <2> QED
    BY <1>1, <2>1 DEF TableBacked
<1> QED
  BY <1>3, <1>4

LEMMA WriteBackSweepInv == ASSUME SweepInv, NEW s \in Sweeps, WriteBack(s) PROVE SweepInv'
<1>1. EmbedInv' /\ UNCHANGED vars /\ UNCHANGED <<games, processed, base>>
  BY WriteBackInv DEF SweepInv, WriteBack, vars, transaction
<1>2. IInv'
  BY <1>1, NextInvariant DEF SweepInv
<1>3. ASSUME NEW g \in Games PROVE TableBacked(g)'
  <2>1. TableBacked(g)
    BY DEF SweepInv
  <2> QED
    BY <1>1, <2>1, WrittenBack DEF TableBacked
<1>4. \A v \in Sweeps : HeldBacked(v)'
  BY <1>1, WrittenBack, ReleasedBacked DEF WriteBack
<1> QED
  BY <1>1, <1>2, <1>3, <1>4 DEF SweepInv

LEMMA RebuildSweepInv == ASSUME SweepInv, NEW u \in Users, Rebuild(u) PROVE SweepInv'
<1>1. EmbedInv' /\ UNCHANGED tables /\ UNCHANGED <<game_profiles, processed, base, waiting>>
  BY RebuildInv DEF SweepInv, Rebuild, tables, vars, transaction, sweeping
<1> QED
  BY <1>1, TablesKept, HeldKept DEF SweepInv

LEMMA SweepNextInv == SweepInv /\ [EmbedNext]_evars => SweepInv'
<1> SUFFICES ASSUME SweepInv, [EmbedNext]_evars PROVE SweepInv'
  OBVIOUS
<1>1. CASE UNCHANGED evars
  <2>1. EmbedInv' /\ UNCHANGED tables /\ UNCHANGED <<game_profiles, processed, base, waiting>>
    BY <1>1, EmbedNextInv DEF SweepInv, evars, tables, vars
  <2> QED
    BY <2>1, TablesKept, HeldKept DEF SweepInv
<1> QED
  BY <1>1, GetGameSweepInv, UpsertGameSweepInv, CommitHandlerSweepInv, HandlerFailsSweepInv, RebuildSweepInv,
     ReadPendingSweepInv, SweepFailsSweepInv, UpsertEmbeddedSweepInv, WriteBackSweepInv DEF EmbedNext

LEMMA SweepInvariant == EmbedSpec => []SweepInv
BY SweepInitInv, SweepNextInv, PTL DEF EmbedSpec

\* The purchases the table counts were processed.
TableCountsBacked ==
    \A g \in Games : game_profiles[g].purchase_count <= Cardinality(PurchasesOf(g) \cap processed)

\* However stale the rows the sweeps write back, the books of the handlers stay right: flags, credits and
\* owned sets agree, no purchase is credited twice, and a purchase_count, which a write-back may lower,
\* is never more than the purchases processed (enrich.py:43-46).
THEOREM SweepsKeepTheBooks ==
    EmbedSpec => [](CreditedIffCounted /\ CreditsBackedByPurchases /\ TableCountsBacked)
<1>1. SweepInv => CreditedIffCounted /\ CreditsBackedByPurchases /\ TableCountsBacked
  BY DEF SweepInv, IInv, TableBacked, TableCountsBacked
<1> QED
  BY <1>1, SweepInvariant, PTL

\* Library, as the table has it.
DescribedGames == {g \in Games : Known(game_profiles[g])}

T == INSTANCE Library WITH known <- DescribedGames, owners <- Owners, credited <- CreditedPairs

LEMMA SameGames == SweepInv => DescribedGames = KnownGames
BY DEF SweepInv, TableBacked, DescribedGames, KnownGames

\* Only a commit of a handler is seen by Library: everything else is a step of a sweep, or reads.
LEMMA OnlyCommitsSeen ==
    ASSUME SweepInv, SweepInv', [EmbedNext]_evars, ~ CommitHandler
    PROVE  UNCHANGED <<prefs, ownership, DescribedGames>>
<1>1. UNCHANGED <<prefs, ownership>>
  BY DEF EmbedNext, evars, tables, vars, GetGame, UpsertGame, HandlerFails, ReadPending, SweepFails, UpsertEmbedded,
     WriteBack, Rebuild
<1>2. UNCHANGED DescribedGames
  <2>1. CASE \E s \in Sweeps : WriteBack(s)
    BY <2>1, WrittenBack DEF DescribedGames
  <2>2. CASE \A s \in Sweeps : ~ WriteBack(s)
    BY <2>2, OthersKeepTable DEF DescribedGames
  <2> QED
    BY <2>1, <2>2
<1> QED
  BY <1>1, <1>2

LEMMA EmbedNextRefines ==
    ASSUME EnoughBackfill, SweepInv, SweepInv', NoStrandedOwner, [EmbedNext]_evars
    PROVE  [T!Next]_T!lvars /\ NoStrandedOwner'
<1>1. DescribedGames = KnownGames /\ DescribedGames' = KnownGames'
  BY DEF SweepInv, TableBacked, DescribedGames, KnownGames
<1>2. CASE CommitHandler
  <2>1. IInv /\ Next
    BY <1>2 DEF SweepInv, EmbedInv, CommitHandler, Next, Descriptions
  <2>2. [L!Next]_L!lvars /\ NoStrandedOwner'
    BY <2>1, NextRefines, NextStrandsNobody
  <2> QED
    BY <1>1, <2>2 DEF L!Next, L!lvars, L!Learn, L!Acquire, T!Next, T!lvars, T!Learn, T!Acquire
<1>3. CASE ~ CommitHandler
  <2>1. UNCHANGED <<prefs, ownership, DescribedGames>>
    BY <1>3, OnlyCommitsSeen
  <2>2. UNCHANGED <<Owners, CreditedPairs>>
    BY <2>1 DEF Owners, CreditedPairs
  <2>3. \A g \in Games : Known(games'[g]) <=> Known(games[g])
    BY <1>1, <2>1 DEF KnownGames
  <2> QED
    BY <2>1, <2>2, <2>3 DEF T!lvars, NoStrandedOwner
<1> QED
  BY <1>2, <1>3

\* Nobody waits for a description that is in the table.
NobodyWaits == \A u \in Users, g \in Games : ownership[<<u, g>>] = "uncounted" => ~ Known(game_profiles[g])

\* Beside any number of sweeps the handlers implement the order-insensitive Library, with the table's
\* games for its known ones: what the write-back of a stale row undoes, OnlyPublicationRestores for
\* one, is in columns no library depends on.
THEOREM SweepsAreInvisible ==
    ASSUME EnoughBackfill
    PROVE  EmbedSpec => T!Spec /\ []NobodyWaits
<1>1. EmbedInit => T!Init /\ NoStrandedOwner
  <2> SUFFICES ASSUME EmbedInit PROVE T!Init /\ NoStrandedOwner
    OBVIOUS
  <2>1. L!Init /\ SweepInv
    BY InitRefines, SweepInitInv DEF EmbedInit
  <2>2. NoStrandedOwner
    BY DEF EmbedInit, Init, NoStrandedOwner
  <2> QED
    BY <2>1, <2>2, SameGames DEF L!Init, T!Init
<1>2. SweepInv /\ SweepInv' /\ NoStrandedOwner /\ [EmbedNext]_evars => [T!Next]_T!lvars /\ NoStrandedOwner'
  BY EmbedNextRefines
<1>3. SweepInv /\ NoStrandedOwner => NobodyWaits
  BY DEF SweepInv, TableBacked, NoStrandedOwner, NobodyWaits
<1> QED
  BY <1>1, <1>2, <1>3, SweepInvariant, PTL DEF EmbedSpec, T!Spec

=============================================================================
