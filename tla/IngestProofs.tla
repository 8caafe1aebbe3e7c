---------------------------- MODULE IngestProofs ----------------------------
(***************************************************************************)
(* Ingest, for every number of users, games and events.                    *)
(***************************************************************************)
EXTENDS Ingest, FiniteSetTheorems, TLAPS

(* The inductive invariant.  CreditedIffCounted alone is not enough for    *)
(* CreditsBackedByPurchases: a backfill credits an owner whose purchase    *)
(* was processed long before, so it must be known that a row of ownerships *)
(* exists exactly for the purchases already processed.                     *)

\* A game nobody described has no row at all.
UnknownRowsBlank == \A g \in Games : ~ Known(games[g]) => games[g] = UnknownGame

\* ownerships holds a row for exactly the purchases processed.
OwnershipMatchesPurchases ==
    \A u \in Users, g \in Games :
        ownership[<<u, g>>] # "none" <=> PurchasesBy(u, g) \cap processed # {}

IInv ==
    /\ TypeOK
    /\ UnknownRowsBlank
    /\ OwnershipMatchesPurchases
    /\ CreditedIffCounted
    /\ CreditsBackedByPurchases
    /\ CountBackedByPurchases

\* The batch size is no obstacle: a backfill can take every user there is.
EnoughBackfill == Cardinality(Users) <= BackfillLimit

-----------------------------------------------------------------------------
(* The domain operators.                                                   *)

\* SignalRecord history: `(*history, record)[-MAX_SIGNAL_HISTORY:]` stays a sequence within its cap.
LEMMA RememberType ==
    ASSUME NEW h \in Seq(SignalRecord), Len(h) <= HistoryCap, NEW r \in SignalRecord
    PROVE  /\ Remember(h, r) \in Seq(SignalRecord)
           /\ Len(Remember(h, r)) <= HistoryCap
<1> DEFINE longer == Append(h, r)
<1>1. longer \in Seq(SignalRecord) /\ Len(longer) = Len(h) + 1
  OBVIOUS
<1>2. CASE Len(longer) > HistoryCap
  <2>1. longer # << >>
    BY <1>1
  <2>2. Tail(longer) \in Seq(SignalRecord) /\ Len(Tail(longer)) = Len(longer) - 1
    BY <1>1, <2>1
  <2> QED
    BY <1>1, <1>2, <2>2 DEF Remember
<1>3. CASE ~ (Len(longer) > HistoryCap)
  BY <1>1, <1>3, LimitAssumption DEF Remember
<1> QED
  BY <1>2, <1>3

\* UserPreference.observe returns a profile, within the history cap.
LEMMA ObserveType ==
    ASSUME NEW p \in UserPreference, Len(p.history) <= HistoryCap,
           NEW g \in Games, NEW k \in SignalKinds
    PROVE  /\ Observe(p, g, k) \in UserPreference
           /\ Len(Observe(p, g, k).history) <= HistoryCap
<1>1. p.history \in Seq(SignalRecord) /\ [game_id |-> g, kind |-> k] \in SignalRecord
  BY DEF UserPreference, SignalRecord
<1> DEFINE h == Remember(p.history, [game_id |-> g, kind |-> k])
<1>2. h \in Seq(SignalRecord) /\ Len(h) <= HistoryCap
  BY <1>1, RememberType
<1>3. [p.taste EXCEPT ![<<g, k>>] = @ + 1] \in [Games \X SignalKinds -> Nat]
  BY DEF UserPreference
<1>4. (IF k = "PURCHASE" THEN p.owned \cup {g} ELSE p.owned) \in SUBSET Games
  BY DEF UserPreference
<1>5. p.signal_count + 1 \in Nat
  BY DEF UserPreference
<1> HIDE DEF h
<1>6. Observe(p, g, k) = [taste |-> [p.taste EXCEPT ![<<g, k>>] = @ + 1],
                          owned |-> IF k = "PURCHASE" THEN p.owned \cup {g} ELSE p.owned,
                          history |-> h, signal_count |-> p.signal_count + 1]
  BY DEF Observe, h
<1> QED
  BY <1>2, <1>3, <1>4, <1>5, <1>6 DEF UserPreference

\* A purchase credits its own game once and owns it; a review does neither.
LEMMA ObserveCredits ==
    ASSUME NEW p \in UserPreference, NEW g \in Games, NEW k \in SignalKinds, NEW h \in Games
    PROVE  LET q == Observe(p, g, k) IN
           /\ q.taste[<<h, "PURCHASE">>] =
                 IF k = "PURCHASE" /\ h = g THEN p.taste[<<h, "PURCHASE">>] + 1
                                            ELSE p.taste[<<h, "PURCHASE">>]
           /\ h \in q.owned <=> (h \in p.owned \/ (k = "PURCHASE" /\ h = g))
BY DEF Observe, UserPreference, SignalKinds

\* UserPreference.blank is a profile, with no history.
LEMMA BlankType == Blank \in UserPreference /\ Len(Blank.history) <= HistoryCap
BY LimitAssumption DEF Blank, UserPreference

\* A batch of the backfill holds only owners still waiting.
LEMMA BatchSubset ==
    ASSUME NEW S \in SUBSET Users, NEW batch \in BackfillBatches(S)
    PROVE  batch \subseteq S
BY DEF BackfillBatches

\* With a limit no smaller than the number of users, a backfill takes them all.
LEMMA BatchComplete ==
    ASSUME NEW S \in SUBSET Users, NEW batch \in BackfillBatches(S),
           EnoughBackfill
    PROVE  batch = S
<1>1. Cardinality(S) <= Cardinality(Users) /\ Cardinality(S) \in Nat /\ Cardinality(Users) \in Nat
  BY FiniteAssumption, FS_Subset, FS_CardinalityType
<1>2. Cardinality(S) <= BackfillLimit
  BY <1>1, LimitAssumption DEF EnoughBackfill
<1> QED
  BY <1>2 DEF BackfillBatches

\* What an event body holds.
LEMMA BodyType ==
    ASSUME NEW e \in Events
    PROVE  /\ Body[e].game \in Games
           /\ Body[e].type \in {"GamePublished", "GameWithdrawn", "PurchaseCompleted", "ReviewPosted"}
           /\ Body[e].type \in {"PurchaseCompleted", "ReviewPosted"} => Body[e].user \in Users
           /\ Body[e].type = "ReviewPosted" => ReviewKind(Body[e]) \in {"REVIEW_LIKE", "REVIEW_DISLIKE"}
BY BodyAssumption DEF EventBody, ReviewKind

-----------------------------------------------------------------------------
(* Type correctness.                                                       *)

\* Every operation of GameProfile returns a game row.
LEMMA GameRowType ==
    ASSUME NEW row \in GameProfile, NEW e \in Events
    PROVE  /\ Published(e) \in GameProfile
           /\ Redescribed(row, e) \in GameProfile
           /\ Withdrawn(row) \in GameProfile
           /\ Bought(row) \in GameProfile
<1>1. Published(e) \in GameProfile
  BY DEF GameProfile, Published, Descriptions
<1>2. Redescribed(row, e) \in GameProfile
  BY DEF GameProfile, Redescribed, Descriptions
<1>3. Withdrawn(row) \in GameProfile
  BY DEF GameProfile, Withdrawn
<1>4. Bought(row) \in GameProfile
  BY DEF GameProfile, Bought
<1> QED
  BY <1>1, <1>2, <1>3, <1>4

\* The empty tables have their types.
LEMMA InitType == Init => TypeOK
BY BlankType DEF Init, TypeOK, GameProfile, UnknownGame, Descriptions, OwnershipStates

\* Every handler keeps the types, and appends to a history no further than its cap.
LEMMA NextType == TypeOK /\ [Next]_vars => TypeOK'
<1> SUFFICES ASSUME TypeOK, [Next]_vars PROVE TypeOK'
  OBVIOUS
<1>1. ASSUME NEW e \in Events, HandleGamePublished(e) PROVE TypeOK'
  <2> DEFINE g == Body[e].game
  <2>1. g \in Games
    BY BodyType
  <2>2. games' \in [Games -> GameProfile]
    BY <1>1, <2>1, GameRowType DEF HandleGamePublished, TypeOK
  <2>3. PICK batch \in BackfillBatches(Uncounted(g)) : Backfill(g, batch)
    BY <1>1 DEF HandleGamePublished
  <2>4. \A u \in Users : /\ prefs'[u] \in UserPreference
                         /\ Len(prefs'[u].history) <= HistoryCap
    BY <2>1, <2>3, ObserveType DEF Backfill, TypeOK, SignalKinds
  <2>5. prefs' \in [Users -> UserPreference]
    BY <2>3, <2>4 DEF Backfill
  <2>6. ownership' \in [Users \X Games -> OwnershipStates]
    BY <2>3 DEF Backfill, TypeOK, OwnershipStates
  <2>7. processed' \subseteq Events
    BY <1>1 DEF HandleGamePublished, Mark, TypeOK
  <2> QED
    BY <2>2, <2>4, <2>5, <2>6, <2>7 DEF TypeOK
<1>2. ASSUME NEW e \in Events, HandleGameWithdrawn(e) PROVE TypeOK'
  BY <1>2, BodyType, GameRowType DEF HandleGameWithdrawn, Mark, TypeOK
<1>3. ASSUME NEW e \in Events, PurchaseOfUnknownGame(e) PROVE TypeOK'
  BY <1>3, BodyType DEF PurchaseOfUnknownGame, Mark, Recorded, TypeOK, OwnershipStates
<1>4. ASSUME NEW e \in Events, PurchaseOfKnownGame(e) PROVE TypeOK'
  <2> DEFINE g == Body[e].game
             u == Body[e].user
  <2>1. g \in Games /\ u \in Users
    BY <1>4, BodyType DEF PurchaseOfKnownGame
  <2>2. /\ Observe(prefs[u], g, "PURCHASE") \in UserPreference
        /\ Len(Observe(prefs[u], g, "PURCHASE").history) <= HistoryCap
    BY <2>1, ObserveType DEF TypeOK, SignalKinds
  <2>3. prefs' = [prefs EXCEPT ![u] = Observe(prefs[u], g, "PURCHASE")]
    BY <1>4 DEF PurchaseOfKnownGame
  <2>4. /\ prefs' \in [Users -> UserPreference]
        /\ \A v \in Users : Len(prefs'[v].history) <= HistoryCap
    BY <2>1, <2>2, <2>3 DEF TypeOK
  <2>5. games' \in [Games -> GameProfile]
    BY <1>4, <2>1, GameRowType DEF PurchaseOfKnownGame, TypeOK
  <2>6. ownership' \in [Users \X Games -> OwnershipStates] /\ processed' \subseteq Events
    BY <1>4, <2>1 DEF PurchaseOfKnownGame, Mark, Recorded, TypeOK, OwnershipStates
  <2> QED
    BY <2>4, <2>5, <2>6 DEF TypeOK
<1>5. ASSUME NEW e \in Events, HandleReviewPosted(e) PROVE TypeOK'
  <2> DEFINE g == Body[e].game
             u == Body[e].user
             k == ReviewKind(Body[e])
  <2>1. g \in Games /\ u \in Users /\ k \in SignalKinds
    BY <1>5, BodyType DEF HandleReviewPosted, SignalKinds
  <2>2. /\ Observe(prefs[u], g, k) \in UserPreference
        /\ Len(Observe(prefs[u], g, k).history) <= HistoryCap
    BY <2>1, ObserveType DEF TypeOK
  <2>3. prefs' \in {prefs, [prefs EXCEPT ![u] = Observe(prefs[u], g, k)]}
    BY <1>5 DEF HandleReviewPosted
  <2>4. /\ prefs' \in [Users -> UserPreference]
        /\ \A v \in Users : Len(prefs'[v].history) <= HistoryCap
    BY <2>1, <2>2, <2>3 DEF TypeOK
  <2> QED
    BY <1>5, <2>4 DEF HandleReviewPosted, Mark, TypeOK
<1>6. CASE UNCHANGED vars
  BY <1>6 DEF vars, TypeOK
<1> QED
  BY <1>1, <1>2, <1>3, <1>4, <1>5, <1>6
  DEF Next, Handle, HandlePurchaseCompleted, AlreadyHandled

\* Every reachable state has the types of the tables, and no history outgrows its cap.
THEOREM TypeCorrect == Spec => []TypeOK
BY InitType, NextType, PTL DEF Spec

-----------------------------------------------------------------------------
(* How each handler moves the quantities the invariants speak of.  In the  *)
(* lemmas below u and g are any user and game, not only the event's own.   *)

\* A backfill adds one credit, the flag and the game to every owner it takes, and nothing else.
LEMMA BackfillEffect ==
    ASSUME TypeOK, NEW h \in Games, NEW batch \in SUBSET Users, Backfill(h, batch),
           NEW u \in Users, NEW g \in Games
    PROVE  IF u \in batch /\ g = h
           THEN /\ Credits(u, g)' = Credits(u, g) + 1
                /\ g \in prefs'[u].owned
                /\ ownership'[<<u, g>>] = "counted"
           ELSE /\ Credits(u, g)' = Credits(u, g)
                /\ g \in prefs'[u].owned <=> g \in prefs[u].owned
                /\ ownership'[<<u, g>>] = ownership[<<u, g>>]
<1>1. prefs[u] \in UserPreference
  BY DEF TypeOK
<1>2. prefs'[u] = IF u \in batch THEN Observe(prefs[u], h, "PURCHASE") ELSE prefs[u]
  BY DEF Backfill
<1>3. ownership'[<<u, g>>] = IF u \in batch /\ g = h THEN "counted" ELSE ownership[<<u, g>>]
  BY DEF Backfill
<1> QED
  BY <1>1, <1>2, <1>3, ObserveCredits DEF Credits, SignalKinds

\* A purchase of a known game does the same for its recipient.
LEMMA PurchaseEffect ==
    ASSUME TypeOK, NEW e \in Events, PurchaseOfKnownGame(e), NEW u \in Users, NEW g \in Games
    PROVE  IF u = Body[e].user /\ g = Body[e].game
           THEN /\ Credits(u, g)' = Credits(u, g) + 1
                /\ g \in prefs'[u].owned
                /\ ownership'[<<u, g>>] = "counted"
           ELSE /\ Credits(u, g)' = Credits(u, g)
                /\ g \in prefs'[u].owned <=> g \in prefs[u].owned
                /\ ownership'[<<u, g>>] = ownership[<<u, g>>]
<1> DEFINE h == Body[e].game
           v == Body[e].user
<1>1. h \in Games /\ v \in Users
  BY BodyType DEF PurchaseOfKnownGame
<1>2. prefs[u] \in UserPreference
  BY DEF TypeOK
<1>3. prefs'[u] = IF u = v THEN Observe(prefs[u], h, "PURCHASE") ELSE prefs[u]
  BY <1>1 DEF PurchaseOfKnownGame, TypeOK
<1>4. ownership'[<<u, g>>] = IF u = v /\ g = h THEN "counted" ELSE ownership[<<u, g>>]
  BY <1>1 DEF PurchaseOfKnownGame, TypeOK, Recorded
<1> QED
  BY <1>2, <1>3, <1>4, ObserveCredits, <1>1 DEF Credits, SignalKinds

\* A purchase of an unknown game only leaves an ownership row.
LEMMA UnknownPurchaseEffect ==
    ASSUME TypeOK, NEW e \in Events, PurchaseOfUnknownGame(e), NEW u \in Users, NEW g \in Games
    PROVE  /\ prefs' = prefs /\ games' = games
           /\ ~ Known(games[Body[e].game])
           /\ IF u = Body[e].user /\ g = Body[e].game /\ ownership[<<u, g>>] = "none"
              THEN ownership'[<<u, g>>] = "uncounted"
              ELSE ownership'[<<u, g>>] = ownership[<<u, g>>]
BY BodyType DEF PurchaseOfUnknownGame, TypeOK, Recorded, OwnershipStates

\* A review never touches a purchase credit, a library or a row of ownerships.
LEMMA ReviewEffect ==
    ASSUME TypeOK, NEW e \in Events, HandleReviewPosted(e), NEW u \in Users, NEW g \in Games
    PROVE  /\ Credits(u, g)' = Credits(u, g)
           /\ g \in prefs'[u].owned <=> g \in prefs[u].owned
           /\ ownership' = ownership /\ games' = games
<1> DEFINE h == Body[e].game
           v == Body[e].user
           k == ReviewKind(Body[e])
<1>1. h \in Games /\ v \in Users /\ k \in {"REVIEW_LIKE", "REVIEW_DISLIKE"}
  BY BodyType DEF HandleReviewPosted
<1>2. prefs[u] \in UserPreference
  BY DEF TypeOK
<1>3. prefs'[u] = prefs[u] \/ prefs'[u] = Observe(prefs[u], h, k)
  BY <1>1 DEF HandleReviewPosted, TypeOK
<1> QED
  BY <1>1, <1>2, <1>3, ObserveCredits DEF Credits, SignalKinds, HandleReviewPosted

\* What a publication does to the game, and the batch it takes.
LEMMA PublicationEffect ==
    ASSUME TypeOK, UnknownRowsBlank, NEW e \in Events, HandleGamePublished(e)
    PROVE  /\ Body[e].game \in Games
           /\ \E batch \in SUBSET Users : /\ batch \in BackfillBatches(Uncounted(Body[e].game))
                                          /\ batch \subseteq Uncounted(Body[e].game)
                                          /\ Backfill(Body[e].game, batch)
           /\ \A h \in Games : /\ games'[h].purchase_count = games[h].purchase_count
                               /\ Known(games'[h]) <=> (Known(games[h]) \/ h = Body[e].game)
<1> DEFINE g == Body[e].game
<1>1. g \in Games
  BY BodyType
<1>2. Uncounted(g) \in SUBSET Users
  BY DEF Uncounted
<1>3. PICK batch \in BackfillBatches(Uncounted(g)) : Backfill(g, batch)
  BY DEF HandleGamePublished
<1>4. batch \subseteq Uncounted(g)
  BY <1>2, BatchSubset
<1>5. games' = [games EXCEPT ![g] = IF Known(games[g]) THEN Redescribed(games[g], e) ELSE Published(e)]
  BY DEF HandleGamePublished
<1>6. e # NoEvent
  BY BodyAssumption
<1>7. ASSUME NEW h \in Games
      PROVE  /\ games'[h].purchase_count = games[h].purchase_count
             /\ Known(games'[h]) <=> (Known(games[h]) \/ h = g)
  <2>1. CASE h # g
    BY <1>1, <1>5, <2>1 DEF TypeOK
  <2>2. CASE h = g /\ Known(games[g])
    <3>1. games'[g] = Redescribed(games[g], e)
      BY <1>1, <1>5, <2>2 DEF TypeOK
    <3>2. games[g] \in GameProfile
      BY <1>1 DEF TypeOK
    <3> QED
      BY <1>6, <2>2, <3>1, <3>2 DEF Redescribed, Known, GameProfile
  <2>3. CASE h = g /\ ~ Known(games[g])
    <3>1. games'[g] = Published(e)
      BY <1>1, <1>5, <2>3 DEF TypeOK
    <3> QED
      BY <1>6, <2>3, <3>1, <1>1 DEF UnknownRowsBlank, UnknownGame, Published, Known
  <2> QED
    BY <2>1, <2>2, <2>3
<1> QED
  BY <1>1, <1>2, <1>3, <1>4, <1>7

-----------------------------------------------------------------------------
(* Counting processed purchases.                                           *)

\* One more processed purchase event raises the number of purchases of its game by one, and no other.
LEMMA PurchaseCounts ==
    ASSUME TypeOK, NEW e \in Events \ processed, Mark(e), NEW u \in Users, NEW g \in Games
    PROVE  LET before == Cardinality(PurchasesBy(u, g) \cap processed)
               after  == Cardinality(PurchasesBy(u, g) \cap processed')
               sold   == Cardinality(PurchasesOf(g) \cap processed)
               sold2  == Cardinality(PurchasesOf(g) \cap processed')
           IN  /\ before \in Nat /\ after \in Nat /\ sold \in Nat /\ sold2 \in Nat
               /\ after = IF e \in PurchasesBy(u, g) THEN before + 1 ELSE before
               /\ sold2 = IF e \in PurchasesOf(g) THEN sold + 1 ELSE sold
               /\ PurchasesBy(u, g) \cap processed # {} => before > 0
               /\ (PurchasesBy(u, g) \cap processed' # {}) <=>
                     (PurchasesBy(u, g) \cap processed # {} \/ e \in PurchasesBy(u, g))
<1>1. ASSUME NEW S \in SUBSET Events
      PROVE  /\ Cardinality(S \cap processed) \in Nat
             /\ Cardinality(S \cap processed') \in Nat
             /\ Cardinality(S \cap processed') =
                  IF e \in S THEN Cardinality(S \cap processed) + 1 ELSE Cardinality(S \cap processed)
             /\ S \cap processed # {} => Cardinality(S \cap processed) > 0
  <2>1. IsFiniteSet(S \cap processed)
    BY FiniteAssumption, FS_Subset
  <2>2. Cardinality(S \cap processed) \in Nat
    BY <2>1, FS_CardinalityType
  <2>3. S \cap processed # {} => Cardinality(S \cap processed) > 0
    BY <2>1, <2>2, FS_EmptySet
  <2>4. CASE e \in S
    <3>1. S \cap processed' = (S \cap processed) \cup {e} /\ e \notin S \cap processed
      BY <2>4 DEF Mark
    <3>2. Cardinality((S \cap processed) \cup {e}) = Cardinality(S \cap processed) + 1
      BY <2>1, <3>1, FS_AddElement
    <3> QED
      BY <2>2, <2>3, <2>4, <3>1, <3>2
  <2>5. CASE e \notin S
    <3>1. S \cap processed' = S \cap processed
      BY <2>5 DEF Mark
    <3> QED
      BY <2>2, <2>3, <2>5, <3>1
  <2> QED
    BY <2>4, <2>5
<1>2. PurchasesBy(u, g) \in SUBSET Events /\ PurchasesOf(g) \in SUBSET Events
  BY DEF PurchasesBy, PurchasesOf
<1>3. (PurchasesBy(u, g) \cap processed' # {}) <=>
          (PurchasesBy(u, g) \cap processed # {} \/ e \in PurchasesBy(u, g))
  BY <1>2 DEF Mark
<1> QED
  BY <1>1, <1>2, <1>3

-----------------------------------------------------------------------------
(* The invariant holds.                                                    *)

\* The inductive invariant holds of the empty tables.
LEMMA InitInvariant == Init => IInv
<1> SUFFICES ASSUME Init PROVE IInv
  OBVIOUS
<1>1. TypeOK
  BY InitType
<1>2. \A S \in SUBSET Events : S \cap processed = {} /\ Cardinality(S \cap processed) = 0
  BY FS_EmptySet DEF Init
<1>3. \A u \in Users, g \in Games : PurchasesBy(u, g) \in SUBSET Events /\ PurchasesOf(g) \in SUBSET Events
  BY DEF PurchasesBy, PurchasesOf
<1>4. UnknownRowsBlank
  BY DEF Init, UnknownRowsBlank
<1>5. OwnershipMatchesPurchases
  BY <1>2, <1>3 DEF Init, OwnershipMatchesPurchases
<1>6. \A u \in Users, g \in Games : Credits(u, g) = 0 /\ g \notin prefs[u].owned
  BY DEF Init, Blank, Credits, SignalKinds
<1>7. CreditedIffCounted
  BY <1>6 DEF Init, CreditedIffCounted
<1>8. CreditsBackedByPurchases
  BY <1>2, <1>3, <1>6 DEF CreditsBackedByPurchases
<1>9. CountBackedByPurchases
  <2>1. \A g \in Games : games[g].purchase_count = 0 /\ PurchasesOf(g) \in SUBSET Events
    BY DEF Init, UnknownGame, PurchasesOf
  <2> QED
    BY <1>2, <2>1 DEF CountBackedByPurchases
<1> QED
  BY <1>1, <1>4, <1>5, <1>7, <1>8, <1>9 DEF IInv

\* A publication: the owners waiting for it are credited, each for a purchase already processed.
LEMMA PublicationPreserves ==
    ASSUME IInv, TypeOK', NEW e \in Events, HandleGamePublished(e)
    PROVE  IInv'
<1> USE DEF IInv
<1> DEFINE h == Body[e].game
<1>1. h \in Games /\ Body[e].type = "GamePublished" /\ e \in Events \ processed /\ Mark(e)
  BY BodyType DEF HandleGamePublished
<1>2. PICK batch \in SUBSET Users : batch \subseteq Uncounted(h) /\ Backfill(h, batch)
  BY PublicationEffect
<1>3. \A g \in Games : /\ games'[g].purchase_count = games[g].purchase_count
                       /\ Known(games'[g]) <=> (Known(games[g]) \/ g = h)
  BY PublicationEffect
<1>4. \A g \in Games : e \notin PurchasesOf(g) /\ \A u \in Users : e \notin PurchasesBy(u, g)
  BY <1>1 DEF PurchasesBy, PurchasesOf
<1>5. UnknownRowsBlank'
  <2> SUFFICES ASSUME NEW g \in Games, ~ Known(games'[g]) PROVE games'[g] = UnknownGame
    BY DEF UnknownRowsBlank
  <2>1. g # h /\ ~ Known(games[g])
    BY <1>3
  <2>2. games'[g] = games[g]
    BY <1>1, <2>1 DEF HandleGamePublished, TypeOK
  <2> QED
    BY <2>1, <2>2 DEF UnknownRowsBlank
<1>6. ASSUME NEW u \in Users, NEW g \in Games
      PROVE  /\ ownership'[<<u, g>>] # "none" <=> PurchasesBy(u, g) \cap processed' # {}
             /\ (ownership'[<<u, g>>] = "counted") <=> (Credits(u, g)' > 0)
             /\ (ownership'[<<u, g>>] = "counted") <=> (g \in prefs'[u].owned)
             /\ Credits(u, g)' <= Cardinality(PurchasesBy(u, g) \cap processed')
  <2>1. /\ Cardinality(PurchasesBy(u, g) \cap processed') = Cardinality(PurchasesBy(u, g) \cap processed)
        /\ Cardinality(PurchasesBy(u, g) \cap processed) \in Nat
        /\ PurchasesBy(u, g) \cap processed # {} => Cardinality(PurchasesBy(u, g) \cap processed) > 0
        /\ (PurchasesBy(u, g) \cap processed' # {}) <=> (PurchasesBy(u, g) \cap processed # {})
    BY <1>1, <1>4, PurchaseCounts
  <2>2. /\ ownership[<<u, g>>] # "none" <=> PurchasesBy(u, g) \cap processed # {}
        /\ (ownership[<<u, g>>] = "counted") <=> (Credits(u, g) > 0)
        /\ (ownership[<<u, g>>] = "counted") <=> (g \in prefs[u].owned)
        /\ Credits(u, g) <= Cardinality(PurchasesBy(u, g) \cap processed)
        /\ Credits(u, g) \in Nat
    BY DEF OwnershipMatchesPurchases, CreditedIffCounted, CreditsBackedByPurchases, Credits,
           TypeOK, UserPreference, SignalKinds
  <2>3. CASE u \in batch /\ g = h
    <3>1. ownership[<<u, g>>] = "uncounted"
      BY <1>2, <2>3 DEF Uncounted
    <3>2. Credits(u, g)' = Credits(u, g) + 1 /\ g \in prefs'[u].owned /\ ownership'[<<u, g>>] = "counted"
      BY <1>1, <1>2, <2>3, BackfillEffect
    <3> QED
      BY <2>1, <2>2, <3>1, <3>2
  <2>4. CASE ~ (u \in batch /\ g = h)
    <3>1. /\ Credits(u, g)' = Credits(u, g)
          /\ g \in prefs'[u].owned <=> g \in prefs[u].owned
          /\ ownership'[<<u, g>>] = ownership[<<u, g>>]
      BY <1>1, <1>2, <2>4, BackfillEffect
    <3> QED
      BY <2>1, <2>2, <3>1
  <2> QED
    BY <2>3, <2>4
<1>7. CountBackedByPurchases'
  <2> SUFFICES ASSUME NEW g \in Games
               PROVE  games'[g].purchase_count <= Cardinality(PurchasesOf(g) \cap processed')
    BY DEF CountBackedByPurchases
  <2>1. PurchasesOf(g) \cap processed' = PurchasesOf(g) \cap processed
    BY <1>1, <1>4 DEF Mark
  <2> QED
    BY <1>3, <2>1 DEF CountBackedByPurchases
<1> QED
  BY <1>5, <1>6, <1>7
  DEF OwnershipMatchesPurchases, CreditedIffCounted, CreditsBackedByPurchases

\* A withdrawal: nothing the invariant counts is touched.
LEMMA WithdrawalPreserves ==
    ASSUME IInv, TypeOK', NEW e \in Events, HandleGameWithdrawn(e)
    PROVE  IInv'
<1> USE DEF IInv
<1> DEFINE h == Body[e].game
<1>1. h \in Games /\ Body[e].type = "GameWithdrawn" /\ Mark(e) /\ prefs' = prefs /\ ownership' = ownership
  BY BodyType DEF HandleGameWithdrawn
<1>2. \A g \in Games :
        /\ PurchasesOf(g) \cap processed' = PurchasesOf(g) \cap processed
        /\ \A u \in Users : PurchasesBy(u, g) \cap processed' = PurchasesBy(u, g) \cap processed
  BY <1>1 DEF PurchasesBy, PurchasesOf, Mark
<1>3. \A g \in Games : /\ games'[g].purchase_count = games[g].purchase_count
                       /\ games'[g].description = games[g].description
                       /\ ~ Known(games[g]) => games'[g] = games[g]
  BY <1>1 DEF HandleGameWithdrawn, Withdrawn, TypeOK, GameProfile
<1>4. UnknownRowsBlank'
  BY <1>3 DEF UnknownRowsBlank, Known
<1> QED
  BY <1>1, <1>2, <1>3, <1>4
  DEF OwnershipMatchesPurchases, CreditedIffCounted, CreditsBackedByPurchases, CountBackedByPurchases, Credits

\* A purchase of an unknown game: a row that was absent appears, uncounted.
LEMMA UnknownPurchasePreserves ==
    ASSUME IInv, TypeOK', NEW e \in Events, PurchaseOfUnknownGame(e)
    PROVE  IInv'
<1> USE DEF IInv
<1>1. e \in Events \ processed /\ Mark(e) /\ Body[e].type = "PurchaseCompleted"
  BY DEF PurchaseOfUnknownGame
<1>2. prefs' = prefs /\ games' = games
  BY DEF PurchaseOfUnknownGame
<1>3. ASSUME NEW u \in Users, NEW g \in Games
      PROVE  /\ ownership'[<<u, g>>] # "none" <=> PurchasesBy(u, g) \cap processed' # {}
             /\ (ownership'[<<u, g>>] = "counted") <=> (Credits(u, g)' > 0)
             /\ (ownership'[<<u, g>>] = "counted") <=> (g \in prefs'[u].owned)
             /\ Credits(u, g)' <= Cardinality(PurchasesBy(u, g) \cap processed')
  <2>1. IF u = Body[e].user /\ g = Body[e].game /\ ownership[<<u, g>>] = "none"
        THEN ownership'[<<u, g>>] = "uncounted"
        ELSE ownership'[<<u, g>>] = ownership[<<u, g>>]
    BY UnknownPurchaseEffect
  <2>2. e \in PurchasesBy(u, g) <=> (u = Body[e].user /\ g = Body[e].game)
    BY <1>1 DEF PurchasesBy, PurchasesOf
  <2>3. LET before == Cardinality(PurchasesBy(u, g) \cap processed)
            after  == Cardinality(PurchasesBy(u, g) \cap processed')
        IN  /\ before \in Nat /\ after \in Nat
            /\ after = IF e \in PurchasesBy(u, g) THEN before + 1 ELSE before
            /\ (PurchasesBy(u, g) \cap processed' # {}) <=>
                  (PurchasesBy(u, g) \cap processed # {} \/ e \in PurchasesBy(u, g))
    BY <1>1, PurchaseCounts
  <2>4. /\ ownership[<<u, g>>] # "none" <=> PurchasesBy(u, g) \cap processed # {}
        /\ (ownership[<<u, g>>] = "counted") <=> (Credits(u, g) > 0)
        /\ (ownership[<<u, g>>] = "counted") <=> (g \in prefs[u].owned)
        /\ Credits(u, g) <= Cardinality(PurchasesBy(u, g) \cap processed)
        /\ Credits(u, g) \in Nat
    BY DEF OwnershipMatchesPurchases, CreditedIffCounted, CreditsBackedByPurchases, Credits,
           TypeOK, UserPreference, SignalKinds
  <2>5. Credits(u, g)' = Credits(u, g)
    BY <1>2 DEF Credits
  <2> QED
    BY <1>2, <2>1, <2>2, <2>3, <2>4, <2>5
<1>4. UnknownRowsBlank'
  BY <1>2 DEF UnknownRowsBlank
<1>5. CountBackedByPurchases'
  <2> SUFFICES ASSUME NEW g \in Games
               PROVE  games'[g].purchase_count <= Cardinality(PurchasesOf(g) \cap processed')
    BY DEF CountBackedByPurchases
  <2>1. Body[e].user \in Users
    BY <1>1, BodyType
  <2>2. LET sold  == Cardinality(PurchasesOf(g) \cap processed)
            sold2 == Cardinality(PurchasesOf(g) \cap processed')
        IN  /\ sold \in Nat
            /\ sold2 = IF e \in PurchasesOf(g) THEN sold + 1 ELSE sold
    BY <1>1, <2>1, PurchaseCounts
  <2>3. /\ games[g].purchase_count \in Nat
        /\ games[g].purchase_count <= Cardinality(PurchasesOf(g) \cap processed)
    BY DEF CountBackedByPurchases, TypeOK, GameProfile
  <2> QED
    BY <1>2, <2>2, <2>3
<1> QED
  BY <1>3, <1>4, <1>5
  DEF OwnershipMatchesPurchases, CreditedIffCounted, CreditsBackedByPurchases

\* A purchase of a known game: one credit, one count, one more processed purchase.
LEMMA KnownPurchasePreserves ==
    ASSUME IInv, TypeOK', NEW e \in Events, PurchaseOfKnownGame(e)
    PROVE  IInv'
<1> USE DEF IInv
<1> DEFINE h == Body[e].game
<1>1. /\ e \in Events \ processed /\ Mark(e) /\ Body[e].type = "PurchaseCompleted"
      /\ h \in Games /\ Known(games[h])
  BY BodyType DEF PurchaseOfKnownGame
<1>2. games' = [games EXCEPT ![h] = Bought(games[h])]
  BY DEF PurchaseOfKnownGame
<1>3. \A g \in Games : /\ games'[g].purchase_count =
                             IF g = h THEN games[g].purchase_count + 1 ELSE games[g].purchase_count
                       /\ games'[g].description = games[g].description
                       /\ g # h => games'[g] = games[g]
  BY <1>1, <1>2 DEF Bought, TypeOK, GameProfile
<1>4. ASSUME NEW u \in Users, NEW g \in Games
      PROVE  /\ ownership'[<<u, g>>] # "none" <=> PurchasesBy(u, g) \cap processed' # {}
             /\ (ownership'[<<u, g>>] = "counted") <=> (Credits(u, g)' > 0)
             /\ (ownership'[<<u, g>>] = "counted") <=> (g \in prefs'[u].owned)
             /\ Credits(u, g)' <= Cardinality(PurchasesBy(u, g) \cap processed')
  <2>1. IF u = Body[e].user /\ g = h
        THEN /\ Credits(u, g)' = Credits(u, g) + 1
             /\ g \in prefs'[u].owned
             /\ ownership'[<<u, g>>] = "counted"
        ELSE /\ Credits(u, g)' = Credits(u, g)
             /\ g \in prefs'[u].owned <=> g \in prefs[u].owned
             /\ ownership'[<<u, g>>] = ownership[<<u, g>>]
    BY PurchaseEffect
  <2>2. e \in PurchasesBy(u, g) <=> (u = Body[e].user /\ g = h)
    BY <1>1 DEF PurchasesBy, PurchasesOf
  <2>3. LET before == Cardinality(PurchasesBy(u, g) \cap processed)
            after  == Cardinality(PurchasesBy(u, g) \cap processed')
        IN  /\ before \in Nat /\ after \in Nat
            /\ after = IF e \in PurchasesBy(u, g) THEN before + 1 ELSE before
            /\ (PurchasesBy(u, g) \cap processed' # {}) <=>
                  (PurchasesBy(u, g) \cap processed # {} \/ e \in PurchasesBy(u, g))
    BY <1>1, PurchaseCounts
  <2>4. /\ ownership[<<u, g>>] # "none" <=> PurchasesBy(u, g) \cap processed # {}
        /\ (ownership[<<u, g>>] = "counted") <=> (Credits(u, g) > 0)
        /\ (ownership[<<u, g>>] = "counted") <=> (g \in prefs[u].owned)
        /\ Credits(u, g) <= Cardinality(PurchasesBy(u, g) \cap processed)
        /\ Credits(u, g) \in Nat
    BY DEF OwnershipMatchesPurchases, CreditedIffCounted, CreditsBackedByPurchases, Credits,
           TypeOK, UserPreference, SignalKinds
  <2> QED
    BY <2>1, <2>2, <2>3, <2>4
<1>5. CountBackedByPurchases'
  <2> SUFFICES ASSUME NEW g \in Games
               PROVE  games'[g].purchase_count <= Cardinality(PurchasesOf(g) \cap processed')
    BY DEF CountBackedByPurchases
  <2>1. e \in PurchasesOf(g) <=> g = h
    BY <1>1 DEF PurchasesOf
  <2>2. Body[e].user \in Users
    BY <1>1, BodyType
  <2>3. /\ Cardinality(PurchasesOf(g) \cap processed) \in Nat
        /\ Cardinality(PurchasesOf(g) \cap processed') =
              IF e \in PurchasesOf(g) THEN Cardinality(PurchasesOf(g) \cap processed) + 1
                                      ELSE Cardinality(PurchasesOf(g) \cap processed)
    BY <1>1, <2>2, PurchaseCounts
  <2>4. /\ games[g].purchase_count \in Nat
        /\ games[g].purchase_count <= Cardinality(PurchasesOf(g) \cap processed)
    BY DEF CountBackedByPurchases, TypeOK, GameProfile
  <2> QED
    BY <1>3, <2>1, <2>3, <2>4
<1>6. UnknownRowsBlank'
  BY <1>1, <1>3 DEF UnknownRowsBlank, Known
<1> QED
  BY <1>4, <1>5, <1>6
  DEF OwnershipMatchesPurchases, CreditedIffCounted, CreditsBackedByPurchases

\* A review: only the review entries of one taste vector move.
LEMMA ReviewPreserves ==
    ASSUME IInv, TypeOK', NEW e \in Events, HandleReviewPosted(e)
    PROVE  IInv'
<1> USE DEF IInv
<1>1. Mark(e) /\ Body[e].type = "ReviewPosted"
  BY DEF HandleReviewPosted
<1>2. \A g \in Games :
        /\ PurchasesOf(g) \cap processed' = PurchasesOf(g) \cap processed
        /\ \A u \in Users : PurchasesBy(u, g) \cap processed' = PurchasesBy(u, g) \cap processed
  BY <1>1 DEF PurchasesBy, PurchasesOf, Mark
<1>3. ownership' = ownership /\ games' = games
  BY DEF HandleReviewPosted
<1>4. \A u \in Users, g \in Games : /\ Credits(u, g)' = Credits(u, g)
                                    /\ g \in prefs'[u].owned <=> g \in prefs[u].owned
  BY ReviewEffect
<1>5. UnknownRowsBlank'
  BY <1>3 DEF UnknownRowsBlank
<1>6. CountBackedByPurchases'
  BY <1>2, <1>3 DEF CountBackedByPurchases
<1> QED
  BY <1>2, <1>3, <1>4, <1>5, <1>6
  DEF OwnershipMatchesPurchases, CreditedIffCounted, CreditsBackedByPurchases

\* The inductive invariant survives every handler.
LEMMA NextInvariant == IInv /\ [Next]_vars => IInv'
<1> SUFFICES ASSUME IInv, [Next]_vars PROVE IInv'
  OBVIOUS
<1>1. TypeOK'
  BY NextType DEF IInv
<1>2. ASSUME NEW e \in Events, Handle(e) PROVE IInv'
  BY <1>1, <1>2, PublicationPreserves, WithdrawalPreserves, UnknownPurchasePreserves,
     KnownPurchasePreserves, ReviewPreserves DEF Handle, HandlePurchaseCompleted
<1>3. CASE UNCHANGED vars
  BY <1>1, <1>3 DEF vars, IInv, UnknownRowsBlank, OwnershipMatchesPurchases, CreditedIffCounted,
     CreditsBackedByPurchases, CountBackedByPurchases, Credits
<1> QED
  BY <1>2, <1>3 DEF Next, AlreadyHandled

\* The inductive invariant holds in every reachable state.
LEMMA Invariant == Spec => []IInv
BY InitInvariant, NextInvariant, PTL DEF Spec

\* The counted flag, the purchase credit in the taste vector and the owned set always agree
\* (HandleGamePublished._backfill and HandlePurchaseCompleted.execute write all three).
THEOREM CreditsAgree == Spec => []CreditedIffCounted
<1>1. IInv => CreditedIffCounted
  BY DEF IInv
<1> QED
  BY <1>1, Invariant, PTL

\* However often an event is redelivered and however purchases and publications interleave, a
\* taste vector holds no more purchases of a game than were processed.
THEOREM NoDoubleCredit == Spec => []CreditsBackedByPurchases
<1>1. IInv => CreditsBackedByPurchases
  BY DEF IInv
<1> QED
  BY <1>1, Invariant, PTL

\* purchase_count never exceeds the purchases processed.
THEOREM NoOverstatedCount == Spec => []CountBackedByPurchases
<1>1. IInv => CountBackedByPurchases
  BY DEF IInv
<1> QED
  BY <1>1, Invariant, PTL

-----------------------------------------------------------------------------
(* What a step may never undo.                                             *)

\* No handler lowers a count or a flag, or takes back a credit.
LEMMA NextKeeps ==
    ASSUME IInv, [Next]_vars
    PROVE  /\ \A g \in Games : games'[g].purchase_count >= games[g].purchase_count
           /\ \A u \in Users, g \in Games :
                 /\ ownership[<<u, g>>] = "counted" => ownership'[<<u, g>>] = "counted"
                 /\ g \in prefs[u].owned => g \in prefs'[u].owned
                 /\ Credits(u, g)' >= Credits(u, g)
<1> USE DEF IInv
<1>1. \A g \in Games : games[g].purchase_count \in Nat
  BY DEF TypeOK, GameProfile
<1>2. \A u \in Users, g \in Games : Credits(u, g) \in Nat
  BY DEF TypeOK, UserPreference, Credits, SignalKinds
<1>3. ASSUME NEW e \in Events, HandleGamePublished(e)
      PROVE  /\ \A g \in Games : games'[g].purchase_count >= games[g].purchase_count
             /\ \A u \in Users, g \in Games :
                   /\ ownership[<<u, g>>] = "counted" => ownership'[<<u, g>>] = "counted"
                   /\ g \in prefs[u].owned => g \in prefs'[u].owned
                   /\ Credits(u, g)' >= Credits(u, g)
  <2> DEFINE h == Body[e].game
  <2>1. h \in Games
    BY BodyType
  <2>2. PICK batch \in SUBSET Users : batch \subseteq Uncounted(h) /\ Backfill(h, batch)
    BY <1>3, PublicationEffect
  <2>3. \A g \in Games : games'[g].purchase_count = games[g].purchase_count
    BY <1>3, PublicationEffect
  <2>4. ASSUME NEW u \in Users, NEW g \in Games
        PROVE  /\ ownership[<<u, g>>] = "counted" => ownership'[<<u, g>>] = "counted"
               /\ g \in prefs[u].owned => g \in prefs'[u].owned
               /\ Credits(u, g)' >= Credits(u, g)
    BY <1>2, <2>1, <2>2, BackfillEffect
  <2> QED
    BY <1>1, <2>3, <2>4
<1>4. ASSUME NEW e \in Events, HandleGameWithdrawn(e)
      PROVE  /\ \A g \in Games : games'[g].purchase_count = games[g].purchase_count
             /\ prefs' = prefs /\ ownership' = ownership
  BY <1>4, BodyType DEF HandleGameWithdrawn, Withdrawn, TypeOK, GameProfile
<1>5. ASSUME NEW e \in Events, PurchaseOfUnknownGame(e), NEW u \in Users, NEW g \in Games
      PROVE  ownership[<<u, g>>] = "counted" => ownership'[<<u, g>>] = "counted"
  BY <1>5, UnknownPurchaseEffect
<1>6. ASSUME NEW e \in Events, PurchaseOfKnownGame(e)
      PROVE  /\ \A g \in Games : games'[g].purchase_count >= games[g].purchase_count
             /\ \A u \in Users, g \in Games :
                   /\ ownership[<<u, g>>] = "counted" => ownership'[<<u, g>>] = "counted"
                   /\ g \in prefs[u].owned => g \in prefs'[u].owned
                   /\ Credits(u, g)' >= Credits(u, g)
  <2>1. \A g \in Games : games'[g].purchase_count \in {games[g].purchase_count, games[g].purchase_count + 1}
    BY <1>6, BodyType DEF PurchaseOfKnownGame, Bought, TypeOK, GameProfile
  <2>2. ASSUME NEW u \in Users, NEW g \in Games
        PROVE  /\ ownership[<<u, g>>] = "counted" => ownership'[<<u, g>>] = "counted"
               /\ g \in prefs[u].owned => g \in prefs'[u].owned
               /\ Credits(u, g)' >= Credits(u, g)
    BY <1>2, <1>6, PurchaseEffect
  <2> QED
    BY <1>1, <2>1, <2>2
<1>7. ASSUME NEW e \in Events, HandleReviewPosted(e), NEW u \in Users, NEW g \in Games
      PROVE  /\ Credits(u, g)' = Credits(u, g)
             /\ g \in prefs'[u].owned <=> g \in prefs[u].owned
  BY <1>7, ReviewEffect
<1>8. ASSUME NEW e \in Events, HandleReviewPosted(e)
      PROVE  ownership' = ownership /\ games' = games
  BY <1>8 DEF HandleReviewPosted
<1>9. ASSUME NEW e \in Events, PurchaseOfUnknownGame(e)
      PROVE  prefs' = prefs /\ games' = games
  BY <1>9 DEF PurchaseOfUnknownGame
<1>10. CASE UNCHANGED vars
  BY <1>1, <1>2, <1>10 DEF vars, Credits
<1>11. ASSUME NEW e \in Events, Handle(e)
       PROVE  /\ \A g \in Games : games'[g].purchase_count >= games[g].purchase_count
              /\ \A u \in Users, g \in Games :
                    /\ ownership[<<u, g>>] = "counted" => ownership'[<<u, g>>] = "counted"
                    /\ g \in prefs[u].owned => g \in prefs'[u].owned
                    /\ Credits(u, g)' >= Credits(u, g)
  <2>1. CASE HandleGamePublished(e)
    BY <1>3, <2>1
  <2>2. CASE HandleGameWithdrawn(e)
    BY <1>1, <1>2, <1>4, <2>2 DEF Credits
  <2>3. CASE PurchaseOfUnknownGame(e)
    BY <1>1, <1>2, <1>5, <1>9, <2>3 DEF Credits
  <2>4. CASE PurchaseOfKnownGame(e)
    BY <1>6, <2>4
  <2>5. CASE HandleReviewPosted(e)
    BY <1>1, <1>2, <1>7, <1>8, <2>5
  <2> QED
    BY <1>11, <2>1, <2>2, <2>3, <2>4, <2>5 DEF Handle, HandlePurchaseCompleted
<1> QED
  BY <1>10, <1>11 DEF Next, AlreadyHandled

\* No handler lowers a count or a flag, takes a game out of a library or a credit out of a taste
\* (redescribed, withdrawn, and the raise-only upsert of ownerships).
THEOREM NeverUnlearns == Spec => NothingUnlearned
<1>1. IInv /\ [Next]_vars =>
        [ /\ \A g \in Games : games'[g].purchase_count >= games[g].purchase_count
          /\ \A u \in Users, g \in Games :
                /\ ownership[<<u, g>>] = "counted" => ownership'[<<u, g>>] = "counted"
                /\ g \in prefs[u].owned => g \in prefs'[u].owned
                /\ Credits(u, g)' >= Credits(u, g) ]_vars
  BY NextKeeps
<1> QED
  BY <1>1, Invariant, PTL DEF Spec, NothingUnlearned

-----------------------------------------------------------------------------
(* With a large enough batch the order of the topics does not matter.      *)

\* A publication then leaves nobody uncounted.
LEMMA PublicationTakesAll ==
    ASSUME IInv, EnoughBackfill, NEW e \in Events, HandleGamePublished(e)
    PROVE  Backfill(Body[e].game, Uncounted(Body[e].game))
<1>1. PICK batch \in BackfillBatches(Uncounted(Body[e].game)) : Backfill(Body[e].game, batch)
  BY DEF HandleGamePublished
<1>2. Uncounted(Body[e].game) \in SUBSET Users
  BY DEF Uncounted
<1> QED
  BY <1>1, <1>2, BatchComplete

\* With a large enough batch no handler leaves an owner waiting for a game that is known.
LEMMA NextStrandsNobody ==
    ASSUME EnoughBackfill, IInv, NoStrandedOwner, [Next]_vars
    PROVE  NoStrandedOwner'
<1> USE DEF IInv
<1>1. ASSUME NEW e \in Events, HandleGamePublished(e) PROVE NoStrandedOwner'
  <2> DEFINE h == Body[e].game
  <2>1. h \in Games /\ \A g \in Games : Known(games'[g]) <=> (Known(games[g]) \/ g = h)
    BY <1>1, PublicationEffect
  <2>2. Backfill(h, Uncounted(h)) /\ Uncounted(h) \in SUBSET Users
    BY <1>1, PublicationTakesAll DEF Uncounted
  <2>3. SUFFICES ASSUME NEW u \in Users, NEW g \in Games, ownership'[<<u, g>>] = "uncounted"
                 PROVE  ~ Known(games'[g])
    BY DEF NoStrandedOwner
  <2>4. ownership[<<u, g>>] = "uncounted" /\ g # h
    BY <2>1, <2>2, <2>3 DEF Backfill, Uncounted
  <2> QED
    BY <2>1, <2>4 DEF NoStrandedOwner
<1>2. ASSUME NEW e \in Events, HandleGameWithdrawn(e) PROVE NoStrandedOwner'
  <2>1. \A g \in Games : games'[g].description = games[g].description
    BY <1>2, BodyType DEF HandleGameWithdrawn, Withdrawn, TypeOK, GameProfile
  <2>2. ownership' = ownership
    BY <1>2 DEF HandleGameWithdrawn
  <2> QED
    BY <2>1, <2>2 DEF NoStrandedOwner, Known
<1>3. ASSUME NEW e \in Events, PurchaseOfUnknownGame(e) PROVE NoStrandedOwner'
  <2>1. SUFFICES ASSUME NEW u \in Users, NEW g \in Games, ownership'[<<u, g>>] = "uncounted"
                 PROVE  ~ Known(games'[g])
    BY DEF NoStrandedOwner
  <2>2. /\ games' = games /\ ~ Known(games[Body[e].game])
        /\ g = Body[e].game \/ ownership'[<<u, g>>] = ownership[<<u, g>>]
    BY <1>3, UnknownPurchaseEffect
  <2> QED
    BY <2>1, <2>2 DEF NoStrandedOwner
<1>4. ASSUME NEW e \in Events, PurchaseOfKnownGame(e) PROVE NoStrandedOwner'
  <2>1. \A g \in Games : games'[g].description = games[g].description
    BY <1>4, BodyType DEF PurchaseOfKnownGame, Bought, TypeOK, GameProfile
  <2>2. \A u \in Users, g \in Games :
           ownership'[<<u, g>>] = "counted" \/ ownership'[<<u, g>>] = ownership[<<u, g>>]
    BY <1>4, PurchaseEffect
  <2> QED
    BY <2>1, <2>2 DEF NoStrandedOwner, Known
<1>5. ASSUME NEW e \in Events, HandleReviewPosted(e) PROVE NoStrandedOwner'
  BY <1>5 DEF HandleReviewPosted, NoStrandedOwner
<1>6. CASE UNCHANGED vars
  BY <1>6 DEF vars, NoStrandedOwner
<1> QED
  BY <1>1, <1>2, <1>3, <1>4, <1>5, <1>6
  DEF Next, Handle, HandlePurchaseCompleted, AlreadyHandled

\* Nobody is left waiting for a description that has arrived: the backfill of HandleGamePublished
\* closes the gap that a purchase read first leaves open.
THEOREM NobodyStranded == ASSUME EnoughBackfill PROVE Spec => []NoStrandedOwner
<1>1. Init => NoStrandedOwner
  BY DEF Init, NoStrandedOwner
<1>2. IInv /\ NoStrandedOwner /\ [Next]_vars => NoStrandedOwner'
  BY NextStrandsNobody
<1> QED
  BY <1>1, <1>2, Invariant, PTL DEF Spec

\* A processed purchase of a known game is in the recipient's owned set, whichever of the two
\* events was handled first.
THEOREM PurchasesTakeEffect == ASSUME EnoughBackfill PROVE Spec => []ProcessedPurchaseTakesEffect
<1>1. IInv /\ NoStrandedOwner => ProcessedPurchaseTakesEffect
  BY DEF IInv, TypeOK, OwnershipStates, NoStrandedOwner, OwnershipMatchesPurchases,
         CreditedIffCounted, ProcessedPurchaseTakesEffect
<1> QED
  BY <1>1, Invariant, NobodyStranded, PTL

-----------------------------------------------------------------------------
(* Refinement.                                                             *)

\* The empty tables are the initial state of Library.
LEMMA InitRefines == Init => L!Init
BY BlankType DEF Init, L!Init, KnownGames, Owners, CreditedPairs, Known, UnknownGame, Blank

\* A publication is Learn of its game.
LEMMA PublicationLearns ==
    ASSUME EnoughBackfill, IInv, NEW e \in Events, HandleGamePublished(e)
    PROVE  L!Learn(Body[e].game)
<1> USE DEF IInv
<1> DEFINE h == Body[e].game
<1>1. h \in Games /\ \A g \in Games : Known(games'[g]) <=> (Known(games[g]) \/ g = h)
  BY PublicationEffect
<1>2. Backfill(h, Uncounted(h)) /\ Uncounted(h) \in SUBSET Users
  BY PublicationTakesAll DEF Uncounted
<1>3. KnownGames' = KnownGames \cup {h}
  BY <1>1 DEF KnownGames
<1>4. ASSUME NEW u \in Users, NEW g \in Games
      PROVE  /\ (ownership'[<<u, g>>] # "none") <=> (ownership[<<u, g>>] # "none")
             /\ g \in prefs'[u].owned <=>
                   (g \in prefs[u].owned \/ (ownership[<<u, g>>] # "none" /\ g = h))
  <2>1. ownership[<<u, g>>] \in OwnershipStates
    BY DEF TypeOK
  <2>2. (ownership[<<u, g>>] = "counted") <=> (g \in prefs[u].owned)
    BY DEF CreditedIffCounted
  <2>3. u \in Uncounted(h) /\ g = h => ownership[<<u, g>>] = "uncounted"
    BY DEF Uncounted
  <2>4. g = h /\ ownership[<<u, g>>] = "uncounted" => u \in Uncounted(h)
    BY DEF Uncounted
  <2>5. CASE u \in Uncounted(h) /\ g = h
    <3>1. g \in prefs'[u].owned /\ ownership'[<<u, g>>] = "counted"
      BY <1>1, <1>2, <2>5, BackfillEffect
    <3> QED
      BY <2>3, <2>5, <3>1
  <2>6. CASE ~ (u \in Uncounted(h) /\ g = h)
    <3>1. /\ g \in prefs'[u].owned <=> g \in prefs[u].owned
          /\ ownership'[<<u, g>>] = ownership[<<u, g>>]
      BY <1>1, <1>2, <2>6, BackfillEffect
    <3> QED
      BY <2>1, <2>2, <2>4, <2>6, <3>1 DEF OwnershipStates
  <2> QED
    BY <2>5, <2>6
<1>5. Owners' = Owners
  BY <1>4 DEF Owners
<1>6. CreditedPairs' = CreditedPairs \cup {p \in Owners : p[2] = h}
  BY <1>4 DEF CreditedPairs, Owners
<1> QED
  BY <1>3, <1>5, <1>6 DEF L!Learn

\* A purchase is Acquire, credited at once exactly when the game is known.
LEMMA PurchaseAcquires ==
    ASSUME IInv, NEW e \in Events, HandlePurchaseCompleted(e)
    PROVE  Body[e].user \in Users /\ Body[e].game \in Games /\ L!Acquire(Body[e].user, Body[e].game)
<1> USE DEF IInv
<1> DEFINE h == Body[e].game
           v == Body[e].user
<1>1. h \in Games /\ v \in Users
  BY BodyType DEF HandlePurchaseCompleted, PurchaseOfUnknownGame, PurchaseOfKnownGame
<1>2. CASE PurchaseOfUnknownGame(e)
  <2>1. ~ Known(games[h]) /\ prefs' = prefs /\ games' = games
    BY <1>2 DEF PurchaseOfUnknownGame
  <2>2. \A u \in Users, g \in Games :
          (ownership'[<<u, g>>] # "none") <=> (ownership[<<u, g>>] # "none" \/ (u = v /\ g = h))
    BY <1>2, UnknownPurchaseEffect
  <2>3. Owners' = Owners \cup {<<v, h>>}
    BY <1>1, <2>2 DEF Owners
  <2>4. h \notin KnownGames /\ KnownGames' = KnownGames /\ CreditedPairs' = CreditedPairs
    BY <2>1 DEF KnownGames, CreditedPairs
  <2> QED
    BY <1>1, <2>3, <2>4 DEF L!Acquire
<1>3. CASE PurchaseOfKnownGame(e)
  <2>1. h \in KnownGames
    BY <1>1, <1>3 DEF PurchaseOfKnownGame, KnownGames
  <2>2. \A g \in Games : games'[g].description = games[g].description
    BY <1>1, <1>3 DEF PurchaseOfKnownGame, Bought, TypeOK, GameProfile
  <2>3. \A u \in Users, g \in Games :
          /\ (ownership'[<<u, g>>] # "none") <=> (ownership[<<u, g>>] # "none" \/ (u = v /\ g = h))
          /\ g \in prefs'[u].owned <=> (g \in prefs[u].owned \/ (u = v /\ g = h))
    BY <1>3, PurchaseEffect
  <2>4. KnownGames' = KnownGames
    BY <2>2 DEF KnownGames, Known
  <2>5. Owners' = Owners \cup {<<v, h>>}
    BY <1>1, <2>3 DEF Owners
  <2>6. CreditedPairs' = CreditedPairs \cup {<<v, h>>}
    BY <1>1, <2>3 DEF CreditedPairs
  <2> QED
    BY <1>1, <2>1, <2>4, <2>5, <2>6 DEF L!Acquire
<1> QED
  BY <1>2, <1>3 DEF HandlePurchaseCompleted

\* Withdrawals and reviews change nothing Library can see.
LEMMA OthersStutter ==
    ASSUME IInv, NEW e \in Events, HandleGameWithdrawn(e) \/ HandleReviewPosted(e)
    PROVE  UNCHANGED L!lvars
<1> USE DEF IInv
<1>1. \A g \in Games : games'[g].description = games[g].description
  <2>1. CASE HandleGameWithdrawn(e)
    BY <2>1, BodyType DEF HandleGameWithdrawn, Withdrawn, TypeOK, GameProfile
  <2>2. CASE HandleReviewPosted(e)
    BY <2>2 DEF HandleReviewPosted
  <2> QED
    BY <2>1, <2>2
<1>2. ownership' = ownership
  BY DEF HandleGameWithdrawn, HandleReviewPosted
<1>3. \A u \in Users, g \in Games : g \in prefs'[u].owned <=> g \in prefs[u].owned
  <2>1. CASE HandleGameWithdrawn(e)
    BY <2>1 DEF HandleGameWithdrawn
  <2>2. CASE HandleReviewPosted(e)
    BY <2>2, ReviewEffect
  <2> QED
    BY <2>1, <2>2
<1>4. KnownGames' = KnownGames
  BY <1>1 DEF KnownGames, Known
<1>5. Owners' = Owners
  BY <1>2 DEF Owners
<1>6. CreditedPairs' = CreditedPairs
  BY <1>3 DEF CreditedPairs
<1> QED
  BY <1>4, <1>5, <1>6 DEF L!lvars

\* Every handler is a step of Library or a stutter.
LEMMA NextRefines ==
    ASSUME EnoughBackfill, IInv, [Next]_vars
    PROVE  [L!Next]_L!lvars
<1>1. ASSUME NEW e \in Events, Handle(e) PROVE [L!Next]_L!lvars
  <2>1. CASE HandleGamePublished(e)
    BY <2>1, PublicationLearns, BodyType DEF L!Next
  <2>2. CASE HandlePurchaseCompleted(e)
    BY <2>2, PurchaseAcquires DEF L!Next
  <2>3. CASE HandleGameWithdrawn(e) \/ HandleReviewPosted(e)
    BY <2>3, OthersStutter
  <2> QED
    BY <1>1, <2>1, <2>2, <2>3 DEF Handle
<1>2. CASE UNCHANGED vars
  BY <1>2 DEF vars, L!lvars, KnownGames, Owners, CreditedPairs
<1> QED
  BY <1>1, <1>2 DEF Next, AlreadyHandled

\* Ingest implements Library: whatever the order of the topics and the redeliveries, the owned
\* sets the ranking excludes are those of a service that learns each fact as it arrives.
THEOREM Refinement == ASSUME EnoughBackfill PROVE Spec => ImplementsLibrary
<1>1. Init => L!Init
  BY InitRefines
<1>2. IInv /\ [Next]_vars => [L!Next]_L!lvars
  BY NextRefines
<1> QED
  BY <1>1, <1>2, Invariant, PTL DEF Spec, ImplementsLibrary, L!Spec
=============================================================================
