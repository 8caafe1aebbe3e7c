--------------------------- MODULE IngestSqlProofs ---------------------------
(***************************************************************************)
(* IngestSql, for every number of users, games, events, consumer tasks,    *)
(* attempts and mishaps.  The lemmas of the first section are those of     *)
(* IngestProofs about the domain operators, where this module needs them.  *)
(***************************************************************************)
EXTENDS IngestSql, TLAPS

-----------------------------------------------------------------------------
(* The domain operators.                                                   *)

\* UserPreference.observe returns a profile, within the history cap, that has begun.
LEMMA ObserveType ==
    ASSUME NEW p \in UserPreference, Len(p.history) <= HistoryCap, NEW g \in Games, NEW k \in SignalKinds
    PROVE  LET q == Observe(p, g, k) IN
           q \in UserPreference /\ Len(q.history) <= HistoryCap /\ q.signal_count > 0
<1> DEFINE record == [game_id |-> g, kind |-> k]
           longer == Append(p.history, record)
           h == Remember(p.history, record)
<1>1. p.history \in Seq(SignalRecord) /\ record \in SignalRecord
  BY DEF UserPreference, SignalRecord
<1>2. h \in Seq(SignalRecord) /\ Len(h) <= HistoryCap
  <2>1. longer \in Seq(SignalRecord) /\ Len(longer) = Len(p.history) + 1 /\ Len(p.history) \in Nat
    BY <1>1
  <2>2. CASE Len(longer) > HistoryCap
    <3>1. longer # << >>
      BY <2>1
    <3>2. Tail(longer) \in Seq(SignalRecord) /\ Len(Tail(longer)) = Len(longer) - 1
      BY <2>1, <3>1
    <3> QED
      BY <2>1, <2>2, <3>2, LimitAssumption DEF Remember
  <2>3. CASE ~ (Len(longer) > HistoryCap)
    BY <2>1, <2>3, LimitAssumption DEF Remember
  <2> QED
    BY <2>2, <2>3
<1>3. [p.taste EXCEPT ![<<g, k>>] = @ + 1] \in [Games \X SignalKinds -> Nat]
  BY DEF UserPreference
<1>4. (IF k = "PURCHASE" THEN p.owned \cup {g} ELSE p.owned) \in SUBSET Games
  BY DEF UserPreference
<1>5. p.signal_count + 1 \in Nat /\ p.signal_count + 1 > 0
  BY DEF UserPreference
<1> HIDE DEF h
<1>6. Observe(p, g, k) = [taste |-> [p.taste EXCEPT ![<<g, k>>] = @ + 1],
                          owned |-> IF k = "PURCHASE" THEN p.owned \cup {g} ELSE p.owned,
                          history |-> h, signal_count |-> p.signal_count + 1]
  BY DEF Observe, h
<1> QED
  BY <1>2, <1>3, <1>4, <1>5, <1>6 DEF UserPreference

LEMMA BlankType == Blank \in UserPreference /\ Len(Blank.history) <= HistoryCap
BY LimitAssumption DEF Blank, UserPreference

\* A profile has folded in a purchase of g, or refuses to recommend it.
Claims(preference, g) == g \in preference.owned \/ preference.taste[<<g, "PURCHASE">>] > 0

\* A signal adds a claim to its own game, when it is a purchase, and to no other.
LEMMA ObserveClaims ==
    ASSUME NEW p \in UserPreference, NEW g \in Games, NEW k \in SignalKinds, NEW h \in Games,
           Claims(Observe(p, g, k), h)
    PROVE  Claims(p, h) \/ (h = g /\ k = "PURCHASE")
BY DEF Observe, UserPreference, SignalKinds, Claims

\* What an event body holds.
LEMMA BodyType ==
    ASSUME NEW e \in Events
    PROVE  /\ Body[e].game \in Games
           /\ Body[e].type \in {"GamePublished", "GameWithdrawn", "PurchaseCompleted", "ReviewPosted"}
           /\ Body[e].type \in {"PurchaseCompleted", "ReviewPosted"} => Body[e].user \in Users
           /\ Body[e].type = "ReviewPosted" => ReviewKind(Body[e]) \in {"REVIEW_LIKE", "REVIEW_DISLIKE"}
BY BodyAssumption DEF EventBody, ReviewKind

\* Every operation of GameProfile returns a game row, of a game that is known.
LEMMA GameRowType ==
    ASSUME NEW row \in GameProfile, NEW e \in Events
    PROVE  /\ Published(e) \in GameProfile /\ Known(Published(e))
           /\ Redescribed(row, e) \in GameProfile /\ Known(Redescribed(row, e))
           /\ Withdrawn(row) \in GameProfile /\ (Known(row) => Known(Withdrawn(row)))
           /\ Bought(row) \in GameProfile /\ (Known(row) => Known(Bought(row)))
<1>1. Published(e) \in GameProfile /\ Known(Published(e))
  BY BodyAssumption DEF GameProfile, Published, Descriptions, Known
<1>2. Redescribed(row, e) \in GameProfile /\ Known(Redescribed(row, e))
  BY BodyAssumption DEF GameProfile, Redescribed, Descriptions, Known
<1>3. Withdrawn(row) \in GameProfile /\ (Known(row) => Known(Withdrawn(row)))
  BY DEF GameProfile, Withdrawn, Known
<1>4. Bought(row) \in GameProfile /\ (Known(row) => Known(Bought(row)))
  BY DEF GameProfile, Bought, Known
<1> QED
  BY <1>1, <1>2, <1>3, <1>4

-----------------------------------------------------------------------------
(* The flush.                                                              *)

\* A flush writes each column of a game row from the session, or leaves it as it is.
LEMMA FlushedGame ==
    ASSUME NEW new \in GameProfile, NEW base \in GameProfile, NEW row \in GameProfile
    PROVE  /\ Flushed(new, base, row) \in GameProfile
           /\ Known(new) /\ Known(row) => Known(Flushed(new, base, row))
           /\ base = row => Flushed(new, base, row) = new
<1> DEFINE f == Flushed(new, base, row)
           column(c) == IF new[c] # base[c] THEN new[c] ELSE row[c]
<1>1. DOMAIN row = {"description", "is_published", "purchase_count", "dense"}
  BY DEF GameProfile
<1>2. f = [description    |-> column("description"),
           is_published   |-> column("is_published"),
           purchase_count |-> column("purchase_count"),
           dense          |-> column("dense")]
  BY <1>1 DEF Flushed
<1> QED
  BY <1>2 DEF GameProfile, Known

\* The same for a row of user_preferences.  Its counter is above zero when the session's is, unless
\* the session compared with a row that counts something, and the row itself counts nothing.
LEMMA FlushedPreference ==
    ASSUME NEW new \in UserPreference, NEW base \in UserPreference, NEW row \in UserPreference
    PROVE  LET f == Flushed(new, base, row) IN
           /\ f \in UserPreference
           /\ f.owned \in {new.owned, row.owned} /\ f.taste \in {new.taste, row.taste}
           /\ f.history \in {new.history, row.history}
           /\ f.signal_count = IF new.signal_count # base.signal_count THEN new.signal_count
                                                                      ELSE row.signal_count
           /\ base = row => f = new
<1> DEFINE f == Flushed(new, base, row)
           column(c) == IF new[c] # base[c] THEN new[c] ELSE row[c]
<1>1. DOMAIN row = {"taste", "owned", "history", "signal_count"}
  BY DEF UserPreference
<1>2. f = [taste |-> column("taste"), owned |-> column("owned"),
           history |-> column("history"), signal_count |-> column("signal_count")]
  BY <1>1 DEF Flushed
<1> QED
  BY <1>2 DEF UserPreference

-----------------------------------------------------------------------------
(* The inductive invariant, one session at a time.                         *)

KindOf(t) == Body[t.event].type
GameOf(t) == Body[t.event].game
UserOf(t) == Body[t.event].user

\* The profiles, the rows of ownerships and the game that the handler of t writes in the end.
Folded(t) ==
    CASE KindOf(t) = "GamePublished" -> t.batch
      [] KindOf(t) = "GameWithdrawn" -> {}
      [] KindOf(t) \in {"PurchaseCompleted", "ReviewPosted"} ->
            IF Known(t.read) THEN {UserOf(t)} ELSE {}

Written(t) ==
    CASE KindOf(t) = "GamePublished"     -> t.batch \X {GameOf(t)}
      [] KindOf(t) = "PurchaseCompleted" -> {<<UserOf(t), GameOf(t)>>}
      [] KindOf(t) \in {"GameWithdrawn", "ReviewPosted"} -> {}

Rewrites(t) == KindOf(t) = "GamePublished" \/ (KindOf(t) # "ReviewPosted" /\ Known(t.read))

\* What t has written so far, at each of its steps.
InStep(t) ==
    /\ t.pc \in {"idle", "seen", "game", "ack"} => ~ t.dirty /\ t.changed = {} /\ t.locked = {}
    /\ t.pc \in {"seen", "game"} => t.current = {}
    /\ t.pc = "upsert_game" =>
          /\ ~ t.dirty /\ Rewrites(t)
          /\ IF KindOf(t) = "PurchaseCompleted"
             THEN t.changed = Folded(t) /\ t.locked = Written(t)
             ELSE t.changed = {} /\ t.locked = {}
    /\ t.pc = "owners" =>
          KindOf(t) = "GamePublished" /\ t.dirty /\ t.changed = {} /\ t.locked = {}
    /\ t.pc \in {"pref", "upsert_pref"} =>
          /\ KindOf(t) # "GameWithdrawn" /\ (t.dirty <=> KindOf(t) = "GamePublished")
          /\ t.todo # {} /\ t.changed \cup t.todo = Folded(t) /\ t.locked = {}
    /\ t.pc = "upsert_pref" => \E u \in t.todo : t.current = {u}
    /\ t.pc = "record" =>
          KindOf(t) = "PurchaseCompleted" /\ ~ t.dirty /\ t.changed = Folded(t) /\ t.locked = {}
    /\ t.pc = "mark_counted" =>
          KindOf(t) = "GamePublished" /\ t.dirty /\ t.changed = Folded(t) /\ t.locked = {}
    /\ t.pc \in {"mark", "commit"} =>
          (t.dirty <=> Rewrites(t)) /\ t.changed = Folded(t) /\ t.locked = Written(t)

\* A profile is blank, or has counted a signal.
Begins(preference) == preference = Blank \/ preference.signal_count > 0

\* What t has read of the games and profiles was so: rows come into being, and stay.
ReadEarlier(t) ==
    /\ t.pc # "idle" =>
          /\ Known(t.read) => Known(games[GameOf(t)])
          /\ Known(t.base) => Known(games[GameOf(t)])
    /\ (t.dirty /\ KindOf(t) # "GamePublished") => Known(t.base)
    /\ \A u \in Users :
          /\ Len(t.loaded[u].history) <= HistoryCap
          /\ Begins(t.loaded[u]) /\ Begins(t.pbase[u])
          /\ prefs[u] = Blank => t.loaded[u] = Blank /\ t.pbase[u] = Blank
          /\ \A g \in Games : Claims(t.loaded[u], g) => ownership[<<u, g>>] = "counted"

\* A second attempt at an event that writes one profile finds the row the first one missed.
SecondAttempt(t) ==
    (t.pc \notin {"idle", "ack"} /\ t.attempt # 1 /\ KindOf(t) # "GamePublished") =>
        /\ KindOf(t) # "GameWithdrawn"
        /\ prefs[UserOf(t)] # Blank
        /\ UserOf(t) \in t.current \cup t.changed => t.loaded[UserOf(t)] # Blank
        /\ UserOf(t) \in t.changed => t.pbase[UserOf(t)] # Blank

\* An event whose offset is about to be committed took effect, or was a publication given up.
TookEffect(t) ==
    /\ t.pc # "idle" => t.event \in Events
    /\ t.pc = "ack" =>
          \/ t.event \in processed
          \/ t.event \in rerouted /\ (KindOf(t) = "GamePublished" \/ MaxRetries = 1)

SessionInv(t) == t \in Transaction /\ InStep(t) /\ ReadEarlier(t) /\ SecondAttempt(t) /\ TookEffect(t)

Tables ==
    /\ games \in [Games -> GameProfile]
    /\ prefs \in [Users -> UserPreference]
    /\ \A u \in Users : Len(prefs[u].history) <= HistoryCap /\ Begins(prefs[u])
    /\ ownership \in [Users \X Games -> OwnershipStates]
    /\ processed \subseteq Events
    /\ uncommitted \subseteq Events
    /\ rerouted \subseteq Events
    /\ mishaps \in 0 .. MaxMishaps
    /\ \A u \in Users, g \in Games : Claims(prefs[u], g) => ownership[<<u, g>>] = "counted"

SqlInv ==
    /\ Tables
    /\ tx \in [Workers -> Transaction]
    /\ \A w \in Workers : \A t \in Transaction : t = tx[w] => SessionInv(t)

LEMMA SqlInvMeans == SqlInv => TypeOK /\ CreditImpliesCounted
BY DEF SqlInv, Tables, TypeOK, CreditImpliesCounted, Credits, Claims

-----------------------------------------------------------------------------
(* Sessions that hold nothing, and rows that only grow.                    *)

LEMMA NoTxType == NoTx \in Transaction
<1>1. [u \in Users |-> Blank] \in [Users -> UserPreference]
  BY BlankType
<1>2. UnknownGame \in GameProfile /\ NoEvent \in Descriptions
  BY DEF UnknownGame, GameProfile, Descriptions
<1>3. 0 \in 0 .. MaxRetries
  BY WorkersAssumption
<1> QED
  BY <1>1, <1>2, <1>3 DEF NoTx, Transaction, Steps

LEMMA BlankClaimsNothing == Begins(Blank) /\ \A g \in Games : ~ Claims(Blank, g)
BY DEF Begins, Claims, Blank, SignalKinds

\* What NoTx holds, whatever its step, its event and its attempt.
Holds(t, step) ==
    /\ t \in Transaction /\ t.pc = step
    /\ ~ t.dirty /\ t.changed = {} /\ t.locked = {} /\ t.current = {}
    /\ t.read = UnknownGame /\ t.base = UnknownGame
    /\ t.loaded = [u \in Users |-> Blank] /\ t.pbase = [u \in Users |-> Blank]

\* A session that has done nothing: closed, begun, or waiting to commit its offset.
LEMMA EmptySession ==
    ASSUME NEW t, NEW step \in {"idle", "seen", "ack"}, Holds(t, step), SecondAttempt(t), TookEffect(t)
    PROVE  SessionInv(t)
<1>1. InStep(t)
  BY DEF InStep, Holds
<1>2. ReadEarlier(t)
  BY BlankType, BlankClaimsNothing DEF ReadEarlier, Known, UnknownGame, Holds
<1> QED
  BY <1>1, <1>2 DEF SessionInv, Holds

LEMMA ClosedSession == SessionInv(NoTx)
<1>1. Holds(NoTx, "idle")
  BY NoTxType DEF NoTx, Holds
<1>2. SecondAttempt(NoTx) /\ TookEffect(NoTx)
  BY DEF SecondAttempt, TookEffect, NoTx
<1> QED
  BY <1>1, <1>2, EmptySession

LEMMA BegunSession ==
    ASSUME NEW e \in Events, NEW attempt \in 1 .. MaxRetries, SecondAttempt(Begun(e, attempt))
    PROVE  SessionInv(Begun(e, attempt))
<1>1. Holds(Begun(e, attempt), "seen") /\ Begun(e, attempt).event = e
  <2>1. "seen" \in Steps /\ e \in Descriptions /\ attempt \in 0 .. MaxRetries
    BY WorkersAssumption DEF Steps, Descriptions
  <2>2. Begun(e, attempt) \in Transaction
    BY <2>1, NoTxType DEF Begun, Transaction
  <2>3. /\ Begun(e, attempt).pc = "seen" /\ Begun(e, attempt).event = e
        /\ \A c \in {"read", "base", "dirty", "changed", "current", "locked", "loaded", "pbase"} :
              Begun(e, attempt)[c] = NoTx[c]
    BY DEF Begun, NoTx
  <2> QED
    BY <2>2, <2>3 DEF Holds, NoTx
<1>2. TookEffect(Begun(e, attempt))
  BY <1>1 DEF TookEffect, Holds
<1> QED
  BY <1>1, <1>2, EmptySession

\* The handler has returned, or the event was given up.
Returned(e) == [NoTx EXCEPT !.pc = "ack", !.event = e]

LEMMA ReturnedSession ==
    ASSUME NEW e \in Events
    PROVE  /\ Holds(Returned(e), "ack") /\ Returned(e).event = e
           /\ TookEffect(Returned(e)) => SessionInv(Returned(e))
<1>1. Holds(Returned(e), "ack") /\ Returned(e).event = e
  BY NoTxType DEF Returned, NoTx, Holds, Transaction, Steps, Descriptions
<1>2. SecondAttempt(Returned(e))
  BY <1>1 DEF SecondAttempt, Holds
<1> QED
  BY <1>1, <1>2, EmptySession

\* Rows that have come into being stay, a flag that is up stays up, and what was done stays done.
RowsStay ==
    /\ \A g \in Games : Known(games[g]) => Known(games'[g])
    /\ \A u \in Users : prefs'[u] = Blank => prefs[u] = Blank
    /\ \A p \in Users \X Games : ownership[p] = "counted" => ownership'[p] = "counted"
    /\ processed \subseteq processed'
    /\ rerouted \subseteq rerouted'

\* Under such a step a session has nothing to fear from the others.
LEMMA SessionStays ==
    ASSUME RowsStay, NEW t, SessionInv(t)
    PROVE  SessionInv(t)'
<1>1. t.pc # "idle" => /\ GameOf(t) \in Games
                       /\ KindOf(t) \in {"PurchaseCompleted", "ReviewPosted"} => UserOf(t) \in Users
                       /\ KindOf(t) \in {"GamePublished", "GameWithdrawn", "PurchaseCompleted", "ReviewPosted"}
  BY BodyType DEF SessionInv, TookEffect, GameOf, KindOf, UserOf
<1>2. ReadEarlier(t)'
  BY <1>1 DEF SessionInv, ReadEarlier, RowsStay, GameOf, KindOf
<1>3. SecondAttempt(t)'
  BY <1>1 DEF SessionInv, SecondAttempt, RowsStay, KindOf, UserOf
<1>4. TookEffect(t)'
  BY DEF SessionInv, TookEffect, RowsStay
<1> QED
  BY <1>2, <1>3, <1>4 DEF SessionInv

-----------------------------------------------------------------------------
(* Steps of one worker.                                                    *)

LEMMA InitInv == Init => SqlInv
<1> SUFFICES ASSUME Init PROVE SqlInv
  OBVIOUS
<1>1. UnknownGame \in GameProfile
  BY DEF UnknownGame, GameProfile, Descriptions
<1>2. uncommitted \subseteq Events
  BY WorkersAssumption DEF Init
<1>3. Tables
  BY <1>1, <1>2, BlankType, BlankClaimsNothing, WorkersAssumption DEF Init, Tables, OwnershipStates
<1>4. tx \in [Workers -> Transaction] /\ \A w \in Workers : tx[w] = NoTx
  BY NoTxType DEF Init
<1> QED
  BY <1>3, <1>4, ClosedSession DEF SqlInv

\* The step of w has its own session to answer for, and the tables.
LEMMA OneWorker ==
    ASSUME SqlInv, Tables', RowsStay, NEW w \in Workers,
           NEW t, tx' = [tx EXCEPT ![w] = t], SessionInv(t)'
    PROVE  SqlInv'
<1>1. t \in Transaction
  BY DEF SessionInv
<1>2. tx' \in [Workers -> Transaction]
  BY <1>1 DEF SqlInv
<1>3. ASSUME NEW v \in Workers, NEW s \in Transaction, s = tx'[v] PROVE SessionInv(s)'
  <2>1. CASE v = w
    <3>1. s = t
      BY <1>3, <2>1 DEF SqlInv
    <3> QED
      BY <3>1
  <2>2. CASE v # w
    <3>1. s = tx[v] /\ SessionInv(s)
      BY <1>3, <2>2 DEF SqlInv
    <3> QED
      BY <3>1, SessionStays
  <2> QED
    BY <2>1, <2>2
<1> QED
  BY <1>2, <1>3 DEF SqlInv

\* A statement that runs within its transaction.
LEMMA Within ==
    ASSUME SqlInv, UNCHANGED <<rows, Env>>, NEW w \in Workers,
           NEW t, tx' = [tx EXCEPT ![w] = t], SessionInv(t)
    PROVE  SqlInv'
<1>1. Tables' /\ RowsStay
  BY DEF rows, Env, SqlInv, Tables, RowsStay
<1>2. SessionInv(t)'
  BY <1>1, SessionStays
<1> QED
  BY <1>1, <1>2, OneWorker

\* What is known of a session that is open.
LEMMA OpenSession ==
    ASSUME NEW t, SessionInv(t), t.pc # "idle"
    PROVE  /\ t \in Transaction /\ t.event \in Events /\ GameOf(t) \in Games
           /\ KindOf(t) \in {"GamePublished", "GameWithdrawn", "PurchaseCompleted", "ReviewPosted"}
           /\ KindOf(t) \in {"PurchaseCompleted", "ReviewPosted"} => UserOf(t) \in Users
BY BodyType DEF SessionInv, TookEffect, GameOf, KindOf, UserOf

\* A session that reads and compares nothing new has only its place to answer for.
LEMMA Moved ==
    ASSUME NEW s, NEW t, SessionInv(s), s.pc \notin {"idle", "ack"}, t.pc \notin {"idle", "ack"},
           t \in Transaction, InStep(t),
           \A c \in {"event", "attempt", "read", "base", "dirty", "loaded", "pbase", "changed", "current"} :
              t[c] = s[c]
    PROVE  SessionInv(t)
<1>1. /\ t.event = s.event /\ t.attempt = s.attempt /\ t.read = s.read /\ t.base = s.base
      /\ t.dirty = s.dirty /\ t.loaded = s.loaded /\ t.pbase = s.pbase /\ t.changed = s.changed
      /\ t.current = s.current
  OBVIOUS
<1>2. ReadEarlier(t)
  BY <1>1 DEF SessionInv, ReadEarlier, KindOf, GameOf
<1>3. SecondAttempt(t)
  BY <1>1 DEF SessionInv, SecondAttempt, KindOf, UserOf
<1>4. TookEffect(t)
  BY <1>1 DEF SessionInv, TookEffect
<1> QED
  BY <1>2, <1>3, <1>4 DEF SessionInv

LEMMA SeenInv == ASSUME SqlInv, NEW w \in Workers, Seen(w) PROVE SqlInv'
<1>1. PICK s : s = tx[w]
  OBVIOUS
<1>2. SessionInv(s) /\ s.pc = "seen"
  BY <1>1 DEF SqlInv, Seen, At
<1>3. s \in Transaction /\ s.event \in Events
  BY <1>2, OpenSession
<1>4. CASE s.event \in processed
  <2>1. PICK t : t = [s EXCEPT !.pc = "ack"]
    OBVIOUS
  <2>2. /\ t \in Transaction /\ t.pc = "ack" /\ t.event = s.event /\ ~ t.dirty /\ t.changed = {}
        /\ t.locked = {} /\ t.read = s.read /\ t.base = s.base /\ t.loaded = s.loaded /\ t.pbase = s.pbase
    BY <2>1, <1>2, <1>3 DEF Transaction, Steps, SessionInv, InStep
  <2>3. InStep(t) /\ SecondAttempt(t) /\ TookEffect(t)
    BY <2>2, <1>3, <1>4 DEF InStep, SecondAttempt, TookEffect
  <2>4. ReadEarlier(t)
    BY <2>2, <1>2 DEF SessionInv, ReadEarlier, GameOf
  <2>5. tx' = [tx EXCEPT ![w] = t] /\ UNCHANGED <<rows, Env>>
    BY <2>1, <1>1, <1>4 DEF Seen, Event
  <2> QED
    BY <2>2, <2>3, <2>4, <2>5, Within DEF SessionInv
<1>5. CASE s.event \notin processed
  <2>1. PICK t : t = [s EXCEPT !.pc = "game"]
    OBVIOUS
  <2>2. t \in Transaction /\ t.pc = "game" /\ \A c \in DOMAIN s \ {"pc"} : t[c] = s[c]
    BY <2>1, <1>3 DEF Transaction, Steps
  <2>3. \A c \in {"event", "attempt", "read", "base", "dirty", "loaded", "pbase", "changed", "current",
                  "locked"} : t[c] = s[c]
    BY <2>2, <1>3 DEF Transaction
  <2>4. InStep(t)
    BY <2>2, <2>3, <1>2 DEF SessionInv, InStep
  <2>5. tx' = [tx EXCEPT ![w] = t] /\ UNCHANGED <<rows, Env>>
    BY <2>1, <1>1, <1>5 DEF Seen, Event
  <2>6. SessionInv(t)
    BY <2>2, <2>3, <2>4, <1>2, Moved
  <2> QED
    BY <2>5, <2>6, Within
<1> QED
  BY <1>4, <1>5

LEMMA GetGameInv == ASSUME SqlInv, NEW w \in Workers, GetGame(w) PROVE SqlInv'
<1> DEFINE row == games[Game(w)]
           next == CASE Kind(w) = "GamePublished"     -> "upsert_game"
                     [] Kind(w) = "GameWithdrawn"     -> IF Known(row) THEN "upsert_game" ELSE "mark"
                     [] Kind(w) = "PurchaseCompleted" -> IF Known(row) THEN "pref" ELSE "record"
                     [] Kind(w) = "ReviewPosted"      -> IF Known(row) THEN "pref" ELSE "mark"
<1>1. PICK s : s = tx[w]
  OBVIOUS
<1>2. SessionInv(s) /\ s.pc = "game" /\ Kind(w) = KindOf(s) /\ Game(w) = GameOf(s) /\ User(w) = UserOf(s)
  BY <1>1 DEF SqlInv, GetGame, At, Kind, KindOf, Game, GameOf, User, UserOf, Event
<1>3. /\ s \in Transaction /\ GameOf(s) \in Games
      /\ KindOf(s) \in {"GamePublished", "GameWithdrawn", "PurchaseCompleted", "ReviewPosted"}
      /\ KindOf(s) \in {"PurchaseCompleted", "ReviewPosted"} => UserOf(s) \in Users
  BY <1>2, OpenSession
<1>4. PICK step : step = next
  OBVIOUS
<1>5. /\ step \in {"upsert_game", "mark", "pref", "record"}
      /\ step = "upsert_game" => KindOf(s) = "GamePublished" \/ (KindOf(s) = "GameWithdrawn" /\ Known(row))
      /\ step = "pref" => KindOf(s) \in {"PurchaseCompleted", "ReviewPosted"} /\ Known(row)
      /\ step = "record" => KindOf(s) = "PurchaseCompleted" /\ ~ Known(row)
      /\ step = "mark" => KindOf(s) \in {"GameWithdrawn", "ReviewPosted"} /\ ~ Known(row)
  <2>1. CASE KindOf(s) = "GamePublished"
    <3>1. step = "upsert_game"
      BY <1>2, <1>4, <2>1
    <3> QED
      BY <3>1, <2>1
  <2>2. CASE KindOf(s) = "GameWithdrawn"
    <3>1. step = IF Known(row) THEN "upsert_game" ELSE "mark"
      BY <1>2, <1>4, <2>2
    <3> QED
      BY <3>1, <2>2
  <2>3. CASE KindOf(s) = "PurchaseCompleted"
    <3>1. step = IF Known(row) THEN "pref" ELSE "record"
      BY <1>2, <1>4, <2>3
    <3> QED
      BY <3>1, <2>3
  <2>4. CASE KindOf(s) = "ReviewPosted"
    <3>1. step = IF Known(row) THEN "pref" ELSE "mark"
      BY <1>2, <1>4, <2>4
    <3> QED
      BY <3>1, <2>4
  <2> QED
    BY <1>3, <2>1, <2>2, <2>3, <2>4
<1>6. PICK read : read = row
  OBVIOUS
<1>7. PICK todo : todo = IF step = "pref" THEN {User(w)} ELSE {}
  OBVIOUS
<1>8. read \in GameProfile /\ todo \in SUBSET Users
  BY <1>2, <1>3, <1>5, <1>6, <1>7 DEF SqlInv, Tables
<1>9. PICK t : t = [s EXCEPT !.read = read, !.todo = todo, !.pc = step]
  OBVIOUS
<1>10. tx' = [tx EXCEPT ![w] = t] /\ UNCHANGED <<rows, Env>>
  <2>1. tx \in [Workers -> Transaction]
    BY DEF SqlInv
  <2>2. tx' = [tx EXCEPT ![w].read = read, ![w].todo = todo, ![w].pc = step]
    BY <1>4, <1>6, <1>7 DEF GetGame
  <2> HIDE DEF row, next
  <2> QED
    BY <1>1, <1>9, <2>1, <2>2 DEF GetGame
<1> HIDE DEF next
<1>11. t \in Transaction /\ t.pc = step /\ t.read = read /\ t.todo = todo
  BY <1>3, <1>5, <1>8, <1>9 DEF Transaction, Steps
<1>12. /\ t.event = s.event /\ t.attempt = s.attempt /\ t.base = s.base /\ t.dirty = s.dirty
       /\ t.loaded = s.loaded /\ t.pbase = s.pbase /\ t.changed = s.changed /\ t.current = s.current
       /\ t.locked = s.locked
  BY <1>3, <1>9 DEF Transaction
<1>13. KindOf(t) = KindOf(s) /\ GameOf(t) = GameOf(s) /\ UserOf(t) = UserOf(s)
  BY <1>12 DEF KindOf, GameOf, UserOf
<1>14. ~ s.dirty /\ s.changed = {} /\ s.locked = {} /\ s.current = {}
  BY <1>2 DEF SessionInv, InStep
<1>15. InStep(t)
  BY <1>2, <1>5, <1>6, <1>7, <1>11, <1>12, <1>13, <1>14 DEF InStep, Folded, Written, Rewrites
<1>16. ReadEarlier(t)
  BY <1>2, <1>6, <1>11, <1>12, <1>13, <1>14 DEF SessionInv, ReadEarlier
<1>17. SecondAttempt(t) /\ TookEffect(t)
  BY <1>2, <1>5, <1>11, <1>12, <1>13 DEF SessionInv, SecondAttempt, TookEffect
<1> QED
  BY <1>10, <1>11, <1>15, <1>16, <1>17, Within DEF SessionInv

\* The row an upsert compares with is the one that is there, or the one the session loaded.
LEMMA UpsertGameInv == ASSUME SqlInv, NEW w \in Workers, UpsertGame(w) PROVE SqlInv'
<1>1. PICK s : s = tx[w]
  OBVIOUS
<1>2. s \in Transaction /\ SessionInv(s) /\ s.pc = "upsert_game" /\ Kind(w) = KindOf(s) /\ Game(w) = GameOf(s)
  BY <1>1 DEF SqlInv, UpsertGame, At, Kind, KindOf, Game, GameOf, Event
<1>3. /\ GameOf(s) \in Games /\ games[GameOf(s)] \in GameProfile /\ s.read \in GameProfile
      /\ KindOf(s) \in {"GamePublished", "GameWithdrawn", "PurchaseCompleted", "ReviewPosted"}
  BY <1>2, OpenSession DEF SqlInv, Tables, Transaction
<1>4. PICK step : step = IF Kind(w) = "GamePublished" THEN "owners" ELSE "mark"
  OBVIOUS
<1>5. PICK row \in Bases(games[Game(w)], tx[w].read, UnknownGame) :
          tx' = [tx EXCEPT ![w].base = row, ![w].dirty = TRUE, ![w].pc = step]
  BY <1>4 DEF UpsertGame
<1>6. row = games[GameOf(s)] \/ (row = s.read /\ s.read # UnknownGame)
  BY <1>1, <1>2, <1>5 DEF Bases
<1>7. PICK t : t = [s EXCEPT !.base = row, !.dirty = TRUE, !.pc = step]
  OBVIOUS
<1>8. tx' = [tx EXCEPT ![w] = t] /\ UNCHANGED <<rows, Env>>
  BY <1>1, <1>5, <1>7 DEF UpsertGame, SqlInv
<1>9. t \in Transaction /\ t.pc = step /\ t.base = row /\ t.dirty
  BY <1>2, <1>3, <1>4, <1>6, <1>7 DEF Transaction, Steps
<1>10. /\ t.event = s.event /\ t.attempt = s.attempt /\ t.read = s.read /\ t.loaded = s.loaded
       /\ t.pbase = s.pbase /\ t.changed = s.changed /\ t.current = s.current /\ t.locked = s.locked
       /\ t.batch = s.batch
  BY <1>2, <1>7 DEF Transaction
<1>11. KindOf(t) = KindOf(s) /\ GameOf(t) = GameOf(s) /\ UserOf(t) = UserOf(s)
  BY <1>10 DEF KindOf, GameOf, UserOf
<1>12. /\ Rewrites(s)
       /\ IF KindOf(s) = "PurchaseCompleted"
          THEN s.changed = Folded(s) /\ s.locked = Written(s)
          ELSE s.changed = {} /\ s.locked = {}
  BY <1>2 DEF SessionInv, InStep
<1>13. InStep(t)
  <2>1. CASE KindOf(s) = "GamePublished"
    BY <1>2, <1>4, <1>9, <1>10, <1>11, <1>12, <2>1 DEF InStep
  <2>2. CASE KindOf(s) = "GameWithdrawn"
    <3>1. Folded(t) = {} /\ Written(t) = {} /\ Rewrites(t) /\ step = "mark"
      BY <1>2, <1>4, <1>10, <1>11, <1>12, <2>2 DEF Folded, Written, Rewrites
    <3> QED
      BY <1>9, <1>10, <1>11, <1>12, <2>2, <3>1 DEF InStep
  <2>3. CASE KindOf(s) = "PurchaseCompleted"
    <3>1. Folded(t) = Folded(s) /\ Written(t) = Written(s) /\ Rewrites(t) /\ step = "mark"
      BY <1>2, <1>4, <1>10, <1>11, <1>12, <2>3 DEF Folded, Written, Rewrites
    <3> QED
      BY <1>9, <1>10, <1>11, <1>12, <2>3, <3>1 DEF InStep
  <2> QED
    BY <1>3, <1>12, <2>1, <2>2, <2>3 DEF Rewrites
<1>14. ReadEarlier(t)
  <2>1. ReadEarlier(s)
    BY <1>2 DEF SessionInv
  <2>2. Known(row) => Known(games[GameOf(s)])
    BY <1>6, <2>1, <1>2 DEF ReadEarlier
  <2>3. KindOf(s) # "GamePublished" => Known(row)
    BY <1>2, <1>6, <1>12, <2>1 DEF ReadEarlier, Rewrites
  <2> QED
    BY <1>9, <1>10, <1>11, <1>2, <2>1, <2>2, <2>3 DEF ReadEarlier
<1>15. SecondAttempt(t) /\ TookEffect(t)
  BY <1>2, <1>4, <1>9, <1>10, <1>11 DEF SessionInv, SecondAttempt, TookEffect
<1> QED
  BY <1>8, <1>9, <1>13, <1>14, <1>15, Within DEF SessionInv

LEMMA UncountedOwnersInv == ASSUME SqlInv, NEW w \in Workers, UncountedOwners(w) PROVE SqlInv'
<1> DEFINE waiting == {u \in Users : ownership[<<u, Game(w)>>] = "uncounted"}
<1>1. PICK s : s = tx[w]
  OBVIOUS
<1>2. s \in Transaction /\ SessionInv(s) /\ s.pc = "owners"
  BY <1>1 DEF SqlInv, UncountedOwners, At
<1>3. PICK batch \in BackfillBatches(waiting) :
          tx' = [tx EXCEPT ![w].batch = batch, ![w].todo = batch,
                           ![w].pc = IF batch = {} THEN "mark" ELSE "pref"]
  BY DEF UncountedOwners
<1>4. batch \in SUBSET Users
  BY <1>3 DEF BackfillBatches
<1>5. PICK step : step = IF batch = {} THEN "mark" ELSE "pref"
  OBVIOUS
<1>6. PICK t : t = [s EXCEPT !.batch = batch, !.todo = batch, !.pc = step]
  OBVIOUS
<1>7. tx' = [tx EXCEPT ![w] = t] /\ UNCHANGED <<rows, Env>>
  BY <1>1, <1>3, <1>5, <1>6 DEF UncountedOwners, SqlInv
<1>8. t \in Transaction /\ t.pc = step /\ t.batch = batch /\ t.todo = batch
  BY <1>2, <1>4, <1>5, <1>6 DEF Transaction, Steps
<1>9. /\ \A c \in {"event", "attempt", "read", "base", "dirty", "loaded", "pbase", "changed", "current"} :
            t[c] = s[c]
      /\ t.event = s.event /\ t.dirty = s.dirty /\ t.changed = s.changed /\ t.locked = s.locked
  BY <1>2, <1>6 DEF Transaction
<1>10. KindOf(s) = "GamePublished" /\ s.dirty /\ s.changed = {} /\ s.locked = {}
  BY <1>2 DEF SessionInv, InStep
<1>11. KindOf(t) = "GamePublished" /\ Folded(t) = batch /\ Rewrites(t)
  BY <1>8, <1>9, <1>10 DEF KindOf, Folded, Rewrites
<1>12. batch = {} => Written(t) = {}
  BY <1>8, <1>11 DEF Written
<1>13. InStep(t)
  BY <1>5, <1>8, <1>9, <1>10, <1>11, <1>12 DEF InStep
<1>14. SessionInv(t)
  BY <1>2, <1>5, <1>8, <1>9, <1>13, Moved
<1> QED
  BY <1>7, <1>14, Within

LEMMA GetPreferenceInv == ASSUME SqlInv, NEW w \in Workers, GetPreference(w) PROVE SqlInv'
<1>1. PICK s : s = tx[w]
  OBVIOUS
<1>2. s \in Transaction /\ SessionInv(s) /\ s.pc = "pref"
  BY <1>1 DEF SqlInv, GetPreference, At
<1>3. PICK u \in s.todo : tx' = [tx EXCEPT ![w].current = {u}, ![w].loaded[u] = prefs[u],
                                           ![w].pc = "upsert_pref"]
  BY <1>1 DEF GetPreference
<1>4. PICK row : row = prefs[u]
  OBVIOUS
<1>5. u \in Users /\ row \in UserPreference /\ Len(row.history) <= HistoryCap /\ Begins(row)
  BY <1>2, <1>3, <1>4 DEF SqlInv, Tables, Transaction
<1>6. PICK loaded : loaded = [s.loaded EXCEPT ![u] = row]
  OBVIOUS
<1>7. loaded \in [Users -> UserPreference]
  BY <1>2, <1>5, <1>6 DEF Transaction
<1>8. PICK t : t = [s EXCEPT !.current = {u}, !.loaded = loaded, !.pc = "upsert_pref"]
  OBVIOUS
<1>9. tx' = [tx EXCEPT ![w] = t] /\ UNCHANGED <<rows, Env>>
  <2>1. tx' = [tx EXCEPT ![w].current = {u}, ![w].loaded = loaded, ![w].pc = "upsert_pref"]
    BY <1>1, <1>2, <1>3, <1>4, <1>6 DEF SqlInv, Transaction
  <2> QED
    BY <1>1, <1>8, <2>1 DEF GetPreference, SqlInv
<1>10. t \in Transaction /\ t.pc = "upsert_pref" /\ t.current = {u} /\ t.loaded = loaded
  BY <1>2, <1>5, <1>7, <1>8 DEF Transaction, Steps
<1>11. /\ t.event = s.event /\ t.attempt = s.attempt /\ t.read = s.read /\ t.base = s.base
       /\ t.dirty = s.dirty /\ t.pbase = s.pbase /\ t.changed = s.changed /\ t.locked = s.locked
       /\ t.batch = s.batch /\ t.todo = s.todo
  BY <1>2, <1>8 DEF Transaction
<1>12. KindOf(t) = KindOf(s) /\ GameOf(t) = GameOf(s) /\ UserOf(t) = UserOf(s) /\ Folded(t) = Folded(s)
  BY <1>11 DEF KindOf, GameOf, UserOf, Folded
<1>13. InStep(t)
  BY <1>2, <1>3, <1>10, <1>11, <1>12 DEF SessionInv, InStep
<1>14. ReadEarlier(t)
  <2>1. ReadEarlier(s)
    BY <1>2 DEF SessionInv
  <2>2. ASSUME NEW v \in Users
        PROVE  /\ Len(t.loaded[v].history) <= HistoryCap
               /\ Begins(t.loaded[v]) /\ Begins(t.pbase[v])
               /\ prefs[v] = Blank => t.loaded[v] = Blank /\ t.pbase[v] = Blank
               /\ \A g \in Games : Claims(t.loaded[v], g) => ownership[<<v, g>>] = "counted"
    <3>1. CASE v = u
      <4>1. t.loaded[v] = prefs[v]
        BY <1>2, <1>4, <1>5, <1>6, <1>10, <3>1 DEF Transaction
      <4> QED
        BY <1>4, <1>5, <1>11, <2>1, <3>1, <4>1 DEF SqlInv, Tables, ReadEarlier
    <3>2. CASE v # u
      <4>1. t.loaded[v] = s.loaded[v]
        BY <1>2, <1>6, <1>10, <3>2 DEF Transaction
      <4> QED
        BY <1>11, <2>1, <4>1 DEF ReadEarlier
    <3> QED
      BY <3>1, <3>2
  <2> QED
    BY <1>2, <1>10, <1>11, <1>12, <2>1, <2>2 DEF ReadEarlier
<1>15. SecondAttempt(t) /\ TookEffect(t)
  <2>1. SecondAttempt(s) /\ TookEffect(s)
    BY <1>2 DEF SessionInv
  <2>2. UserOf(t) = u => t.loaded[u] = prefs[u]
    BY <1>2, <1>4, <1>5, <1>6, <1>10 DEF Transaction
  <2>3. UserOf(t) # u => t.loaded[UserOf(t)] = s.loaded[UserOf(t)]
    BY <1>2, <1>6, <1>10 DEF Transaction
  <2> QED
    BY <1>2, <1>10, <1>11, <1>12, <2>1, <2>2, <2>3 DEF SecondAttempt, TookEffect
<1> QED
  BY <1>9, <1>10, <1>13, <1>14, <1>15, Within DEF SessionInv

LEMMA UpsertPreferenceInv == ASSUME SqlInv, NEW w \in Workers, UpsertPreference(w) PROVE SqlInv'
<1> DEFINE next == CASE Kind(w) = "GamePublished"     -> "mark_counted"
                     [] Kind(w) = "PurchaseCompleted" -> "record"
                     [] Kind(w) = "ReviewPosted"      -> "mark"
<1>1. PICK s : s = tx[w]
  OBVIOUS
<1>2. s \in Transaction /\ SessionInv(s) /\ s.pc = "upsert_pref" /\ Kind(w) = KindOf(s)
  BY <1>1 DEF SqlInv, UpsertPreference, At, Kind, KindOf, Event
<1>3. PICK u \in tx[w].current : \E row \in Bases(prefs[u], tx[w].loaded[u], Blank) :
          tx' = [tx EXCEPT ![w].pbase[u] = row, ![w].changed = @ \cup {u}, ![w].current = {},
                           ![w].todo = @ \ {u}, ![w].pc = IF tx[w].todo # {u} THEN "pref" ELSE next]
  BY DEF UpsertPreference
<1>4. PICK row \in Bases(prefs[u], tx[w].loaded[u], Blank) :
          tx' = [tx EXCEPT ![w].pbase[u] = row, ![w].changed = @ \cup {u}, ![w].current = {},
                           ![w].todo = @ \ {u}, ![w].pc = IF tx[w].todo # {u} THEN "pref" ELSE next]
  BY <1>3
<1>5. /\ KindOf(s) \in {"GamePublished", "PurchaseCompleted", "ReviewPosted"}
      /\ s.dirty <=> KindOf(s) = "GamePublished"
      /\ s.changed \cup s.todo = Folded(s) /\ s.locked = {}
      /\ u \in s.todo /\ s.current = {u}
  BY <1>1, <1>2, <1>3, OpenSession DEF SessionInv, InStep
<1>6. u \in Users /\ prefs[u] \in UserPreference /\ s.loaded[u] \in UserPreference
  BY <1>2, <1>5 DEF SqlInv, Tables, Transaction
<1>7. row = prefs[u] \/ (row = s.loaded[u] /\ row # Blank)
  BY <1>1, <1>4 DEF Bases
<1>8. PICK step : step = IF s.todo # {u} THEN "pref" ELSE next
  OBVIOUS
<1>9. /\ step \in {"pref", "mark_counted", "record", "mark"}
      /\ step = "pref" <=> s.todo # {u}
      /\ step = "mark_counted" => KindOf(s) = "GamePublished"
      /\ step = "record" => KindOf(s) = "PurchaseCompleted"
      /\ step = "mark" => KindOf(s) = "ReviewPosted"
  <2>1. CASE s.todo # {u}
    <3> HIDE DEF next
    <3> QED
      BY <1>8, <2>1
  <2>2. CASE s.todo = {u} /\ KindOf(s) = "GamePublished"
    <3>1. step = "mark_counted"
      BY <1>2, <1>8, <2>2
    <3> HIDE DEF next
    <3> QED
      BY <3>1, <2>2
  <2>3. CASE s.todo = {u} /\ KindOf(s) = "PurchaseCompleted"
    <3>1. step = "record"
      BY <1>2, <1>8, <2>3
    <3> HIDE DEF next
    <3> QED
      BY <3>1, <2>3
  <2>4. CASE s.todo = {u} /\ KindOf(s) = "ReviewPosted"
    <3>1. step = "mark"
      BY <1>2, <1>8, <2>4
    <3> HIDE DEF next
    <3> QED
      BY <3>1, <2>4
  <2> QED
    BY <1>5, <2>1, <2>2, <2>3, <2>4
<1> HIDE DEF next
<1>10. PICK pbase : pbase = [s.pbase EXCEPT ![u] = row]
  OBVIOUS
<1>11. pbase \in [Users -> UserPreference]
  BY <1>2, <1>6, <1>7, <1>10 DEF Transaction
<1>12. PICK t : t = [s EXCEPT !.pbase = pbase, !.changed = @ \cup {u}, !.current = {},
                              !.todo = @ \ {u}, !.pc = step]
  OBVIOUS
<1>13. tx' = [tx EXCEPT ![w] = t] /\ UNCHANGED <<rows, Env>>
  <2>1. tx' = [tx EXCEPT ![w].pbase[u] = row, ![w].changed = @ \cup {u}, ![w].current = {},
                         ![w].todo = @ \ {u}, ![w].pc = step]
    BY <1>1, <1>4, <1>8
  <2>2. tx \in [Workers -> Transaction]
    BY DEF SqlInv
  <2>3. tx' = [tx EXCEPT ![w] = t]
    BY <1>1, <1>10, <1>12, <2>1, <2>2
  <2> QED
    BY <2>3 DEF UpsertPreference
<1>14. /\ t \in Transaction /\ t.pc = step /\ t.pbase = pbase /\ t.changed = s.changed \cup {u}
       /\ t.current = {} /\ t.todo = s.todo \ {u}
  BY <1>2, <1>6, <1>9, <1>11, <1>12 DEF Transaction, Steps
<1>15. /\ t.event = s.event /\ t.attempt = s.attempt /\ t.read = s.read /\ t.base = s.base
       /\ t.dirty = s.dirty /\ t.loaded = s.loaded /\ t.locked = s.locked /\ t.batch = s.batch
  BY <1>2, <1>12 DEF Transaction
<1>16. KindOf(t) = KindOf(s) /\ GameOf(t) = GameOf(s) /\ UserOf(t) = UserOf(s) /\ Folded(t) = Folded(s)
  BY <1>15 DEF KindOf, GameOf, UserOf, Folded
<1>17. InStep(t)
  <2>1. t.changed \cup t.todo = Folded(t)
    BY <1>5, <1>14, <1>16
  <2>2. CASE step = "pref"
    BY <1>5, <1>9, <1>14, <1>15, <1>16, <2>1, <2>2 DEF InStep
  <2>3. CASE step # "pref"
    <3>1. t.todo = {} /\ t.changed = Folded(t)
      BY <1>9, <1>14, <2>1, <2>3
    <3>2. step = "mark" => Written(t) = {} /\ ~ Rewrites(t)
      BY <1>9, <1>16 DEF Written, Rewrites
    <3> QED
      BY <1>5, <1>9, <1>14, <1>15, <1>16, <3>1, <3>2, <2>3 DEF InStep
  <2> QED
    BY <2>2, <2>3
<1>18. ReadEarlier(t)
  <2>1. ReadEarlier(s)
    BY <1>2 DEF SessionInv
  <2>2. ASSUME NEW v \in Users PROVE Begins(t.pbase[v]) /\ (prefs[v] = Blank => t.pbase[v] = Blank)
    <3>1. CASE v = u
      <4>1. t.pbase[v] = row
        BY <1>2, <1>6, <1>10, <1>14, <3>1 DEF Transaction
      <4> QED
        BY <1>6, <1>7, <2>1, <3>1, <4>1 DEF SqlInv, Tables, ReadEarlier
    <3>2. CASE v # u
      <4>1. t.pbase[v] = s.pbase[v]
        BY <1>2, <1>10, <1>14, <3>2 DEF Transaction
      <4> QED
        BY <2>1, <4>1 DEF ReadEarlier
    <3> QED
      BY <3>1, <3>2
  <2> QED
    BY <1>2, <1>14, <1>9, <1>15, <1>16, <2>1, <2>2 DEF ReadEarlier
<1>19. SecondAttempt(t) /\ TookEffect(t)
  <2>1. SecondAttempt(s) /\ TookEffect(s)
    BY <1>2 DEF SessionInv
  <2>2. UserOf(t) = u => t.pbase[u] = row
    BY <1>2, <1>6, <1>10, <1>14 DEF Transaction
  <2>3. UserOf(t) # u => t.pbase[UserOf(t)] = s.pbase[UserOf(t)]
    BY <1>2, <1>10, <1>14 DEF Transaction
  <2> QED
    BY <1>2, <1>5, <1>7, <1>9, <1>14, <1>15, <1>16, <2>1, <2>2, <2>3 DEF SecondAttempt, TookEffect
<1> QED
  BY <1>13, <1>14, <1>17, <1>18, <1>19, Within DEF SessionInv

\* The statements on ownerships and processed_events write a row, and read nothing.
LEMMA RecordOwnershipInv == ASSUME SqlInv, NEW w \in Workers, RecordOwnership(w) PROVE SqlInv'
<1>1. PICK s : s = tx[w]
  OBVIOUS
<1>2. /\ s \in Transaction /\ SessionInv(s) /\ s.pc = "record" /\ KindOf(s) = Kind(w) /\ GameOf(s) = Game(w)
      /\ UserOf(s) = User(w)
  BY <1>1 DEF SqlInv, RecordOwnership, At, Kind, KindOf, Game, GameOf, User, UserOf, Event
<1>3. KindOf(s) = "PurchaseCompleted" /\ ~ s.dirty /\ s.changed = Folded(s) /\ s.locked = {}
  BY <1>2 DEF SessionInv, InStep
<1>4. UserOf(s) \in Users /\ GameOf(s) \in Games
  BY <1>2, <1>3, OpenSession
<1>5. PICK step : step = IF Counted(w) THEN "upsert_game" ELSE "mark"
  OBVIOUS
<1>6. Counted(w) <=> Known(s.read)
  BY <1>1, <1>2, <1>3 DEF Counted
<1>7. PICK written : written = {<<UserOf(s), GameOf(s)>>}
  OBVIOUS
<1>8. PICK t : t = [s EXCEPT !.locked = written, !.pc = step]
  OBVIOUS
<1>9. tx' = [tx EXCEPT ![w] = t] /\ UNCHANGED <<rows, Env>>
  <2>1. tx' = [tx EXCEPT ![w].locked = written, ![w].pc = step]
    BY <1>2, <1>5, <1>7 DEF RecordOwnership
  <2> QED
    BY <1>1, <1>8, <2>1 DEF RecordOwnership, SqlInv
<1>10. t \in Transaction /\ t.pc = step /\ t.locked = written
  <2>1. written \in SUBSET (Users \X Games)
    BY <1>4, <1>7
  <2> QED
    BY <1>2, <1>5, <1>8, <2>1 DEF Transaction, Steps
<1>11. /\ \A c \in {"event", "attempt", "read", "base", "dirty", "loaded", "pbase", "changed", "current"} :
             t[c] = s[c]
       /\ t.event = s.event /\ t.read = s.read /\ t.dirty = s.dirty /\ t.changed = s.changed
  BY <1>2, <1>8 DEF Transaction
<1>12. KindOf(t) = KindOf(s) /\ Folded(t) = Folded(s) /\ Written(t) = written
  BY <1>3, <1>7, <1>11 DEF KindOf, GameOf, UserOf, Folded, Written
<1>13. InStep(t)
  BY <1>3, <1>5, <1>6, <1>10, <1>11, <1>12 DEF InStep, Rewrites
<1>14. SessionInv(t)
  BY <1>2, <1>5, <1>10, <1>11, <1>13, Moved
<1> QED
  BY <1>9, <1>14, Within

LEMMA MarkCountedInv == ASSUME SqlInv, NEW w \in Workers, MarkCounted(w) PROVE SqlInv'
<1>1. PICK s : s = tx[w]
  OBVIOUS
<1>2. s \in Transaction /\ SessionInv(s) /\ s.pc = "mark_counted" /\ GameOf(s) = Game(w)
  BY <1>1 DEF SqlInv, MarkCounted, At, Game, GameOf, Event
<1>3. KindOf(s) = "GamePublished" /\ s.dirty /\ s.changed = Folded(s)
  BY <1>2 DEF SessionInv, InStep
<1>4. GameOf(s) \in Games /\ s.batch \in SUBSET Users
  BY <1>2, OpenSession DEF Transaction
<1>5. PICK written : written = s.batch \X {GameOf(s)}
  OBVIOUS
<1>6. PICK t : t = [s EXCEPT !.locked = written, !.pc = "mark"]
  OBVIOUS
<1>7. tx' = [tx EXCEPT ![w] = t] /\ UNCHANGED <<rows, Env>>
  <2>1. tx' = [tx EXCEPT ![w].locked = written, ![w].pc = "mark"]
    BY <1>1, <1>2, <1>5 DEF MarkCounted
  <2> QED
    BY <1>1, <1>6, <2>1 DEF MarkCounted, SqlInv
<1>8. t \in Transaction /\ t.pc = "mark" /\ t.locked = written
  <2>1. written \in SUBSET (Users \X Games)
    BY <1>4, <1>5
  <2> QED
    BY <1>2, <1>6, <2>1 DEF Transaction, Steps
<1>9. /\ \A c \in {"event", "attempt", "read", "base", "dirty", "loaded", "pbase", "changed", "current"} :
            t[c] = s[c]
      /\ t.event = s.event /\ t.batch = s.batch /\ t.dirty = s.dirty /\ t.changed = s.changed
  BY <1>2, <1>6 DEF Transaction
<1>10. KindOf(t) = KindOf(s) /\ Folded(t) = Folded(s) /\ Written(t) = written
  BY <1>3, <1>5, <1>9 DEF KindOf, GameOf, UserOf, Folded, Written
<1>11. InStep(t)
  BY <1>3, <1>8, <1>9, <1>10 DEF InStep, Rewrites
<1>12. SessionInv(t)
  BY <1>2, <1>8, <1>9, <1>11, Moved
<1> QED
  BY <1>7, <1>12, Within

LEMMA MarkProcessedInv == ASSUME SqlInv, NEW w \in Workers, MarkProcessed(w) PROVE SqlInv'
<1>1. PICK s : s = tx[w]
  OBVIOUS
<1>2. s \in Transaction /\ SessionInv(s) /\ s.pc = "mark"
  BY <1>1 DEF SqlInv, MarkProcessed, At
<1>3. PICK t : t = [s EXCEPT !.marked = TRUE, !.pc = "commit"]
  OBVIOUS
<1>4. tx' = [tx EXCEPT ![w] = t] /\ UNCHANGED <<rows, Env>>
  BY <1>1, <1>3 DEF MarkProcessed, SqlInv
<1>5. t \in Transaction /\ t.pc = "commit"
  BY <1>2, <1>3 DEF Transaction, Steps
<1>6. /\ \A c \in {"event", "attempt", "read", "base", "dirty", "loaded", "pbase", "changed", "current"} :
            t[c] = s[c]
      /\ t.event = s.event /\ t.batch = s.batch /\ t.dirty = s.dirty /\ t.changed = s.changed
      /\ t.read = s.read /\ t.locked = s.locked
  BY <1>2, <1>3 DEF Transaction
<1>7. Folded(t) = Folded(s) /\ Written(t) = Written(s) /\ Rewrites(t) = Rewrites(s)
  BY <1>6 DEF KindOf, GameOf, UserOf, Folded, Written, Rewrites
<1>8. InStep(t)
  BY <1>2, <1>5, <1>6, <1>7 DEF SessionInv, InStep
<1>9. SessionInv(t)
  BY <1>2, <1>5, <1>6, <1>8, Moved
<1> QED
  BY <1>4, <1>9, Within

-----------------------------------------------------------------------------
(* Delivery.                                                               *)

\* Steps that leave the rows alone: no session has anything to fear, and one is replaced.
LEMMA RowsUnchanged ==
    ASSUME SqlInv, UNCHANGED rows, rerouted \subseteq rerouted',
           rerouted' \subseteq Events, uncommitted' \subseteq Events, mishaps' \in 0 .. MaxMishaps
    PROVE  Tables' /\ RowsStay
BY DEF rows, SqlInv, Tables, RowsStay

LEMMA DeliverInv ==
    ASSUME SqlInv, NEW w \in Workers, NEW e \in Events, Deliver(w, e) \/ Rebalance(w, e)
    PROVE  SqlInv'
<1>1. /\ UNCHANGED rows /\ UNCHANGED rerouted /\ UNCHANGED uncommitted
      /\ mishaps' = mishaps \/ (mishaps < MaxMishaps /\ mishaps' = mishaps + 1)
  BY DEF Deliver, Rebalance
<1>2. Tables' /\ RowsStay
  <2>1. mishaps' \in 0 .. MaxMishaps
    BY <1>1, WorkersAssumption DEF SqlInv, Tables
  <2> QED
    BY <1>1, <2>1, RowsUnchanged DEF SqlInv, Tables
<1>3. PICK t : t = Begun(e, 1)
  OBVIOUS
<1>4. SessionInv(t)
  <2>1. t.attempt = 1
    BY <1>3 DEF Begun, NoTx
  <2>2. SecondAttempt(t)
    BY <2>1 DEF SecondAttempt
  <2> QED
    BY <1>3, <2>2, BegunSession, WorkersAssumption
<1>5. tx' = [tx EXCEPT ![w] = t]
  BY <1>3 DEF Deliver, Rebalance
<1> QED
  BY <1>2, <1>4, <1>5, SessionStays, OneWorker

LEMMA CrashInv == ASSUME SqlInv, NEW w \in Workers, Crash(w) PROVE SqlInv'
<1>1. Tables' /\ RowsStay
  <2>1. mishaps' \in 0 .. MaxMishaps
    BY WorkersAssumption DEF Crash, SqlInv, Tables
  <2> QED
    BY <2>1, RowsUnchanged DEF Crash, SqlInv, Tables
<1>2. SessionInv(NoTx)'
  BY <1>1, ClosedSession, SessionStays
<1>3. tx' = [tx EXCEPT ![w] = NoTx]
  BY DEF Crash
<1> QED
  BY <1>1, <1>2, <1>3, OneWorker

LEMMA AckInv == ASSUME SqlInv, NEW w \in Workers, Ack(w) PROVE SqlInv'
<1>1. Tables' /\ RowsStay
  BY RowsUnchanged DEF Ack, SqlInv, Tables
<1>2. SessionInv(NoTx)'
  BY <1>1, ClosedSession, SessionStays
<1>3. tx' = [tx EXCEPT ![w] = NoTx]
  BY DEF Ack
<1> QED
  BY <1>1, <1>2, <1>3, OneWorker

-----------------------------------------------------------------------------
(* The commit that fails.                                                  *)

\* A handler that writes one profile fails only for that profile, found absent and now there: never
\* in a second attempt.
LEMMA DuplicateIsNew ==
    ASSUME SqlInv, NEW w \in Workers, NEW s \in Transaction, s = tx[w], s.pc = "commit",
           DuplicateKey(w), KindOf(s) # "GamePublished"
    PROVE  /\ KindOf(s) # "GameWithdrawn" /\ prefs[UserOf(s)] # Blank
           /\ s.attempt = 1
<1>1. SessionInv(s) /\ Game(w) = GameOf(s)
  BY DEF SqlInv, Game, GameOf, Event
<1>2. /\ s.dirty => Known(s.base)
      /\ s.changed = Folded(s)
      /\ KindOf(s) \in {"GameWithdrawn", "PurchaseCompleted", "ReviewPosted"}
  BY <1>1, OpenSession DEF SessionInv, ReadEarlier, InStep
<1>3. PICK u \in s.changed : s.pbase[u] = Blank /\ prefs[u] # Blank
  BY <1>1, <1>2 DEF DuplicateKey
<1>4. KindOf(s) # "GameWithdrawn" /\ u = UserOf(s)
  BY <1>2, <1>3 DEF Folded
<1> QED
  BY <1>1, <1>3, <1>4 DEF SessionInv, SecondAttempt

LEMMA CommitFailsInv == ASSUME SqlInv, NEW w \in Workers, CommitFails(w) PROVE SqlInv'
<1>1. PICK s \in Transaction : s = tx[w]
  BY DEF SqlInv
<1>2. SessionInv(s) /\ s.pc = "commit" /\ Event(w) = s.event /\ DuplicateKey(w)
  BY <1>1 DEF SqlInv, CommitFails, At, Event
<1>3. s.event \in Events /\ s.attempt \in 0 .. MaxRetries
  BY <1>2, OpenSession DEF Transaction
<1>4. CASE s.attempt < MaxRetries
  <2>1. PICK t : t = Begun(s.event, s.attempt + 1)
    OBVIOUS
  <2>2. t.event = s.event /\ t.current = {} /\ t.changed = {} /\ t.pc = "seen"
    BY <2>1 DEF Begun, NoTx
  <2>3. SecondAttempt(t)
    <3>1. KindOf(t) = KindOf(s) /\ UserOf(t) = UserOf(s)
      BY <2>2 DEF KindOf, UserOf
    <3> QED
      BY <1>1, <1>2, <2>2, <3>1, DuplicateIsNew DEF SecondAttempt
  <2>4. s.attempt + 1 \in 1 .. MaxRetries
    BY <1>3, <1>4, WorkersAssumption
  <2>5. SessionInv(t)
    BY <1>3, <2>1, <2>3, <2>4, BegunSession
  <2>6. tx' = [tx EXCEPT ![w] = t] /\ UNCHANGED <<rows, Env>>
    BY <1>1, <1>2, <1>4, <2>1 DEF CommitFails, Env
  <2> QED
    BY <2>5, <2>6, Within
<1>5. CASE ~ (s.attempt < MaxRetries)
  <2>1. PICK t : t = Returned(s.event)
    OBVIOUS
  <2>2. Holds(t, "ack") /\ t.event = s.event
    BY <1>3, <2>1, ReturnedSession
  <2>3. tx' = [tx EXCEPT ![w] = t] /\ rerouted' = rerouted \cup {s.event} /\ UNCHANGED rows
        /\ UNCHANGED uncommitted /\ UNCHANGED mishaps
    BY <1>1, <1>2, <1>5, <2>1 DEF CommitFails, Returned
  <2>4. Tables' /\ RowsStay
    BY <1>3, <2>3, RowsUnchanged DEF SqlInv, Tables
  <2>5. KindOf(t) = "GamePublished" \/ MaxRetries = 1
    <3>1. KindOf(t) = KindOf(s)
      BY <2>2 DEF KindOf
    <3>2. CASE KindOf(s) # "GamePublished"
      <4>1. s.attempt = 1
        BY <1>1, <1>2, <3>2, DuplicateIsNew
      <4> QED
        BY <1>5, <4>1, WorkersAssumption
    <3> QED
      BY <3>1, <3>2
  <2>6. TookEffect(t)'
    BY <1>3, <2>2, <2>3, <2>5 DEF TookEffect, Holds, KindOf
  <2>7. InStep(t) /\ ReadEarlier(t)' /\ SecondAttempt(t)'
    BY <2>2, BlankType, BlankClaimsNothing
    DEF Holds, InStep, ReadEarlier, SecondAttempt, Known, UnknownGame
  <2>8. SessionInv(t)'
    BY <2>2, <2>6, <2>7 DEF SessionInv, Holds
  <2> QED
    BY <2>3, <2>4, <2>8, OneWorker
<1> QED
  BY <1>4, <1>5

-----------------------------------------------------------------------------
(* The commit.                                                             *)

\* What the session computes for the game, from the row it read, is a row of a game that is known.
LEMMA NewGameType ==
    ASSUME SqlInv, NEW w \in Workers, NEW s \in Transaction, s = tx[w], s.pc = "commit", s.dirty
    PROVE  NewGame(w) \in GameProfile /\ Known(NewGame(w))
<1>1. SessionInv(s) /\ Kind(w) = KindOf(s) /\ Event(w) = s.event
  BY DEF SqlInv, Kind, KindOf, Event
<1>2. Rewrites(s) /\ s.event \in Events /\ s.read \in GameProfile
  BY <1>1, OpenSession DEF SessionInv, InStep, Transaction
<1>3. CASE KindOf(s) = "GamePublished"
  <2>1. NewGame(w) = IF Known(s.read) THEN Redescribed(s.read, s.event) ELSE Published(s.event)
    BY <1>1, <1>3 DEF NewGame
  <2> QED
    BY <1>2, <2>1, GameRowType
<1>4. CASE KindOf(s) = "GameWithdrawn"
  <2>1. NewGame(w) = Withdrawn(s.read) /\ Known(s.read)
    BY <1>1, <1>2, <1>4 DEF NewGame, Rewrites
  <2> QED
    BY <1>2, <2>1, GameRowType
<1>5. CASE KindOf(s) = "PurchaseCompleted"
  <2>1. NewGame(w) = Bought(s.read) /\ Known(s.read)
    BY <1>1, <1>2, <1>5 DEF NewGame, Rewrites
  <2> QED
    BY <1>2, <2>1, GameRowType
<1> QED
  BY <1>1, <1>2, <1>3, <1>4, <1>5, OpenSession DEF Rewrites

\* The kind of the signal a session folds in.
LEMMA SignalType ==
    ASSUME NEW w \in Workers, Event(w) \in Events, Kind(w) # "GameWithdrawn"
    PROVE  Signal(w) \in SignalKinds /\ (Signal(w) = "PURCHASE" <=> Kind(w) # "ReviewPosted")
BY BodyType DEF Signal, SignalKinds, Kind

\* What the session computes for a profile it writes: a claim it adds is one it flags.
LEMMA NewPreferenceType ==
    ASSUME SqlInv, NEW w \in Workers, NEW s \in Transaction, s = tx[w], s.pc = "commit",
           NEW u \in s.changed
    PROVE  /\ u \in Users
           /\ NewPreference(w, u) \in UserPreference
           /\ Len(NewPreference(w, u).history) <= HistoryCap
           /\ NewPreference(w, u).signal_count > 0
           /\ \A g \in Games : Claims(NewPreference(w, u), g) =>
                 \/ ownership[<<u, g>>] = "counted"
                 \/ <<u, g>> \in s.locked /\ Counted(w)
<1>1. SessionInv(s) /\ Kind(w) = KindOf(s) /\ Event(w) = s.event /\ Game(w) = GameOf(s) /\ User(w) = UserOf(s)
  BY DEF SqlInv, Kind, KindOf, Event, Game, GameOf, User, UserOf
<1>2. s.changed = Folded(s) /\ s.locked = Written(s) /\ s.event \in Events /\ GameOf(s) \in Games
  BY <1>1, OpenSession DEF SessionInv, InStep
<1>3. u \in Users /\ s.loaded[u] \in UserPreference /\ Len(s.loaded[u].history) <= HistoryCap
  BY <1>1 DEF SessionInv, ReadEarlier, Transaction
<1>4. KindOf(s) \in {"GamePublished", "PurchaseCompleted", "ReviewPosted"}
  BY <1>1, <1>2, OpenSession DEF Folded
<1>5. Signal(w) \in SignalKinds /\ (Signal(w) = "PURCHASE" <=> KindOf(s) # "ReviewPosted")
  BY <1>1, <1>2, <1>4, SignalType
<1>6. NewPreference(w, u) = Observe(s.loaded[u], GameOf(s), Signal(w))
  BY <1>1 DEF NewPreference
<1>7. ASSUME NEW g \in Games, Claims(NewPreference(w, u), g), ~ (ownership[<<u, g>>] = "counted")
      PROVE  <<u, g>> \in s.locked /\ Counted(w)
  <2>1. ~ Claims(s.loaded[u], g)
    BY <1>1, <1>3, <1>7 DEF SessionInv, ReadEarlier
  <2>2. g = GameOf(s) /\ Signal(w) = "PURCHASE"
    BY <1>2, <1>3, <1>5, <1>6, <1>7, <2>1, ObserveClaims
  <2>3. CASE KindOf(s) = "GamePublished"
    BY <1>1, <1>2, <2>2, <2>3 DEF Folded, Written, Counted
  <2>4. CASE KindOf(s) = "PurchaseCompleted"
    <3>1. Known(s.read) /\ u = UserOf(s)
      BY <1>2, <2>4 DEF Folded
    <3> QED
      BY <1>1, <1>2, <2>2, <2>4, <3>1 DEF Written, Counted
  <2> QED
    BY <1>4, <1>5, <2>2, <2>3, <2>4
<1> QED
  BY <1>2, <1>3, <1>5, <1>6, <1>7, ObserveType

\* The row of a game after the flush.
LEMMA CommitGames ==
    ASSUME SqlInv, NEW w \in Workers, Commit(w)
    PROVE  games' \in [Games -> GameProfile] /\ \A g \in Games : Known(games[g]) => Known(games'[g])
<1>1. PICK s \in Transaction : s = tx[w]
  BY DEF SqlInv
<1>2. SessionInv(s) /\ s.pc = "commit" /\ Game(w) = GameOf(s) /\ games \in [Games -> GameProfile]
  BY <1>1 DEF SqlInv, Tables, Commit, At, Game, GameOf, Event
<1>3. GameOf(s) \in Games /\ s.base \in GameProfile
  BY <1>2, OpenSession DEF Transaction
<1>4. CASE ~ s.dirty
  BY <1>1, <1>2, <1>4 DEF Commit
<1>5. CASE s.dirty
  <2>1. PICK row : row = Flushed(NewGame(w), s.base, games[GameOf(s)])
    OBVIOUS
  <2>2. games' = [games EXCEPT ![GameOf(s)] = row]
    BY <1>1, <1>2, <1>5, <2>1 DEF Commit
  <2>3. row \in GameProfile /\ (Known(games[GameOf(s)]) => Known(row))
    BY <1>1, <1>2, <1>3, <1>5, <2>1, NewGameType, FlushedGame
  <2> QED
    BY <1>2, <1>3, <2>2, <2>3
<1> QED
  BY <1>4, <1>5

\* The row of a profile after the flush.
LEMMA CommitPreferences ==
    ASSUME SqlInv, NEW w \in Workers, Commit(w), NEW u \in Users
    PROVE  /\ prefs'[u] \in UserPreference /\ Len(prefs'[u].history) <= HistoryCap /\ Begins(prefs'[u])
           /\ prefs'[u] = Blank => prefs[u] = Blank
           /\ \A g \in Games : Claims(prefs'[u], g) =>
                 \/ ownership[<<u, g>>] = "counted"
                 \/ <<u, g>> \in tx[w].locked /\ Counted(w)
<1>1. PICK s \in Transaction : s = tx[w]
  BY DEF SqlInv
<1>2. SessionInv(s) /\ s.pc = "commit"
  BY <1>1 DEF SqlInv, Commit, At
<1>3. PICK row : row = prefs[u]
  OBVIOUS
<1>4. /\ row \in UserPreference /\ Len(row.history) <= HistoryCap /\ Begins(row)
      /\ \A g \in Games : Claims(row, g) => ownership[<<u, g>>] = "counted"
  BY <1>3 DEF SqlInv, Tables
<1>5. CASE u \notin s.changed
  <2>1. prefs'[u] = row
    BY <1>1, <1>3, <1>5 DEF Commit
  <2> QED
    BY <1>3, <1>4, <2>1
<1>6. CASE u \in s.changed
  <2>1. PICK new : new = NewPreference(w, u)
    OBVIOUS
  <2>2. /\ new \in UserPreference /\ Len(new.history) <= HistoryCap /\ new.signal_count > 0
        /\ \A g \in Games : Claims(new, g) => \/ ownership[<<u, g>>] = "counted"
                                              \/ <<u, g>> \in s.locked /\ Counted(w)
    BY <1>1, <1>2, <1>6, <2>1, NewPreferenceType
  <2>3. PICK base : base = s.pbase[u]
    OBVIOUS
  <2>4. base \in UserPreference /\ (row = Blank => base = Blank)
    BY <1>2, <1>3, <2>3 DEF SessionInv, ReadEarlier, Transaction
  <2>5. PICK f : f = Flushed(new, base, row)
    OBVIOUS
  <2>6. prefs'[u] = f
    BY <1>1, <1>3, <1>6, <2>1, <2>3, <2>5 DEF Commit
  <2>7. /\ f \in UserPreference
        /\ f.owned \in {new.owned, row.owned} /\ f.taste \in {new.taste, row.taste}
        /\ f.history \in {new.history, row.history}
        /\ f.signal_count = IF new.signal_count # base.signal_count THEN new.signal_count
                                                                   ELSE row.signal_count
    BY <1>4, <2>2, <2>4, <2>5, FlushedPreference
  <2>8. f.signal_count > 0
    <3>1. CASE row = Blank
      BY <2>2, <2>4, <2>7, <3>1 DEF Blank
    <3>2. CASE row # Blank
      BY <1>4, <2>2, <2>7, <3>2 DEF Begins
    <3> QED
      BY <3>1, <3>2
  <2>9. Begins(f) /\ f # Blank
    BY <2>8 DEF Begins, Blank
  <2>10. ASSUME NEW g \in Games, Claims(f, g) PROVE Claims(new, g) \/ Claims(row, g)
    BY <2>7, <2>10 DEF Claims
  <2>11. Len(f.history) <= HistoryCap
    BY <1>4, <2>2, <2>7
  <2> QED
    BY <1>1, <1>4, <2>2, <2>6, <2>7, <2>9, <2>10, <2>11
<1> QED
  BY <1>5, <1>6

LEMMA CommitInv == ASSUME SqlInv, NEW w \in Workers, Commit(w) PROVE SqlInv'
<1>1. PICK s \in Transaction : s = tx[w]
  BY DEF SqlInv
<1>2. SessionInv(s) /\ s.pc = "commit" /\ Event(w) = s.event /\ s.event \in Events
  BY <1>1, OpenSession DEF SqlInv, Commit, At, Event
<1>3. games' \in [Games -> GameProfile] /\ \A g \in Games : Known(games[g]) => Known(games'[g])
  BY CommitGames
<1>4. prefs' \in [Users -> UserPreference]
  <2>1. prefs' = [u \in Users |-> prefs'[u]]
    BY DEF Commit
  <2>2. \A u \in Users : prefs'[u] \in UserPreference
    BY CommitPreferences
  <2> QED
    BY <2>1, <2>2
<1>5. \A p \in Users \X Games : ownership'[p] = IF p \in s.locked THEN Recorded(ownership[p], Counted(w))
                                                                 ELSE ownership[p]
  BY <1>1 DEF Commit
<1>6. ownership' \in [Users \X Games -> OwnershipStates]
  BY <1>5 DEF Commit, SqlInv, Tables, Recorded, OwnershipStates
<1>7. \A p \in Users \X Games : /\ ownership[p] = "counted" => ownership'[p] = "counted"
                                /\ p \in s.locked /\ Counted(w) => ownership'[p] = "counted"
  BY <1>5 DEF Recorded
<1>8. processed' = processed \cup {s.event} /\ UNCHANGED <<uncommitted, rerouted, mishaps>>
  BY <1>2 DEF Commit, Env
<1>9. RowsStay
  BY <1>3, <1>7, <1>8, CommitPreferences DEF RowsStay
<1>10. Tables'
  <2>1. \A u \in Users : Len(prefs'[u].history) <= HistoryCap /\ Begins(prefs'[u])
    BY CommitPreferences
  <2>2. \A u \in Users, g \in Games : Claims(prefs'[u], g) => ownership'[<<u, g>>] = "counted"
    BY <1>1, <1>7, CommitPreferences
  <2>3. /\ processed' \subseteq Events /\ uncommitted' \subseteq Events /\ rerouted' \subseteq Events
        /\ mishaps' \in 0 .. MaxMishaps
    BY <1>2, <1>8 DEF SqlInv, Tables
  <2> QED
    BY <1>3, <1>4, <1>6, <2>1, <2>2, <2>3 DEF Tables, Begins, Claims
<1>11. PICK t : t = Returned(s.event)
  OBVIOUS
<1>12. tx' = [tx EXCEPT ![w] = t]
  BY <1>2, <1>11 DEF Commit, Returned
<1>13. SessionInv(t)'
  <2>1. Holds(t, "ack") /\ t.event = s.event
    BY <1>2, <1>11, ReturnedSession
  <2>2. TookEffect(t)'
    BY <1>2, <1>8, <2>1 DEF TookEffect, Holds
  <2>3. InStep(t) /\ ReadEarlier(t)' /\ SecondAttempt(t)'
    BY <2>1, BlankType, BlankClaimsNothing
    DEF Holds, InStep, ReadEarlier, SecondAttempt, Known, UnknownGame
  <2> QED
    BY <2>1, <2>2, <2>3 DEF SessionInv, Holds
<1> QED
  BY <1>9, <1>10, <1>12, <1>13, OneWorker

-----------------------------------------------------------------------------
(* The invariants.                                                         *)

LEMMA NextInv == SqlInv /\ [Next]_vars => SqlInv'
<1> SUFFICES ASSUME SqlInv, [Next]_vars PROVE SqlInv'
  OBVIOUS
<1>1. ASSUME NEW w \in Workers, NEW e \in Events, Deliver(w, e) \/ Rebalance(w, e) PROVE SqlInv'
  BY <1>1, DeliverInv
<1>2. ASSUME NEW w \in Workers, Statement(w) PROVE SqlInv'
  BY <1>2, SeenInv, GetGameInv, UpsertGameInv, UncountedOwnersInv, GetPreferenceInv, UpsertPreferenceInv,
     RecordOwnershipInv, MarkCountedInv, MarkProcessedInv, CommitInv, CommitFailsInv, AckInv
     DEF Statement
<1>3. ASSUME NEW w \in Workers, Crash(w) PROVE SqlInv'
  BY <1>3, CrashInv
<1>4. CASE UNCHANGED vars
  BY <1>4 DEF vars, SqlInv, Tables, SessionInv, ReadEarlier, SecondAttempt, TookEffect
<1> QED
  BY <1>1, <1>2, <1>3, <1>4 DEF Next, Drained

LEMMA Invariant == Spec => []SqlInv
BY InitInv, NextInv, PTL DEF Spec

\* Rows and sessions have their types, and no merge of columns makes a history outgrow its cap.
THEOREM TypeCorrect == Spec => []TypeOK
BY Invariant, SqlInvMeans, PTL

\* The offset of an event is committed when it took effect, or when it is a publication that lost
\* every attempt; two attempts are enough for any other event (the setting is three).
THEOREM NothingIsSkipped == ASSUME MaxRetries > 1 PROVE Spec => NothingSkipped
<1>1. ASSUME SqlInv, [Next]_vars, NEW e \in uncommitted \ uncommitted'
      PROVE  e \in processed' \/ (Body[e].type = "GamePublished" /\ e \in rerouted')
  <2>1. PICK w \in Workers : Ack(w)
    BY <1>1, ZenonT(40) DEF Next, Statement, vars, Env, Drained, Deliver, Rebalance, Crash, Seen, GetGame,
       UpsertGame, UncountedOwners, GetPreference, UpsertPreference, RecordOwnership, MarkCounted,
       MarkProcessed, Commit, CommitFails
  <2>2. PICK s \in Transaction : s = tx[w]
    BY <1>1 DEF SqlInv
  <2>3. SessionInv(s) /\ s.pc = "ack" /\ e = s.event
    BY <1>1, <2>1, <2>2 DEF SqlInv, Ack, At, Event
  <2>4. MaxRetries # 1
    BY WorkersAssumption
  <2>5. e \in processed \/ (Body[e].type = "GamePublished" /\ e \in rerouted)
    BY <2>3, <2>4 DEF SessionInv, TookEffect, KindOf
  <2> QED
    BY <2>1, <2>5 DEF Ack, rows
<1>2. SqlInv /\ [Next]_vars
        => [\A e \in uncommitted \ uncommitted' :
               e \in processed' \/ (Body[e].type = "GamePublished" /\ e \in rerouted')]_vars
  BY <1>1
<1> QED
  BY <1>2, Invariant, PTL DEF Spec, NothingSkipped

-----------------------------------------------------------------------------
(* What no race can touch.                                                 *)

\* Every step but a commit leaves the rows as they are.
LEMMA OnlyCommitsWrite == ASSUME [Next]_vars, ~ \E w \in Workers : Commit(w) PROVE UNCHANGED rows
BY ZenonT(40) DEF Next, Statement, vars, rows, Drained, Deliver, Rebalance, Crash, Ack, Seen, GetGame,
   UpsertGame, UncountedOwners, GetPreference, UpsertPreference, RecordOwnership, MarkCounted,
   MarkProcessed, CommitFails

\* A publication takes owners: their rows are there, and stay.
BatchOwns(t) ==
    (t.pc # "idle" /\ KindOf(t) = "GamePublished") =>
        \A u \in t.batch : u \in Users /\ ownership[<<u, GameOf(t)>>] # "none"

\* The first two clauses of TablesTellTheTruth, by event: whatever was processed has left its row.
RowsOfProcessed ==
    /\ \A g \in Games : Known(games[g]) <=> \E e \in processed : e \in PublicationsOf(g)
    /\ \A u \in Users, g \in Games :
          /\ ownership[<<u, g>>] # "none" <=> \E e \in processed : e \in PurchasesBy(u, g)
          /\ ownership[<<u, g>>] = "counted" => Known(games[g])

TruthInv == RowsOfProcessed /\ \A w \in Workers : \A t \in Transaction : t = tx[w] => BatchOwns(t)

LEMMA TruthInvMeans == SqlInv /\ TruthInv => TablesTellTheTruth
BY SqlInvMeans DEF TruthInv, RowsOfProcessed, TablesTellTheTruth

LEMMA InitTruth == Init => TruthInv
<1> SUFFICES ASSUME Init PROVE TruthInv
  OBVIOUS
<1>1. RowsOfProcessed
  BY DEF Init, RowsOfProcessed, Known, UnknownGame
<1>2. \A w \in Workers : tx[w] = NoTx
  BY DEF Init
<1> QED
  BY <1>1, <1>2 DEF TruthInv, BatchOwns, NoTx

\* What a commit does to the catalogue and to the ownerships, for any game and any pair.
LEMMA CommitRows ==
    ASSUME SqlInv, NEW w \in Workers, Commit(w), NEW s \in Transaction, s = tx[w]
    PROVE  /\ s.pc = "commit" /\ SessionInv(s) /\ s.event \in Events /\ GameOf(s) \in Games
           /\ processed' = processed \cup {s.event}
           /\ \A g \in Games : Known(games'[g]) <=>
                 Known(games[g]) \/ (KindOf(s) = "GamePublished" /\ g = GameOf(s))
           /\ \A p \in Users \X Games :
                 /\ p \notin s.locked => ownership'[p] = ownership[p]
                 /\ p \in s.locked => ownership'[p] = IF Counted(w) \/ ownership[p] = "counted"
                                                      THEN "counted" ELSE "uncounted"
           /\ s.locked = Written(s)
           /\ Counted(w) <=> KindOf(s) = "GamePublished" \/ Known(s.read)
<1>1. /\ SessionInv(s) /\ s.pc = "commit" /\ Event(w) = s.event /\ Game(w) = GameOf(s)
      /\ Kind(w) = KindOf(s)
  BY DEF SqlInv, Commit, At, Event, Game, GameOf, Kind, KindOf
<1>2. s.event \in Events /\ GameOf(s) \in Games /\ games[GameOf(s)] \in GameProfile /\ s.base \in GameProfile
  BY <1>1, OpenSession DEF SqlInv, Tables, Transaction
<1>3. (s.dirty <=> Rewrites(s)) /\ s.locked = Written(s)
  BY <1>1 DEF SessionInv, InStep
<1>4. ASSUME NEW g \in Games
      PROVE  Known(games'[g]) <=> Known(games[g]) \/ (KindOf(s) = "GamePublished" /\ g = GameOf(s))
  <2>1. CASE ~ s.dirty
    <3>1. games'[g] = games[g] /\ KindOf(s) # "GamePublished"
      BY <1>3, <2>1 DEF Commit, Rewrites
    <3> QED
      BY <3>1
  <2>2. CASE s.dirty /\ g # GameOf(s)
    <3>1. games'[g] = games[g]
      BY <1>1, <2>2 DEF Commit, SqlInv, Tables
    <3> QED
      BY <2>2, <3>1
  <2>3. CASE s.dirty /\ g = GameOf(s)
    <3>1. PICK new : new = NewGame(w)
      OBVIOUS
    <3>2. new \in GameProfile /\ Known(new)
      BY <1>1, <2>3, <3>1, NewGameType
    <3>3. games'[g] = Flushed(new, s.base, games[g])
      BY <1>1, <2>3, <3>1 DEF Commit, SqlInv, Tables
    <3>4. games'[g].description = IF new.description # s.base.description THEN new.description
                                                                         ELSE games[g].description
      BY <1>2, <2>3, <3>3 DEF Flushed, GameProfile
    <3>5. Known(s.base) => Known(games[g])
      BY <1>1, <2>3 DEF SessionInv, ReadEarlier
    <3>6. Known(games'[g])
      BY <3>2, <3>4, <3>5 DEF Known
    <3>7. KindOf(s) # "GamePublished" => Known(games[g])
      BY <1>1, <2>3, <3>5 DEF SessionInv, ReadEarlier
    <3> QED
      BY <2>3, <3>6, <3>7
  <2> QED
    BY <2>1, <2>2, <2>3
<1>5. ASSUME NEW p \in Users \X Games
      PROVE  /\ p \notin s.locked => ownership'[p] = ownership[p]
             /\ p \in s.locked => ownership'[p] = IF Counted(w) \/ ownership[p] = "counted"
                                                  THEN "counted" ELSE "uncounted"
  BY DEF Commit, Recorded
<1>6. processed' = processed \cup {s.event}
  BY <1>1 DEF Commit
<1>7. Counted(w) <=> KindOf(s) = "GamePublished" \/ Known(s.read)
  BY <1>1 DEF Counted
<1> QED
  BY <1>1, <1>2, <1>3, <1>4, <1>5, <1>6, <1>7

\* What was processed has left its row, and a row comes from something processed: one commit later.
LEMMA CommitTruth == ASSUME SqlInv, TruthInv, NEW w \in Workers, Commit(w) PROVE RowsOfProcessed'
<1>1. PICK s \in Transaction : s = tx[w]
  BY DEF SqlInv
<1>2. PICK e : e = s.event
  OBVIOUS
<1>3. /\ SessionInv(s) /\ e \in Events /\ GameOf(s) = Body[e].game /\ KindOf(s) = Body[e].type
      /\ UserOf(s) = Body[e].user /\ GameOf(s) \in Games
      /\ s.pc # "idle" /\ processed' = processed \cup {e}
  BY <1>1, <1>2, CommitRows DEF GameOf, KindOf, UserOf
<1>4. /\ KindOf(s) \in {"GamePublished", "GameWithdrawn", "PurchaseCompleted", "ReviewPosted"}
      /\ KindOf(s) \in {"PurchaseCompleted", "ReviewPosted"} => UserOf(s) \in Users
  BY <1>3, OpenSession
<1>5. \A g \in Games : Known(games'[g]) <=> Known(games[g]) \/ (KindOf(s) = "GamePublished" /\ g = GameOf(s))
  BY <1>1, CommitRows
<1>6. ASSUME NEW g \in Games
      PROVE  Known(games'[g]) <=> \E f \in processed' : f \in PublicationsOf(g)
  <2>1. e \in PublicationsOf(g) <=> KindOf(s) = "GamePublished" /\ g = GameOf(s)
    BY <1>3 DEF PublicationsOf
  <2>2. Known(games[g]) <=> \E f \in processed : f \in PublicationsOf(g)
    BY DEF TruthInv, RowsOfProcessed
  <2> QED
    BY <1>3, <1>5, <2>1, <2>2
<1>7. ASSUME NEW u \in Users, NEW g \in Games
      PROVE  /\ ownership'[<<u, g>>] # "none" <=> \E f \in processed' : f \in PurchasesBy(u, g)
             /\ ownership'[<<u, g>>] = "counted" => Known(games'[g])
  <2>1. PICK p \in Users \X Games : p = <<u, g>>
    OBVIOUS
  <2>2. e \in PurchasesBy(u, g) <=> KindOf(s) = "PurchaseCompleted" /\ u = UserOf(s) /\ g = GameOf(s)
    BY <1>3 DEF PurchasesBy, PurchasesOf
  <2>3. /\ ownership[p] # "none" <=> \E f \in processed : f \in PurchasesBy(u, g)
        /\ ownership[p] = "counted" => Known(games[g])
    BY <2>1 DEF TruthInv, RowsOfProcessed
  <2>4. /\ p \notin s.locked => ownership'[p] = ownership[p]
        /\ p \in s.locked => ownership'[p] = IF Counted(w) \/ ownership[p] = "counted"
                                             THEN "counted" ELSE "uncounted"
        /\ s.locked = Written(s)
        /\ Counted(w) <=> KindOf(s) = "GamePublished" \/ Known(s.read)
    BY <1>1, CommitRows
  <2>5. CASE p \notin s.locked
    <3>1. e \notin PurchasesBy(u, g)
      BY <2>1, <2>2, <2>4, <2>5 DEF Written
    <3> QED
      BY <1>3, <1>5, <2>1, <2>3, <2>4, <2>5, <3>1
  <2>6. CASE p \in s.locked /\ KindOf(s) = "GamePublished"
    <3>1. u \in s.batch /\ g = GameOf(s)
      BY <2>1, <2>4, <2>6 DEF Written
    <3>2. ownership[p] # "none"
      BY <1>1, <1>3, <2>1, <2>6, <3>1 DEF TruthInv, BatchOwns
    <3>3. ownership'[p] = "counted"
      BY <2>4, <2>6
    <3> QED
      BY <1>3, <1>5, <2>1, <2>3, <2>6, <3>1, <3>2, <3>3
  <2>7. CASE p \in s.locked /\ KindOf(s) # "GamePublished"
    <3>1. KindOf(s) = "PurchaseCompleted" /\ u = UserOf(s) /\ g = GameOf(s)
      BY <1>4, <2>1, <2>4, <2>7 DEF Written
    <3>2. Known(s.read) => Known(games[g])
      BY <1>3, <3>1 DEF SessionInv, ReadEarlier
    <3>3. ownership'[p] \in {"counted", "uncounted"}
      BY <2>4, <2>7
    <3> QED
      BY <1>3, <1>5, <2>1, <2>2, <2>3, <2>4, <2>7, <3>1, <3>2, <3>3
  <2> QED
    BY <2>5, <2>6, <2>7
<1> QED
  BY <1>6, <1>7 DEF RowsOfProcessed

\* The owners a publication has taken, while its transaction goes on.
LEMMA BatchStays ==
    ASSUME SqlInv, TruthInv, Next, NEW w \in Workers, NEW t, t = tx'[w]
    PROVE  \/ BatchOwns(t)
           \/ /\ t.batch = tx[w].batch /\ t.event = tx[w].event /\ tx[w].pc # "idle" /\ BatchOwns(tx[w])
<1>1. tx \in [Workers -> Transaction]
  BY DEF SqlInv
<1>2. PICK s \in Transaction : s = tx[w] /\ BatchOwns(s)
  BY DEF SqlInv, TruthInv
<1>3. ASSUME t = s PROVE BatchOwns(t)
  BY <1>2, <1>3
<1>4. ASSUME t.batch = {} PROVE BatchOwns(t)
  BY <1>4 DEF BatchOwns
<1>5. NoTx.batch = {} /\ \A e, n : Begun(e, n).batch = {} /\ Returned(e).batch = {}
  BY DEF NoTx, Begun, Returned
<1>6. PICK v \in Workers :
          \/ \E e \in Events : Deliver(v, e) \/ Rebalance(v, e)
          \/ Statement(v)
          \/ Crash(v)
          \/ UNCHANGED tx
  BY DEF Next, Drained, vars
<1>7. CASE UNCHANGED tx
  BY <1>2, <1>3, <1>7
<1>8. ASSUME NEW r, tx' = [tx EXCEPT ![v] = r], r.batch = {}
      PROVE  BatchOwns(t)
  BY <1>1, <1>2, <1>3, <1>4, <1>8
<1>9. CASE \E e \in Events : Deliver(v, e) \/ Rebalance(v, e)
  BY <1>5, <1>8, <1>9 DEF Deliver, Rebalance
<1>10. CASE Crash(v) \/ Ack(v)
  BY <1>5, <1>8, <1>10 DEF Crash, Ack
<1>11. CASE Commit(v)
  BY <1>5, <1>8, <1>11 DEF Commit, Returned
<1>12. CASE CommitFails(v)
  BY <1>5, <1>8, <1>12 DEF CommitFails, Returned
<1>13. CASE UncountedOwners(v)
  <2>1. PICK batch \in BackfillBatches({u \in Users : ownership[<<u, Game(v)>>] = "uncounted"}) :
            tx' = [tx EXCEPT ![v].batch = batch, ![v].todo = batch,
                             ![v].pc = IF batch = {} THEN "mark" ELSE "pref"]
    BY <1>13 DEF UncountedOwners
  <2>2. \A u \in batch : u \in Users /\ ownership[<<u, Game(v)>>] = "uncounted"
    BY <2>1 DEF BackfillBatches
  <2>3. CASE v = w
    <3>1. t.batch = batch /\ t.event = s.event
      BY <1>1, <1>2, <2>1, <2>3 DEF Transaction
    <3>2. GameOf(t) = Game(v)
      BY <1>2, <2>3, <3>1 DEF GameOf, Game, Event
    <3> QED
      BY <2>2, <3>1, <3>2 DEF BatchOwns
  <2>4. CASE v # w
    BY <1>1, <1>2, <1>3, <2>1, <2>4
  <2> QED
    BY <2>3, <2>4
<1>14. CASE \/ Seen(v) \/ GetGame(v) \/ UpsertGame(v) \/ GetPreference(v) \/ UpsertPreference(v)
            \/ RecordOwnership(v) \/ MarkCounted(v) \/ MarkProcessed(v)
  <2>1. tx'[w].batch = tx[w].batch /\ tx'[w].event = tx[w].event
    <3>1. CASE Seen(v)
      BY <1>1, <3>1 DEF Seen, Transaction
    <3>2. CASE GetGame(v)
      <4>1. PICK row, todo, pc : tx' = [tx EXCEPT ![v].read = row, ![v].todo = todo, ![v].pc = pc]
        BY <3>2, Zenon DEF GetGame
      <4> QED
        BY <1>1, <4>1 DEF Transaction
    <3>3. CASE UpsertGame(v)
      BY <1>1, <3>3 DEF UpsertGame, Transaction
    <3>4. CASE GetPreference(v)
      BY <1>1, <3>4 DEF GetPreference, Transaction
    <3>5. CASE UpsertPreference(v)
      <4>1. PICK u \in tx[v].current : \E row, pc :
                tx' = [tx EXCEPT ![v].pbase[u] = row, ![v].changed = @ \cup {u}, ![v].current = {},
                                 ![v].todo = @ \ {u}, ![v].pc = pc]
        BY <3>5, ZenonT(60) DEF UpsertPreference
      <4> QED
        BY <1>1, <4>1 DEF Transaction
    <3>6. CASE RecordOwnership(v)
      BY <1>1, <3>6 DEF RecordOwnership, Transaction
    <3>7. CASE MarkCounted(v)
      BY <1>1, <3>7 DEF MarkCounted, Transaction
    <3>8. CASE MarkProcessed(v)
      <4>1. tx' = [tx EXCEPT ![v].marked = TRUE, ![v].pc = "commit"]
        BY <3>8 DEF MarkProcessed
      <4> QED
        BY <1>1, <4>1 DEF Transaction
    <3> QED
      BY <1>14, <3>1, <3>2, <3>3, <3>4, <3>5, <3>6, <3>7, <3>8
  <2>2. tx[w].pc # "idle" \/ tx'[w] = tx[w]
    BY <1>1, <1>14, ZenonT(60) DEF Seen, GetGame, UpsertGame, GetPreference, UpsertPreference, RecordOwnership,
       MarkCounted, MarkProcessed, At
  <2> QED
    BY <1>2, <1>3, <2>1, <2>2
<1> QED
  BY <1>6, <1>7, <1>9, <1>10, <1>11, <1>12, <1>13, <1>14 DEF Statement

LEMMA NextTruth == SqlInv /\ TruthInv /\ [Next]_vars => TruthInv'
<1> SUFFICES ASSUME SqlInv, TruthInv, [Next]_vars PROVE TruthInv'
  OBVIOUS
<1>1. CASE UNCHANGED vars
  BY <1>1 DEF vars, TruthInv, RowsOfProcessed, BatchOwns
<1>2. CASE Next
  <2>1. RowsOfProcessed' /\ \A p \in Users \X Games : ownership[p] # "none" => ownership'[p] # "none"
    <3>1. CASE \E w \in Workers : Commit(w)
      <4>1. PICK w \in Workers : Commit(w)
        BY <3>1
      <4>2. RowsOfProcessed'
        BY <4>1, CommitTruth
      <4>3. PICK s \in Transaction : s = tx[w]
        BY DEF SqlInv
      <4>4. ASSUME NEW p \in Users \X Games, ownership[p] # "none" PROVE ownership'[p] # "none"
        BY <4>1, <4>3, <4>4, CommitRows
      <4> QED
        BY <4>2, <4>4
    <3>2. CASE ~ \E w \in Workers : Commit(w)
      <4>1. UNCHANGED rows
        BY <3>2, OnlyCommitsWrite
      <4> QED
        BY <4>1 DEF rows, TruthInv, RowsOfProcessed
    <3> QED
      BY <3>1, <3>2
  <2>2. ASSUME NEW w \in Workers, NEW t \in Transaction, t = tx'[w] PROVE BatchOwns(t)'
    <3>1. \/ BatchOwns(t)
          \/ /\ t.batch = tx[w].batch /\ t.event = tx[w].event /\ tx[w].pc # "idle" /\ BatchOwns(tx[w])
      BY <1>2, <2>2, BatchStays
    <3>2. t.pc # "idle" => GameOf(t) \in Games
      <4>1. SqlInv'
        BY NextInv
      <4>2. SessionInv(t)'
        BY <2>2, <4>1 DEF SqlInv
      <4> QED
        BY <4>2, BodyType DEF SessionInv, TookEffect, GameOf
    <3> QED
      BY <2>1, <3>1, <3>2 DEF BatchOwns, KindOf, GameOf
  <2> QED
    BY <2>1, <2>2 DEF TruthInv
<1> QED
  BY <1>1, <1>2

\* In every interleaving of transactions, with crashes, redeliveries and columns written back: a game is
\* known, and a row of ownerships is there, exactly if an event that says so was processed; no flag is
\* ahead of a description and no credit ahead of its flag.  A race loses credit, and nothing else.
THEOREM TablesAreTrue == Spec => []TablesTellTheTruth
BY InitInv, NextInv, InitTruth, NextTruth, TruthInvMeans, PTL DEF Spec

\* No step of any transaction, stale or not, forgets an event or a game, deletes a row of ownerships,
\* lowers its flag or makes a profile that has begun a blank one.
NothingForgotten ==
    [][ /\ processed \subseteq processed'
        /\ \A g \in Games : Known(games[g]) => Known(games'[g])
        /\ \A p \in Users \X Games :
              /\ ownership[p] # "none" => ownership'[p] # "none"
              /\ ownership[p] = "counted" => ownership'[p] = "counted"
        /\ \A u \in Users : prefs[u] # Blank => prefs'[u] # Blank ]_rows

\* The clauses of NothingUnlearned that hold in every interleaving: what else that property has, the
\* counts, the libraries and the credits, is what a stale commit may lower.
THEOREM RowsOnlyGrow == Spec => NothingForgotten
<1>1. ASSUME SqlInv, [Next]_vars
      PROVE  \/ UNCHANGED rows
             \/ /\ processed \subseteq processed'
                /\ \A g \in Games : Known(games[g]) => Known(games'[g])
                /\ \A p \in Users \X Games :
                      /\ ownership[p] # "none" => ownership'[p] # "none"
                      /\ ownership[p] = "counted" => ownership'[p] = "counted"
                /\ \A u \in Users : prefs[u] # Blank => prefs'[u] # Blank
  <2>1. CASE \E w \in Workers : Commit(w)
    <3>1. PICK w \in Workers : Commit(w)
      BY <2>1
    <3>2. PICK s \in Transaction : s = tx[w]
      BY <1>1 DEF SqlInv
    <3>3. ASSUME NEW p \in Users \X Games
          PROVE  /\ ownership[p] # "none" => ownership'[p] # "none"
                 /\ ownership[p] = "counted" => ownership'[p] = "counted"
      BY <1>1, <3>1, <3>2, CommitRows
    <3>4. processed \subseteq processed' /\ \A g \in Games : Known(games[g]) => Known(games'[g])
      BY <1>1, <3>1, <3>2, CommitRows
    <3>5. \A u \in Users : prefs[u] # Blank => prefs'[u] # Blank
      BY <1>1, <3>1, CommitPreferences
    <3> QED
      BY <3>3, <3>4, <3>5
  <2>2. CASE ~ \E w \in Workers : Commit(w)
    BY <1>1, <2>2, OnlyCommitsWrite
  <2> QED
    BY <2>1, <2>2
<1>2. SqlInv /\ [Next]_vars =>
        [ /\ processed \subseteq processed'
          /\ \A g \in Games : Known(games[g]) => Known(games'[g])
          /\ \A p \in Users \X Games :
                /\ ownership[p] # "none" => ownership'[p] # "none"
                /\ ownership[p] = "counted" => ownership'[p] = "counted"
          /\ \A u \in Users : prefs[u] # Blank => prefs'[u] # Blank ]_rows
  BY <1>1 DEF rows
<1> QED
  BY <1>2, Invariant, PTL DEF Spec, NothingForgotten


-----------------------------------------------------------------------------
(* The refinement.                                                         *)

\* A commit of which nothing is stale writes what the handler computes from the rows as they are.
LEMMA FreshCommit ==
    ASSUME SqlInv, NEW w \in Workers, Commit(w), ~ Stale(w), NEW s \in Transaction, s = tx[w]
    PROVE  /\ s.pc = "commit" /\ SessionInv(s) /\ s.event \notin processed
           /\ processed' = processed \cup {s.event}
           /\ s.read = games[GameOf(s)]
           /\ games' = IF s.dirty THEN [games EXCEPT ![GameOf(s)] = NewGame(w)] ELSE games
           /\ prefs' = [u \in Users |-> IF u \in s.changed THEN Observe(prefs[u], GameOf(s), Signal(w))
                                                           ELSE prefs[u]]
           /\ ownership' = [p \in Users \X Games |->
                               IF p \in s.locked THEN Recorded(ownership[p], Counted(w)) ELSE ownership[p]]
<1>1. SessionInv(s) /\ s.pc = "commit" /\ Event(w) = s.event /\ Game(w) = GameOf(s)
  BY DEF SqlInv, Commit, At, Event, Game, GameOf
<1>2. /\ s.event \notin processed /\ s.read = games[GameOf(s)]
      /\ s.dirty => s.base = games[GameOf(s)]
      /\ \A u \in s.changed : s.loaded[u] = prefs[u] /\ s.pbase[u] = prefs[u]
  BY <1>1 DEF Stale
<1>3. GameOf(s) \in Games /\ games[GameOf(s)] \in GameProfile
  BY <1>1, OpenSession DEF SqlInv, Tables
<1>4. s.dirty => Flushed(NewGame(w), s.base, games[GameOf(s)]) = NewGame(w)
  BY <1>1, <1>2, <1>3, NewGameType, FlushedGame
<1>5. games' = IF s.dirty THEN [games EXCEPT ![GameOf(s)] = NewGame(w)] ELSE games
  BY <1>1, <1>4 DEF Commit
<1>6. ASSUME NEW u \in s.changed
      PROVE  /\ u \in Users
             /\ Flushed(NewPreference(w, u), s.pbase[u], prefs[u]) = Observe(prefs[u], GameOf(s), Signal(w))
  <2>1. u \in Users /\ NewPreference(w, u) \in UserPreference
    BY <1>1, NewPreferenceType
  <2>2. prefs[u] \in UserPreference
    BY <2>1 DEF SqlInv, Tables
  <2>3. Flushed(NewPreference(w, u), s.pbase[u], prefs[u]) = NewPreference(w, u)
    BY <1>2, <2>1, <2>2, FlushedPreference
  <2>4. NewPreference(w, u) = Observe(prefs[u], GameOf(s), Signal(w))
    BY <1>1, <1>2 DEF NewPreference
  <2> QED
    BY <2>1, <2>3, <2>4
<1>7. prefs' = [u \in Users |-> IF u \in s.changed THEN Observe(prefs[u], GameOf(s), Signal(w)) ELSE prefs[u]]
  BY <1>6 DEF Commit
<1>8. processed' = processed \cup {s.event}
  BY <1>1 DEF Commit
<1>9. ownership' = [p \in Users \X Games |->
                      IF p \in s.locked THEN Recorded(ownership[p], Counted(w)) ELSE ownership[p]]
  BY DEF Commit
<1> QED
  BY <1>1, <1>2, <1>5, <1>7, <1>8, <1>9

\* It is the handler's step.
LEMMA FreshCommitRefines ==
    ASSUME SqlInv, NEW w \in Workers, Commit(w), ~ Stale(w)
    PROVE  I!Next
<1>1. PICK s \in Transaction : s = tx[w]
  BY DEF SqlInv
<1>2. PICK e : e = s.event
  OBVIOUS
<1>3. PICK g : g = GameOf(s)
  OBVIOUS
<1>4. /\ s.pc = "commit" /\ SessionInv(s) /\ e \notin processed /\ processed' = processed \cup {e}
      /\ s.read = games[g]
      /\ games' = IF s.dirty THEN [games EXCEPT ![g] = NewGame(w)] ELSE games
      /\ prefs' = [u \in Users |-> IF u \in s.changed THEN Observe(prefs[u], g, Signal(w)) ELSE prefs[u]]
      /\ ownership' = [p \in Users \X Games |->
                         IF p \in s.locked THEN Recorded(ownership[p], Counted(w)) ELSE ownership[p]]
  <2>1. /\ s.pc = "commit" /\ SessionInv(s) /\ s.event \notin processed
        /\ processed' = processed \cup {s.event}
        /\ s.read = games[GameOf(s)]
        /\ games' = IF s.dirty THEN [games EXCEPT ![GameOf(s)] = NewGame(w)] ELSE games
        /\ prefs' = [u \in Users |-> IF u \in s.changed THEN Observe(prefs[u], GameOf(s), Signal(w))
                                                        ELSE prefs[u]]
        /\ ownership' = [p \in Users \X Games |->
                            IF p \in s.locked THEN Recorded(ownership[p], Counted(w)) ELSE ownership[p]]
    BY <1>1, FreshCommit
  <2> QED
    BY <1>2, <1>3, <2>1
<1>5. /\ e \in Events /\ g \in Games /\ g = Body[e].game /\ KindOf(s) = Body[e].type /\ UserOf(s) = Body[e].user
      /\ Kind(w) = Body[e].type /\ Event(w) = e
      /\ Body[e].type \in {"GamePublished", "GameWithdrawn", "PurchaseCompleted", "ReviewPosted"}
      /\ Body[e].type \in {"PurchaseCompleted", "ReviewPosted"} => UserOf(s) \in Users
  BY <1>1, <1>2, <1>3, <1>4, OpenSession DEF GameOf, KindOf, UserOf, Kind, Event
<1>6. (s.dirty <=> Rewrites(s)) /\ s.changed = Folded(s) /\ s.locked = Written(s)
  BY <1>4 DEF SessionInv, InStep
<1>7. games \in [Games -> GameProfile] /\ prefs \in [Users -> UserPreference]
      /\ ownership \in [Users \X Games -> OwnershipStates]
  BY DEF SqlInv, Tables
<1>8. CASE Body[e].type = "GamePublished"
  <2>1. /\ s.dirty /\ s.changed = s.batch /\ s.locked = s.batch \X {g}
        /\ Signal(w) = "PURCHASE" /\ Counted(w)
        /\ NewGame(w) = IF Known(games[g]) THEN Redescribed(games[g], e) ELSE Published(e)
    BY <1>1, <1>3, <1>4, <1>5, <1>6, <1>8 DEF Rewrites, Folded, Written, Signal, Counted, NewGame
  <2>2. s.batch \in BackfillBatches({u \in Users : ownership[<<u, g>>] = "uncounted"})
    BY <1>1, <1>2, <1>3, <1>5, <1>8 DEF Stale, Game, GameOf, Kind, Event
  <2>3. ownership' = [p \in Users \X Games |->
                         IF p[1] \in s.batch /\ p[2] = g THEN "counted" ELSE ownership[p]]
    BY <1>4, <2>1 DEF Recorded
  <2>4. I!Backfill(g, s.batch)
    BY <1>4, <2>1, <2>3 DEF I!Backfill, I!Observe, Observe, I!Remember, Remember
  <2>5. games' = [games EXCEPT ![g] = IF I!Known(@) THEN I!Redescribed(@, e) ELSE I!Published(e)]
    BY <1>4, <2>1 DEF I!Known, Known, I!Redescribed, Redescribed, I!Published, Published
  <2>6. s.batch \in I!BackfillBatches(I!Uncounted(g))
    <3>1. I!Uncounted(g) = {u \in Users : ownership[<<u, g>>] = "uncounted"}
      BY DEF I!Uncounted
    <3>2. \A S : I!Cardinality(S) = Cardinality(S)
      BY Zenon DEF I!Cardinality, Cardinality
    <3>3. \A S : I!BackfillBatches(S) = BackfillBatches(S)
      BY <3>2, Zenon DEF I!BackfillBatches, BackfillBatches
    <3> QED
      BY <2>2, <3>1, <3>3
  <2>7. I!HandleGamePublished(e)
    BY <1>4, <1>5, <1>8, <2>4, <2>5, <2>6 DEF I!HandleGamePublished, I!Mark
  <2> QED
    BY <1>5, <2>7 DEF I!Next, I!Handle
<1>9. CASE Body[e].type # "GamePublished" /\ s.changed = {}
  <2>1. prefs' = prefs
    BY <1>4, <1>7, <1>9
  <2>2. CASE Body[e].type = "GameWithdrawn"
    <3>1. s.locked = {} /\ (s.dirty <=> Known(games[g])) /\ NewGame(w) = Withdrawn(games[g])
      BY <1>1, <1>4, <1>5, <1>6, <2>2 DEF Rewrites, Written, NewGame
    <3>2. ownership' = ownership
      BY <1>4, <1>7, <3>1
    <3>3. I!HandleGameWithdrawn(e)
      BY <1>4, <1>5, <2>1, <2>2, <3>1, <3>2
      DEF I!HandleGameWithdrawn, I!Mark, I!Known, Known, I!Withdrawn, Withdrawn
    <3> QED
      BY <1>5, <3>3 DEF I!Next, I!Handle
  <2>3. CASE Body[e].type = "PurchaseCompleted"
    <3>1. ~ Known(games[g]) /\ ~ s.dirty /\ ~ Counted(w) /\ s.locked = {<<UserOf(s), g>>}
      BY <1>1, <1>3, <1>4, <1>5, <1>6, <1>9, <2>3 DEF Rewrites, Folded, Written, Counted
    <3>2. ownership' = [ownership EXCEPT ![<<UserOf(s), g>>] = Recorded(@, FALSE)]
      BY <1>4, <1>5, <1>7, <2>3, <3>1 DEF Recorded
    <3>3. I!PurchaseOfUnknownGame(e)
      BY <1>4, <1>5, <2>1, <2>3, <3>1, <3>2
      DEF I!PurchaseOfUnknownGame, I!Mark, I!Known, Known, I!Recorded, Recorded
    <3> QED
      BY <1>5, <3>3 DEF I!Next, I!Handle, I!HandlePurchaseCompleted
  <2>4. CASE Body[e].type = "ReviewPosted"
    <3>1. ~ Known(games[g]) /\ ~ s.dirty /\ s.locked = {}
      BY <1>4, <1>5, <1>6, <1>9, <2>4 DEF Rewrites, Folded, Written
    <3>2. ownership' = ownership
      BY <1>4, <1>7, <3>1
    <3>3. I!HandleReviewPosted(e)
      BY <1>4, <1>5, <2>1, <2>4, <3>1, <3>2 DEF I!HandleReviewPosted, I!Mark, I!Known, Known
    <3> QED
      BY <1>5, <3>3 DEF I!Next, I!Handle
  <2> QED
    BY <1>5, <1>9, <2>2, <2>3, <2>4
<1>10. CASE Body[e].type # "GamePublished" /\ s.changed # {}
  <2>1. /\ Body[e].type \in {"PurchaseCompleted", "ReviewPosted"} /\ Known(games[g])
        /\ s.changed = {UserOf(s)} /\ UserOf(s) \in Users
    BY <1>4, <1>5, <1>6, <1>10 DEF Folded
  <2>2. prefs' = [prefs EXCEPT ![UserOf(s)] = Observe(@, g, Signal(w))]
    BY <1>4, <1>7, <2>1
  <2>3. CASE Body[e].type = "PurchaseCompleted"
    <3>1. /\ s.dirty /\ Counted(w) /\ s.locked = {<<UserOf(s), g>>} /\ Signal(w) = "PURCHASE"
          /\ NewGame(w) = Bought(games[g])
      BY <1>1, <1>3, <1>4, <1>5, <1>6, <2>1, <2>3 DEF Rewrites, Written, Counted, Signal, NewGame
    <3>2. ownership' = [ownership EXCEPT ![<<UserOf(s), g>>] = Recorded(@, TRUE)]
      BY <1>4, <1>5, <1>7, <2>3, <3>1
    <3>3. games' = [games EXCEPT ![g] = I!Bought(@)]
      BY <1>4, <3>1 DEF I!Bought, Bought
    <3>4. prefs' = [prefs EXCEPT ![UserOf(s)] = I!Observe(@, g, "PURCHASE")]
      BY <2>2, <3>1 DEF I!Observe, Observe, I!Remember, Remember
    <3>5. I!PurchaseOfKnownGame(e)
      BY <1>4, <1>5, <2>1, <2>3, <3>2, <3>3, <3>4
      DEF I!PurchaseOfKnownGame, I!Mark, I!Known, Known, I!Recorded, Recorded
    <3> QED
      BY <1>5, <3>5 DEF I!Next, I!Handle, I!HandlePurchaseCompleted
  <2>4. CASE Body[e].type = "ReviewPosted"
    <3>1. ~ s.dirty /\ s.locked = {} /\ Signal(w) = ReviewKind(Body[e])
      BY <1>5, <1>6, <2>4 DEF Rewrites, Written, Signal
    <3>2. ownership' = ownership
      BY <1>4, <1>7, <3>1
    <3>3. prefs' = [prefs EXCEPT ![UserOf(s)] = I!Observe(@, g, I!ReviewKind(Body[e]))]
      BY <2>2, <3>1 DEF I!Observe, Observe, I!Remember, Remember, I!ReviewKind, ReviewKind
    <3>4. I!HandleReviewPosted(e)
      BY <1>4, <1>5, <2>1, <2>4, <3>1, <3>2, <3>3 DEF I!HandleReviewPosted, I!Mark, I!Known, Known
    <3> QED
      BY <1>5, <3>4 DEF I!Next, I!Handle
  <2> QED
    BY <2>1, <2>3, <2>4
<1> QED
  BY <1>8, <1>9, <1>10

\* The other steps leave the rows as they are.
LEMMA NextRefines == SqlInv /\ [Next]_vars => [I!Next \/ \E w \in Workers : StaleCommit(w)]_(I!vars)
<1> SUFFICES ASSUME SqlInv, [Next]_vars
             PROVE  I!Next \/ (\E w \in Workers : StaleCommit(w)) \/ UNCHANGED I!vars
  OBVIOUS
<1>1. CASE \E w \in Workers : Commit(w)
  <2>1. PICK w \in Workers : Commit(w)
    BY <1>1
  <2>2. CASE Stale(w)
    BY <2>1, <2>2 DEF StaleCommit, Commit
  <2>3. CASE ~ Stale(w)
    BY <2>1, <2>3, FreshCommitRefines
  <2> QED
    BY <2>2, <2>3
<1>2. CASE ~ \E w \in Workers : Commit(w)
  <2>1. UNCHANGED rows
    BY <1>2, OnlyCommitsWrite
  <2> QED
    BY <2>1 DEF rows, I!vars
<1> QED
  BY <1>1, <1>2

LEMMA InitRefines == Init => I!Init
BY DEF Init, I!Init, UnknownGame, I!UnknownGame, Blank, I!Blank, SignalKinds, I!SignalKinds

\* The transactions implement the atomic handlers of ingest.py, but for the commits that act on a row
\* another transaction has changed since it was read.
THEOREM Refinement == Spec => ImplementsIngestUnlessStale
BY InitRefines, NextRefines, Invariant, PTL DEF Spec, ImplementsIngestUnlessStale

-----------------------------------------------------------------------------
(* What makes a session stale.                                             *)

\* The owners that a publication of g may take now.
BatchesOf(g) == BackfillBatches({u \in Users : ownership[<<u, g>>] = "uncounted"})

\* The session t, at its step, is about to act on nothing that is past: what it decided on, and what
\* its flush compares with, is what the rows hold.  At the commit this is what Stale denies.
UpToDate(t) ==
    /\ t.pc \notin {"idle", "seen", "ack"} => t.event \notin processed
    /\ t.pc \notin {"idle", "seen", "game", "ack"} => t.read = games[GameOf(t)]
    /\ t.dirty => t.base = games[GameOf(t)]
    /\ \A u \in t.changed : t.loaded[u] = prefs[u] /\ t.pbase[u] = prefs[u]
    /\ \A u \in t.current : t.loaded[u] = prefs[u]
    /\ (t.pc \in {"pref", "upsert_pref", "mark_counted", "mark", "commit"} /\ KindOf(t) = "GamePublished") =>
          t.batch \in BatchesOf(GameOf(t))

\* Two transactions touch a common row: the game of both, or a profile that v writes and w has loaded.
Clash(v, w) ==
    Game(v) = Game(w) \/ tx[v].changed \cap (tx[w].changed \cup tx[w].current) # {}

LEMMA FreshAtCommit ==
    ASSUME NEW w \in Workers, NEW s \in Transaction, s = tx[w], s.pc = "commit", UpToDate(s)
    PROVE  ~ Stale(w) /\ ~ DuplicateKey(w)
<1>1. Event(w) = s.event /\ Game(w) = GameOf(s) /\ Kind(w) = KindOf(s)
  BY DEF Event, Game, GameOf, Kind, KindOf
<1>2. ~ Stale(w)
  BY <1>1 DEF Stale, UpToDate, BatchesOf
<1>3. ~ DuplicateKey(w)
  BY <1>1 DEF DuplicateKey, UpToDate
<1> QED
  BY <1>2, <1>3

\* A session that holds nothing has nothing to lose.
LEMMA EmptyIsUpToDate ==
    ASSUME NEW t, t.pc \in {"idle", "seen", "ack"}, ~ t.dirty, t.changed = {}, t.current = {}
    PROVE  UpToDate(t) /\ UpToDate(t)'
BY DEF UpToDate

LEMMA StaysUpToDate == ASSUME UNCHANGED rows, NEW t, UpToDate(t) PROVE UpToDate(t)'
BY DEF rows, UpToDate, BatchesOf

\* The steps of a session itself, one by one.
LEMMA SeenFresh ==
    ASSUME SqlInv, NEW w \in Workers, Seen(w), NEW s \in Transaction, s = tx[w], NEW t, t = tx'[w]
    PROVE  UpToDate(t)
<1>1. /\ s.pc = "seen" /\ SessionInv(s) /\ Event(w) = s.event /\ tx \in [Workers -> Transaction]
  BY DEF SqlInv, Seen, At, Event
<1>2. ~ s.dirty /\ s.changed = {} /\ s.current = {}
  BY <1>1 DEF SessionInv, InStep
<1>3. PICK pc : pc = IF s.event \in processed THEN "ack" ELSE "game"
  OBVIOUS
<1>4. /\ t.pc = pc /\ t.event = s.event /\ t.dirty = s.dirty /\ t.changed = s.changed
      /\ t.current = s.current
  BY <1>1, <1>3 DEF Seen, Transaction
<1> QED
  BY <1>2, <1>3, <1>4 DEF UpToDate

LEMMA GetGameFresh ==
    ASSUME SqlInv, NEW w \in Workers, GetGame(w), NEW s \in Transaction, s = tx[w], UpToDate(s),
           NEW t, t = tx'[w]
    PROVE  UpToDate(t)
<1>1. /\ s.pc = "game" /\ SessionInv(s) /\ Kind(w) = KindOf(s) /\ Game(w) = GameOf(s)
      /\ tx \in [Workers -> Transaction]
  BY DEF SqlInv, GetGame, At, Kind, KindOf, Game, GameOf, Event
<1>2. ~ s.dirty /\ s.changed = {} /\ s.current = {}
  BY <1>1 DEF SessionInv, InStep
<1>3. KindOf(s) \in {"GamePublished", "GameWithdrawn", "PurchaseCompleted", "ReviewPosted"}
  BY <1>1, OpenSession
<1> DEFINE row == games[Game(w)]
           next == CASE Kind(w) = "GamePublished"     -> "upsert_game"
                     [] Kind(w) = "GameWithdrawn"     -> IF Known(row) THEN "upsert_game" ELSE "mark"
                     [] Kind(w) = "PurchaseCompleted" -> IF Known(row) THEN "pref" ELSE "record"
                     [] Kind(w) = "ReviewPosted"      -> IF Known(row) THEN "pref" ELSE "mark"
<1>4. PICK pc : pc = next
  OBVIOUS
<1>5. KindOf(s) = "GamePublished" => pc = "upsert_game"
  BY <1>1, <1>4
<1>6. PICK todo : tx' = [tx EXCEPT ![w].read = row, ![w].todo = todo, ![w].pc = pc]
  BY <1>4 DEF GetGame
<1> HIDE DEF next
<1>7. PICK read : read = row
  OBVIOUS
<1> HIDE DEF row
<1>8. /\ t.pc = pc /\ t.read = read /\ t.event = s.event /\ t.dirty = s.dirty /\ t.changed = s.changed
      /\ t.current = s.current
  BY <1>1, <1>6, <1>7 DEF Transaction
<1>9. read = games[GameOf(s)]
  BY <1>1, <1>7 DEF row
<1> QED
  BY <1>1, <1>2, <1>5, <1>8, <1>9, SMTT(20) DEF UpToDate, GameOf, KindOf

LEMMA UpsertGameFresh ==
    ASSUME SqlInv, NEW w \in Workers, UpsertGame(w), NEW s \in Transaction, s = tx[w], UpToDate(s),
           NEW t, t = tx'[w]
    PROVE  UpToDate(t)
<1>1. /\ s.pc = "upsert_game" /\ Kind(w) = KindOf(s) /\ Game(w) = GameOf(s) /\ tx \in [Workers -> Transaction]
  BY DEF SqlInv, UpsertGame, At, Kind, KindOf, Game, GameOf, Event
<1>2. PICK pc : pc = IF Kind(w) = "GamePublished" THEN "owners" ELSE "mark"
  OBVIOUS
<1>3. PICK row \in Bases(games[Game(w)], tx[w].read, UnknownGame) :
          tx' = [tx EXCEPT ![w].base = row, ![w].dirty = TRUE, ![w].pc = pc]
  BY <1>2 DEF UpsertGame
<1>4. row = games[GameOf(s)]
  BY <1>1, <1>3 DEF UpToDate, Bases
<1>5. /\ t.pc = pc /\ t.base = row /\ t.read = s.read /\ t.event = s.event /\ t.changed = s.changed
      /\ t.current = s.current /\ t.loaded = s.loaded /\ t.pbase = s.pbase
  BY <1>1, <1>3 DEF Transaction
<1> QED
  BY <1>1, <1>2, <1>4, <1>5 DEF UpToDate, GameOf, KindOf

LEMMA UncountedOwnersFresh ==
    ASSUME SqlInv, NEW w \in Workers, UncountedOwners(w), NEW s \in Transaction, s = tx[w], UpToDate(s),
           NEW t, t = tx'[w]
    PROVE  UpToDate(t)
<1>1. s.pc = "owners" /\ Game(w) = GameOf(s) /\ tx \in [Workers -> Transaction]
  BY DEF SqlInv, UncountedOwners, At, Game, GameOf, Event
<1>2. PICK batch \in BatchesOf(Game(w)) :
          tx' = [tx EXCEPT ![w].batch = batch, ![w].todo = batch,
                           ![w].pc = IF batch = {} THEN "mark" ELSE "pref"]
  BY DEF UncountedOwners, BatchesOf
<1>3. PICK pc : pc = IF batch = {} THEN "mark" ELSE "pref"
  OBVIOUS
<1>4. /\ t.pc = pc /\ t.batch = batch /\ t.base = s.base /\ t.dirty = s.dirty /\ t.read = s.read
      /\ t.event = s.event /\ t.changed = s.changed /\ t.current = s.current /\ t.loaded = s.loaded
      /\ t.pbase = s.pbase
  BY <1>1, <1>2, <1>3 DEF Transaction
<1>5. GameOf(t) = GameOf(s)
  BY <1>4 DEF GameOf
<1> QED
  BY <1>1, <1>2, <1>3, <1>4, <1>5 DEF UpToDate

LEMMA GetPreferenceFresh ==
    ASSUME SqlInv, NEW w \in Workers, GetPreference(w), NEW s \in Transaction, s = tx[w], UpToDate(s),
           NEW t, t = tx'[w]
    PROVE  UpToDate(t)
<1>1. s.pc = "pref" /\ tx \in [Workers -> Transaction] /\ s.todo \subseteq Users
  BY DEF SqlInv, GetPreference, At, Transaction
<1>2. PICK u \in s.todo :
          tx' = [tx EXCEPT ![w].current = {u}, ![w].loaded[u] = prefs[u], ![w].pc = "upsert_pref"]
  BY DEF GetPreference
<1>3. /\ t.pc = "upsert_pref" /\ t.current = {u} /\ t.base = s.base /\ t.dirty = s.dirty
      /\ t.read = s.read /\ t.event = s.event /\ t.changed = s.changed /\ t.pbase = s.pbase
      /\ t.batch = s.batch
  BY <1>1, <1>2 DEF Transaction
<1>4. t.loaded = [s.loaded EXCEPT ![u] = prefs[u]] /\ DOMAIN s.loaded = Users /\ s.changed \subseteq Users
  BY <1>1, <1>2 DEF Transaction
<1>5. t.loaded[u] = prefs[u] /\ \A v \in s.changed : t.loaded[v] = prefs[v]
  BY <1>1, <1>4 DEF UpToDate
<1>6. GameOf(t) = GameOf(s) /\ KindOf(t) = KindOf(s)
  <2>1. t.event = s.event
    BY <1>3, Zenon
  <2> QED
    BY <2>1, Zenon DEF GameOf, KindOf, Event, Game
<1> QED
  BY <1>1, <1>3, <1>5, <1>6 DEF UpToDate

LEMMA UpsertPreferenceFresh ==
    ASSUME SqlInv, NEW w \in Workers, UpsertPreference(w), NEW s \in Transaction, s = tx[w], UpToDate(s),
           NEW t, t = tx'[w]
    PROVE  UpToDate(t)
<1>1. /\ s.pc = "upsert_pref" /\ SessionInv(s) /\ Kind(w) = KindOf(s) /\ tx \in [Workers -> Transaction]
      /\ s.current \subseteq Users /\ s.changed \subseteq Users /\ DOMAIN s.pbase = Users
  BY DEF SqlInv, UpsertPreference, At, Kind, KindOf, Event, Transaction
<1>2. KindOf(s) \in {"GamePublished", "PurchaseCompleted", "ReviewPosted"}
  BY <1>1, OpenSession DEF SessionInv, InStep
<1>3. PICK u \in s.current : \E row \in Bases(prefs[u], s.loaded[u], Blank) :
          tx' = [tx EXCEPT ![w].pbase[u] = row,
                           ![w].changed  = @ \cup {u},
                           ![w].current  = {},
                           ![w].todo     = @ \ {u},
                           ![w].pc = IF tx[w].todo # {u} THEN "pref"
                                     ELSE CASE Kind(w) = "GamePublished"     -> "mark_counted"
                                            [] Kind(w) = "PurchaseCompleted" -> "record"
                                            [] Kind(w) = "ReviewPosted"      -> "mark"]
  BY Zenon DEF UpsertPreference
<1>4. PICK row \in Bases(prefs[u], s.loaded[u], Blank) :
          tx' = [tx EXCEPT ![w].pbase[u] = row,
                           ![w].changed  = @ \cup {u},
                           ![w].current  = {},
                           ![w].todo     = @ \ {u},
                           ![w].pc = IF tx[w].todo # {u} THEN "pref"
                                     ELSE CASE Kind(w) = "GamePublished"     -> "mark_counted"
                                            [] Kind(w) = "PurchaseCompleted" -> "record"
                                            [] Kind(w) = "ReviewPosted"      -> "mark"]
  BY <1>3
<1>5. PICK pc : pc = IF tx[w].todo # {u} THEN "pref"
                                     ELSE CASE Kind(w) = "GamePublished"     -> "mark_counted"
                                            [] Kind(w) = "PurchaseCompleted" -> "record"
                                            [] Kind(w) = "ReviewPosted"      -> "mark"
  OBVIOUS
<1>6. /\ pc \in {"pref", "mark_counted", "record", "mark"}
      /\ tx' = [tx EXCEPT ![w].pbase[u] = row, ![w].changed = @ \cup {u}, ![w].current = {},
                          ![w].todo = @ \ {u}, ![w].pc = pc]
  <2>1. pc \in {"pref", "mark_counted", "record", "mark"}
    BY <1>1, <1>2, <1>5
  <2> QED
    BY <1>4, <1>5, <2>1, Zenon
<1>7. s.loaded[u] = prefs[u] /\ row = prefs[u]
  BY <1>4 DEF UpToDate, Bases
<1>8. /\ t.pc = pc /\ t.changed = s.changed \cup {u} /\ t.current = {} /\ t.base = s.base
      /\ t.dirty = s.dirty /\ t.read = s.read /\ t.event = s.event /\ t.loaded = s.loaded
      /\ t.batch = s.batch
  BY <1>1, <1>6 DEF Transaction
<1>9. t.pbase = [s.pbase EXCEPT ![u] = row]
  BY <1>1, <1>6 DEF Transaction
<1>10. \A v \in t.changed : t.loaded[v] = prefs[v] /\ t.pbase[v] = prefs[v]
  BY <1>1, <1>7, <1>8, <1>9 DEF UpToDate
<1>11. GameOf(t) = GameOf(s) /\ KindOf(t) = KindOf(s)
  BY <1>8 DEF GameOf, KindOf
<1> QED
  BY <1>1, <1>6, <1>8, <1>10, <1>11 DEF UpToDate

\* The statements that write a row only mark their place.
LEMMA WritingFresh ==
    ASSUME SqlInv, NEW w \in Workers, RecordOwnership(w) \/ MarkCounted(w) \/ MarkProcessed(w),
           NEW s \in Transaction, s = tx[w], UpToDate(s), NEW t, t = tx'[w]
    PROVE  UpToDate(t)
<1>1. /\ s.pc \in {"record", "mark_counted", "mark"} /\ SessionInv(s) /\ tx \in [Workers -> Transaction]
      /\ s.pc = "record" => KindOf(s) # "GamePublished"
  BY DEF SqlInv, RecordOwnership, MarkCounted, MarkProcessed, At, SessionInv, InStep
<1>2. /\ t.pc \in {"upsert_game", "mark", "commit"} /\ t.base = s.base /\ t.dirty = s.dirty
      /\ t.read = s.read /\ t.event = s.event /\ t.changed = s.changed /\ t.current = s.current
      /\ t.loaded = s.loaded /\ t.pbase = s.pbase /\ t.batch = s.batch
  BY <1>1 DEF RecordOwnership, MarkCounted, MarkProcessed, Transaction
<1>3. GameOf(t) = GameOf(s) /\ KindOf(t) = KindOf(s)
  BY <1>2 DEF GameOf, KindOf
<1> QED
  BY <1>1, <1>2, <1>3 DEF UpToDate

\* A session that begins, ends or is thrown away.
LEMMA EmptiedFresh ==
    ASSUME SqlInv, NEW w \in Workers, NEW t, t = tx'[w],
           \/ \E e \in Events : Deliver(w, e) \/ Rebalance(w, e)
           \/ Crash(w) \/ Ack(w) \/ Commit(w) \/ CommitFails(w)
    PROVE  UpToDate(t)'
<1>1. /\ NoTx.pc = "idle" /\ ~ NoTx.dirty /\ NoTx.changed = {} /\ NoTx.current = {}
      /\ \A e, n : /\ Begun(e, n).pc = "seen" /\ ~ Begun(e, n).dirty
                   /\ Begun(e, n).changed = {} /\ Begun(e, n).current = {}
      /\ \A e : /\ Returned(e).pc = "ack" /\ ~ Returned(e).dirty
                /\ Returned(e).changed = {} /\ Returned(e).current = {}
  BY DEF NoTx, Begun, Returned
<1>2. tx \in [Workers -> Transaction]
  BY DEF SqlInv
<1>3. t = NoTx \/ (\E e, n : t = Begun(e, n)) \/ (\E e : t = Returned(e))
  <2>1. CASE \E e \in Events : Deliver(w, e) \/ Rebalance(w, e)
    BY <1>2, <2>1 DEF Deliver, Rebalance
  <2>2. CASE Crash(w) \/ Ack(w)
    BY <1>2, <2>2 DEF Crash, Ack
  <2>3. CASE Commit(w)
    BY <1>2, <2>3 DEF Commit, Returned
  <2>4. CASE CommitFails(w)
    <3>1. CASE tx[w].attempt < MaxRetries
      BY <1>2, <2>4, <3>1 DEF CommitFails
    <3>2. CASE ~ (tx[w].attempt < MaxRetries)
      BY <1>2, <2>4, <3>2 DEF CommitFails, Returned
    <3> QED
      BY <3>1, <3>2
  <2> QED
    BY <2>1, <2>2, <2>3, <2>4
<1> QED
  BY <1>1, <1>3, EmptyIsUpToDate

\* A session read out of the next state.
LEMMA NextSession == ASSUME NEW w \in Workers, NEW t, t = tx'[w], UpToDate(t)' PROVE UpToDate(tx[w])'
BY DEF UpToDate, GameOf, KindOf, BatchesOf

\* Whatever a session does itself, it stays as fresh as it was.
LEMMA OwnStep ==
    ASSUME SqlInv, NEW w \in Workers, UpToDate(tx[w]),
           (\E e \in Events : Deliver(w, e) \/ Rebalance(w, e)) \/ Statement(w) \/ Crash(w)
    PROVE  UpToDate(tx[w])'
<1>1. PICK s \in Transaction : s = tx[w]
  BY DEF SqlInv
<1>2. PICK t : t = tx'[w]
  OBVIOUS
<1>3. CASE \/ \E e \in Events : Deliver(w, e) \/ Rebalance(w, e)
           \/ Crash(w) \/ Ack(w) \/ Commit(w) \/ CommitFails(w)
  BY <1>2, <1>3, EmptiedFresh, NextSession
<1>4. CASE \/ Seen(w) \/ GetGame(w) \/ UpsertGame(w) \/ UncountedOwners(w) \/ GetPreference(w)
           \/ UpsertPreference(w) \/ RecordOwnership(w) \/ MarkCounted(w) \/ MarkProcessed(w)
  <2>1. UpToDate(t)
    BY <1>1, <1>2, <1>4, SeenFresh, GetGameFresh, UpsertGameFresh, UncountedOwnersFresh,
       GetPreferenceFresh, UpsertPreferenceFresh, WritingFresh, SMTT(40)
  <2>2. UNCHANGED rows
    BY <1>4 DEF Seen, GetGame, UpsertGame, UncountedOwners, GetPreference, UpsertPreference,
       RecordOwnership, MarkCounted, MarkProcessed
  <2>3. UpToDate(t)'
    BY <2>1, <2>2, StaysUpToDate
  <2> QED
    BY <1>2, <2>3, NextSession
<1> QED
  BY <1>3, <1>4 DEF Statement

\* The commit of a transaction that shares neither the game nor a profile changes nothing w has seen.
LEMMA CommitElsewhere ==
    ASSUME SqlInv, NEW w \in Workers, NEW v \in Workers \ {w}, Commit(v), ~ Clash(v, w),
           NEW t \in Transaction, t = tx[w], UpToDate(t)
    PROVE  UpToDate(t)'
<1>1. PICK s \in Transaction : s = tx[v]
  BY DEF SqlInv
<1>2. /\ SessionInv(s) /\ SessionInv(t) /\ Event(v) = s.event /\ Game(v) = GameOf(s)
      /\ Game(w) = GameOf(t) /\ games \in [Games -> GameProfile]
  BY <1>1 DEF SqlInv, Tables, Event, Game, GameOf
<1>3. GameOf(s) # GameOf(t) /\ s.changed \cap (t.changed \cup t.current) = {}
  BY <1>1, <1>2 DEF Clash
<1>4. /\ s.event \in Events /\ processed' = processed \cup {s.event} /\ s.locked = Written(s)
      /\ \A p \in Users \X Games : p \notin s.locked => ownership'[p] = ownership[p]
      /\ s.pc = "commit"
  BY <1>1, CommitRows
<1>5. CASE t.pc = "idle" \/ t.pc = "ack"
  <2>1. ~ t.dirty /\ t.changed = {}
    BY <1>2, <1>5 DEF SessionInv, InStep
  <2>2. t.current \subseteq Users /\ \A u \in t.current : prefs'[u] = prefs[u]
    BY <1>1, <1>3 DEF Commit, Transaction
  <2> QED
    BY <1>5, <2>1, <2>2 DEF UpToDate
<1>6. CASE t.pc # "idle" /\ t.pc # "ack"
  <2>1. PICK g \in Games : g = GameOf(t)
    BY <1>2, <1>6, OpenSession
  <2>2. t.event # s.event
    BY <1>3 DEF GameOf
  <2>3. games'[g] = games[g]
    BY <1>1, <1>2, <1>3, <2>1 DEF Commit
  <2>4. \A u \in Users : ownership'[<<u, g>>] = ownership[<<u, g>>]
    <3>1. KindOf(s) \in {"GamePublished", "GameWithdrawn", "PurchaseCompleted", "ReviewPosted"}
      BY <1>2, <1>4, OpenSession
    <3>2. \A u \in Users : <<u, g>> \notin s.locked
      BY <1>3, <1>4, <2>1, <3>1 DEF Written
    <3> QED
      BY <1>4, <3>2
  <2>5. {u \in Users : ownership'[<<u, g>>] = "uncounted"} = {u \in Users : ownership[<<u, g>>] = "uncounted"}
    BY <2>4
  <2>6. BatchesOf(g)' = BatchesOf(g)
    BY <2>5, Zenon DEF BatchesOf
  <2>7. ASSUME NEW u \in t.changed \cup t.current PROVE prefs'[u] = prefs[u]
    <3>1. u \in Users /\ u \notin s.changed
      BY <1>3 DEF Transaction
    <3> QED
      BY <1>1, <3>1 DEF Commit
  <2>8. BatchesOf(GameOf(t))' = BatchesOf(GameOf(t)) /\ games'[GameOf(t)] = games[GameOf(t)]
    BY <2>1, <2>3, <2>6 DEF BatchesOf
  <2> QED
    BY <1>4, <2>2, <2>7, <2>8 DEF UpToDate
<1> QED
  BY <1>5, <1>6

\* The reads of a session go out of date in one way only: another transaction commits that shares its
\* game, or has written a profile it has loaded.
OnlyAClashMakesStale ==
    [][\A w \in Workers :
          UpToDate(tx[w]) => \/ UpToDate(tx[w])'
                             \/ \E v \in Workers \ {w} : Commit(v) /\ Clash(v, w)]_vars

LEMMA NextStale ==
    ASSUME SqlInv, [Next]_vars, NEW w \in Workers, UpToDate(tx[w]),
           ~ \E v \in Workers \ {w} : Commit(v) /\ Clash(v, w)
    PROVE  UpToDate(tx[w])'
<1>1. PICK t \in Transaction : t = tx[w]
  BY DEF SqlInv
<1>2. CASE UNCHANGED vars
  <2>1. UpToDate(t)'
    BY <1>1, <1>2, StaysUpToDate DEF vars, rows
  <2> QED
    BY <1>1, <1>2, <2>1, NextSession DEF vars
<1>3. CASE Next
  <2>1. PICK v \in Workers :
            \/ (\E e \in Events : Deliver(v, e) \/ Rebalance(v, e)) \/ Statement(v) \/ Crash(v)
            \/ UNCHANGED vars
    BY <1>3 DEF Next, Drained
  <2>2. CASE UNCHANGED vars
    BY <1>2, <2>2
  <2>3. CASE v = w /\ ~ UNCHANGED vars
    BY <2>1, <2>3, OwnStep
  <2>4. CASE v # w /\ ~ UNCHANGED vars
    <3>1. tx'[w] = t
      BY <1>1, <2>1, <2>4, Zenon DEF SqlInv, Statement, Deliver, Rebalance, Crash, Ack, Seen, GetGame, UpsertGame,
         UncountedOwners, GetPreference, UpsertPreference, RecordOwnership, MarkCounted, MarkProcessed,
         Commit, CommitFails
    <3>2. CASE Commit(v)
      <4>1. UpToDate(t)'
        BY <1>1, <2>4, <3>2, CommitElsewhere
      <4> QED
        BY <3>1, <4>1, NextSession
    <3>3. CASE ~ Commit(v)
      <4>1. UNCHANGED rows
        BY <2>1, <2>4, <3>3, Zenon DEF Statement, Deliver, Rebalance, Crash, Ack, Seen, GetGame, UpsertGame,
           UncountedOwners, GetPreference, UpsertPreference, RecordOwnership, MarkCounted, MarkProcessed,
           CommitFails
      <4>2. UpToDate(t)'
        BY <1>1, <4>1, StaysUpToDate
      <4> QED
        BY <3>1, <4>2, NextSession
    <3> QED
      BY <3>2, <3>3
  <2> QED
    BY <2>2, <2>3, <2>4
<1> QED
  BY <1>2, <1>3

\* An action property of every interleaving: crashes, redeliveries, retries and waits for a lock leave
\* what a session has read as true as it was.
THEOREM StaleByClashOnly == Spec => OnlyAClashMakesStale
<1>1. SqlInv /\ [Next]_vars =>
        [\A w \in Workers :
            UpToDate(tx[w]) => \/ UpToDate(tx[w])'
                               \/ \E v \in Workers \ {w} : Commit(v) /\ Clash(v, w)]_vars
  BY NextStale
<1> QED
  BY <1>1, Invariant, PTL DEF Spec, OnlyAClashMakesStale

-----------------------------------------------------------------------------
(* One task.                                                               *)

AllUpToDate == \A w \in Workers : UpToDate(tx[w])

LEMMA InitUpToDate == Init => AllUpToDate
<1> SUFFICES ASSUME Init, NEW w \in Workers PROVE UpToDate(tx[w])
  BY DEF AllUpToDate
<1>1. tx[w] = NoTx
  BY DEF Init
<1>2. NoTx.pc = "idle" /\ ~ NoTx.dirty /\ NoTx.changed = {} /\ NoTx.current = {}
  BY DEF NoTx
<1> QED
  BY <1>1, <1>2, EmptyIsUpToDate

\* With one task there is nobody to clash with.
LEMMA OneTaskUpToDate ==
    ASSUME NEW only, Workers = {only}
    PROVE  SqlInv /\ AllUpToDate /\ [Next]_vars => AllUpToDate'
<1> SUFFICES ASSUME SqlInv, AllUpToDate, [Next]_vars, NEW w \in Workers PROVE UpToDate(tx[w])'
  BY DEF AllUpToDate
<1>1. UpToDate(tx[w]) /\ ~ \E v \in Workers \ {w} : Commit(v) /\ Clash(v, w)
  BY DEF AllUpToDate
<1> QED
  BY <1>1, NextStale

\* A step of which nothing is stale is a handler of Ingest, as a whole, or leaves the rows alone; and
\* no attempt at it fails.
LEMMA UpToDateRefines ==
    SqlInv /\ AllUpToDate /\ [Next]_vars => [I!Next]_(I!vars) /\ ~ \E w \in Workers : CommitFails(w)
<1> SUFFICES ASSUME SqlInv, AllUpToDate, [Next]_vars
             PROVE  (I!Next \/ UNCHANGED I!vars) /\ ~ \E w \in Workers : CommitFails(w)
  OBVIOUS
<1>1. ASSUME NEW w \in Workers, At(w, "commit") PROVE ~ Stale(w) /\ ~ DuplicateKey(w)
  <2>1. PICK s \in Transaction : s = tx[w]
    BY DEF SqlInv
  <2> QED
    BY <1>1, <2>1, FreshAtCommit DEF AllUpToDate, At
<1>2. ~ \E w \in Workers : StaleCommit(w)
  BY <1>1 DEF StaleCommit
<1>3. ~ \E w \in Workers : CommitFails(w)
  BY <1>1 DEF CommitFails
<1>4. I!Next \/ (\E w \in Workers : StaleCommit(w)) \/ UNCHANGED I!vars
  BY NextRefines
<1> QED
  BY <1>2, <1>3, <1>4

LEMMA OneTaskInvariant ==
    ASSUME NEW only, Workers = {only}
    PROVE  Spec => [](SqlInv /\ AllUpToDate)
<1>1. SqlInv /\ AllUpToDate /\ [Next]_vars => (SqlInv /\ AllUpToDate)'
  BY NextInv, OneTaskUpToDate
<1>2. Init => SqlInv /\ AllUpToDate
  BY InitInv, InitUpToDate
<1> QED
  BY <1>1, <1>2, PTL DEF Spec

\* A deployment that runs one consumer task, whatever it crashes and however often its events are
\* delivered, implements the atomic handlers without an exception: the statements of a transaction, its
\* flush of single columns and its rows written at once add up to the handler of ingest.py.
THEOREM OneTaskIsExact ==
    ASSUME NEW only, Workers = {only}
    PROVE  Spec => I!Spec
<1>1. Init => I!Init
  BY InitRefines
<1>2. SqlInv /\ AllUpToDate /\ [Next]_vars => [I!Next]_(I!vars)
  BY UpToDateRefines
<1>3. Spec => [](SqlInv /\ AllUpToDate)
  BY OneTaskInvariant
<1> QED
  BY <1>1, <1>2, <1>3, PTL DEF Spec, I!Spec

\* It gives nothing up: every offset it commits is that of an event processed, publications included.
NothingGivenUp == rerouted = {} /\ \A w \in Workers : At(w, "ack") => Event(w) \in processed

THEOREM OneTaskGivesNothingUp ==
    ASSUME NEW only, Workers = {only}
    PROVE  Spec => []NothingGivenUp
<1>1. Init => rerouted = {}
  BY DEF Init
<1>2. SqlInv /\ AllUpToDate /\ rerouted = {} /\ [Next]_vars => (rerouted = {})'
  <2> SUFFICES ASSUME SqlInv, AllUpToDate, rerouted = {}, [Next]_vars PROVE rerouted' = {}
    OBVIOUS
  <2>1. ~ \E w \in Workers : CommitFails(w)
    BY UpToDateRefines
  <2>2. UNCHANGED rerouted
    BY <2>1, ZenonT(40) DEF Next, Statement, vars, Env, Drained, Deliver, Rebalance, Crash, Ack, Seen, GetGame,
       UpsertGame, UncountedOwners, GetPreference, UpsertPreference, RecordOwnership, MarkCounted,
       MarkProcessed, Commit
  <2> QED
    BY <2>2
<1>3. SqlInv /\ rerouted = {} => NothingGivenUp
  <2> SUFFICES ASSUME SqlInv, rerouted = {}, NEW w \in Workers, At(w, "ack") PROVE Event(w) \in processed
    BY DEF NothingGivenUp
  <2>1. PICK s \in Transaction : s = tx[w] /\ SessionInv(s)
    BY DEF SqlInv
  <2> QED
    BY <2>1 DEF SessionInv, TookEffect, At, Event
<1>4. Spec => [](SqlInv /\ AllUpToDate)
  BY OneTaskInvariant
<1> QED
  BY <1>1, <1>2, <1>3, <1>4, PTL DEF Spec



-----------------------------------------------------------------------------
(* What the handlers are proved to keep, the tables keep.                  *)

P == INSTANCE IngestProofs

LEMMA SameAssumptions == P!BodyAssumption /\ P!FiniteAssumption /\ P!LimitAssumption
BY BodyAssumption, FiniteAssumption, LimitAssumption
DEF P!BodyAssumption, P!EventBody, EventBody, P!FiniteAssumption, P!IsFiniteSet, IsFiniteSet,
    P!LimitAssumption

LEMMA SameCounting == \A S : P!Cardinality(S) = Cardinality(S) /\ I!Cardinality(S) = Cardinality(S)
BY Zenon DEF P!Cardinality, I!Cardinality, Cardinality

LEMMA SameInit == I!Init => P!Init
BY Zenon DEF I!Init, P!Init, I!UnknownGame, P!UnknownGame, I!Blank, P!Blank, I!SignalKinds, P!SignalKinds

LEMMA SameRows ==
    ASSUME NEW row, NEW e
    PROVE  /\ I!Known(row) = P!Known(row) /\ I!Published(e) = P!Published(e)
           /\ I!Redescribed(row, e) = P!Redescribed(row, e)
           /\ I!Withdrawn(row) = P!Withdrawn(row) /\ I!Bought(row) = P!Bought(row)
BY Zenon DEF I!Known, P!Known, I!Published, P!Published, I!Redescribed, P!Redescribed, I!Withdrawn,
   P!Withdrawn, I!Bought, P!Bought

LEMMA SameObserve == ASSUME NEW row, NEW g, NEW k PROVE I!Observe(row, g, k) = P!Observe(row, g, k)
BY Zenon DEF I!Observe, P!Observe, I!Remember, P!Remember

LEMMA SameBatches == \A g : I!BackfillBatches(I!Uncounted(g)) = P!BackfillBatches(P!Uncounted(g))
BY SameCounting, Zenon DEF I!BackfillBatches, P!BackfillBatches, I!Uncounted, P!Uncounted

LEMMA SamePublished == ASSUME NEW e, I!HandleGamePublished(e) PROVE P!HandleGamePublished(e)
<1>1. PICK g : g = Body[e].game
  OBVIOUS
<1>2. PICK batch \in I!BackfillBatches(I!Uncounted(g)) : I!Backfill(g, batch)
  BY <1>1 DEF I!HandleGamePublished
<1>3. batch \in P!BackfillBatches(P!Uncounted(g))
  BY <1>2, SameBatches
<1>4. P!Backfill(g, batch)
  BY <1>2, SameObserve, Zenon DEF I!Backfill, P!Backfill
<1>5. games' = [games EXCEPT ![g] = IF P!Known(@) THEN P!Redescribed(@, e) ELSE P!Published(e)]
  BY <1>1, SameRows DEF I!HandleGamePublished
<1> QED
  BY <1>1, <1>3, <1>4, <1>5 DEF I!HandleGamePublished, P!HandleGamePublished, I!Mark, P!Mark

LEMMA SameWithdrawn == ASSUME NEW e, I!HandleGameWithdrawn(e) PROVE P!HandleGameWithdrawn(e)
BY SameRows DEF I!HandleGameWithdrawn, P!HandleGameWithdrawn, I!Mark, P!Mark

LEMMA SamePurchase == ASSUME NEW e, I!HandlePurchaseCompleted(e) PROVE P!HandlePurchaseCompleted(e)
<1>1. CASE I!PurchaseOfUnknownGame(e)
  BY <1>1, SameRows DEF I!PurchaseOfUnknownGame, P!PurchaseOfUnknownGame, I!Mark, P!Mark,
     I!Recorded, P!Recorded, P!HandlePurchaseCompleted
<1>2. CASE I!PurchaseOfKnownGame(e)
  BY <1>2, SameRows, SameObserve DEF I!PurchaseOfKnownGame, P!PurchaseOfKnownGame, I!Mark, P!Mark,
     I!Recorded, P!Recorded, P!HandlePurchaseCompleted
<1> QED
  BY <1>1, <1>2 DEF I!HandlePurchaseCompleted

LEMMA SameReview == ASSUME NEW e, I!HandleReviewPosted(e) PROVE P!HandleReviewPosted(e)
BY SameRows, SameObserve DEF I!HandleReviewPosted, P!HandleReviewPosted, I!Mark, P!Mark,
   I!ReviewKind, P!ReviewKind

LEMMA SameNext == [I!Next]_(I!vars) => [P!Next]_(P!vars)
<1>1. ASSUME NEW e, I!Handle(e) PROVE P!Handle(e)
  BY <1>1, SamePublished, SameWithdrawn, SamePurchase, SameReview DEF I!Handle, P!Handle
<1>2. ASSUME NEW e, I!AlreadyHandled(e) PROVE P!AlreadyHandled(e)
  BY <1>2 DEF I!AlreadyHandled, P!AlreadyHandled, I!vars, P!vars
<1> QED
  BY <1>1, <1>2 DEF I!Next, P!Next, I!vars, P!vars

LEMMA SameSpec == I!Spec => P!Spec
BY SameInit, SameNext, PTL DEF I!Spec, P!Spec

LEMMA SameLibrary == P!ImplementsLibrary => I!ImplementsLibrary
<1>1. P!KnownGames = I!KnownGames /\ P!Owners = I!Owners /\ P!CreditedPairs = I!CreditedPairs
  BY Zenon DEF P!KnownGames, I!KnownGames, P!Owners, I!Owners, P!CreditedPairs, I!CreditedPairs,
     P!Known, I!Known
<1>2. P!KnownGames' = I!KnownGames' /\ P!Owners' = I!Owners' /\ P!CreditedPairs' = I!CreditedPairs'
  BY Zenon DEF P!KnownGames, I!KnownGames, P!Owners, I!Owners, P!CreditedPairs, I!CreditedPairs,
     P!Known, I!Known
<1>3. P!L!Init => I!L!Init
  BY <1>1 DEF P!L!Init, I!L!Init
<1>4. [P!L!Next]_(P!L!lvars) => [I!L!Next]_(I!L!lvars)
  BY <1>1, <1>2 DEF P!L!Next, I!L!Next, P!L!lvars, I!L!lvars, P!L!Learn, I!L!Learn, P!L!Acquire, I!L!Acquire
<1> QED
  BY <1>3, <1>4, PTL DEF P!ImplementsLibrary, I!ImplementsLibrary, P!L!Spec, I!L!Spec

\* A deployment with one task keeps, statement by statement, what ingest.py promises: the flag of an
\* ownership row is up exactly for what is in the taste and excluded from the ranking (profile.py:16-19),
\* and no purchase is credited twice or counted towards popularity twice.
THEOREM OneTaskKeepsTheBooks ==
    ASSUME NEW only, Workers = {only}
    PROVE  Spec => [](/\ I!CreditedIffCounted /\ I!CreditsBackedByPurchases /\ I!CountBackedByPurchases)
<1>1. P!CreditedIffCounted <=> I!CreditedIffCounted
  BY Zenon DEF P!CreditedIffCounted, I!CreditedIffCounted, P!Credits, I!Credits
<1>2. P!CreditsBackedByPurchases <=> I!CreditsBackedByPurchases
  BY SameCounting, Zenon DEF P!CreditsBackedByPurchases, I!CreditsBackedByPurchases, P!Credits, I!Credits,
     P!PurchasesBy, I!PurchasesBy, P!PurchasesOf, I!PurchasesOf
<1>3. P!CountBackedByPurchases <=> I!CountBackedByPurchases
  BY SameCounting, Zenon DEF P!CountBackedByPurchases, I!CountBackedByPurchases, P!PurchasesOf, I!PurchasesOf
<1>4. Spec => P!Spec
  BY OneTaskIsExact, SameSpec, PTL
<1>5. P!Spec => []P!CreditedIffCounted
  BY SameAssumptions, P!CreditsAgree, PTL
<1>6. P!Spec => []P!CreditsBackedByPurchases
  BY SameAssumptions, P!NoDoubleCredit, PTL
<1>7. P!Spec => []P!CountBackedByPurchases
  BY SameAssumptions, P!NoOverstatedCount, PTL
<1> QED
  BY <1>1, <1>2, <1>3, <1>4, <1>5, <1>6, <1>7, PTL

\* With a backfill that covers every recipient it keeps the promise of the README to purchases that
\* come before their game (ingest.py:120-122): nobody is left waiting, and the transactions implement,
\* through Ingest, the order-insensitive Library.
THEOREM OneTaskIsALibrary ==
    ASSUME NEW only, Workers = {only}, Cardinality(Users) <= BackfillLimit
    PROVE  Spec => []I!NoStrandedOwner /\ []I!ProcessedPurchaseTakesEffect /\ I!ImplementsLibrary
<1>1. P!EnoughBackfill
  BY SameCounting DEF P!EnoughBackfill
<1>2. P!NoStrandedOwner <=> I!NoStrandedOwner
  BY Zenon DEF P!NoStrandedOwner, I!NoStrandedOwner, P!Known, I!Known
<1>3. P!ProcessedPurchaseTakesEffect <=> I!ProcessedPurchaseTakesEffect
  BY Zenon DEF P!ProcessedPurchaseTakesEffect, I!ProcessedPurchaseTakesEffect, P!Known, I!Known,
     P!PurchasesBy, I!PurchasesBy, P!PurchasesOf, I!PurchasesOf
<1>4. Spec => P!Spec
  BY OneTaskIsExact, SameSpec, PTL
<1>5. P!Spec => []P!NoStrandedOwner
  BY SameAssumptions, <1>1, P!NobodyStranded, PTL
<1>6. P!Spec => []P!ProcessedPurchaseTakesEffect
  BY SameAssumptions, <1>1, P!PurchasesTakeEffect, PTL
<1>7. P!Spec => P!ImplementsLibrary
  BY SameAssumptions, <1>1, P!Refinement, PTL
<1> QED
  BY <1>2, <1>3, <1>4, <1>5, <1>6, <1>7, SameLibrary, PTL
=============================================================================
