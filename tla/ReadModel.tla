----------------------------- MODULE ReadModel -----------------------------
(***************************************************************************)
(* The domain objects every other module works on: the read-model of a     *)
(* game (domain/catalog/game_profile.py), a user's preference profile      *)
(* (domain/preference/profile.py), and the platform events that feed them. *)
(*                                                                         *)
(* A description (title, genres, tags and prose, which change together) is *)
(* named by the event that carried it; an embedding is named by the        *)
(* description it was computed from.  A taste vector is named by what was  *)
(* folded into it: how many signals of each kind, for each game.           *)
(***************************************************************************)
EXTENDS Integers, Sequences, FiniteSets

CONSTANTS
    Users,          \* user ids
    Games,          \* game ids
    Events,         \* ids of the events on game-events, purchase-events and review-events
    Body,           \* Body[e]: what the event e says
    NoEvent,        \* no description, no embedding
    HistoryCap,     \* limits.MAX_SIGNAL_HISTORY
    BackfillLimit   \* HandleGamePublishedUseCase._backfill_limit

SignalKinds == {"PURCHASE", "REVIEW_LIKE", "REVIEW_DISLIKE"}

EventBody ==
         [type : {"GamePublished", "GameWithdrawn"}, game : Games]
    \cup [type : {"PurchaseCompleted"}, game : Games, user : Users]
    \cup [type : {"ReviewPosted"}, game : Games, user : Users, liked : BOOLEAN]

ASSUME BodyAssumption == Body \in [Events -> EventBody] /\ NoEvent \notin Events
ASSUME FiniteAssumption == IsFiniteSet(Users) /\ IsFiniteSet(Events)
ASSUME LimitAssumption == HistoryCap \in Nat \ {0} /\ BackfillLimit \in Nat

Descriptions == Events \cup {NoEvent}

-----------------------------------------------------------------------------
(* Games.  An id the service has never heard of has the row UnknownGame.   *)

GameProfile ==
    [description    : Descriptions,
     is_published   : BOOLEAN,
     purchase_count : Nat,
     dense          : Descriptions]

UnknownGame ==
    [description |-> NoEvent, is_published |-> FALSE, purchase_count |-> 0, dense |-> NoEvent]

Known(game) == game.description # NoEvent

Published(e) ==
    [description |-> e, is_published |-> TRUE, purchase_count |-> 0, dense |-> NoEvent]

\* Mutants: an edit that starts the row afresh; an edit that keeps the vector of the old words.
RedescribedAfresh(game, e) == Published(e)
RedescribedKeepingVector(game, e) == [game EXCEPT !.description = e, !.is_published = TRUE]

Redescribed(game, e) ==
    [game EXCEPT !.description = e, !.is_published = TRUE, !.dense = NoEvent]

Embedded(game, vector) == [game EXCEPT !.dense = vector]
Bought(game) == [game EXCEPT !.purchase_count = @ + 1]
Withdrawn(game) == [game EXCEPT !.is_published = FALSE]

NeedsEmbedding(game) == Known(game) /\ game.is_published /\ game.dense = NoEvent

-----------------------------------------------------------------------------
(* Preference profiles.                                                    *)

SignalRecord == [game_id : Games, kind : SignalKinds]

UserPreference ==
    [taste        : [Games \X SignalKinds -> Nat],
     owned        : SUBSET Games,
     history      : Seq(SignalRecord),
     signal_count : Nat]

Blank ==
    [taste        |-> [s \in Games \X SignalKinds |-> 0],
     owned        |-> {},
     history      |-> << >>,
     signal_count |-> 0]

\* Mutant: the cap is looked at before the record is added.
RememberOneMore(history, record) ==
    Append(IF Len(history) > HistoryCap THEN Tail(history) ELSE history, record)

Remember(history, record) ==
    LET longer == Append(history, record)
    IN  IF Len(longer) > HistoryCap THEN Tail(longer) ELSE longer

\* Mutant: every signal makes its game an owned one.
ObserveAsOwned(preference, g, kind) ==
    [taste        |-> [preference.taste EXCEPT ![<<g, kind>>] = @ + 1],
     owned        |-> preference.owned \cup {g},
     history      |-> Remember(preference.history, [game_id |-> g, kind |-> kind]),
     signal_count |-> preference.signal_count + 1]

Observe(preference, g, kind) ==
    [taste        |-> [preference.taste EXCEPT ![<<g, kind>>] = @ + 1],
     owned        |-> IF kind = "PURCHASE" THEN preference.owned \cup {g} ELSE preference.owned,
     history      |-> Remember(preference.history, [game_id |-> g, kind |-> kind]),
     signal_count |-> preference.signal_count + 1]

ReviewKind(body) == IF body.liked THEN "REVIEW_LIKE" ELSE "REVIEW_DISLIKE"

-----------------------------------------------------------------------------
(* Ownership rows: absent, recorded but not yet credited, or credited.     *)

OwnershipStates == {"none", "uncounted", "counted"}

\* The upsert raises the flag and never lowers it.
Recorded(state, counted) ==
    IF counted \/ state = "counted" THEN "counted" ELSE "uncounted"

\* Mutant: one owner short of the limit.
BackfillBatchesOneShort(uncounted) ==
    IF Cardinality(uncounted) < BackfillLimit
    THEN {uncounted}
    ELSE {batch \in SUBSET uncounted : Cardinality(batch) = BackfillLimit - 1}

\* The owners one backfill takes: all of them, or the first BackfillLimit.  acquired_at is the
\* clock of whichever replica recorded the row, so any of them may come first.
BackfillBatches(uncounted) ==
    IF Cardinality(uncounted) <= BackfillLimit
    THEN {uncounted}
    ELSE {batch \in SUBSET uncounted : Cardinality(batch) = BackfillLimit}

-----------------------------------------------------------------------------
(* What a session writes of a row: it selects the row to compare with in   *)
(* upsert, and flushes at commit.                                          *)

\* The row an upsert's session.get returns.  The identity map is weak: a row that get loaded is
\* selected again unless something still holds it, and one that was absent always is.
Bases(row, loaded, absent) == IF loaded = absent THEN {row} ELSE {row, loaded}

\* The columns that differ from the base row are overwritten, the others are left as they are.
Flushed(new, base, row) == [c \in DOMAIN row |-> IF new[c] # base[c] THEN new[c] ELSE row[c]]

-----------------------------------------------------------------------------
(* The events of one kind, for the statements about what was counted.      *)

PurchasesOf(g) ==
    {e \in Events : Body[e].type = "PurchaseCompleted" /\ Body[e].game = g}
PurchasesBy(u, g) == {e \in PurchasesOf(g) : Body[e].user = u}
PublicationsOf(g) == {e \in Events : Body[e].type = "GamePublished" /\ Body[e].game = g}
=============================================================================
