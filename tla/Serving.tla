------------------------------ MODULE Serving ------------------------------
(***************************************************************************)
(* The read path (application/usecases/serve.py, the recommendations       *)
(* router and infrastructure/response_cache.py) beside the purchases,      *)
(* edits and generations that change what it reads.                        *)
(*                                                                         *)
(* A request reads statement by statement.  Handlers and generations take  *)
(* effect as a whole here: their own interleavings are those of IngestSql  *)
(* and Generation.  So `rows' is at once the table ownerships, every       *)
(* owned set and, counted by game, purchase_count, which do agree when     *)
(* handlers take turns.  All games are known: no request ends in NotFound. *)
(* Titles and genres are left out, and with them the look-up by_ids.       *)
(***************************************************************************)
EXTENDS Scoring

CONSTANTS
    Clients,            \* requests that may be under way at once
    Actors,             \* the users who ask
    Moderators,         \* those with the role SUPPORT or ADMIN
    Limits,             \* values of the query parameter limit
    ListLength,         \* limits.DEFAULT_RECOMMENDATION_COUNT
    FallbackFactor,     \* the fallback reads FallbackFactor * limit candidates: 4
    CatalogueLimit,     \* settings.catalogue_scan_limit
    Subjects,           \* games whose neighbours are asked for
    Past,               \* what the table ownerships may hold at the start
    NoEntry,
    Sales,              \* bound: the purchases that may happen, pairs <<user, game>>
    Reviews,            \* bound: the reviews that may be posted, <<user, game, kind>>
    Editions,           \* bound: the games that may be published and withdrawn
    MaxChanges          \* bound: how many of these there are

ASSUME RequestsAssumption ==
    /\ Moderators \subseteq Actors /\ Actors \subseteq Users
    /\ Subjects \subseteq Games /\ Limits \subseteq Nat \ {0} /\ Past \subseteq SUBSET (Users \X Games)
    /\ Sales \subseteq Users \X Games /\ Editions \subseteq Games
    /\ Reviews \subseteq Users \X Games \X {"REVIEW_LIKE", "REVIEW_DISLIKE"}
    /\ ListLength \in Nat \ {0} /\ FallbackFactor \in Nat \ {0} /\ CatalogueLimit \in Nat /\ MaxChanges \in Nat

VARIABLES
    published,      \* games with is_published
    rows,           \* ownerships: pairs <<user, game>>
    taste,          \* taste[u]
    list,           \* list[u]: the stored recommendations, by rank
    cache,          \* cache[k]: the entry of Redis
    request,        \* request[c]: what the client c is waiting for
    changes

vars == <<published, rows, taste, list, cache, request, changes>>

Keys == ({"mine"} \X Actors \X Limits) \cup ({"similar"} \X Subjects \X Limits)

Recommendation == [game : Games, source : {"CONTENT", "COLLAB", "HYBRID"}]

NoRequest ==
    [pc |-> "idle", route |-> "mine", subject |-> NoEntry, limit |-> 0, keep |-> FALSE,
     hit |-> FALSE, began |-> {}, owned |-> {}, source |-> "FALLBACK", items |-> << >>]

\* The tables as an earlier run of the service may have left them, before any list was generated.
Init ==
    /\ published = Games
    /\ rows \in Past
    /\ taste = [u \in Users |->
                  [f \in Features |->
                      Weight.PURCHASE * Cardinality({g \in Owned(rows, u) : f \in Labels[g]})]]
    /\ list = [u \in Users |-> << >>]
    /\ cache = [k \in Keys |-> NoEntry]
    /\ request = [c \in Clients |-> NoRequest]
    /\ changes = 0

-----------------------------------------------------------------------------
(* What the requests run beside.                                           *)

Change == changes < MaxChanges /\ changes' = changes + 1

\* HandlePurchaseCompleted of a known game.
Purchase(u, g) ==
    /\ <<u, g>> \notin rows
    /\ Change
    /\ rows' = rows \cup {<<u, g>>}
    /\ taste' = [taste EXCEPT ![u] = Plus(@, g, Weight.PURCHASE)]
    /\ UNCHANGED <<published, list, cache, request>>

\* HandleReviewPosted
Review(u, g, kind) ==
    /\ Change
    /\ taste' = [taste EXCEPT ![u] = Plus(@, g, Weight[kind])]
    /\ UNCHANGED <<published, rows, list, cache, request>>

\* HandleGamePublished, HandleGameWithdrawn.
Edit(g) ==
    /\ Change
    /\ published' = IF g \in published THEN published \ {g} ELSE published \cup {g}
    /\ UNCHANGED <<rows, taste, list, cache, request>>

\* The list that GenerateRecommendationsUseCase.execute makes for u: empty if u is cold.
Generated(u) ==
    LET owned == Owned(rows, u)
    IN  IF taste[u] = NoTaste
        THEN << >>
        ELSE Ranked(taste[u], owned, Recommendable(published, rows, CatalogueLimit),
                    CoPurchases(rows, u, owned), rows, ListLength)

\* GenerateRecommendationsUseCase.execute, for one user of a sweep.
Generate(u) ==
    /\ UNCHANGED <<published, rows, taste, cache, request, changes>>
    /\ list' = [list EXCEPT ![u] = Generated(u)]

-----------------------------------------------------------------------------
(* Requests.                                                               *)

Tables == <<published, rows, taste, list, changes>>

At(c, step) == request[c].pc = step

Ask(c, route, subject, limit, step) ==
    /\ At(c, "idle")
    /\ request' = [request EXCEPT ![c] =
                      [NoRequest EXCEPT !.pc = step, !.route = route, !.subject = subject, !.limit = limit,
                                        !.began = IF route = "similar" THEN {} ELSE Owned(rows, subject)]]
    /\ UNCHANGED <<Tables, cache>>

\* GET /recommendations
MyRecommendations(c, actor, limit) == Ask(c, "mine", actor, limit, "cache")

\* GET /users/{user_id}/recommendations, uncached.
RecommendationsFor(c, actor, u, limit) ==
    /\ u = actor \/ actor \in Moderators
    /\ Ask(c, "theirs", u, limit, "list")

\* GET /games/{game_id}/similar
SimilarGames(c, g, limit) == Ask(c, "similar", g, limit, "cache")

\* Mutant: the limit is not in the key.
KeyOfSubject(c) ==
    <<request[c].route, request[c].subject, CHOOSE limit \in Limits : TRUE>>

Key(c) == <<request[c].route, request[c].subject, request[c].limit>>

FirstStep(c) == IF request[c].route = "similar" THEN "similar" ELSE "list"

\* get_or_set: a hit ends the request.
CacheHit(c) ==
    /\ At(c, "cache")
    /\ cache[Key(c)] # NoEntry
    /\ request' = [request EXCEPT ![c].pc = "done", ![c].hit = TRUE,
                                  ![c].source = cache[Key(c)].source, ![c].items = cache[Key(c)].items]
    /\ UNCHANGED <<Tables, cache>>

CacheMiss(c) ==
    /\ At(c, "cache")
    /\ cache[Key(c)] = NoEntry
    /\ request' = [request EXCEPT ![c].pc = FirstStep(c), ![c].keep = TRUE]
    /\ UNCHANGED <<Tables, cache>>

\* Redis is unreachable: the answer is computed, and not written either.
CacheReadFails(c) ==
    /\ At(c, "cache")
    /\ request' = [request EXCEPT ![c].pc = FirstStep(c)]
    /\ UNCHANGED <<Tables, cache>>

Answer(c, source, items) ==
    /\ request' = [request EXCEPT ![c].pc = IF request[c].keep THEN "store" ELSE "done",
                                  ![c].source = source, ![c].items = items]
    /\ UNCHANGED <<Tables, cache>>

\* _dominant_source
DominantSource(stored) ==
    LET sources == {stored[i].source : i \in DOMAIN stored}
    IN  IF Cardinality(sources) > 1 THEN "HYBRID" ELSE CHOOSE source \in sources : TRUE

GamesIn(stored) == [i \in DOMAIN stored |-> stored[i].game]

\* recommendations.for_user(user_id, limit)
ReadList(c) ==
    LET stored == SubSeq(list[request[c].subject], 1, Min({request[c].limit, Len(list[request[c].subject])}))
    IN  /\ At(c, "list")
        /\ IF stored # << >>
           THEN Answer(c, DominantSource(stored), GamesIn(stored))
           ELSE /\ request' = [request EXCEPT ![c].pc = "preference"]
                /\ UNCHANGED <<Tables, cache>>

\* _fallback_response: the profile, in a statement of its own.
ReadPreference(c) ==
    /\ At(c, "preference")
    /\ request' = [request EXCEPT ![c].pc = "candidates", ![c].owned = Owned(rows, request[c].subject)]
    /\ UNCHANGED <<Tables, cache>>

\* Mutant: no more candidates than answers.
ShortlistOf(limit) == Recommendable(published, rows, limit)

Shortlist(limit) == Recommendable(published, rows, FallbackFactor * limit)

\* _fallback_response: the candidates, and what is left of them.
ReadCandidates(c) ==
    /\ At(c, "candidates")
    /\ Answer(c, "FALLBACK",
              TopSellers(Shortlist(request[c].limit), request[c].owned, rows, request[c].limit))

\* ListSimilarGamesUseCase.execute
ReadSimilar(c) ==
    /\ At(c, "similar")
    /\ Answer(c, "CONTENT",
              Similar(request[c].subject, Recommendable(published, rows, CatalogueLimit), rows,
                      request[c].limit))

CacheWrite(c) ==
    /\ At(c, "store")
    /\ cache' = [cache EXCEPT ![Key(c)] = [source |-> request[c].source, items |-> request[c].items]]
    /\ request' = [request EXCEPT ![c].pc = "done"]
    /\ UNCHANGED Tables

CacheWriteFails(c) ==
    /\ At(c, "store")
    /\ request' = [request EXCEPT ![c].pc = "done"]
    /\ UNCHANGED <<Tables, cache>>

\* The caller has the answer.
Respond(c) ==
    /\ At(c, "done")
    /\ request' = [request EXCEPT ![c] = NoRequest]
    /\ UNCHANGED <<Tables, cache>>

\* Mutant: entries are written without their TTL.
ExpireNever(k) == FALSE /\ UNCHANGED vars

\* The TTL of an entry runs out.
Expire(k) ==
    /\ cache[k] # NoEntry
    /\ cache' = [cache EXCEPT ![k] = NoEntry]
    /\ UNCHANGED <<Tables, request>>

-----------------------------------------------------------------------------

RequestStep(c) ==
    \/ CacheHit(c) \/ CacheMiss(c) \/ CacheReadFails(c)
    \/ ReadList(c) \/ ReadPreference(c) \/ ReadCandidates(c) \/ ReadSimilar(c)
    \/ CacheWrite(c) \/ CacheWriteFails(c) \/ Respond(c)

Next ==
    \/ \E sale \in Sales : Purchase(sale[1], sale[2])
    \/ \E review \in Reviews : Review(review[1], review[2], review[3])
    \/ \E g \in Editions : Edit(g)
    \/ \E u \in Users : Generate(u)
    \/ \E c \in Clients, limit \in Limits :
          \/ \E actor \in Actors :
                \/ MyRecommendations(c, actor, limit)
                \/ \E u \in Users : RecommendationsFor(c, actor, u, limit)
          \/ \E g \in Subjects : SimilarGames(c, g, limit)
    \/ \E c \in Clients : RequestStep(c)
    \/ \E k \in Keys : Expire(k)

Spec == Init /\ [][Next]_vars

\* Requests are answered, sweeps go on, and every entry has a TTL.  The second conjunct is
\* WF_vars(Generate(u)) with its ENABLED written out: a generation changes a list that is not the
\* one it would make.
Fairness ==
    /\ \A c \in Clients : WF_vars(RequestStep(c))
    /\ \A u \in Users : []<>(list[u] = Generated(u)) \/ []<><<Generate(u)>>_vars
    /\ \A k \in Keys : WF_vars(Expire(k))

FairSpec == Spec /\ Fairness

-----------------------------------------------------------------------------
(* Properties.                                                             *)

Personal(c) == request[c].route # "similar"
Library(u) == Owned(rows, u)

\* Lists, entries and requests have their shapes; a list names nothing twice and keeps to its length,
\* and an entry of the cache is no longer than its key asks for.
TypeOK ==
    /\ published \subseteq Games
    /\ rows \subseteq Users \X Games
    /\ taste \in [Users -> [Features -> Int]]
    /\ \A u \in Users :
          /\ Len(list[u]) <= ListLength
          /\ \A i, j \in DOMAIN list[u] :
                list[u][i] \in Recommendation /\ (list[u][i].game = list[u][j].game => i = j)
    /\ DOMAIN cache = Keys
    /\ \A k \in Keys : cache[k] # NoEntry => Len(cache[k].items) <= k[3]
    /\ \A c \in Clients :
          /\ request[c].pc \in {"idle", "cache", "list", "preference", "candidates", "similar",
                                "store", "done"}
          /\ request[c].subject \in Users \cup Games \cup {NoEntry}
    /\ changes \in 0 .. MaxChanges

\* Whether an answer comes from the tables or was computed for an earlier request: it is no longer
\* than asked for, names no game twice, and never the game it is about.  The fallback never suggests
\* what the user had when the request came in, although the list, the library and the catalogue are
\* read one after the other while purchases go on.
AnswersFit ==
    \A c \in Clients : At(c, "done") =>
        LET items == request[c].items
        IN  /\ Len(items) <= request[c].limit
            /\ \A i, j \in DOMAIN items : items[i] = items[j] => i = j
            /\ ~ Personal(c) => request[c].subject \notin Range(items)
            /\ (Personal(c) /\ request[c].source = "FALLBACK" /\ ~ request[c].hit)
                  => Range(items) \cap request[c].began = {}

\* No failure mode returns nothing (serve.py:28-30), short of the one there is: an answer computed
\* from the tables is empty only if the user owns all there is to recommend, or as many games as
\* the fallback looks at.
NeverEmptyHanded ==
    [][\A c \in Clients :
          (At(c, "candidates") /\ ~ At(c, "candidates")' /\ request'[c].items = << >>)
             => LET u == request[c].subject
                IN  \/ published \subseteq Library(u)
                    \/ Cardinality(Library(u) \cap published) >= FallbackFactor * request[c].limit]_vars

\* The in-memory repository and the self-join of the SQL one count the same neighbours, each once
\* however many games it shares with the user (repositories.py:195-200).
StoresAgree ==
    \A u \in Users :
        Neighbours(rows, u, Library(u)) = NeighboursInMemory(rows, u, Library(u))

\* A bought or withdrawn game is not suggested for good: once the events stop, the stored lists,
\* the requests that read them before and the entries of the cache catch up.
AnswersCatchUp ==
    <>[](\A c \in Clients :
            (At(c, "done") /\ Personal(c)) => Range(request[c].items) \subseteq published \ Library(request[c].subject))
=============================================================================
