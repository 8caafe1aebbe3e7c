------------------------------ MODULE Scoring ------------------------------
(***************************************************************************)
(* The ranking policy (domain/policy) in the sparse space, the default:    *)
(* taste vectors over the labels of games, the content and collaborative   *)
(* scores, the order of HybridRanker, and the fallback of TopSellers.      *)
(*                                                                         *)
(* Weights are in tenths, scores in percent.  A cosine is rounded up to a  *)
(* whole percent, so that it is 0 exactly if the dot product is not        *)
(* positive; the code rounds no score before it has ranked.                *)
(***************************************************************************)
EXTENDS Integers, Sequences, FiniteSets, FiniteSetsExt, Functions

CONSTANTS
    Users,              \* user ids
    Games,              \* game ids, which are ordered
    Features,           \* genres and tags
    Labels,             \* Labels[g]: the genres and tags of g
    NeighbourLimit      \* limits.MAX_COLLABORATIVE_CANDIDATES

ASSUME GamesAssumption == Games \subseteq Nat /\ IsFiniteSet(Games) /\ IsFiniteSet(Users)
ASSUME LabelsAssumption == Labels \in [Games -> SUBSET Features] /\ IsFiniteSet(Features)
ASSUME NeighboursAssumption == NeighbourLimit \in Nat

-----------------------------------------------------------------------------
(* Vectors.  A feature of weight 0 is not in the mapping of the code.      *)

Weight == [PURCHASE |-> 10, REVIEW_LIKE |-> 5, REVIEW_DISLIKE |-> -3]

NoTaste == [f \in Features |-> 0]

\* plus, for a game that was acted on.
Plus(taste, g, weight) == [f \in Features |-> IF f \in Labels[g] THEN taste[f] + weight ELSE taste[f]]

SquaredMagnitude(taste) == SumFunction([f \in Features |-> taste[f] * taste[f]])

Dot(taste, g) == SumFunctionOnSet(taste, Labels[g])

\* max(0, taste.cosine(game.embedding)): the least c with c / 100 >= Dot / (|taste| * |g|).
Content(taste, g) ==
    LET dot  == Dot(taste, g)
        norm == SquaredMagnitude(taste) * Cardinality(Labels[g])
        Reaches(c) == c * c * norm >= 10000 * dot * dot
    IN  IF dot <= 0 THEN 0 ELSE CHOOSE c \in 1 .. 100 : Reaches(c) /\ ~ Reaches(c - 1)

-----------------------------------------------------------------------------
(* Who else bought it.  A row of ownerships is a pair <<user, game>>.      *)

Owned(rows, u) == {g \in Games : <<u, g>> \in rows}

\* The self-join of co_purchases: another user's row for one of the games of u, with a row of that
\* user for another game.
Joined(rows, u, owned) ==
    {pair \in rows \X rows :
        /\ pair[1][1] = pair[2][1]
        /\ pair[1][1] # u
        /\ pair[1][2] \in owned
        /\ pair[2][2] \notin owned}

\* Mutant: a neighbour counts once for every game shared with u.
NeighboursByRow(rows, u, owned) ==
    [g \in Games |-> Cardinality({pair \in Joined(rows, u, owned) : pair[2][2] = g})]

\* COUNT(DISTINCT theirs.user_id) GROUP BY theirs.game_id
Neighbours(rows, u, owned) ==
    [g \in Games |-> Cardinality({pair[2][1] : pair \in {p \in Joined(rows, u, owned) : p[2][2] = g}})]

\* The same of MemoryOwnershipRepository: the games of every user who owns one of those of u.
NeighboursInMemory(rows, u, owned) ==
    LET neighbours == {v \in Users : \E g \in owned : <<v, g>> \in rows} \ {u}
    IN  [g \in Games |-> Cardinality({v \in neighbours : g \in Owned(rows, v) \ owned})]

\* ORDER BY the count, LIMIT.
CoPurchases(rows, u, owned) ==
    LET count == Neighbours(rows, u, owned)
        Ahead(h, g) == count[h] > count[g] \/ (count[h] = count[g] /\ h < g)
    IN  [g \in Games |-> IF Cardinality({h \in Games : Ahead(h, g)}) < NeighbourLimit THEN count[g] ELSE 0]

\* count / (count + PRIOR)
Collaborative(count) == (100 * count) \div (count + 5)

-----------------------------------------------------------------------------
(* The order.                                                              *)

\* The first n of S, best first.
Top(n, S, Before(_, _)) ==
    [i \in 1 .. Min({n, Cardinality(S)}) |->
        CHOOSE g \in S : Cardinality({h \in S : Before(h, g)}) = i - 1]

Blend(content, collaborative) == 65 * content + 35 * collaborative

Source(content, collaborative) ==
    CASE content > 0 /\ collaborative > 0 -> "HYBRID"
      [] content = 0 /\ collaborative > 0 -> "COLLAB"
      [] OTHER                            -> "CONTENT"

\* purchase_count: the purchases handled, of which a user makes one per game.
Sold(rows, g) == Cardinality({u \in Users : <<u, g>> \in rows})

MorePopular(rows, g, h) == Sold(rows, g) > Sold(rows, h) \/ (Sold(rows, g) = Sold(rows, h) /\ g < h)

\* games.recommendable(limit): the candidates.
Recommendable(published, rows, limit) ==
    LET Before(g, h) == MorePopular(rows, g, h)
    IN  Range(Top(limit, published, Before))

ScoredGame(taste, g, count) ==
    [game |-> g, content |-> Content(taste, g), collaborative |-> Collaborative(count)]

Score(item) == Blend(item.content, item.collaborative)

\* HybridRanker.rank
Ranked(taste, owned, candidates, counts, rows, limit) ==
    LET scored == {ScoredGame(taste, g, counts[g]) : g \in candidates \ owned}
        Before(x, y) ==
            \/ Score(x) > Score(y)
            \/ Score(x) = Score(y) /\ MorePopular(rows, x.game, y.game)
        best == Top(limit, {item \in scored : Score(item) > 0}, Before)
    IN  [i \in DOMAIN best |->
            [game |-> best[i].game, source |-> Source(best[i].content, best[i].collaborative)]]

\* Mutant: games the user has are not left out.
TopSellersOfAll(candidates, owned, rows, limit) ==
    LET Before(g, h) == MorePopular(rows, g, h)
    IN  Top(limit, candidates, Before)

\* TopSellersProvider.rank
TopSellers(candidates, owned, rows, limit) ==
    LET Before(g, h) == MorePopular(rows, g, h)
    IN  Top(limit, candidates \ owned, Before)

\* subject.embedding.cosine(candidate.embedding), of games that share a label; squared, because
\* only the order matters: shared^2 / (|g| * |h|).
Nearer(subject, g, h) ==
    LET shared(k) == Cardinality(Labels[subject] \cap Labels[k])
    IN  shared(g) * shared(g) * Cardinality(Labels[h]) > shared(h) * shared(h) * Cardinality(Labels[g])

\* The sparse half of ListSimilarGamesUseCase.
Similar(subject, candidates, rows, limit) ==
    LET related == {g \in candidates \ {subject} : Labels[g] \cap Labels[subject] # {}}
        Before(g, h) == Nearer(subject, g, h) \/ (~ Nearer(subject, h, g) /\ MorePopular(rows, g, h))
    IN  Top(limit, related, Before)
=============================================================================
