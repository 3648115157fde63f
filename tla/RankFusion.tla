----------------------------- MODULE RankFusion -----------------------------
(***************************************************************************)
(* Reciprocal rank fusion, as the search uses it at every place where two  *)
(* rankings meet.  A ranking is a sequence of distinct locators, best      *)
(* first; a fused result is a sequence of [loc, score].  Locators are      *)
(* numbers in the order of the locator strings, which breaks ties.  The    *)
(* program's floating point scores are whole numbers here: a contribution  *)
(* weight/(60+rank) in millionths, a normalised score in ten-thousandths.  *)
(***************************************************************************)
EXTENDS Naturals, Sequences, FiniteSets

Top == 10000

Locs(evidence) == [i \in DOMAIN evidence |-> evidence[i].loc]
Placed(ranking) == {ranking[i] : i \in DOMAIN ranking}
RankOf(ranking, loc) == CHOOSE i \in DOMAIN ranking : ranking[i] = loc

\* The elements of a finite set in a strict total order: the i-th is the one with
\* i - 1 before it.  The relation is a set of pairs, about which lemmas can speak.
SortedBy(S, order) ==
    [i \in 1 .. Cardinality(S) |->
        CHOOSE x \in S : Cardinality({y \in S : <<y, x>> \in order}) = i - 1]
InOrder(S, precedes(_, _)) == SortedBy(S, {p \in S \X S : precedes(p[1], p[2])})

\* sorted(..., key=lambda item: (-score, locator))
Before(x, y) == x.score > y.score \/ (x.score = y.score /\ x.loc < y.loc)
Sorted(evidences) == InOrder(evidences, Before)
Cut(seq, limit) == SubSeq(seq, 1, IF Len(seq) < limit THEN Len(seq) ELSE limit)

\* Weights are percentages.
Contribution(weight, rank) == (weight * 10000) \div (60 + rank)

\* Mutant: the contribution of a later ranking replaces that of an earlier one.
Total_Last(rankings, weights, loc) ==
    LET last == CHOOSE v \in DOMAIN rankings :
                  /\ loc \in Placed(rankings[v])
                  /\ \A w \in DOMAIN rankings : loc \in Placed(rankings[w]) => w <= v
    IN  Contribution(weights[last], RankOf(rankings[last], loc))
Gain(ranking, weight, loc) ==
    IF loc \in Placed(ranking) THEN Contribution(weight, RankOf(ranking, loc)) ELSE 0
Total(rankings, weights, loc) ==
    LET sum[v \in 0 .. Len(rankings)] ==
            IF v = 0 THEN 0 ELSE sum[v - 1] + Gain(rankings[v], weights[v], loc)
    IN  sum[Len(rankings)]

\* fuse_query_evidence: sum, sort, normalise by the best, cut.
Fused(rankings, weights, limit) ==
    LET all   == UNION {Placed(rankings[v]) : v \in DOMAIN rankings}
        order == Sorted({[loc |-> l, score |-> Total(rankings, weights, l)] : l \in all})
    IN  Cut([i \in DOMAIN order |->
               [order[i] EXCEPT !.score = (@ * Top) \div order[1].score]], limit)

Even(rankings) == [v \in DOMAIN rankings |-> 100]

\* The hybrid of keyword and vector rankings; both are cut at three times the
\* limit before they meet.
HybridRanking(lexical, semantic, limit) ==
    Locs(Fused(<<Cut(lexical, 3 * limit), Cut(semantic, 3 * limit)>>, <<100, 100>>, limit))

\* fuse_graph_evidence cuts before it normalises, which is the same.
FusedGraph(primary, graph, limit) == Fused(<<Locs(primary), graph>>, <<100, 100>>, limit)
=============================================================================
