------------------------------ MODULE Retrieval ------------------------------
(***************************************************************************)
(* One search of a knowledge base (RetrievalService._search_with_trace).   *)
(*                                                                         *)
(* The request holds one session at READ COMMITTED, so every statement     *)
(* sees what is committed when it runs: between two steps of a search      *)
(* documents may be indexed, taken away or governed anew.  The steps read  *)
(* the database in this order: a ranking for each variant of the query,    *)
(* the entity route, the tag route, the graph and community routes, the    *)
(* governance of the documents found, and the neighbours of the chunks     *)
(* selected.  What a text scores is nondeterministic; how scores are       *)
(* ranked, fused, adjusted and cut is the program's.                       *)
(***************************************************************************)
EXTENDS RankFusion, Integers, SequencesExt

CONSTANTS
    Locators,       \* chunks and notes, as numbers in the order of their locators
    AssetOf,        \* locator -> the document or note it belongs to
    Ordinal,        \* locator -> its place in the document
    Documents,      \* the assets that are documents; the others are active notes
    NoAsset,        \* no document: supersedes_document_id is null
    Scorings,       \* what a text may score: a set of functions locator -> 0..Top
    Boost,          \* locator -> the gain of its title and section
    Mentions,       \* entity -> the locators that mention it, with how often (4: or more)
    Nameable,       \* the entities a question may name
    Related,        \* entity -> its neighbours in the graph
    Labels,         \* tag -> the assets it is approved for
    Communities,    \* the source chunks of each summary
    Noise,          \* locators without a title or with hardly any text
    Postgres,       \* which of the two retrievers serves the query
    Limit, MaxVariants, CandidateCap, RouteCap, TopKMinimum, TopKMaximum, ScoreGap, SourceCoverage,
    Governances,    \* what the governance of a document may be set to
    MaxEdits        \* bound: changes to the documents

Assets == {AssetOf[l] : l \in Locators}
Entities == DOMAIN Mentions

\* The request's schema and the settings bound the last four.
ASSUME RetrievalAssumption ==
    /\ Locators \subseteq Nat /\ IsFiniteSet(Locators)
    /\ Documents \subseteq Assets /\ NoAsset \notin Assets
    /\ Ordinal \in [Locators -> Nat] /\ Boost \in [Locators -> Nat]
    /\ Scorings \subseteq [Locators -> 0 .. Top]
    /\ \A e \in Entities : Mentions[e] \in [DOMAIN Mentions[e] -> 1 .. 4]
    /\ Nameable \subseteq Entities /\ Related \in [Entities -> SUBSET Entities]
    /\ Communities \subseteq SUBSET Locators /\ IsFiniteSet(Communities)
    /\ Governances \subseteq [when : {"available", "future", "expired"},
                              trust : {"verified", "standard", "unverified"},
                              conflicted : BOOLEAN]
    /\ {TopKMinimum, TopKMaximum, ScoreGap, SourceCoverage, MaxEdits} \subseteq Nat
    /\ Postgres \in BOOLEAN
    /\ Limit \in 1 .. 30 /\ MaxVariants \in 1 .. 8 /\ CandidateCap \in 2 .. 100
    /\ RouteCap \in 1 .. 100

VARIABLES
    library,    \* document -> its status and governance
    search,     \* the search at work
    edits       \* changes made to the library

retrievalVars == <<library, search, edits>>

Profiles == {"local", "multi_hop", "global"}

NoSearch == [step |-> "idle", profile |-> "local", rerank |-> FALSE, variants |-> <<>>,
             results |-> <<>>, lists |-> {}, fused |-> <<>>, evidence |-> <<>>,
             indexed |-> {}, allowed |-> {}]

RetrievalInit ==
    /\ library \in [Documents -> [status : {"indexed", "processing"}, replaces : {NoAsset},
                                  when : {"available"}, trust : {"standard"},
                                  conflicted : {FALSE}]]
    /\ search = NoSearch
    /\ edits = 0

-----------------------------------------------------------------------------
(* The documents change while the search runs.                             *)

Held(lib) == {d \in Documents : \E e \in Documents :
                lib[e].status # "archived" /\ lib[e].replaces = d}
IndexedIn(lib) == {d \in Documents : lib[d].status = "indexed"}
AllowedIn(lib) == {d \in Documents : lib[d].when # "future"} \ Held(lib)
\* What the search might have found and cited at some moment of its life.
Witnessed(lib, s) ==
    IF s.step \in {"idle", "done"} THEN s
    ELSE [s EXCEPT !.indexed = @ \cup IndexedIn(lib), !.allowed = @ \cup AllowedIn(lib)]

Edit(lib) ==
    /\ edits < MaxEdits
    /\ edits' = edits + 1
    /\ library' = lib
    /\ search' = Witnessed(lib, search)

FinishIndexing(d) ==
    /\ library[d].status = "processing"
    /\ Edit([library EXCEPT ![d].status = "indexed"])

TakeForIndexing(d) ==
    /\ library[d].status = "indexed"
    /\ Edit([library EXCEPT ![d].status = "processing"])

ArchiveFound(d) ==
    /\ library[d].status = "indexed"
    /\ Edit([library EXCEPT ![d].status = "archived"])

\* update_document_governance: all fields at once.  A predecessor must be
\* another document that is not archived; nothing forbids that it replaces,
\* directly or not, its successor.
UpdateGovernance(d) ==
    /\ library[d].status # "archived"
    /\ \E p \in (Documents \ {d}) \cup {NoAsset}, g \in Governances :
          /\ p \in Documents => library[p].status # "archived"
          /\ Edit([library EXCEPT ![d] = [status |-> @.status, replaces |-> p, when |-> g.when,
                                          trust |-> g.trust, conflicted |-> g.conflicted]])

-----------------------------------------------------------------------------
(* The routes.                                                             *)

\* What a sequence has at some of its places.
Taken(seq, places) ==
    LET order == InOrder(places, LAMBDA i, j : i < j)
    IN  [i \in DOMAIN order |-> seq[order[i]]]

Visible(l) == AssetOf[l] \in Documents => library[AssetOf[l]].status = "indexed"
\* Mutant: a route that joins the chunks without the status of their document.
Found_AnyStatus(S) == {l \in S : AssetOf[l] \in Documents => library[AssetOf[l]].status # "archived"}
Found(S) == {l \in S : Visible(l)}

\* candidate_limit: more candidates are collected when a reranker follows.
Smaller(a, b) == IF a < b THEN a ELSE b
Larger(a, b) == IF a > b THEN a ELSE b
CandidateLimit ==
    IF search.rerank THEN Smaller(Larger(3 * Limit, 8), CandidateCap) ELSE Limit
\* The directed routes take up to three times the limit of candidates.
RouteLimit == Smaller(RouteCap, 3 * CandidateLimit)

RankedBy(S, scoring) == Locs(Sorted({[loc |-> l, score |-> scoring[l]] : l \in S}))
Matching(scoring) == {l \in Found(Locators) : scoring[l] > 0}
Boosted(scoring) == [l \in Locators |-> Smaller(scoring[l] + Boost[l], Top)]

\* The local retrievers sort by the boosted score; PostgreSQL's rows keep the
\* order of the query, which knows no boost.
KeywordRanking(scoring) ==
    RankedBy(Matching(scoring), IF Postgres THEN scoring ELSE Boosted(scoring))
SemanticRanking(scoring) ==
    RankedBy(Matching(scoring), IF Postgres THEN scoring ELSE Boosted(scoring))

\* Chunks that mention a matched entity: the best mention counts, then the order
\* of the document.
MentionedBy(matched) == {l \in Locators : \E e \in matched : l \in DOMAIN Mentions[e]}
Strength(matched, direct) ==
    [l \in MentionedBy(matched) |->
        Max({(IF e \in direct THEN 200 ELSE 75) + 10 * Mentions[e][l] :
             e \in {x \in matched : l \in DOMAIN Mentions[x]}})]
ByOrdinal(S, score) ==
    InOrder(S, LAMBDA k, l :
        \/ score[k] > score[l]
        \/ score[k] = score[l] /\ (Ordinal[k] < Ordinal[l] \/ (Ordinal[k] = Ordinal[l] /\ k < l)))
EntityRanking(matched) ==
    Cut(ByOrdinal(Found(MentionedBy(matched)), Strength(matched, matched)), RouteLimit)

\* _select_balanced: the first chunk of every tagged asset, then the second ...
Depth(S, l) == Cardinality({k \in S : AssetOf[k] = AssetOf[l] /\ k < l})
BalancedSelection(S) ==
    InOrder(S, LAMBDA k, l : Depth(S, k) < Depth(S, l)
                             \/ (Depth(S, k) = Depth(S, l) /\ k < l))
TagRanking(matched) ==
    LET tagged == UNION {Labels[t] : t \in matched}
    IN  Cut(BalancedSelection(Found({l \in Locators : AssetOf[l] \in tagged})), RouteLimit)

\* GraphRetriever: direct mentions before those of neighbours; a global
\* question sees one chunk of every document first, and all entities when it
\* names none.  At most 60 are ranked, and those within the limit are returned.
FirstOfAsset(seq) == {i \in DOMAIN seq : \A j \in 1 .. i - 1 : AssetOf[seq[j]] # AssetOf[seq[i]]}
GraphRanking(named, profile) ==
    LET matched  == IF profile = "global" /\ named = {} THEN Entities ELSE named
        expanded == matched \cup UNION {Related[e] : e \in matched}
        ranked   == ByOrdinal(Found(MentionedBy(expanded)), Strength(expanded, matched))
        first    == FirstOfAsset(ranked)
    IN  Cut(IF profile = "global"
            THEN Taken(ranked, first) \o Taken(ranked, DOMAIN ranked \ first)
            ELSE ranked, Smaller(60, CandidateLimit))

\* CommunityRetriever: the source chunks of the summaries, best summary first;
\* a chunk of several summaries has the place of its last one.  The code reads
\* 8 summaries and 60 chunks: Communities are those it reads.
CommunityRanking(order) ==
    LET chunks == UNION Placed(order)
        last   == [l \in chunks |-> Max({i \in DOMAIN order : l \in order[i]})]
    IN  Cut(InOrder(Found(chunks), LAMBDA k, l :
                last[k] < last[l] \/ (last[k] = last[l] /\ k < l)), CandidateLimit)

-----------------------------------------------------------------------------
(* The steps of a search.                                                  *)

\* _build_plan: the rewritten query, the original, parts and synonyms, each once
\* and at most MaxVariants of them.  The cache may supply the same plan; a
\* rewriter that is switched off, not configured or failing leaves the original.
Deduplicated(seq) == Taken(seq, {i \in DOMAIN seq : \A j \in 1 .. i - 1 : seq[j] # seq[i]})
Planned(main, others) == Cut(Deduplicated(<<main, "original">> \o others), MaxVariants)
Plans == {Planned("original", <<>>)}
            \cup {Planned(main, others) : main \in {"original", "rewritten"},
                                          others \in {<<>>, <<"part">>, <<"part", "synonym">>}}

\* The status and the revision of the index have been checked (module
\* KnowledgeIndex); settings and plan are fixed for the rest of the search.
BeginSearch ==
    /\ search.step \in {"idle", "done"}
    /\ \E profile \in Profiles, rerank \in BOOLEAN, variants \in Plans :
          search' = Witnessed(library, [NoSearch EXCEPT !.step = "variants",
                                          !.profile = profile, !.rerank = rerank,
                                          !.variants = variants])
    /\ UNCHANGED <<library, edits>>

\* The rewritten query and the original count in full, the others less.
VariantWeights(n) == [v \in 1 .. n |-> IF v <= 2 THEN 100 ELSE 85]

RetrieveVariant ==
    /\ search.step = "variants"
    /\ \E lexical, semantic \in Scorings :
         LET results == Append(search.results, HybridRanking(KeywordRanking(lexical),
                                                             SemanticRanking(semantic),
                                                             CandidateLimit))
             n       == Len(results)
         IN  search' = IF n < Len(search.variants) THEN [search EXCEPT !.results = results]
                       ELSE [search EXCEPT
                                !.step = "entity",
                                !.results = <<>>,
                                !.lists = Placed(results),
                                !.evidence = Fused(results, VariantWeights(n), CandidateLimit)]
    /\ UNCHANGED <<library, edits>>

\* A directed route ranks for the original query, and for the rewritten one if
\* it differs; what it finds is fused with what was found before.
Rewritten == search.variants[1] # "original"
RouteCandidates(rankings) == Locs(Fused(rankings, Even(rankings), CandidateLimit))
Joined(candidates, next) ==
    search' = [search EXCEPT
        !.lists = @ \cup {candidates},
        !.evidence = Fused(<<Locs(@), candidates>>, <<100, 100>>, CandidateLimit),
        !.step = next]
Skipped(next) == search' = [search EXCEPT !.step = next]

EntityRoute ==
    /\ search.step = "entity"
    /\ \/ Skipped("tag")
       \/ \E first, second \in SUBSET Nameable :
            Joined(RouteCandidates(IF Rewritten
                                   THEN <<EntityRanking(first), EntityRanking(second)>>
                                   ELSE <<EntityRanking(first)>>), "tag")
    /\ UNCHANGED <<library, edits>>

TagRoute ==
    /\ search.step = "tag"
    /\ \/ Skipped("graph")
       \/ \E first, second \in SUBSET DOMAIN Labels :
            Joined(RouteCandidates(IF Rewritten
                                   THEN <<TagRanking(first), TagRanking(second)>>
                                   ELSE <<TagRanking(first)>>), "graph")
    /\ UNCHANGED <<library, edits>>

JoinedGraph(ranking, next) ==
    search' = [search EXCEPT
        !.lists = @ \cup {ranking},
        !.evidence = FusedGraph(@, ranking, CandidateLimit),
        !.step = next]

\* Only questions about relations or about the whole go through the graph.
GraphRoute ==
    /\ search.step = "graph"
    /\ IF search.profile = "local" THEN Skipped("govern")
       ELSE \E named \in SUBSET Nameable :
               JoinedGraph(GraphRanking(named, search.profile),
                           IF search.profile = "global" THEN "community" ELSE "govern")
    /\ UNCHANGED <<library, edits>>

\* No summary is read while the graph is not ready.
CommunityRoute ==
    /\ search.step = "community"
    /\ \E order \in {<<>>} \cup SetToSeqs(Communities) :
          JoinedGraph(CommunityRanking(order), "govern")
    /\ UNCHANGED <<library, edits>>

\* adjust_score, in ten-thousandths.
Adjustment(d) ==
    (CASE library[d].trust = "verified" -> 600
       [] library[d].trust = "standard" -> 0
       [] library[d].trust = "unverified" -> -400)
    - (IF library[d].when = "expired" THEN 1200 ELSE 0)
    - (IF library[d].conflicted THEN 800 ELSE 0)
\* Mutant: the evidence is labelled, its score left alone.
Adjusted_Not(score, d) == score
Adjusted(score, d) == Larger(0, Smaller(score + Adjustment(d), Top))

\* Mutant: a document that has not come into effect yet is cited.
Excluded_Held(d) == d \in Held(library)
Excluded(d) == d \in Held(library) \/ library[d].when = "future"

\* Documents carry their governance along with the evidence.
Governed(x) ==
    LET d == AssetOf[x.loc]
    IN  IF d \notin Documents THEN [loc |-> x.loc, score |-> x.score, trust |-> "standard", doubt |-> FALSE]
        ELSE [loc |-> x.loc, score |-> Adjusted(x.score, d), trust |-> library[d].trust,
              doubt |-> library[d].when = "expired" \/ library[d].conflicted]

\* apply_document_governance: after all routes.  A list without a chunk of a
\* document passes as it is, in its order.
Govern ==
    /\ search.step = "govern"
    /\ LET kept == {x \in Placed(search.evidence) :
                      AssetOf[x.loc] \in Documents => ~Excluded(AssetOf[x.loc])}
       IN  search' = [search EXCEPT !.step = "select",
                                    !.variants = <<>>, !.lists = {},
                                    !.fused = search.evidence,
                                    !.evidence = Sorted({Governed(x) : x \in kept})]
    /\ UNCHANGED <<library, edits>>

\* The candidates a reranker is given: not the noise, unless there is nothing else.
Effective(evidence) ==
    LET useful == {x \in Placed(evidence) : x.loc \notin Noise}
    IN  IF useful = {} THEN Placed(evidence) ELSE useful

\* The rule adds what title and text score to the score so far; the model
\* scores anew and may leave candidates out; the cache restores what an
\* earlier search kept of the same candidates, for whatever limit it had.
ByRule(evidence, scoring) ==
    Cut(Sorted({[x EXCEPT !.score = @ + scoring[x.loc]] : x \in Effective(evidence)}), Limit)
ByModel(returned, scoring) ==
    Cut(Sorted({[x EXCEPT !.score = scoring[x.loc]] : x \in returned}), Limit)
Reranked(evidence) ==
    LET fresh == {ByRule(evidence, s) : s \in Scorings}
                    \cup {ByModel(R, s) : R \in (SUBSET Effective(evidence)) \ {{}}, s \in Scorings}
    IN  fresh \cup {Cut(r, kept) : r \in fresh, kept \in 1 .. Limit}

\* DynamicTopKPolicy.select: at least the floor of the profile; then until the
\* texts fill the budget, or the score falls off while no new source is needed.
Floor == IF search.profile = "local" THEN 3 ELSE 4
Allowed == Larger(1, Smaller(Limit, TopKMaximum))
TopKFloor == Smaller(Allowed, Larger(TopKMinimum, Floor))
Sources(evidence, n) == {AssetOf[evidence[i].loc] : i \in 1 .. n}
Stops(evidence, i, fitting) ==
    /\ i > TopKFloor
    /\ \/ i > fitting
       \/ /\ evidence[i - 1].score >= evidence[i].score + ScoreGap
          /\ \/ Cardinality(Sources(evidence, i - 1)) >= SourceCoverage
             \/ AssetOf[evidence[i].loc] \in Sources(evidence, i - 1)
Selected(evidence, fitting) ==
    LET available == Cut(evidence, Allowed)
        stops     == {i \in DOMAIN available : Stops(available, i, fitting)}
    IN  IF stops = {} THEN available ELSE SubSeq(available, 1, Min(stops) - 1)

\* The policy may be switched off: then the limit alone cuts.
SelectEvidence ==
    /\ search.step = "select"
    /\ \E ranked \in IF search.rerank /\ search.evidence # <<>>
                       THEN Reranked(search.evidence) ELSE {search.evidence} :
         \E chosen \in {Cut(ranked, Limit)} \cup {Selected(ranked, n) : n \in 0 .. Limit} :
            search' = [search EXCEPT !.step = "expand", !.evidence = chosen]
    /\ UNCHANGED <<library, edits>>

\* The texts grow by their neighbours, whose document must still be indexed;
\* locators and order stay.  A gate may then refuse a local question whose
\* words no text supports.
AnswerableGate ==
    /\ search.step = "expand"
    /\ search' \in {[search EXCEPT !.step = "done"]}
         \cup IF search.profile = "local"
              THEN {[search EXCEPT !.step = "done", !.evidence = <<>>]} ELSE {}
    /\ UNCHANGED <<library, edits>>

\* A model that is unavailable, or a database error: the request fails.
FailSearch ==
    /\ search.step \notin {"idle", "done"}
    /\ search' = NoSearch
    /\ UNCHANGED <<library, edits>>

RetrievalNext ==
    \/ BeginSearch \/ RetrieveVariant \/ EntityRoute \/ TagRoute \/ GraphRoute
    \/ CommunityRoute \/ Govern \/ SelectEvidence \/ AnswerableGate \/ FailSearch
    \/ \E d \in Documents : \/ FinishIndexing(d) \/ TakeForIndexing(d)
                            \/ ArchiveFound(d) \/ UpdateGovernance(d)

RetrievalSpec == RetrievalInit /\ [][RetrievalNext]_retrievalVars

-----------------------------------------------------------------------------
(* Properties.                                                             *)

\* What a search cites it might have cited: whichever of the routes found it,
\* its document was indexed at some moment of the search, and at some moment
\* neither replaced nor still to come into effect.
CitedWasCitable ==
    search.step \in {"select", "expand", "done"} =>
        \A x \in Placed(search.evidence) : AssetOf[x.loc] \in Documents =>
            AssetOf[x.loc] \in search.indexed \cap search.allowed

\* Fusing the routes one after the other, each time cutting at the limit, keeps
\* what they agree on: a candidate that precedes another in every list that has
\* the other precedes it in the result.
RoutesAgree ==
    search.step \in {"tag", "graph", "community", "govern"} =>
        LET found == Locs(search.evidence)
        IN  \A l \in Placed(found) : \A k \in Locators \ {l} :
              (\A list \in search.lists : l \in Placed(list) =>
                  k \in Placed(list) /\ RankOf(list, k) < RankOf(list, l))
                => k \in Placed(found) /\ RankOf(found, k) < RankOf(found, l)

\* The final order honours the governance: evidence that is expired or disputed
\* never precedes evidence of the same trust that is neither and that the
\* routes ranked no worse.
FusedScore(loc) == search.fused[RankOf(Locs(search.fused), loc)].score
DoubtsComeLater ==
    search.step \in {"select", "expand", "done"} =>
        \A i, j \in DOMAIN search.evidence :
            LET x == search.evidence[i]
                y == search.evidence[j]
            IN  (/\ i < j /\ x.doubt /\ ~y.doubt /\ x.trust = y.trust
                 /\ AssetOf[x.loc] \in Documents /\ AssetOf[y.loc] \in Documents)
                  => FusedScore(x.loc) > FusedScore(y.loc)

\* The same of searches without a reranker.
GovernedOrder == ~search.rerank => DoubtsComeLater
=============================================================================
