----------------------------- MODULE MCKnowledge -----------------------------
(***************************************************************************)
(* The indexes of a knowledge base and the search over them, checked side  *)
(* by side.  The modules are views of the same rows at different depths    *)
(* and take no step together: part picks the one that runs.                *)
(***************************************************************************)
EXTENDS KnowledgeIndex, CommunityIndex, GraphIndex, Retrieval

CONSTANTS d1, d2, d3, n1, none, e1, e2, tag, c1, c2, Parts

VARIABLE part

mcVars == <<part, indexVars, communityVars, graphVars, retrievalVars>>

MCInit ==
    /\ part \in Parts
    /\ IndexInit /\ CommunityInit /\ GraphInit
    /\ RetrievalInit
    /\ part # "search" => \A d \in Documents : library[d].status = "indexed"

IndexRuns == part = "index" /\ IndexNext
CommunityRuns == part = "community" /\ CommunityNext
GraphRuns == part = "graph" /\ GraphNext
SearchRuns == part = "search" /\ RetrievalNext

MCNext ==
    \/ IndexRuns /\ UNCHANGED <<part, communityVars, graphVars, retrievalVars>>
    \/ CommunityRuns /\ UNCHANGED <<part, indexVars, graphVars, retrievalVars>>
    \/ GraphRuns /\ UNCHANGED <<part, indexVars, communityVars, retrievalVars>>
    \/ SearchRuns /\ UNCHANGED <<part, indexVars, communityVars, graphVars>>

\* The fairness of the part that runs.
MCFairness ==
    /\ \A t \in Tasks : WF_indexVars(part = "index" /\ TaskStep(t))
    /\ \A d \in Docs : WF_indexVars(part = "index" /\ JobStep(d))
    /\ \A b \in Builders : WF_communityVars(part = "community" /\ BuildStep(b))

MCSpec == MCInit /\ [][MCNext]_mcVars /\ MCFairness

-----------------------------------------------------------------------------
(* Values for the constants.                                               *)

AllKinds == {"ingest", "archive", "rechunk", "graph"}

\* Chunks 1 and 2 of the first document, 3 of the second, and a note.
FourLocators == 1 .. 4
LocatorAsset == <<d1, d1, d2, n1>>
LocatorOrdinal == <<1, 2, 1, 1>>
TwoScorings == {<<9000, 8000, 7000, 0>>, <<3000, 0, 9000, 5000>>}
TitleBoost == <<0, 0, 500, 0>>
EntityMentions == (e1 :> ((1 :> 1) @@ (3 :> 2))) @@ (e2 :> (2 :> 1))
EntityNeighbours == (e1 :> {e2}) @@ (e2 :> {e1})
TagAssets == tag :> {d2, n1}
SummaryChunks == {{1, 2}, {3}}
Governance(when, trust, conflicted) ==
    [when |-> when, trust |-> trust, conflicted |-> conflicted]
ThreeGovernances ==
    {Governance("expired", "standard", FALSE), Governance("future", "verified", FALSE),
     Governance("available", "unverified", TRUE)}

PaperChunks == (d1 :> {1, 3}) @@ (d2 :> {2})
Relation(source, target, confidence) ==
    [source |-> source, target |-> target, confidence |-> confidence]
SixExtractions ==
    {[names |-> {}, relations |-> {}],
     [names |-> {1}, relations |-> {}],
     [names |-> {1, 2}, relations |-> {Relation(2, 1, 85)}],
     [names |-> {2, 3}, relations |-> {Relation(2, 3, 85), Relation(1, 3, 85)}],
     [names |-> {1, 3}, relations |-> {Relation(3, 1, 85)}],
     [names |-> {1, 2, 3}, relations |-> {Relation(1, 3, 45)}]}
=============================================================================
