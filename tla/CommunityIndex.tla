--------------------------- MODULE CommunityIndex ---------------------------
(***************************************************************************)
(* The community summaries of one knowledge base.                          *)
(*                                                                         *)
(* Every builder (the ingestion of a document, the archiving of one, a     *)
(* rechunk, a graph rebuild) runs CommunitySummaryService.rebuild in its   *)
(* own transaction: it reads graph_revision and the entities it can see,   *)
(* deletes the summaries it can see, asks a model to summarise each        *)
(* community, and inserts the new summaries under the next revision.       *)
(* CommunityRetriever reads the summaries of the current revision, and     *)
(* only while graph_status is "ready".                                     *)
(*                                                                         *)
(* Nothing but PostgreSQL orders two builders: at READ COMMITTED one sees  *)
(* what was committed when its statement began, a row deleted by an open   *)
(* transaction makes the next one that deletes it wait, and the summaries  *)
(* have a unique key.  Here the entities of a document form one community, *)
(* whose key (a digest of the entity ids) changes when the document is     *)
(* indexed again.                                                          *)
(***************************************************************************)
EXTENDS Naturals

CONSTANTS
    IndexedDocs,         \* the documents
    Builders,       \* transactions that may rebuild at one time
    BuildKinds,     \* what they do: a subset of the four kinds below
    AloneKinds,     \* the kinds that are run only when no other builder is at work
    MaxBuilds, MaxDeaths

ASSUME CommunityAssumption ==
    /\ BuildKinds \subseteq {"ingest", "archive", "rechunk", "graph"}
    /\ AloneKinds \subseteq BuildKinds
    /\ MaxBuilds \in Nat /\ MaxDeaths \in Nat

VARIABLES
    graph,      \* graph_status and graph_revision of the knowledge base
    rows,       \* the committed summaries: document, generation of its entities, revision
    asset,      \* document -> status
    gen,        \* document -> the generation of its committed entities, 0 for none
    builder,    \* builder -> what it is doing
    builds,     \* rebuilds begun
    deaths      \* processes that died

communityVars == <<graph, rows, asset, gen, builder, builds, deaths>>

Resting == [step |-> "idle", kind |-> "none", docs |-> {}, id |-> 0, status |-> "ready",
            rev |-> 0, keys |-> {}, dead |-> {}, waits |-> {}]

CommunityInit ==
    /\ graph = [status |-> "ready", rev |-> 1]
    /\ rows = {}
    /\ asset = [d \in IndexedDocs |-> "queued"]
    /\ gen = [d \in IndexedDocs |-> 0]
    /\ builder = [b \in Builders |-> Resting]
    /\ builds = 0
    /\ deaths = 0

AtWork(b) == builder[b].step # "idle"
InHand(d) == \E b \in Builders : AtWork(b) /\ d \in builder[b].docs
MayBegin(kind) ==
    /\ kind \in BuildKinds
    /\ builds < MaxBuilds
    /\ \A b \in Builders : AtWork(b) => kind \notin AloneKinds /\ builder[b].kind \notin AloneKinds

Begun(b, kind, docs) ==
    /\ ~AtWork(b)
    /\ MayBegin(kind)
    /\ builder' = [builder EXCEPT ![b] = [Resting EXCEPT !.step = "begun", !.kind = kind,
                                                         !.docs = docs, !.id = builds + 1]]
    /\ builds' = builds + 1
    /\ UNCHANGED <<gen, deaths>>

-----------------------------------------------------------------------------
(* What begins a rebuild.                                                  *)

BeginIngest(b, d) ==
    /\ asset[d] \in {"queued", "failed"} /\ ~InHand(d)
    /\ Begun(b, "ingest", {d})
    /\ UNCHANGED <<graph, rows, asset>>

BeginArchive(b, d) ==
    /\ asset[d] \in {"indexed", "failed"} /\ ~InHand(d)
    /\ Begun(b, "archive", {d})
    /\ UNCHANGED <<graph, rows, asset>>

\* The request takes the indexed documents out of search, deletes all
\* summaries and closes the graph.
BeginRechunk(b) ==
    /\ \A c \in Builders : builder[c].kind # "rechunk" /\ builder[c].dead \cap rows = {}
    /\ Begun(b, "rechunk", {d \in IndexedDocs : asset[d] = "indexed"})
    /\ asset' = [d \in IndexedDocs |-> IF asset[d] = "indexed" THEN "processing" ELSE asset[d]]
    /\ graph' = [graph EXCEPT !.status = "stale"]
    /\ rows' = {}

BeginGraph(b) ==
    /\ graph.status # "building"
    /\ Begun(b, "graph", {})
    /\ graph' = [graph EXCEPT !.status = "building"]
    /\ UNCHANGED <<rows, asset>>

\* The background task of a graph rebuild loads the knowledge base, and with
\* it graph_revision, before it extracts the entities of every indexed document.
LoadGraph(b) ==
    /\ builder[b].step = "begun" /\ builder[b].kind = "graph"
    /\ builder' = [builder EXCEPT ![b].step = "loaded",
                                  ![b].status = graph.status,
                                  ![b].rev = graph.rev,
                                  ![b].docs = {d \in IndexedDocs : asset[d] = "indexed"}]
    /\ UNCHANGED <<graph, rows, asset, gen, builds, deaths>>

-----------------------------------------------------------------------------
(* rebuild: read, delete, summarise, insert.                               *)

\* The entities a builder sees: what is committed, with what it has itself
\* indexed anew or removed.
GenSeenBy(b) ==
    [d \in IndexedDocs |->
        IF d \notin builder[b].docs THEN gen[d]
        ELSE IF builder[b].kind = "archive" THEN 0 ELSE builder[b].id]

Deleting(b) == builder[b].step = "summarising" /\ builder[b].waits = {}

Snapshot(b) ==
    LET early == builder[b].kind = "graph"
        seen  == GenSeenBy(b)
    IN  /\ builder[b].step = IF early THEN "loaded" ELSE "begun"
        /\ builder' = [builder EXCEPT
              ![b].step = "summarising",
              ![b].status = IF early THEN @ ELSE graph.status,
              ![b].rev = IF early THEN @ ELSE graph.rev,
              ![b].keys = {[doc |-> d, gen |-> seen[d]] : d \in {e \in IndexedDocs : seen[e] # 0}},
              ![b].dead = rows,
              ![b].waits = {c \in Builders : Deleting(c) /\ builder[c].dead \cap rows # {}}]
        /\ UNCHANGED <<graph, rows, asset, gen, builds, deaths>>

KeyOf(r) == [doc |-> r.doc, gen |-> r.gen]
\* Mutant: the summaries of earlier revisions are left in the table.
Remaining_All(b) == rows
Remaining(b) == rows \ builder[b].dead

\* The unique key of the summaries.
Clash(b) == \E r \in Remaining(b) : KeyOf(r) \in builder[b].keys

Finish(b) ==
    builder' = [c \in Builders |->
                  IF c = b THEN Resting ELSE [builder[c] EXCEPT !.waits = @ \ {b}]]

Outcome(kind) == IF kind = "archive" THEN "archived" ELSE "indexed"

Indexed(b) ==
    /\ asset' = [d \in IndexedDocs |-> IF d \notin builder[b].docs THEN asset[d]
                                  ELSE Outcome(builder[b].kind)]
    /\ gen' = GenSeenBy(b)

NextRevision(b) == builder[b].rev + 1

\* The session writes graph_status only if it was not "ready" when loaded.
CommitBuild(b) ==
    /\ Deleting(b)
    /\ ~Clash(b)
    /\ rows' = Remaining(b) \cup {[doc |-> k.doc, gen |-> k.gen, rev |-> NextRevision(b)] :
                                      k \in builder[b].keys}
    /\ graph' = [status |-> IF builder[b].status = "ready" THEN graph.status ELSE "ready",
                 rev |-> NextRevision(b)]
    /\ Indexed(b)
    /\ Finish(b)
    /\ UNCHANGED <<builds, deaths>>

\* Mutant: only the handler of the rechunk closes the graph.
ClosedByFailure_Rechunk(b) ==
    IF builder[b].kind = "rechunk" THEN [graph EXCEPT !.status = "stale"] ELSE graph
ClosedByFailure(b) ==
    IF builder[b].kind \in {"graph", "rechunk"} THEN [graph EXCEPT !.status = "stale"] ELSE graph

\* What is left of a build that raised: an archive is undone, the others leave
\* the graph closed, and the documents they had taken out of search failed.
Undone(b) ==
    /\ asset' = [d \in IndexedDocs |->
                   IF d \in builder[b].docs /\ builder[b].kind \in {"ingest", "rechunk"}
                   THEN "failed" ELSE asset[d]]
    /\ graph' = ClosedByFailure(b)
    /\ Finish(b)
    /\ UNCHANGED <<rows, gen, builds, deaths>>

\* In an ingestion the rebuild has a savepoint of its own: the document is
\* indexed without its summaries.
CommitWithoutSummaries(b) ==
    /\ Deleting(b)
    /\ Clash(b)
    /\ builder[b].kind = "ingest"
    /\ graph' = [graph EXCEPT !.status = "stale"]
    /\ Indexed(b)
    /\ Finish(b)
    /\ UNCHANGED <<rows, builds, deaths>>

\* The other builders fail with their rebuild.
ClashUndone(b) == Deleting(b) /\ Clash(b) /\ builder[b].kind # "ingest" /\ Undone(b)
FailBuild(b) == builder[b].step \in {"begun", "loaded", "summarising"} /\ Undone(b)

\* The process of a rebuild dies: its transaction is rolled back and nobody
\* touches the status.
DieBuilding(b) ==
    /\ AtWork(b)
    /\ deaths < MaxDeaths
    /\ deaths' = deaths + 1
    /\ Finish(b)
    /\ UNCHANGED <<graph, rows, asset, gen, builds>>

-----------------------------------------------------------------------------

BuildStep(b) ==
    \/ LoadGraph(b) \/ Snapshot(b) \/ CommitBuild(b)
    \/ CommitWithoutSummaries(b) \/ ClashUndone(b) \/ FailBuild(b)

CommunityNext ==
    \E b \in Builders :
        \/ \E d \in IndexedDocs : BeginIngest(b, d) \/ BeginArchive(b, d)
        \/ BeginRechunk(b) \/ BeginGraph(b)
        \/ BuildStep(b) \/ DieBuilding(b)

\* A transaction that has begun goes on: every model call has a time limit.
CommunityFairness == \A b \in Builders : WF_communityVars(BuildStep(b))

CommunitySpec == CommunityInit /\ [][CommunityNext]_communityVars /\ CommunityFairness

-----------------------------------------------------------------------------
(* Properties.                                                             *)

\* Every indexed document has its summary under the revision that
\* CommunityRetriever reads.
SummariesCoverIndexed ==
    \A d \in IndexedDocs : asset[d] = "indexed" =>
        [doc |-> d, gen |-> gen[d], rev |-> graph.rev] \in rows

\* Three overlapping builders can leave an indexed document without a summary
\* under the current revision, with the graph open: each writes the revision
\* after the one it read, and deletes what it saw.  A graph rebuild that nobody
\* overlaps repairs it, whatever happened before: when one opens the graph,
\* every indexed document is covered, and nothing else is read.
RebuildRestoresCoverage ==
    [][\A b \in Builders :
         (builder[b].kind = "graph" /\ builder'[b].kind = "none" /\ graph'.status = "ready")
           => /\ SummariesCoverIndexed'
              /\ \A r \in rows' : r.rev = graph'.rev /\ r.gen = gen'[r.doc]]_communityVars

\* A graph rebuild leaves "building", unless its process dies.
GraphSettles ==
    (graph.status = "building" /\ deaths = 0) ~> (graph.status # "building" \/ deaths > 0)
=============================================================================
