----------------------------- MODULE GraphIndex -----------------------------
(***************************************************************************)
(* The entity graph of a knowledge base and the communities cut from it.   *)
(*                                                                         *)
(* A chunk mentions entities and carries relations between entities it     *)
(* mentions.  Indexing a document deletes what its chunks said before,     *)
(* removes the entities nobody mentions any more, writes what an extractor *)
(* finds, and rebuilds the communities: groups of entities, each with the  *)
(* chunks a summary of it is written from.  Here one document is indexed   *)
(* at a time; overlapping transactions are the subject of CommunityIndex.  *)
(* What a text yields is nondeterministic.                                 *)
(***************************************************************************)
EXTENDS Naturals, FiniteSets, SequencesExt

CONSTANTS
    Papers,         \* the documents
    ChunksOf,       \* document -> its chunks: numbers in the order of their ids
    Names,          \* entities: numbers in the order of their ids
    Extractions,    \* what an extractor may find in a chunk: its entities and relations
    Confident,      \* the least confidence of a relation that joins entities
    GroupCap,       \* chunks that a community keeps: 80
    WholeCap        \* chunks that the community of all groups keeps: 120

ASSUME GraphAssumption ==
    /\ Names \subseteq Nat
    /\ {GroupCap, WholeCap} \subseteq Nat
    /\ \A d \in Papers : IsFiniteSet(ChunksOf[d]) /\ ChunksOf[d] \subseteq Nat
    /\ \A d, e \in Papers : d # e => ChunksOf[d] \cap ChunksOf[e] = {}
    /\ Extractions \subseteq [names : SUBSET Names,
                              relations : SUBSET [source : Names, target : Names,
                                                  confidence : 0 .. 100]]
    /\ \A x \in Extractions : IsFiniteSet(x.names) /\ IsFiniteSet(x.relations)

VARIABLES
    entities,   \* entity -> mention_count
    mentions,   \* pairs <<chunk, entity>>
    relations,  \* relations with their chunk
    drafts      \* the communities: level, members, source chunks, algorithm

graphVars == <<entities, mentions, relations, drafts>>

GraphInit == entities = <<>> /\ mentions = {} /\ relations = {} /\ drafts = {}

-----------------------------------------------------------------------------
(* The graph of one document.                                              *)

\* delete_document: entities of the document are counted again, and removed
\* when nothing else mentions them.
Kept(d) == {m \in mentions : m[1] \notin ChunksOf[d]}
TouchedBy(d) == {m[2] : m \in mentions \ Kept(d)}
CountIn(rows, n) == Cardinality({m \in rows : m[2] = n})
\* Mutant: an entity's count is taken down by one per document.
Recounted_Once(d) ==
    [n \in {e \in DOMAIN entities : e \notin TouchedBy(d) \/ entities[e] > 1} |->
        IF n \in TouchedBy(d) THEN entities[n] - 1 ELSE entities[n]]
Recounted(d) ==
    [n \in {e \in DOMAIN entities : e \notin TouchedBy(d) \/ CountIn(Kept(d), e) > 0} |->
        IF n \in TouchedBy(d) THEN CountIn(Kept(d), n) ELSE entities[n]]
RelationsKept(d) == {r \in relations : r.chunk \notin ChunksOf[d]}

\* A relation is written when the chunk mentions two different ends.  The
\* model's extraction falls back to the rule's, chunk by chunk.
Written(c, found) ==
    {[chunk |-> c, source |-> r.source, target |-> r.target, confidence |-> r.confidence] :
        r \in {q \in found.relations : /\ {q.source, q.target} \subseteq found.names
                                       /\ q.source # q.target}}

IndexedGraph(d, extracted) ==
    LET old   == Recounted(d)
        fresh == UNION {{c} \X extracted[c].names : c \in ChunksOf[d]}
        names == {m[2] : m \in fresh}
    IN  /\ mentions' = Kept(d) \cup fresh
        /\ relations' = RelationsKept(d) \cup UNION {Written(c, extracted[c]) : c \in ChunksOf[d]}
        /\ entities' = [n \in DOMAIN old \cup names |->
                          (IF n \in DOMAIN old THEN old[n] ELSE 0) + CountIn(fresh, n)]

Deleted(d) ==
    /\ mentions' = Kept(d)
    /\ relations' = RelationsKept(d)
    /\ entities' = Recounted(d)

-----------------------------------------------------------------------------
(* The communities.                                                        *)

\* The baseline joins the ends of confident relations, one relation after the
\* other; the smaller root becomes the parent.  (find shortens the chains it
\* follows, which changes no root.)
Root(parent, n) ==
    LET root[k \in DOMAIN parent] == IF parent[k] = k THEN k ELSE root[parent[k]]
    IN  root[n]
\* Mutant: the ends themselves are joined instead of their roots.
Union_Ends(parent, r) ==
    IF r.source < r.target THEN [parent EXCEPT ![r.target] = r.source]
    ELSE [parent EXCEPT ![r.source] = r.target]
Union(parent, r) ==
    LET left == Root(parent, r.source)
        right == Root(parent, r.target)
    IN  IF left < right THEN [parent EXCEPT ![right] = left] ELSE [parent EXCEPT ![left] = right]
Joins(r, nodes) == r.confidence >= Confident /\ {r.source, r.target} \subseteq nodes
Components(nodes, order) ==
    LET parent[i \in 0 .. Len(order)] ==
            IF i = 0 THEN [n \in nodes |-> n]
            ELSE IF Joins(order[i], nodes) THEN Union(parent[i - 1], order[i])
            ELSE parent[i - 1]
        root == [n \in nodes |-> Root(parent[Len(order)], n)]
    IN  {{n \in nodes : root[n] = root[k]} : k \in nodes}

\* Louvain, where it is installed, returns some partition of the entities; if
\* it fails, the baseline takes its place.
Partitions(nodes) == {{{n \in nodes : f[n] = f[k]} : k \in nodes} : f \in [nodes -> nodes]}
Detected(nodes, order) ==
    {[groups |-> Components(nodes, order), algorithm |-> "connected_components"]}
        \cup {[groups |-> P, algorithm |-> "louvain"] : P \in Partitions(nodes)}

\* sorted(chunks)[:cap].
FirstOf(cap, chunks) == {c \in chunks : Cardinality({b \in chunks : b < c}) < cap}

\* _discover_communities: of the chunks that mention a member and those of the
\* relations at either end the first; above several groups, one community with the
\* first of what they keep.
SourcesOf(group, ms, rs) ==
    FirstOf(GroupCap, {m[1] : m \in {x \in ms : x[2] \in group}}
        \cup {r.chunk : r \in {x \in rs : x.source \in group \/ x.target \in group}})
Drafts(found, ms, rs) ==
    LET level0 == {[level |-> 0, members |-> g, sources |-> SourcesOf(g, ms, rs),
                    algorithm |-> found.algorithm] : g \in found.groups}
    IN  IF Cardinality(level0) <= 1 THEN level0
        ELSE level0 \cup {[level |-> 1, members |-> UNION found.groups,
                           sources |-> FirstOf(WholeCap, UNION {x.sources : x \in level0}),
                           algorithm |-> found.algorithm]}

\* Relations are read in any order.
Rebuilt ==
    \E order \in SetToSeqs(relations') : \E found \in Detected(DOMAIN entities', order) :
        drafts' = Drafts(found, mentions', relations')

IndexGraph(d) ==
    \E extracted \in [ChunksOf[d] -> Extractions] : IndexedGraph(d, extracted) /\ Rebuilt

RemoveGraph(d) ==
    /\ Kept(d) # mentions
    /\ Deleted(d)
    /\ Rebuilt

GraphNext == \E d \in Papers : IndexGraph(d) \/ RemoveGraph(d)

GraphSpec == GraphInit /\ [][GraphNext]_graphVars

-----------------------------------------------------------------------------
(* Properties.                                                             *)

\* After any sequence of indexing, indexing again and removing: an entity is
\* kept exactly while a chunk mentions it, its count is the number of chunks
\* that do, and every relation joins two entities its own chunk mentions, so
\* that removing an entity never strands a relation.
GraphConsistent ==
    /\ DOMAIN entities = {m[2] : m \in mentions}
    /\ \A n \in DOMAIN entities : entities[n] = CountIn(mentions, n)
    /\ \A r \in relations : {<<r.chunk, r.source>>, <<r.chunk, r.target>>} \subseteq mentions

Level(k) == {x \in drafts : x.level = k}
\* Reference: what no set closed under the confident relations can do without.
Closed(C) == \A r \in relations :
    Joins(r, DOMAIN entities) => (r.source \in C <=> r.target \in C)
Connected(n) ==
    {k \in DOMAIN entities : \A C \in SUBSET DOMAIN entities : n \in C /\ Closed(C) => k \in C}

\* The chunks that mention one of these entities.
ChunksAbout(members) == {m[1] : m \in {x \in mentions : x[2] \in members}}
\* What a community must keep of these chunks: all of them if they fit, otherwise as
\* many as fit, with no smaller one left out.
Keeps(x, chunks, cap) ==
    /\ x.sources \subseteq chunks
    /\ x.sources # chunks => Cardinality(x.sources) = cap
    /\ \A b \in x.sources, c \in chunks \ x.sources : b < c

\* Every entity is in one community, of exactly the entities it is connected to if
\* the baseline found it, whatever the order of the relations.  Its summary can be
\* written from the chunks that mention a member and from no others, and misses one
\* of them only when it is full.  A question about the whole reaches every chunk of
\* the graph, unless the community of the whole or every community that the chunk
\* belongs to is full.
CommunitiesCoverGraph ==
    /\ \A n \in DOMAIN entities :
         \E x \in Level(0) :
            /\ n \in x.members
            /\ \A y \in Level(0) : n \in y.members => y = x
            /\ x.algorithm = "connected_components" => x.members = Connected(n)
            /\ Keeps(x, ChunksAbout(x.members), GroupCap)
    /\ DOMAIN entities # {} => \E x \in drafts :
         /\ x.members = DOMAIN entities
         /\ x.level = 1 => Keeps(x, UNION {y.sources : y \in Level(0)}, WholeCap)
         /\ \A m \in mentions :
              \/ m[1] \in x.sources
              \/ x.level = 1 /\ Cardinality(x.sources) = WholeCap
              \/ \A y \in Level(0) :
                    m[1] \in ChunksAbout(y.members) => Cardinality(y.sources) = GroupCap
=============================================================================
