----------------------------- MODULE GraphProofs -----------------------------
(***************************************************************************)
(* The entity graph counts its mentions, and the communities cut from it   *)
(* cover it, whatever the extractors find, in whatever order the relations *)
(* are read and however Louvain divides the entities, for any number of    *)
(* documents, chunks and entities.                                         *)
(***************************************************************************)
EXTENDS GraphIndex, FiniteSetTheorems, TLAPS

-----------------------------------------------------------------------------
(* The entity graph counts its mentions, whatever the extractor finds.     *)

\* The mentions of an entity, the set that CountIn counts.
MentionsOf(ms, n) == {m \in ms : m[2] = n}

\* A mention is a pair of a chunk and an entity, and an entity has finitely many.
Countable(ms) ==
    /\ \A m \in ms : m = <<m[1], m[2]>>
    /\ \A n : IsFiniteSet(MentionsOf(ms, n))

GraphInv == Countable(mentions) /\ GraphConsistent

LEMMA CountIsNat ==
    ASSUME NEW ms, Countable(ms), NEW n
    PROVE  CountIn(ms, n) \in Nat /\ (CountIn(ms, n) = 0 <=> MentionsOf(ms, n) = {})
<1>1. IsFiniteSet(MentionsOf(ms, n)) /\ CountIn(ms, n) = Cardinality(MentionsOf(ms, n))
  BY DEF Countable, CountIn, MentionsOf
<1> QED
  BY <1>1, FS_EmptySet, FS_CardinalityType

LEMMA CountOfUnion ==
    ASSUME NEW ms, NEW ns, Countable(ms), Countable(ns), ms \cap ns = {}, NEW n
    PROVE  CountIn(ms \cup ns, n) = CountIn(ms, n) + CountIn(ns, n)
<1>1. MentionsOf(ms \cup ns, n) = MentionsOf(ms, n) \cup MentionsOf(ns, n)
  BY DEF MentionsOf
<1>2. MentionsOf(ms, n) \cap MentionsOf(ns, n) = {}
  BY DEF MentionsOf
<1>3. IsFiniteSet(MentionsOf(ms, n)) /\ IsFiniteSet(MentionsOf(ns, n))
  BY DEF Countable
<1>4. Cardinality(MentionsOf(ms, n) \cup MentionsOf(ns, n))
         = Cardinality(MentionsOf(ms, n)) + Cardinality(MentionsOf(ns, n))
  <2>1. /\ Cardinality(MentionsOf(ms, n) \cup MentionsOf(ns, n))
              = Cardinality(MentionsOf(ms, n)) + Cardinality(MentionsOf(ns, n))
                - Cardinality(MentionsOf(ms, n) \cap MentionsOf(ns, n))
    BY <1>3, FS_Union
  <2>2. /\ Cardinality(MentionsOf(ms, n)) \in Nat /\ Cardinality(MentionsOf(ns, n)) \in Nat
        /\ Cardinality(MentionsOf(ms, n) \cap MentionsOf(ns, n)) = 0
    BY <1>2, <1>3, FS_EmptySet, FS_CardinalityType
  <2> QED
    BY <2>1, <2>2
<1> QED
  BY <1>1, <1>4 DEF CountIn, MentionsOf

LEMMA CountableSubset ==
    ASSUME NEW ms, NEW ns, Countable(ms), ns \subseteq ms PROVE Countable(ns)
<1>1. ASSUME NEW n PROVE IsFiniteSet(MentionsOf(ns, n))
  <2>1. MentionsOf(ns, n) \subseteq MentionsOf(ms, n) /\ IsFiniteSet(MentionsOf(ms, n))
    BY DEF MentionsOf, Countable
  <2> QED
    BY <2>1, FS_Subset
<1> QED
  BY <1>1 DEF Countable

\* What an indexing writes: in each chunk of the document the entities found there.
Fresh(d, extracted) == UNION {{c} \X extracted[c].names : c \in ChunksOf[d]}

LEMMA FreshMentions ==
    ASSUME NEW d \in Papers, NEW extracted \in [ChunksOf[d] -> Extractions]
    PROVE  /\ Countable(Fresh(d, extracted))
           /\ \A m \in Fresh(d, extracted) : m[1] \in ChunksOf[d]
           /\ \A c \in ChunksOf[d] : \A n \in extracted[c].names : <<c, n>> \in Fresh(d, extracted)
<1>1. \A m \in Fresh(d, extracted) : m[1] \in ChunksOf[d] /\ m = <<m[1], m[2]>>
  BY DEF Fresh
<1>2. ASSUME NEW n PROVE IsFiniteSet(MentionsOf(Fresh(d, extracted), n))
  <2>1. MentionsOf(Fresh(d, extracted), n) \subseteq ChunksOf[d] \X {n}
    BY <1>1 DEF MentionsOf
  <2>2. IsFiniteSet(ChunksOf[d] \X {n})
    BY GraphAssumption, FS_Product, FS_Singleton
  <2> QED
    BY <2>1, <2>2, FS_Subset
<1> QED
  BY <1>1, <1>2 DEF Countable, Fresh

\* Counting a document's entities again leaves exactly those that are still mentioned,
\* each with the number of chunks that still mention it.
LEMMA RecountedCounts ==
    ASSUME GraphInv, NEW d \in Papers
    PROVE  /\ DOMAIN Recounted(d) = {m[2] : m \in Kept(d)}
           /\ \A n \in DOMAIN Recounted(d) : Recounted(d)[n] = CountIn(Kept(d), n)
<1>1. Countable(Kept(d))
  BY CountableSubset DEF GraphInv, Kept
<1>2. ASSUME NEW n, n \notin TouchedBy(d)
      PROVE  MentionsOf(mentions, n) = MentionsOf(Kept(d), n)
  BY <1>2 DEF TouchedBy, MentionsOf, Kept
<1>3. \A n : CountIn(Kept(d), n) > 0 <=> \E m \in Kept(d) : m[2] = n
  BY <1>1, CountIsNat DEF MentionsOf
<1>4. DOMAIN Recounted(d)
         = {e \in DOMAIN entities : e \notin TouchedBy(d) \/ CountIn(Kept(d), e) > 0}
  BY DEF Recounted
<1>5. DOMAIN Recounted(d) = {m[2] : m \in Kept(d)}
  <2>1. ASSUME NEW e \in DOMAIN Recounted(d) PROVE \E m \in Kept(d) : m[2] = e
    <3>1. CASE CountIn(Kept(d), e) > 0
      BY <1>3, <3>1
    <3>2. CASE e \notin TouchedBy(d)
      <4>1. PICK m \in mentions : m[2] = e
        BY <1>4, <2>1 DEF GraphInv, GraphConsistent
      <4> QED
        BY <1>2, <3>2, <4>1 DEF MentionsOf
    <3> QED
      BY <1>4, <3>1, <3>2
  <2>2. ASSUME NEW m \in Kept(d) PROVE m[2] \in DOMAIN Recounted(d)
    <3>1. m[2] \in DOMAIN entities
      BY DEF Kept, GraphInv, GraphConsistent
    <3> QED
      BY <1>3, <1>4, <3>1
  <2> QED
    BY <2>1, <2>2
<1>6. ASSUME NEW n \in DOMAIN Recounted(d) PROVE Recounted(d)[n] = CountIn(Kept(d), n)
  <2>1. Recounted(d)[n] = IF n \in TouchedBy(d) THEN CountIn(Kept(d), n) ELSE entities[n]
    BY <1>6 DEF Recounted
  <2>2. CASE n \notin TouchedBy(d)
    <3>1. entities[n] = CountIn(mentions, n)
      BY <1>4, <1>6 DEF GraphInv, GraphConsistent
    <3> QED
      BY <1>2, <2>1, <2>2, <3>1 DEF CountIn, MentionsOf
  <2> QED
    BY <2>1, <2>2
<1> QED
  BY <1>5, <1>6

LEMMA GraphInvNext == GraphInv /\ [GraphNext]_graphVars => GraphInv'
<1> SUFFICES ASSUME GraphInv, [GraphNext]_graphVars PROVE GraphInv'
  OBVIOUS
<1>1. ASSUME NEW d \in Papers
      PROVE  /\ Countable(Kept(d))
             /\ \A r \in RelationsKept(d) :
                   {<<r.chunk, r.source>>, <<r.chunk, r.target>>} \subseteq Kept(d)
  <2>1. Countable(Kept(d))
    BY CountableSubset DEF GraphInv, Kept
  <2> QED
    BY <2>1 DEF RelationsKept, Kept, GraphInv, GraphConsistent
<1>2. ASSUME NEW d \in Papers, RemoveGraph(d) PROVE GraphInv'
  <2>1. /\ mentions' = Kept(d) /\ relations' = RelationsKept(d) /\ entities' = Recounted(d)
    BY <1>2 DEF RemoveGraph, Deleted
  <2> QED
    BY <1>1, <2>1, RecountedCounts DEF GraphInv, GraphConsistent
<1>3. ASSUME NEW d \in Papers, IndexGraph(d) PROVE GraphInv'
  <2>1. PICK extracted \in [ChunksOf[d] -> Extractions] : IndexedGraph(d, extracted)
    BY <1>3 DEF IndexGraph
  <2> DEFINE fresh == Fresh(d, extracted)
             old == Recounted(d)
             names == {m[2] : m \in fresh}
  <2>2. /\ mentions' = Kept(d) \cup fresh
        /\ relations' = RelationsKept(d)
                           \cup UNION {Written(c, extracted[c]) : c \in ChunksOf[d]}
        /\ entities' = [n \in DOMAIN old \cup names |->
                          (IF n \in DOMAIN old THEN old[n] ELSE 0) + CountIn(fresh, n)]
    BY <2>1 DEF IndexedGraph, Fresh
  <2>3. Countable(Kept(d)) /\ Countable(fresh) /\ Kept(d) \cap fresh = {}
    BY <1>1, FreshMentions DEF Kept
  <2>4. Countable(mentions')
    <3>1. ASSUME NEW n PROVE IsFiniteSet(MentionsOf(Kept(d) \cup fresh, n))
      <4>1. MentionsOf(Kept(d) \cup fresh, n) = MentionsOf(Kept(d), n) \cup MentionsOf(fresh, n)
        BY DEF MentionsOf
      <4>2. IsFiniteSet(MentionsOf(Kept(d), n)) /\ IsFiniteSet(MentionsOf(fresh, n))
        BY <2>3 DEF Countable
      <4> QED
        BY <4>1, <4>2, FS_Union
    <3>2. \A m \in Kept(d) \cup fresh : m = <<m[1], m[2]>>
      BY <2>3 DEF Countable
    <3> QED
      BY <2>2, <3>1, <3>2 DEF Countable
  <2>5. DOMAIN entities' = {m[2] : m \in mentions'}
    <3>1. DOMAIN old = {m[2] : m \in Kept(d)}
      BY RecountedCounts
    <3>2. DOMAIN entities' = DOMAIN old \cup names
      BY <2>2
    <3> QED
      BY <2>2, <3>1, <3>2
  <2>6. ASSUME NEW n \in DOMAIN entities' PROVE entities'[n] = CountIn(mentions', n)
    <3>1. CountIn(mentions', n) = CountIn(Kept(d), n) + CountIn(fresh, n)
      BY <2>2, <2>3, CountOfUnion
    <3>2. (IF n \in DOMAIN old THEN old[n] ELSE 0) = CountIn(Kept(d), n)
      <4>1. CASE n \in DOMAIN old
        BY <4>1, RecountedCounts
      <4>2. CASE n \notin DOMAIN old
        <5>1. MentionsOf(Kept(d), n) = {}
          BY <4>2, RecountedCounts DEF MentionsOf
        <5> QED
          BY <2>3, <4>2, <5>1, CountIsNat
      <4> QED
        BY <4>1, <4>2
    <3> QED
      BY <2>2, <2>6, <3>1, <3>2
  <2>7. ASSUME NEW r \in relations'
        PROVE  {<<r.chunk, r.source>>, <<r.chunk, r.target>>} \subseteq mentions'
    <3>1. CASE r \in RelationsKept(d)
      BY <1>1, <2>2, <3>1
    <3>2. ASSUME NEW c \in ChunksOf[d], r \in Written(c, extracted[c])
          PROVE  {<<r.chunk, r.source>>, <<r.chunk, r.target>>} \subseteq mentions'
      <4>1. r.chunk = c /\ {r.source, r.target} \subseteq extracted[c].names
        BY <3>2 DEF Written
      <4> QED
        BY <2>2, <4>1, FreshMentions
    <3> QED
      BY <2>2, <3>1, <3>2
  <2> QED
    BY <2>4, <2>5, <2>6, <2>7 DEF GraphInv, GraphConsistent
<1>4. CASE UNCHANGED graphVars
  BY <1>4 DEF graphVars, GraphInv, GraphConsistent, CountIn
<1> QED
  BY <1>2, <1>3, <1>4 DEF GraphNext

LEMMA InvInit == GraphInit => GraphInv
<1> SUFFICES ASSUME GraphInit PROVE GraphInv
  OBVIOUS
<1>1. Countable(mentions)
  BY FS_EmptySet DEF GraphInit, Countable, MentionsOf
<1>. QED  BY <1>1 DEF GraphInit, GraphInv, GraphConsistent

\* After any sequence of indexing, indexing again and removing, an entity is kept exactly
\* while a chunk mentions it, with the number of chunks that do, and every relation joins
\* two entities its own chunk mentions (index_chunks, delete_document).
THEOREM GraphStaysConsistent == GraphSpec => []GraphConsistent
<1>1. GraphInit => GraphInv
  BY InvInit
<1>2. GraphInv /\ [GraphNext]_graphVars => GraphInv'
  BY GraphInvNext
<1>3. GraphInv => GraphConsistent
  BY DEF GraphInv
<1> QED
  BY <1>1, <1>2, <1>3, PTL DEF GraphSpec

-----------------------------------------------------------------------------
(* The baseline's components: numbers, forests and roots.                  *)

LEMMA Least ==
    ASSUME NEW S \in SUBSET Nat, S # {}
    PROVE  \E m \in S : \A k \in S : m <= k
<1>1. PICK m \in S : \A k \in S : <<k, m>> \notin OpToRel(<, Nat)
  BY NatLessThanWellFounded, WFMin
<1>2. ASSUME NEW k \in S PROVE m <= k
  <2>1. ~(k < m)
    BY <1>1, k \in Nat, m \in Nat DEF OpToRel
  <2>. QED  BY <2>1, k \in Nat, m \in Nat
<1>. QED  BY <1>2

LEMMA Climb ==
    ASSUME NEW n \in Nat, NEW G, 0 \in G, \A m \in 1 .. n : m - 1 \in G => m \in G
    PROVE  \A m \in 0 .. n : m \in G
<1>1. SUFFICES ASSUME (0 .. n) \ G # {} PROVE FALSE
  OBVIOUS
<1>2. PICK m \in (0 .. n) \ G : \A k \in (0 .. n) \ G : m <= k
  BY <1>1, Least, (0 .. n) \ G \in SUBSET Nat
<1>3. m \in 1 .. n /\ m - 1 \in 0 .. n
  BY <1>2
<1>4. m - 1 \in G
  BY <1>2, <1>3
<1>. QED  BY <1>2, <1>3, <1>4

-----------------------------------------------------------------------------
\* Parents that are no larger than their children.
Forests(nodes) == {p \in [nodes -> nodes] : \A k \in nodes : p[k] <= k}

\* What the recursion of Root computes on a part of the nodes.
Rooted(p, D, f) ==
    /\ \A k \in D : p[k] \in D
    /\ f = [k \in D |-> IF p[k] = k THEN k ELSE f[p[k]]]

LEMMA RootsAgree ==
    ASSUME NEW nodes \in SUBSET Nat, NEW p \in Forests(nodes),
           NEW D \in SUBSET nodes, NEW E \in SUBSET nodes, NEW f, NEW g,
           Rooted(p, D, f), Rooted(p, E, g)
    PROVE  \A k \in D \cap E : f[k] = g[k]
<1> DEFINE S == {k \in D \cap E : f[k] # g[k]}
<1>1. SUFFICES ASSUME S # {} PROVE FALSE
  OBVIOUS
<1>2. PICK m \in S : \A k \in S : m <= k
  BY <1>1, Least, S \in SUBSET Nat
<1>3. /\ f[m] = IF p[m] = m THEN m ELSE f[p[m]]
      /\ g[m] = IF p[m] = m THEN m ELSE g[p[m]]
      /\ p[m] \in D \cap E
  BY <1>2 DEF Rooted
<1>4. p[m] # m /\ p[m] \in S
  BY <1>2, <1>3
<1>5. p[m] <= m /\ m <= p[m] /\ p[m] \in Nat /\ m \in Nat
  BY <1>2, <1>4 DEF Forests
<1>. QED  BY <1>4, <1>5

LEMMA RootsExist ==
    ASSUME NEW nodes \in SUBSET Nat, NEW p \in Forests(nodes), NEW n \in nodes
    PROVE  \E D \in SUBSET nodes : n \in D /\ \E f : Rooted(p, D, f)
<1> DEFINE S == {k \in nodes : ~\E D \in SUBSET nodes : k \in D /\ \E f : Rooted(p, D, f)}
<1>1. SUFFICES ASSUME S # {} PROVE FALSE
  OBVIOUS
<1>2. PICK m \in S : \A k \in S : m <= k
  BY <1>1, Least, S \in SUBSET Nat
<1>3. m \in nodes /\ p[m] \in nodes /\ p[m] <= m /\ m \in Nat /\ p[m] \in Nat
  BY <1>2 DEF Forests
<1>4. CASE p[m] = m
  <2>1. Rooted(p, {m}, [k \in {m} |-> k])
    BY <1>4 DEF Rooted
  <2>. QED  BY <1>2, <1>3, <2>1
<1>5. CASE p[m] # m
  <2>1. p[m] \notin S
    BY <1>2, <1>3, <1>5
  <2>2. PICK D, f : D \in SUBSET nodes /\ p[m] \in D /\ Rooted(p, D, f)
    BY <1>3, <2>1
  <2>3. CASE m \in D
    BY <1>2, <2>2, <2>3
  <2>4. CASE m \notin D
    <3> DEFINE g == [k \in D \cup {m} |-> IF k = m THEN f[p[m]] ELSE f[k]]
    <3>1. \A k \in D : p[k] \in D /\ f[k] = IF p[k] = k THEN k ELSE f[p[k]]
      BY <2>2 DEF Rooted
    <3>2. \A k \in D : g[k] = f[k] /\ g[p[k]] = f[p[k]]
      BY <2>4, <3>1
    <3>3. g[m] = g[p[m]]
      BY <2>2, <2>4
    <3>4. g = [k \in D \cup {m} |-> IF p[k] = k THEN k ELSE g[p[k]]]
      <4>1. \A k \in D \cup {m} : g[k] = IF p[k] = k THEN k ELSE g[p[k]]
        BY <1>5, <3>1, <3>2, <3>3
      <4>2. g = [k \in D \cup {m} |-> g[k]]
        OBVIOUS
      <4> HIDE DEF g
      <4>. QED  BY <4>1, <4>2
    <3>5. \A k \in D \cup {m} : p[k] \in D \cup {m}
      BY <2>2, <3>1
    <3> HIDE DEF g
    <3>6. Rooted(p, D \cup {m}, g)
      BY <3>4, <3>5 DEF Rooted
    <3>7. D \cup {m} \in SUBSET nodes /\ m \in D \cup {m}
      BY <1>3, <2>2
    <3>. QED  BY <1>2, <3>6, <3>7
  <2>. QED  BY <2>3, <2>4
<1>. QED  BY <1>4, <1>5

LEMMA RootIs ==
    ASSUME NEW nodes \in SUBSET Nat, NEW p \in Forests(nodes), NEW n \in nodes
    PROVE  p[n] \in nodes /\ Root(p, n) = IF p[n] = n THEN n ELSE Root(p, p[n])
<1> DEFINE Sat(f) == f = [k \in nodes |-> IF p[k] = k THEN k ELSE f[p[k]]]
           Value(k, v) == \E D \in SUBSET nodes : \E f : k \in D /\ Rooted(p, D, f) /\ v = f[k]
           g == [k \in nodes |-> CHOOSE v : Value(k, v)]
<1>1. DOMAIN p = nodes /\ \A k \in nodes : p[k] \in nodes
  BY DEF Forests
<1>2. \A k \in nodes : Value(k, g[k])
  <2>. SUFFICES ASSUME NEW k \in nodes PROVE Value(k, g[k])
    OBVIOUS
  <2>1. \E v : Value(k, v)
    <3>1. PICK D \in SUBSET nodes : k \in D /\ \E f : Rooted(p, D, f)
      BY RootsExist
    <3>2. PICK f : Rooted(p, D, f)
      BY <3>1
    <3>3. Value(k, f[k])
      BY <3>1, <3>2
    <3>. QED  BY <3>3
  <2>2. g[k] = CHOOSE v : Value(k, v)
    OBVIOUS
  <2> HIDE DEF g, Value
  <2>. QED  BY <2>1, <2>2
<1>3. ASSUME NEW k \in nodes, NEW v, NEW w, Value(k, v), Value(k, w)
      PROVE  v = w
  <2>1. PICK D, f : D \in SUBSET nodes /\ k \in D /\ Rooted(p, D, f) /\ v = f[k]
    BY <1>3
  <2>2. PICK E, h : E \in SUBSET nodes /\ k \in E /\ Rooted(p, E, h) /\ w = h[k]
    BY <1>3
  <2>3. \A j \in D \cap E : f[j] = h[j]
    BY <2>1, <2>2, RootsAgree
  <2>. QED  BY <2>1, <2>2, <2>3
<1>4. ASSUME NEW k \in nodes PROVE g[k] = IF p[k] = k THEN k ELSE g[p[k]]
  <2>1. PICK D, f : D \in SUBSET nodes /\ k \in D /\ Rooted(p, D, f) /\ g[k] = f[k]
    BY <1>2
  <2>2. p[k] \in D /\ f[k] = IF p[k] = k THEN k ELSE f[p[k]]
    BY <2>1 DEF Rooted
  <2>3. Value(p[k], f[p[k]])
    BY <2>1, <2>2
  <2>4. Value(p[k], g[p[k]])
    BY <1>1, <1>2
  <2> HIDE DEF g, Value
  <2>5. f[p[k]] = g[p[k]]
    BY <1>1, <1>3, <2>3, <2>4
  <2>. QED  BY <2>1, <2>2, <2>5
<1>5. Sat(g)
  <2>1. g = [k \in nodes |-> g[k]]
    OBVIOUS
  <2> HIDE DEF g
  <2>. QED  BY <1>4, <2>1
<1>6. \A k \in nodes : Root(p, k) = (CHOOSE f : Sat(f))[k]
  BY <1>1, Zenon DEF Root
<1>7. Sat(CHOOSE f : Sat(f))
  <2> HIDE DEF Sat, g
  <2>. QED  BY <1>5
<1> DEFINE h == CHOOSE f : Sat(f)
<1>8. h[n] = IF p[n] = n THEN n ELSE h[p[n]]
  BY <1>7
<1> HIDE DEF h
<1>9. Root(p, n) = h[n] /\ Root(p, p[n]) = h[p[n]]
  BY <1>1, <1>6 DEF h
<1>. QED  BY <1>1, <1>8, <1>9

LEMMA RootIsNode ==
    ASSUME NEW nodes \in SUBSET Nat, NEW p \in Forests(nodes), NEW n \in nodes
    PROVE  Root(p, n) \in nodes /\ p[Root(p, n)] = Root(p, n)
<1> DEFINE Good(k) == Root(p, k) \in nodes /\ p[Root(p, k)] = Root(p, k)
           S == {k \in nodes : ~Good(k)}
<1>1. SUFFICES ASSUME S # {} PROVE FALSE
  OBVIOUS
<1>2. PICK m \in S : \A k \in S : m <= k
  BY <1>1, Least, S \in SUBSET Nat
<1>3. m \in nodes /\ p[m] \in nodes /\ p[m] <= m /\ m \in Nat /\ p[m] \in Nat
  BY <1>2 DEF Forests
<1>4. Root(p, m) = IF p[m] = m THEN m ELSE Root(p, p[m])
  BY <1>3, RootIs
<1>5. p[m] # m /\ ~Good(p[m])
  BY <1>2, <1>3, <1>4
<1>6. m <= p[m]
  BY <1>2, <1>3, <1>5
<1>. QED  BY <1>3, <1>5, <1>6

\* Hanging the root b under the smaller root a gives the nodes of b the root a.
Hung(nodes, p, a, b, q) ==
    /\ {p, q} \subseteq Forests(nodes) /\ {a, b} \subseteq nodes
    /\ p[a] = a /\ p[b] = b /\ a <= b
    /\ \A k \in nodes : q[k] = IF k = b THEN a ELSE p[k]

LEMMA HungRoots ==
    ASSUME NEW nodes \in SUBSET Nat, NEW p, NEW a, NEW b, NEW q, Hung(nodes, p, a, b, q)
    PROVE  \A n \in nodes : Root(q, n) = IF Root(p, n) = b THEN a ELSE Root(p, n)
<1>1. /\ p \in Forests(nodes) /\ q \in Forests(nodes) /\ a \in nodes /\ b \in nodes
      /\ p[a] = a /\ p[b] = b /\ a <= b
      /\ \A k \in nodes : q[k] = IF k = b THEN a ELSE p[k]
  BY DEF Hung
<1> DEFINE Good(k) == Root(q, k) = IF Root(p, k) = b THEN a ELSE Root(p, k)
           S == {k \in nodes : ~Good(k)}
<1>3. ASSUME S # {} PROVE FALSE
  <2>1. PICK m \in S : \A k \in S : m <= k
    BY <1>1, <1>3, Least, S \in SUBSET Nat
  <2>2. m \in nodes /\ p[m] \in nodes /\ p[m] <= m /\ m \in Nat /\ p[m] \in Nat
    BY <1>1, <2>1 DEF Forests
  <2>3. /\ Root(p, m) = IF p[m] = m THEN m ELSE Root(p, p[m])
        /\ Root(q, m) = IF q[m] = m THEN m ELSE Root(q, q[m])
    BY <1>1, <2>2, RootIs
  <2>4. Root(q, a) = a
    <3>1. q[a] = a
      BY <1>1
    <3>. QED  BY <1>1, <3>1, RootIs
  <2>5. CASE m = b
    BY <1>1, <2>1, <2>3, <2>4, <2>5
  <2>6. CASE m # b /\ p[m] = m
    BY <1>1, <2>1, <2>2, <2>3, <2>6
  <2>7. CASE m # b /\ p[m] # m
    <3>1. p[m] \notin S
      BY <1>1, <2>1, <2>2, <2>7
    <3>. QED  BY <1>1, <2>1, <2>2, <2>3, <2>7, <3>1
  <2>. QED  BY <2>5, <2>6, <2>7
<1>. QED  BY <1>3

LEMMA UnionRoots ==
    ASSUME NEW nodes \in SUBSET Nat, NEW p \in Forests(nodes),
           NEW r, r.source \in nodes, r.target \in nodes
    PROVE  /\ Union(p, r) \in Forests(nodes)
           /\ Root(Union(p, r), r.source) = Root(Union(p, r), r.target)
           /\ \A m, n \in nodes : Root(p, m) = Root(p, n)
                => Root(Union(p, r), m) = Root(Union(p, r), n)
           /\ \A m, n \in nodes : Root(Union(p, r), m) = Root(Union(p, r), n)
                => \/ Root(p, m) = Root(p, n)
                   \/ /\ {Root(p, m), Root(p, n)} \subseteq {Root(p, r.source), Root(p, r.target)}
<1> DEFINE left == Root(p, r.source)
           right == Root(p, r.target)
<1>1. left \in nodes /\ right \in nodes /\ p[left] = left /\ p[right] = right
  BY RootIsNode
<1>2. left \in Nat /\ right \in Nat
  BY <1>1
<1>3. Union(p, r) = IF left < right THEN [p EXCEPT ![right] = left] ELSE [p EXCEPT ![left] = right]
  BY DEF Union
<1>4. \E a, b : /\ a \in nodes /\ b \in nodes /\ p[a] = a /\ p[b] = b /\ a <= b
                /\ {a, b} = {left, right}
                /\ Union(p, r) = [p EXCEPT ![b] = a]
  <2> HIDE DEF left, right
  <2>1. CASE left < right
    <3>1. left <= right /\ Union(p, r) = [p EXCEPT ![right] = left]
      BY <1>2, <1>3, <2>1
    <3>. QED  BY <1>1, <3>1
  <2>2. CASE ~(left < right)
    <3>1. right <= left /\ Union(p, r) = [p EXCEPT ![left] = right]
      BY <1>2, <1>3, <2>2
    <3>2. {left, right} = {right, left}
      OBVIOUS
    <3>. QED  BY <1>1, <3>1, <3>2
  <2>. QED  BY <2>1, <2>2
<1>5. PICK a, b : /\ a \in nodes /\ b \in nodes /\ p[a] = a /\ p[b] = b /\ a <= b
                  /\ {a, b} = {left, right}
                  /\ Union(p, r) = [p EXCEPT ![b] = a]
  BY <1>4
<1> DEFINE q == Union(p, r)
<1>6. /\ q \in Forests(nodes)
      /\ \A n \in nodes : Root(q, n) = IF Root(p, n) = b THEN a ELSE Root(p, n)
  <2>1. /\ a \in nodes /\ b \in nodes /\ p[a] = a /\ p[b] = b /\ a <= b
        /\ q = [p EXCEPT ![b] = a]
    BY <1>5
  <2> HIDE DEF q
  <2>2. q \in Forests(nodes) /\ \A k \in nodes : q[k] = IF k = b THEN a ELSE p[k]
    BY <2>1 DEF Forests
  <2>3. \A n \in nodes : Root(q, n) = IF Root(p, n) = b THEN a ELSE Root(p, n)
    <3>1. Hung(nodes, p, a, b, q)
      BY <2>1, <2>2 DEF Hung
    <3>. QED  BY <3>1, HungRoots
  <2>. QED  BY <2>2, <2>3
<1> HIDE DEF q
<1>8. Root(q, r.source) = a /\ Root(q, r.target) = a
  BY <1>5, <1>6
<1>. QED  BY <1>5, <1>6, <1>8 DEF q

-----------------------------------------------------------------------------
\* The recursion of Components, from its beginning to the m-th relation.
Joined(nodes, order, m, f) ==
    f = [i \in 0 .. m |-> IF i = 0 THEN [n \in nodes |-> n]
                          ELSE IF Joins(order[i], nodes) THEN Union(f[i - 1], order[i])
                          ELSE f[i - 1]]

LEMMA JoinedExists ==
    ASSUME NEW nodes, NEW order, NEW c \in Nat
    PROVE  \E f : Joined(nodes, order, c, f)
<1> DEFINE G == {m \in 0 .. c : \E f : Joined(nodes, order, m, f)}
<1>1. 0 \in G
  <2>1. Joined(nodes, order, 0, [i \in 0 .. 0 |-> [n \in nodes |-> n]])
    BY DEF Joined
  <2>. QED  BY <2>1
<1>2. ASSUME NEW m \in 1 .. c, m - 1 \in G PROVE m \in G
  <2>1. PICK f : Joined(nodes, order, m - 1, f)
    BY <1>2
  <2> DEFINE next == IF Joins(order[m], nodes) THEN Union(f[m - 1], order[m]) ELSE f[m - 1]
             g == [i \in 0 .. m |-> IF i = m THEN next ELSE f[i]]
  <2>2. \A i \in 0 .. m - 1 :
          f[i] = IF i = 0 THEN [n \in nodes |-> n]
                 ELSE IF Joins(order[i], nodes) THEN Union(f[i - 1], order[i]) ELSE f[i - 1]
    BY <2>1 DEF Joined
  <2>3. ASSUME NEW i \in 0 .. m
        PROVE  g[i] = IF i = 0 THEN [n \in nodes |-> n]
                      ELSE IF Joins(order[i], nodes) THEN Union(g[i - 1], order[i]) ELSE g[i - 1]
    <3>1. CASE i = m
      <4>1. g[m] = next /\ g[m - 1] = f[m - 1] /\ m # 0
        OBVIOUS
      <4> HIDE DEF g
      <4>. QED  BY <3>1, <4>1
    <3>2. CASE i # m
      <4>1. g[i] = f[i] /\ (i # 0 => g[i - 1] = f[i - 1]) /\ i \in 0 .. m - 1
        BY <3>2
      <4> HIDE DEF g
      <4>. QED  BY <2>2, <4>1
    <3>. QED  BY <3>1, <3>2
  <2>4. g = [i \in 0 .. m |-> g[i]]
    OBVIOUS
  <2> HIDE DEF g
  <2>5. Joined(nodes, order, m, g)
    BY <2>3, <2>4 DEF Joined
  <2>. QED  BY <2>5
<1> HIDE DEF G
<1>3. c \in G
  BY <1>1, <1>2, Climb, c \in 0 .. c
<1>. QED  BY <1>3 DEF G

\* The nodes with the same value: how Components and Partitions cut the graph.
GroupOf(nodes, v, k) == {n \in nodes : v[n] = v[k]}
GroupsOf(nodes, v) == {GroupOf(nodes, v, k) : k \in nodes}

LEMMA ComponentsAre ==
    ASSUME NEW nodes, NEW order, Len(order) \in Nat
    PROVE  \E f : /\ Joined(nodes, order, Len(order), f)
                  /\ Components(nodes, order) =
                        GroupsOf(nodes, [n \in nodes |-> Root(f[Len(order)], n)])
<1> DEFINE f == CHOOSE f : Joined(nodes, order, Len(order), f)
<1>1. Joined(nodes, order, Len(order), f)
  BY JoinedExists, Zenon
<1>2. Components(nodes, order) = GroupsOf(nodes, [n \in nodes |-> Root(f[Len(order)], n)])
  BY Zenon DEF Components, Joined, GroupsOf, GroupOf
<1> HIDE DEF f
<1>. QED  BY <1>1, <1>2

\* No set of nodes that the confident relations among rs do not leave is left
\* by a group, and no group is left by such a relation.
Shut(nodes, rs, C) == \A r \in rs : Joins(r, nodes) => (r.source \in C <=> r.target \in C)

Steps(nodes, order, c, f) ==
    /\ f[0] = [n \in nodes |-> n]
    /\ \A i \in 1 .. c :
         f[i] = IF Joins(order[i], nodes) THEN Union(f[i - 1], order[i]) ELSE f[i - 1]

LEMMA JoinedAt ==
    ASSUME NEW nodes, NEW order, NEW c \in Nat, NEW f, Joined(nodes, order, c, f)
    PROVE  Steps(nodes, order, c, f)
<1> DEFINE e(i) == IF i = 0 THEN [n \in nodes |-> n]
                   ELSE IF Joins(order[i], nodes) THEN Union(f[i - 1], order[i])
                   ELSE f[i - 1]
<1>1. f = [i \in 0 .. c |-> e(i)]
  BY Zenon DEF Joined
<1> HIDE DEF e
<1>2. \A i \in 0 .. c : f[i] = e(i)
  BY <1>1
<1>3. f[0] = e(0)
  BY <1>2
<1>4. ASSUME NEW i \in 1 .. c
      PROVE  f[i] = IF Joins(order[i], nodes) THEN Union(f[i - 1], order[i]) ELSE f[i - 1]
  <2>1. i \in 0 .. c /\ i # 0
    OBVIOUS
  <2>2. f[i] = e(i)
    BY <1>2, <2>1
  <2>. QED  BY <2>1, <2>2 DEF e
<1>. QED  BY <1>3, <1>4 DEF e, Steps

LEMMA JoinedForests ==
    ASSUME NEW nodes \in SUBSET Nat, NEW order, NEW c \in Nat, NEW f, Joined(nodes, order, c, f)
    PROVE  \A i \in 0 .. c : f[i] \in Forests(nodes)
<1>0. /\ f[0] = [n \in nodes |-> n]
      /\ \A i \in 1 .. c :
           f[i] = IF Joins(order[i], nodes) THEN Union(f[i - 1], order[i]) ELSE f[i - 1]
  <2>1. Steps(nodes, order, c, f)
    BY JoinedAt
  <2>. QED  BY <2>1 DEF Steps
<1> DEFINE G == {i \in 0 .. c : f[i] \in Forests(nodes)}
<1>1. 0 \in G
  <2>1. f[0] = [n \in nodes |-> n]
    BY <1>0
  <2>. QED  BY <2>1 DEF Forests
<1>2. ASSUME NEW i \in 1 .. c, i - 1 \in G PROVE i \in G
  <2>1. f[i] = IF Joins(order[i], nodes) THEN Union(f[i - 1], order[i]) ELSE f[i - 1]
    BY <1>0
  <2>2. CASE Joins(order[i], nodes)
    <3>1. order[i].source \in nodes /\ order[i].target \in nodes
      BY <2>2 DEF Joins
    <3>2. f[i - 1] \in Forests(nodes)
      BY <1>2
    <3>3. Union(f[i - 1], order[i]) \in Forests(nodes)
      BY <3>1, <3>2, UnionRoots
    <3>. QED  BY <2>1, <2>2, <3>3
  <2>. QED  BY <1>2, <2>1, <2>2
<1> HIDE DEF G
<1>3. \A i \in 0 .. c : i \in G
  BY <1>1, <1>2, Climb
<1>. QED  BY <1>3 DEF G

LEMMA JoinedMeet ==
    ASSUME NEW nodes \in SUBSET Nat, NEW order, NEW c \in Nat, NEW f, Joined(nodes, order, c, f),
           NEW j \in 1 .. c, Joins(order[j], nodes)
    PROVE  Root(f[c], order[j].source) = Root(f[c], order[j].target)
<1>0. /\ f[0] = [n \in nodes |-> n]
      /\ \A i \in 1 .. c :
           f[i] = IF Joins(order[i], nodes) THEN Union(f[i - 1], order[i]) ELSE f[i - 1]
  <2>1. Steps(nodes, order, c, f)
    BY JoinedAt
  <2>. QED  BY <2>1 DEF Steps
<1> DEFINE G == {i \in 0 .. c : i >= j => Root(f[i], order[j].source) = Root(f[i], order[j].target)}
<1>1. 0 \in G
  OBVIOUS
<1>2. order[j].source \in nodes /\ order[j].target \in nodes
  BY DEF Joins
<1>3. ASSUME NEW i \in 1 .. c, i - 1 \in G PROVE i \in G
  <2>1. f[i] = IF Joins(order[i], nodes) THEN Union(f[i - 1], order[i]) ELSE f[i - 1]
    BY <1>0
  <2>2. f[i - 1] \in Forests(nodes)
    <3>1. i - 1 \in 0 .. c
      OBVIOUS
    <3>. QED  BY <3>1, JoinedForests
  <2>3. CASE Joins(order[i], nodes)
    <3>1. order[i].source \in nodes /\ order[i].target \in nodes
      BY <2>3 DEF Joins
    <3>2. /\ Root(f[i], order[i].source) = Root(f[i], order[i].target)
          /\ \A m, n \in nodes : Root(f[i - 1], m) = Root(f[i - 1], n)
                => Root(f[i], m) = Root(f[i], n)
      BY <2>1, <2>2, <2>3, <3>1, UnionRoots
    <3>3. CASE i = j
      BY <3>2, <3>3
    <3>4. CASE i # j
      <4>1. i >= j => i - 1 >= j
        BY <3>4
      <4>2. i >= j => Root(f[i - 1], order[j].source) = Root(f[i - 1], order[j].target)
        BY <1>3, <4>1
      <4>3. i >= j => Root(f[i], order[j].source) = Root(f[i], order[j].target)
        <5> HIDE DEF G
        <5>. QED  BY <1>2, <3>2, <4>2
      <4>. QED  BY <4>3
    <3>. QED  BY <3>3, <3>4
  <2>4. CASE ~Joins(order[i], nodes)
    BY <1>3, <2>1, <2>4
  <2>. QED  BY <2>3, <2>4
<1> HIDE DEF G
<1>4. c \in G
  BY <1>1, <1>3, Climb, c \in 0 .. c
<1>. QED  BY <1>4 DEF G

LEMMA JoinedStay ==
    ASSUME NEW nodes \in SUBSET Nat, NEW order, NEW c \in Nat, NEW f, Joined(nodes, order, c, f),
           NEW C, Shut(nodes, {order[j] : j \in 1 .. c}, C),
           NEW a \in nodes, NEW b \in nodes, Root(f[c], a) = Root(f[c], b)
    PROVE  a \in C <=> b \in C
<1>0. /\ f[0] = [n \in nodes |-> n]
      /\ \A i \in 1 .. c :
           f[i] = IF Joins(order[i], nodes) THEN Union(f[i - 1], order[i]) ELSE f[i - 1]
  <2>1. Steps(nodes, order, c, f)
    BY JoinedAt
  <2>. QED  BY <2>1 DEF Steps
<1> DEFINE Stays(i) == \A m, n \in nodes : Root(f[i], m) = Root(f[i], n) => (m \in C <=> n \in C)
           G == {i \in 0 .. c : Stays(i)}
<1>1. 0 \in G
  <2>1. f[0] = [n \in nodes |-> n] /\ f[0] \in Forests(nodes)
    <3>1. 0 \in 0 .. c
      OBVIOUS
    <3>. QED  BY <1>0, <3>1, JoinedForests
  <2>2. ASSUME NEW n \in nodes PROVE Root(f[0], n) = n
    <3>1. f[0][n] = n
      BY <2>1
    <3>. QED  BY <2>1, <3>1, RootIs
  <2>. QED  BY <2>2
<1>2. ASSUME NEW i \in 1 .. c, i - 1 \in G PROVE i \in G
  <2>1. f[i] = IF Joins(order[i], nodes) THEN Union(f[i - 1], order[i]) ELSE f[i - 1]
    BY <1>0
  <2>2. f[i - 1] \in Forests(nodes) /\ Stays(i - 1)
    BY <1>2, JoinedForests
  <2> HIDE DEF G
  <2>3. CASE Joins(order[i], nodes)
    <3> DEFINE p == f[i - 1]
               s == order[i].source
               t == order[i].target
    <3>1. s \in nodes /\ t \in nodes
      BY <2>3 DEF Joins
    <3>2. s \in C <=> t \in C
      BY <2>3 DEF Shut
    <3>3. ASSUME NEW m \in nodes, NEW n \in nodes, Root(f[i], m) = Root(f[i], n)
          PROVE  Root(p, m) = Root(p, n) \/ {Root(p, m), Root(p, n)} \subseteq {Root(p, s), Root(p, t)}
      BY <2>1, <2>2, <2>3, <3>1, <3>3, UnionRoots
    <3> HIDE DEF p, s, t
    <3>4. \A m, n \in nodes : Root(p, m) = Root(p, n) => (m \in C <=> n \in C)
      BY <2>2 DEF p
    <3>5. Stays(i)
      BY <3>1, <3>2, <3>3, <3>4
    <3>. QED  BY <3>5 DEF G
  <2>4. CASE ~Joins(order[i], nodes)
    <3>1. f[i] = f[i - 1]
      BY <2>1, <2>4
    <3>2. Stays(i)
      BY <2>2, <3>1
    <3>. QED  BY <3>2 DEF G
  <2>. QED  BY <2>3, <2>4
<1> HIDE DEF G
<1>3. c \in G
  BY <1>1, <1>2, Climb, c \in 0 .. c
<1>. QED  BY <1>3 DEF G

-----------------------------------------------------------------------------
(* What the communities of a graph are.                                    *)

\* What Connected says, of any nodes and relations.
Reach(nodes, rs, n) ==
    {k \in nodes : \A C \in SUBSET nodes : n \in C /\ Shut(nodes, rs, C) => k \in C}

\* An order of a finite set goes through all of it.
LEMMA OrdersGoThrough ==
    ASSUME NEW rs, IsFiniteSet(rs), NEW order \in SetToSeqs(rs)
    PROVE  Len(order) \in Nat /\ rs = {order[j] : j \in 1 .. Len(order)}
<1> DEFINE c == Cardinality(rs)
<1>1. c \in Nat
  BY FS_CardinalityType
<1>2. order \in [1 .. c -> rs] /\ \A i, j \in 1 .. c : i # j => order[i] # order[j]
  BY DEF SetToSeqs
<1> HIDE DEF c
<1>3. Len(order) = c
  BY <1>1, <1>2
<1>4. order \in Injection(1 .. c, rs)
  BY <1>2 DEF Injection, IsInjective
<1>5. Cardinality(1 .. c) = Cardinality(rs)
  BY <1>1, FS_Interval DEF c
<1>6. order \in Surjection(1 .. c, rs)
  BY <1>4, <1>5, FS_Injection
<1>7. \A r \in rs : \E j \in 1 .. c : order[j] = r
  BY <1>6 DEF Surjection
<1>. QED  BY <1>1, <1>2, <1>3, <1>7

\* Groups by a value are a partition of the nodes.
Partition(nodes, groups) ==
    /\ IsFiniteSet(groups)
    /\ \A g \in groups : g \subseteq nodes
    /\ \A n \in nodes : \E g \in groups : n \in g /\ \A h \in groups : n \in h => h = g

LEMMA GroupsPart ==
    ASSUME NEW nodes, IsFiniteSet(nodes), NEW v
    PROVE  Partition(nodes, GroupsOf(nodes, v))
<1>1. IsFiniteSet(GroupsOf(nodes, v))
  <2> DEFINE f == [k \in nodes |-> GroupOf(nodes, v, k)]
  <2>1. f \in Surjection(nodes, GroupsOf(nodes, v))
    BY DEF Surjection, GroupsOf
  <2> HIDE DEF f
  <2>. QED  BY <2>1, FS_Surjection
<1>2. \A g \in GroupsOf(nodes, v) : g \subseteq nodes
  BY DEF GroupsOf, GroupOf
<1>3. ASSUME NEW n \in nodes
      PROVE  \E g \in GroupsOf(nodes, v) : n \in g /\ \A h \in GroupsOf(nodes, v) : n \in h => h = g
  <2>1. GroupOf(nodes, v, n) \in GroupsOf(nodes, v) /\ n \in GroupOf(nodes, v, n)
    BY DEF GroupsOf, GroupOf
  <2>2. ASSUME NEW h \in GroupsOf(nodes, v), n \in h PROVE h = GroupOf(nodes, v, n)
    <3>1. PICK k \in nodes : h = GroupOf(nodes, v, k)
      BY DEF GroupsOf
    <3>. QED  BY <2>2, <3>1 DEF GroupOf
  <2>. QED  BY <2>1, <2>2
<1>. QED  BY <1>1, <1>2, <1>3 DEF Partition

\* The baseline's group of a node is what it is connected to, whatever the order
\* of the relations.
LEMMA ComponentsConnect ==
    ASSUME NEW nodes \in SUBSET Nat, NEW rs, IsFiniteSet(rs), NEW order \in SetToSeqs(rs),
           NEW g \in Components(nodes, order), NEW n \in g
    PROVE  g = Reach(nodes, rs, n)
<1> DEFINE c == Len(order)
<1>1. c \in Nat /\ rs = {order[j] : j \in 1 .. c}
  BY OrdersGoThrough
<1>2. PICK f : /\ Joined(nodes, order, c, f)
               /\ Components(nodes, order) = GroupsOf(nodes, [m \in nodes |-> Root(f[c], m)])
  BY <1>1, ComponentsAre
<1> HIDE DEF c
<1>3. n \in nodes /\ g = {m \in nodes : Root(f[c], m) = Root(f[c], n)}
  <2>1. PICK k \in nodes : g = {m \in nodes : Root(f[c], m) = Root(f[c], k)}
    BY <1>2 DEF GroupsOf, GroupOf
  <2>. QED  BY <2>1
<1>4. ASSUME NEW m \in g, NEW C \in SUBSET nodes, n \in C, Shut(nodes, rs, C) PROVE m \in C
  <2>1. Root(f[c], m) = Root(f[c], n) /\ m \in nodes
    BY <1>3
  <2>2. Shut(nodes, {order[j] : j \in 1 .. c}, C)
    BY <1>1, <1>4
  <2>. QED  BY <1>1, <1>2, <1>3, <1>4, <2>1, <2>2, JoinedStay
<1>5. Shut(nodes, rs, g)
  <2> SUFFICES ASSUME NEW r \in rs, Joins(r, nodes) PROVE r.source \in g <=> r.target \in g
    BY DEF Shut
  <2>1. PICK j \in 1 .. c : order[j] = r
    BY <1>1
  <2>2. Root(f[c], r.source) = Root(f[c], r.target)
    BY <1>1, <1>2, <2>1, JoinedMeet
  <2>3. r.source \in nodes /\ r.target \in nodes
    BY DEF Joins
  <2>. QED  BY <1>3, <2>2, <2>3
<1>6. g \in SUBSET nodes /\ n \in g
  BY <1>3
<1>. QED  BY <1>4, <1>5, <1>6 DEF Reach

-----------------------------------------------------------------------------
(* sorted(...)[:cap].                                                      *)

\* Those before a number.
Before(S, c) == {b \in S : b < c}

LEMMA BeforeGrows ==
    ASSUME NEW S \in SUBSET Nat, IsFiniteSet(S), NEW b \in S, NEW c \in S, b < c
    PROVE  /\ Cardinality(Before(S, b)) \in Nat /\ Cardinality(Before(S, c)) \in Nat
           /\ Cardinality(Before(S, b)) < Cardinality(Before(S, c))
<1>1. Before(S, b) \subseteq Before(S, c) /\ Before(S, c) \subseteq S /\ b \in Before(S, c) \ Before(S, b)
  <2>1. b \in Nat /\ c \in Nat /\ \A d \in S : d \in Nat
    OBVIOUS
  <2>2. ~(b < b) /\ \A d \in S : d < b => d < c
    BY <2>1
  <2>. QED  BY <2>2 DEF Before
<1>2. IsFiniteSet(Before(S, c))
  BY <1>1, FS_Subset
<1>3. /\ IsFiniteSet(Before(S, b)) /\ Cardinality(Before(S, b)) <= Cardinality(Before(S, c))
      /\ Cardinality(Before(S, b)) # Cardinality(Before(S, c))
  BY <1>1, <1>2, FS_Subset
<1>. QED  BY <1>2, <1>3, FS_CardinalityType

\* The first of a set are all of it or as many as asked for, and no smaller one is left out.
LEMMA FirstAre ==
    ASSUME NEW S \in SUBSET Nat, IsFiniteSet(S), NEW cap \in Nat
    PROVE  /\ FirstOf(cap, S) \subseteq S
           /\ FirstOf(cap, S) # S => Cardinality(FirstOf(cap, S)) = cap
           /\ \A b \in FirstOf(cap, S), c \in S \ FirstOf(cap, S) : b < c
<1> DEFINE T == FirstOf(cap, S)
           place == [b \in T |-> Cardinality(Before(S, b))]
<1>1. T \subseteq S /\ \A b \in S : b \in T <=> Cardinality(Before(S, b)) < cap
  BY DEF FirstOf, Before
<1> HIDE DEF T
<1>2. IsFiniteSet(T) /\ Cardinality(T) \in Nat
  BY <1>1, FS_Subset, FS_CardinalityType
<1>3. ASSUME NEW b \in S PROVE Cardinality(Before(S, b)) \in Nat
  <2>1. Before(S, b) \subseteq S
    BY DEF Before
  <2>. QED  BY <2>1, FS_Subset, FS_CardinalityType
<1>4. ASSUME NEW b \in T, NEW c \in S \ T PROVE b < c
  <2>1. CASE c < b
    <3>1. Cardinality(Before(S, c)) < Cardinality(Before(S, b))
      BY <1>1, <2>1, BeforeGrows
    <3>. QED  BY <1>1, <1>3, <3>1
  <2>2. CASE c = b
    BY <2>2
  <2>. QED  BY <1>1, <2>1, <2>2
<1>5. Cardinality(T) <= cap
  <2>1. place \in [T -> 0 .. cap - 1]
    BY <1>1, <1>3
  <2>2. ASSUME NEW b \in T, NEW c \in T, b # c PROVE place[b] # place[c]
    <3>1. b \in S /\ c \in S /\ (b < c \/ c < b)
      BY <1>1, <2>2
    <3>2. Cardinality(Before(S, b)) # Cardinality(Before(S, c))
      BY <3>1, <1>3, BeforeGrows
    <3>. QED  BY <3>2
  <2> HIDE DEF place
  <2>3. place \in Injection(T, 0 .. cap - 1)
    BY <2>1, <2>2 DEF Injection, IsInjective
  <2>4. IsFiniteSet(0 .. cap - 1) /\ Cardinality(0 .. cap - 1) = cap
    BY FS_Interval
  <2>. QED  BY <2>3, <2>4, FS_Injection
<1>6. ASSUME T # S PROVE Cardinality(T) >= cap
  <2>1. PICK c \in S \ T : \A d \in S \ T : c <= d
    BY <1>1, <1>6, Least, S \ T \in SUBSET Nat
  <2>2. Before(S, c) \subseteq T
    <3>1. \A d \in S : d < c => ~(c <= d)
      OBVIOUS
    <3>. QED  BY <2>1, <3>1 DEF Before
  <2>3. Cardinality(Before(S, c)) <= Cardinality(T)
    BY <1>2, <2>2, FS_Subset
  <2>. QED  BY <1>1, <1>2, <1>3, <2>1, <2>3
<1>7. T # S => Cardinality(T) = cap
  BY <1>2, <1>5, <1>6
<1>. QED  BY <1>1, <1>4, <1>7 DEF T

-----------------------------------------------------------------------------
(* The communities of one graph.                                           *)

\* What CommunitiesCoverGraph says, of any graph and communities.
About(ms, members) == {m[1] : m \in {x \in ms : x[2] \in members}}
Covers(nodes, ms, rs, ds) ==
    /\ \A n \in nodes :
         \E x \in ds :
            /\ x.level = 0
            /\ n \in x.members
            /\ \A y \in ds : y.level = 0 /\ n \in y.members => y = x
            /\ x.algorithm = "connected_components" => x.members = Reach(nodes, rs, n)
            /\ Keeps(x, About(ms, x.members), GroupCap)
    /\ nodes # {} => \E x \in ds :
         /\ x.members = nodes
         /\ x.level = 1 => Keeps(x, UNION {y.sources : y \in {z \in ds : z.level = 0}}, WholeCap)
         /\ \A m \in ms :
              \/ m[1] \in x.sources
              \/ x.level = 1 /\ Cardinality(x.sources) = WholeCap
              \/ \A y \in ds : y.level = 0 /\ m[1] \in About(ms, y.members)
                                 => Cardinality(y.sources) = GroupCap

\* Mentions of the nodes, and relations between nodes their chunk mentions.
Graph(nodes, ms, rs) ==
    /\ IsFiniteSet(nodes) /\ nodes \subseteq Nat
    /\ IsFiniteSet(rs) /\ IsFiniteSet(ms)
    /\ \A m \in ms : m[1] \in Nat /\ m[2] \in nodes
    /\ \A r \in rs : {<<r.chunk, r.source>>, <<r.chunk, r.target>>} \subseteq ms

\* The community written for a group.
DraftOf(g, algorithm, ms, rs) ==
    [level |-> 0, members |-> g, sources |-> SourcesOf(g, ms, rs), algorithm |-> algorithm]

LEMMA SourcesAre ==
    ASSUME NEW nodes, NEW ms, NEW rs, Graph(nodes, ms, rs), NEW g
    PROVE  /\ SourcesOf(g, ms, rs) = FirstOf(GroupCap, About(ms, g))
           /\ IsFiniteSet(About(ms, g)) /\ About(ms, g) \in SUBSET Nat
<1>1. {r.chunk : r \in {x \in rs : x.source \in g \/ x.target \in g}} \subseteq About(ms, g)
  <2> SUFFICES ASSUME NEW r \in rs, r.source \in g \/ r.target \in g PROVE r.chunk \in About(ms, g)
    OBVIOUS
  <2>1. <<r.chunk, r.source>> \in ms /\ <<r.chunk, r.target>> \in ms
    BY DEF Graph
  <2>. QED  BY <2>1 DEF About
<1>2. {m[1] : m \in {x \in ms : x[2] \in g}}
        \cup {r.chunk : r \in {x \in rs : x.source \in g \/ x.target \in g}} = About(ms, g)
  BY <1>1 DEF About
<1>3. IsFiniteSet(About(ms, g))
  <2> DEFINE some == {x \in ms : x[2] \in g}
             f == [m \in some |-> m[1]]
  <2>1. IsFiniteSet(some)
    BY FS_Subset, some \subseteq ms DEF Graph
  <2>2. About(ms, g) = {m[1] : m \in some}
    BY DEF About
  <2> HIDE DEF some
  <2>3. f \in Surjection(some, About(ms, g))
    BY <2>2 DEF Surjection
  <2> HIDE DEF f
  <2>. QED  BY <2>1, <2>3, FS_Surjection
<1>4. About(ms, g) \in SUBSET Nat
  BY DEF About, Graph
<1>. QED  BY <1>2, <1>3, <1>4 DEF SourcesOf

LEMMA DraftsCover ==
    ASSUME NEW nodes, NEW ms, NEW rs, Graph(nodes, ms, rs),
           NEW order \in SetToSeqs(rs), NEW found \in Detected(nodes, order)
    PROVE  Covers(nodes, ms, rs, Drafts(found, ms, rs))
<1> DEFINE groups == found.groups
           algo == found.algorithm
           draft(g) == DraftOf(g, algo, ms, rs)
           level0 == {draft(g) : g \in groups}
           ds == Drafts(found, ms, rs)
           top == [level |-> 1, members |-> UNION groups,
                   sources |-> FirstOf(WholeCap, UNION {x.sources : x \in level0}),
                   algorithm |-> algo]
<1>1. /\ IsFiniteSet(nodes) /\ nodes \in SUBSET Nat /\ IsFiniteSet(rs)
      /\ \A m \in ms : m[2] \in nodes
      /\ GroupCap \in Nat /\ WholeCap \in Nat
  BY GraphAssumption DEF Graph
<1>2. Partition(nodes, groups)
  <2>1. CASE groups = Components(nodes, order)
    <3>1. Len(order) \in Nat
      BY <1>1, OrdersGoThrough
    <3>2. PICK v : Components(nodes, order) = GroupsOf(nodes, v)
      BY <3>1, ComponentsAre
    <3>. QED  BY <1>1, <2>1, <3>2, GroupsPart
  <2>2. CASE groups \in Partitions(nodes)
    <3>1. PICK v \in [nodes -> nodes] : groups = GroupsOf(nodes, v)
      BY <2>2, Zenon DEF Partitions, GroupsOf, GroupOf
    <3>. QED  BY <1>1, <3>1, GroupsPart
  <2>. QED  BY <2>1, <2>2 DEF Detected
<1>3. algo = "connected_components" => groups = Components(nodes, order)
  BY DEF Detected
<1>4. ds = IF Cardinality(level0) <= 1 THEN level0 ELSE level0 \cup {top}
  BY DEF Drafts, DraftOf
<1> HIDE DEF ds, groups, algo
<1>5. /\ IsFiniteSet(groups)
      /\ \A g \in groups : g \subseteq nodes
      /\ \A n \in nodes : \E g \in groups : n \in g /\ \A h \in groups : n \in h => h = g
  BY <1>2 DEF Partition
<1>6. \A x \in level0 : x.level = 0
  BY DEF DraftOf
<1>7. \A x \in ds : x.level = 0 => x \in level0
  BY <1>4
<1>8. level0 \subseteq ds
  BY <1>4
<1>9. \A g \in groups : /\ draft(g).members = g /\ draft(g).level = 0 /\ draft(g).algorithm = algo
                        /\ draft(g).sources = FirstOf(GroupCap, About(ms, g))
  BY SourcesAre DEF DraftOf
<1>12. \A g \in groups : Keeps(draft(g), About(ms, g), GroupCap)
  <2> TAKE g \in groups
  <2>1. IsFiniteSet(About(ms, g)) /\ About(ms, g) \in SUBSET Nat
    BY SourcesAre
  <2> HIDE DEF draft
  <2>. QED  BY <1>1, <1>9, <2>1, FirstAre DEF Keeps
<1>10. \A n \in nodes :
         \E x \in ds :
            /\ x.level = 0
            /\ n \in x.members
            /\ \A y \in ds : y.level = 0 /\ n \in y.members => y = x
            /\ x.algorithm = "connected_components" => x.members = Reach(nodes, rs, n)
            /\ Keeps(x, About(ms, x.members), GroupCap)
  <2> TAKE n \in nodes
  <2>1. PICK g \in groups : n \in g /\ \A h \in groups : n \in h => h = g
    BY <1>5
  <2>2. draft(g) \in ds /\ draft(g).level = 0 /\ n \in draft(g).members
    BY <1>8, <1>9, <2>1
  <2>3. ASSUME NEW y \in ds, y.level = 0, n \in y.members PROVE y = draft(g)
    <3>1. PICK h \in groups : y = draft(h)
      BY <1>7, <2>3
    <3>2. n \in h
      BY <1>9, <2>3, <3>1
    <3>. QED  BY <2>1, <3>1, <3>2
  <2>4. algo = "connected_components" => g = Reach(nodes, rs, n)
    BY <1>1, <1>3, <2>1, ComponentsConnect
  <2> HIDE DEF draft
  <2>5. Keeps(draft(g), About(ms, draft(g).members), GroupCap)
    BY <1>9, <1>12, <2>1
  <2>. QED  BY <1>9, <2>1, <2>2, <2>3, <2>4, <2>5
<1>13. level0 = {z \in ds : z.level = 0}
  BY <1>4, <1>6
<1>14. ASSUME NEW m \in ms, NEW x, x.sources = UNION {y.sources : y \in level0}
       PROVE  \/ m[1] \in x.sources
              \/ \A y \in ds : y.level = 0 /\ m[1] \in About(ms, y.members)
                                 => Cardinality(y.sources) = GroupCap
  <2> SUFFICES ASSUME m[1] \notin x.sources, NEW g \in groups, m[1] \in About(ms, g)
               PROVE  Cardinality(draft(g).sources) = GroupCap
    <3> HIDE DEF draft
    <3>. QED  BY <1>7, <1>9
  <2> HIDE DEF draft
  <2>1. draft(g).sources \subseteq x.sources
    BY <1>14
  <2>2. draft(g).sources # About(ms, g)
    BY <2>1
  <2>. QED  BY <1>12, <2>2 DEF Keeps
<1>11. ASSUME nodes # {}
       PROVE  \E x \in ds :
                /\ x.members = nodes
                /\ x.level = 1 => Keeps(x, UNION {y.sources : y \in {z \in ds : z.level = 0}}, WholeCap)
                /\ \A m \in ms :
                     \/ m[1] \in x.sources
                     \/ x.level = 1 /\ Cardinality(x.sources) = WholeCap
                     \/ \A y \in ds : y.level = 0 /\ m[1] \in About(ms, y.members)
                                        => Cardinality(y.sources) = GroupCap
  <2>1. IsFiniteSet(level0)
    <3> DEFINE f == [g \in groups |-> draft(g)]
    <3>1. f \in Surjection(groups, level0)
      <4> HIDE DEF draft
      <4>. QED  BY DEF Surjection
    <3> HIDE DEF f, level0
    <3>. QED  BY <1>5, <3>1, FS_Surjection
  <2>2. UNION groups = nodes
    BY <1>5
  <2>3. CASE Cardinality(level0) <= 1
    <3>1. PICK n \in nodes : TRUE
      BY <1>11
    <3>2. PICK g \in groups : n \in g
      BY <1>5
    <3>3. ASSUME NEW h \in groups PROVE h = g
      <4>1. draft(g) \in level0 /\ draft(h) \in level0
        OBVIOUS
      <4>2. Cardinality(level0) \in Nat /\ Cardinality(level0) # 0
        <5> HIDE DEF level0
        <5>. QED  BY <2>1, <4>1, FS_EmptySet, FS_CardinalityType
      <4>3. Cardinality(level0) = 1
        BY <2>3, <4>2
      <4>4. PICK z : level0 = {z}
        <5> HIDE DEF level0
        <5>. QED  BY <2>1, <4>3, FS_Singleton
      <4>5. draft(g) = draft(h)
        <5> HIDE DEF level0
        <5>. QED  BY <4>1, <4>4
      <4>. QED  BY <1>9, <4>5
    <3>4. draft(g).members = nodes /\ draft(g).level = 0 /\ draft(g) \in ds
      <4>1. groups = {g} /\ nodes = g
        BY <2>2, <3>3
      <4>2. draft(g) \in level0
        OBVIOUS
      <4> HIDE DEF draft, level0
      <4>. QED  BY <1>8, <1>9, <4>1, <4>2
    <3>5. draft(g).sources = UNION {y.sources : y \in level0}
      <4>1. groups = {g}
        BY <3>3
      <4>2. level0 = {draft(g)}
        BY <4>1
      <4> HIDE DEF draft, level0
      <4>. QED  BY <4>2
    <3> HIDE DEF draft, level0
    <3>. QED  BY <3>4, <3>5, <1>14
  <2>4. CASE ~(Cardinality(level0) <= 1)
    <3> DEFINE all == UNION {y.sources : y \in level0}
    <3>1. top \in ds /\ top.members = nodes /\ top.level = 1 /\ top.sources = FirstOf(WholeCap, all)
      BY <1>4, <2>2, <2>4
    <3>2. IsFiniteSet(all) /\ all \in SUBSET Nat
      <4>1. \A k \in all : \E m \in ms : k = m[1]
        <5> TAKE k \in all
        <5>1. PICK g \in groups : k \in draft(g).sources
          OBVIOUS
        <5>2. k \in About(ms, g)
          BY <1>9, <1>12, <5>1 DEF Keeps
        <5>. QED  BY <5>2 DEF About
      <4> DEFINE f == [m \in ms |-> m[1]]
                 chunks == {m[1] : m \in ms}
      <4>2. f \in Surjection(ms, chunks)
        BY DEF Surjection
      <4> HIDE DEF f
      <4>3. IsFiniteSet(chunks) /\ chunks \subseteq Nat
        BY <4>2, FS_Surjection DEF Graph
      <4> HIDE DEF all
      <4>4. all \subseteq chunks
        BY <4>1
      <4> HIDE DEF chunks
      <4>. QED  BY <4>3, <4>4, FS_Subset
    <3>3. UNION {y.sources : y \in {z \in ds : z.level = 0}} = all
      BY <1>13
    <3> HIDE DEF top, all
    <3>4. /\ top.sources \subseteq all
          /\ top.sources # all => Cardinality(top.sources) = WholeCap
          /\ \A b \in top.sources, c \in all \ top.sources : b < c
      BY <1>1, <3>1, <3>2, FirstAre
    <3>5. Keeps(top, all, WholeCap)
      BY <3>4 DEF Keeps
    <3>6. ASSUME NEW m \in ms
          PROVE  \/ m[1] \in top.sources
                 \/ top.level = 1 /\ Cardinality(top.sources) = WholeCap
                 \/ \A y \in ds : y.level = 0 /\ m[1] \in About(ms, y.members)
                                    => Cardinality(y.sources) = GroupCap
      <4>1. CASE top.sources = all
        BY <4>1, <1>14 DEF all
      <4>2. CASE top.sources # all
        BY <3>1, <3>4, <4>2
      <4>. QED  BY <4>1, <4>2
    <3>. QED  BY <3>1, <3>3, <3>5, <3>6
  <2>. QED  BY <2>3, <2>4
<1>. QED  BY <1>10, <1>11 DEF Covers, ds

-----------------------------------------------------------------------------
(* The communities of the indexed graph.                                   *)

GraphFinite ==
    /\ IsFiniteSet(mentions) /\ IsFiniteSet(relations)
    /\ \A m \in mentions : m[1] \in Nat /\ m[2] \in Nat

LEMMA FreshFinite ==
    ASSUME NEW d \in Papers, NEW extracted \in [ChunksOf[d] -> Extractions]
    PROVE  /\ IsFiniteSet(Fresh(d, extracted))
           /\ \A m \in Fresh(d, extracted) : m[1] \in Nat /\ m[2] \in Nat
           /\ IsFiniteSet(UNION {Written(c, extracted[c]) : c \in ChunksOf[d]})
<1> DEFINE of(c) == {c} \X extracted[c].names
           rows(c) == Written(c, extracted[c])
<1>1. IsFiniteSet(ChunksOf[d]) /\ ChunksOf[d] \subseteq Nat
  BY GraphAssumption
<1>2. ASSUME NEW c \in ChunksOf[d]
      PROVE  /\ IsFiniteSet(extracted[c].names) /\ IsFiniteSet(extracted[c].relations)
             /\ extracted[c].names \subseteq Nat
  <2>1. extracted[c] \in Extractions
    OBVIOUS
  <2>2. extracted[c].names \in SUBSET Names
    BY <2>1, GraphAssumption
  <2>. QED  BY <2>1, <2>2, GraphAssumption
<1>3. \A c \in ChunksOf[d] : IsFiniteSet(of(c))
  <2> TAKE c \in ChunksOf[d]
  <2>1. IsFiniteSet({c}) /\ IsFiniteSet(extracted[c].names)
    BY <1>2, FS_Singleton
  <2>. QED  BY <2>1, FS_Product
<1>4. \A c \in ChunksOf[d] : IsFiniteSet(rows(c))
  <2> TAKE c \in ChunksOf[d]
  <2> DEFINE kept == {q \in extracted[c].relations :
                        {q.source, q.target} \subseteq extracted[c].names /\ q.source # q.target}
             row(r) == [chunk |-> c, source |-> r.source, target |-> r.target,
                        confidence |-> r.confidence]
             f == [r \in kept |-> row(r)]
  <2>1. IsFiniteSet(kept)
    BY <1>2, FS_Subset, kept \subseteq extracted[c].relations
  <2>2. rows(c) = {row(r) : r \in kept}
    BY Zenon DEF Written
  <2> HIDE DEF kept, row, rows
  <2>3. f \in Surjection(kept, rows(c))
    BY <2>2 DEF Surjection
  <2> HIDE DEF f
  <2>. QED  BY <2>1, <2>3, FS_Surjection
<1> HIDE DEF of, rows
<1>5. IsFiniteSet({of(c) : c \in ChunksOf[d]})
  <2> DEFINE f == [c \in ChunksOf[d] |-> of(c)]
  <2>1. f \in Surjection(ChunksOf[d], {of(c) : c \in ChunksOf[d]})
    BY DEF Surjection
  <2> HIDE DEF f
  <2>. QED  BY <1>1, <2>1, FS_Surjection
<1>6. IsFiniteSet({rows(c) : c \in ChunksOf[d]})
  <2> DEFINE f == [c \in ChunksOf[d] |-> rows(c)]
  <2>1. f \in Surjection(ChunksOf[d], {rows(c) : c \in ChunksOf[d]})
    BY DEF Surjection
  <2> HIDE DEF f
  <2>. QED  BY <1>1, <2>1, FS_Surjection
<1>7. IsFiniteSet(UNION {of(c) : c \in ChunksOf[d]})
  <2>1. \A S \in {of(c) : c \in ChunksOf[d]} : IsFiniteSet(S)
    BY <1>3
  <2>. QED  BY <1>5, <2>1, FS_UNION
<1>8. IsFiniteSet(UNION {rows(c) : c \in ChunksOf[d]})
  <2>1. \A S \in {rows(c) : c \in ChunksOf[d]} : IsFiniteSet(S)
    BY <1>4
  <2>. QED  BY <1>6, <2>1, FS_UNION
<1>9. \A m \in Fresh(d, extracted) : m[1] \in Nat /\ m[2] \in Nat
  BY <1>1, <1>2 DEF Fresh
<1>. QED  BY <1>7, <1>8, <1>9 DEF Fresh, of, rows

LEMMA FiniteNext == GraphFinite /\ [GraphNext]_graphVars => GraphFinite'
<1> SUFFICES ASSUME GraphFinite, [GraphNext]_graphVars PROVE GraphFinite'
  OBVIOUS
<1>1. ASSUME NEW d \in Papers
      PROVE  /\ IsFiniteSet(Kept(d)) /\ IsFiniteSet(RelationsKept(d))
             /\ \A m \in Kept(d) : m[1] \in Nat /\ m[2] \in Nat
  <2>1. Kept(d) \subseteq mentions /\ RelationsKept(d) \subseteq relations
    BY DEF Kept, RelationsKept
  <2>. QED  BY <2>1, FS_Subset DEF GraphFinite
<1>2. ASSUME NEW d \in Papers, RemoveGraph(d) PROVE GraphFinite'
  BY <1>1, <1>2 DEF RemoveGraph, Deleted, GraphFinite
<1>3. ASSUME NEW d \in Papers, IndexGraph(d) PROVE GraphFinite'
  <2>1. PICK extracted \in [ChunksOf[d] -> Extractions] : IndexedGraph(d, extracted)
    BY <1>3 DEF IndexGraph
  <2> DEFINE fresh == Fresh(d, extracted)
             rows == UNION {Written(c, extracted[c]) : c \in ChunksOf[d]}
  <2>2. mentions' = Kept(d) \cup fresh /\ relations' = RelationsKept(d) \cup rows
    BY <2>1 DEF IndexedGraph, Fresh
  <2>3. IsFiniteSet(fresh) /\ IsFiniteSet(rows) /\ \A m \in fresh : m[1] \in Nat /\ m[2] \in Nat
    BY FreshFinite
  <2> HIDE DEF fresh, rows
  <2>4. IsFiniteSet(Kept(d) \cup fresh) /\ IsFiniteSet(RelationsKept(d) \cup rows)
    BY <1>1, <2>3, FS_Union
  <2>. QED  BY <1>1, <2>2, <2>3, <2>4 DEF GraphFinite
<1>4. CASE UNCHANGED graphVars
  BY <1>4 DEF graphVars, GraphFinite
<1>. QED  BY <1>2, <1>3, <1>4 DEF GraphNext

\* The graph is one, in the sense of DraftsCover.
LEMMA GraphIsOne ==
    GraphInv /\ GraphFinite => Graph(DOMAIN entities, mentions, relations)
<1> SUFFICES ASSUME GraphInv, GraphFinite PROVE Graph(DOMAIN entities, mentions, relations)
  OBVIOUS
<1>1. DOMAIN entities = {m[2] : m \in mentions}
  BY DEF GraphInv, GraphConsistent
<1>2. IsFiniteSet({m[2] : m \in mentions})
  <2> DEFINE f == [m \in mentions |-> m[2]]
  <2>1. f \in Surjection(mentions, {m[2] : m \in mentions})
    BY DEF Surjection
  <2> HIDE DEF f
  <2>. QED  BY <2>1, FS_Surjection DEF GraphFinite
<1>3. \A r \in relations : {<<r.chunk, r.source>>, <<r.chunk, r.target>>} \subseteq mentions
  BY DEF GraphInv, GraphConsistent
<1>. QED  BY <1>1, <1>2, <1>3 DEF Graph, GraphFinite

LEMMA CoversIsCover ==
    Covers(DOMAIN entities, mentions, relations, drafts) => CommunitiesCoverGraph
<1>1. \A n \in DOMAIN entities : Reach(DOMAIN entities, relations, n) = Connected(n)
  BY DEF Reach, Connected, Shut, Closed
<1>2. /\ \A S : About(mentions, S) = ChunksAbout(S)
      /\ Level(0) = {z \in drafts : z.level = 0}
  BY DEF About, ChunksAbout, Level
<1> SUFFICES ASSUME Covers(DOMAIN entities, mentions, relations, drafts)
             PROVE  CommunitiesCoverGraph
  OBVIOUS
<1>3. ASSUME NEW n \in DOMAIN entities
      PROVE  \E x \in Level(0) :
               /\ n \in x.members
               /\ \A y \in Level(0) : n \in y.members => y = x
               /\ x.algorithm = "connected_components" => x.members = Connected(n)
               /\ Keeps(x, ChunksAbout(x.members), GroupCap)
  BY <1>1, <1>2 DEF Covers
<1>4. ASSUME DOMAIN entities # {}
      PROVE  \E x \in drafts :
               /\ x.members = DOMAIN entities
               /\ x.level = 1 => Keeps(x, UNION {y.sources : y \in Level(0)}, WholeCap)
               /\ \A m \in mentions :
                    \/ m[1] \in x.sources
                    \/ x.level = 1 /\ Cardinality(x.sources) = WholeCap
                    \/ \A y \in Level(0) :
                          m[1] \in ChunksAbout(y.members) => Cardinality(y.sources) = GroupCap
  BY <1>2, <1>4 DEF Covers
<1>. QED  BY <1>3, <1>4 DEF CommunitiesCoverGraph

Covered == Covers(DOMAIN entities, mentions, relations, drafts)

LEMMA CoverNext ==
    GraphInv' /\ GraphFinite' /\ Rebuilt => Covered'
<1> SUFFICES ASSUME GraphInv', GraphFinite', Rebuilt PROVE Covered'
  OBVIOUS
<1>1. Graph(DOMAIN entities', mentions', relations')
  <2>1. (GraphInv /\ GraphFinite => Graph(DOMAIN entities, mentions, relations))'
    BY GraphIsOne, PTL
  <2>. QED  BY <2>1 DEF Graph
<1>2. PICK order \in SetToSeqs(relations') :
        \E found \in Detected(DOMAIN entities', order) :
            drafts' = Drafts(found, mentions', relations')
  BY DEF Rebuilt
<1>3. PICK found \in Detected(DOMAIN entities', order) :
        drafts' = Drafts(found, mentions', relations')
  BY <1>2
<1>4. Covers(DOMAIN entities', mentions', relations', Drafts(found, mentions', relations'))
  BY <1>1, DraftsCover
<1>. QED  BY <1>3, <1>4 DEF Covered

\* After any sequence of indexing, indexing again and removing, every entity is in one
\* community, of exactly the entities it is connected to when the baseline found it,
\* whose summary is written from the chunks that mention a member, all of them or as
\* many as it may keep; and a chunk of the graph that the community of the whole does
\* not reach is left out by a community that is full (connected_components,
\* _discover_communities).
THEOREM CommunitiesAlwaysCover == GraphSpec => []CommunitiesCoverGraph
<1> DEFINE I == GraphInv /\ GraphFinite /\ Covered
<1>1. GraphInit => I
  <2> SUFFICES ASSUME GraphInit PROVE I
    OBVIOUS
  <2>1. GraphInv
    BY InvInit
  <2>2. GraphFinite
    BY FS_EmptySet DEF GraphInit, GraphFinite
  <2>3. Covered
    BY DEF GraphInit, Covered, Covers
  <2>. QED  BY <2>1, <2>2, <2>3
<1>2. I /\ [GraphNext]_graphVars => I'
  <2> SUFFICES ASSUME I, [GraphNext]_graphVars PROVE I'
    OBVIOUS
  <2>1. GraphInv' /\ GraphFinite'
    BY GraphInvNext, FiniteNext
  <2>2. CASE GraphNext
    <3>1. Rebuilt
      BY <2>2 DEF GraphNext, IndexGraph, RemoveGraph
    <3>. QED  BY <2>1, <3>1, CoverNext
  <2>3. CASE UNCHANGED graphVars
    BY <2>1, <2>3 DEF graphVars, Covered
  <2>. QED  BY <2>1, <2>2, <2>3
<1>3. I => CommunitiesCoverGraph
  BY CoversIsCover DEF Covered
<1>. QED  BY <1>1, <1>2, <1>3, PTL DEF GraphSpec
=============================================================================
