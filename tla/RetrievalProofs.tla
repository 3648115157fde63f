-------------------------- MODULE RetrievalProofs ---------------------------
(***************************************************************************)
(* What a search cites could be cited, its routes are honoured by their    *)
(* fusion, and governance orders its evidence: for any documents, rankings *)
(* and settings.                                                           *)
(***************************************************************************)
EXTENDS Retrieval, FiniteSetTheorems, TLAPS

-----------------------------------------------------------------------------
(* Least numbers, sorted sets and sums.                                    *)

LEMMA Least ==
    ASSUME NEW S \in SUBSET Nat, S # {}
    PROVE  \E m \in S : \A k \in S : m <= k
<1>1. PICK m \in S : \A k \in S : <<k, m>> \notin OpToRel(<, Nat)
  BY NatLessThanWellFounded, WFMin
<1>2. ASSUME NEW k \in S PROVE m <= k
  <2>1. ~(k < m)
    BY <1>1, k \in Nat, m \in Nat DEF OpToRel
  <2>. QED  BY <2>1, k \in Nat, m \in Nat
<1>. QED  BY <1>2

\* Induction: a set of numbers that has 0 and, with every number, the next one.
LEMMA Climb ==
    ASSUME NEW n \in Nat, NEW G, 0 \in G, \A m \in 1 .. n : m - 1 \in G => m \in G
    PROVE  \A m \in 0 .. n : m \in G
<1>1. SUFFICES ASSUME (0 .. n) \ G # {} PROVE FALSE
  OBVIOUS
<1>2. PICK m \in (0 .. n) \ G : \A k \in (0 .. n) \ G : m <= k
  BY <1>1, Least, (0 .. n) \ G \in SUBSET Nat
<1>3. m \in 1 .. n /\ m - 1 \in 0 .. n
  BY <1>2
<1>4. m - 1 \in G
  BY <1>2, <1>3
<1>. QED  BY <1>2, <1>3, <1>4

StrictOrderOn(R, S) ==
    /\ \A x \in S : <<x, x>> \notin R
    /\ \A x, y, z \in S : <<x, y>> \in R /\ <<y, z>> \in R => <<x, z>> \in R
    /\ \A x, y \in S : x # y => <<x, y>> \in R \/ <<y, x>> \in R

Below(S, R, x) == {y \in S : <<y, x>> \in R}
Place(S, R) == [x \in S |-> Cardinality(Below(S, R, x)) + 1]

LEMMA PlaceOfElement ==
    ASSUME NEW S, IsFiniteSet(S), NEW R, StrictOrderOn(R, S), NEW x \in S
    PROVE  /\ IsFiniteSet(Below(S, R, x))
           /\ Cardinality(Below(S, R, x)) \in Nat
           /\ Cardinality(Below(S, R, x)) < Cardinality(S)
           /\ Cardinality(S) \in Nat
<1>1. Cardinality(S) \in Nat
  BY FS_CardinalityType
<1>2. IsFiniteSet(S \ {x}) /\ Cardinality(S \ {x}) = Cardinality(S) - 1
  BY FS_RemoveElement
<1>3. Below(S, R, x) \in SUBSET (S \ {x})
  BY DEF StrictOrderOn, Below
<1>4. IsFiniteSet(Below(S, R, x)) /\ Cardinality(Below(S, R, x)) <= Cardinality(S) - 1
  BY <1>2, <1>3, FS_Subset
<1>5. Cardinality(Below(S, R, x)) \in Nat
  BY <1>4, FS_CardinalityType
<1>. QED  BY <1>1, <1>4, <1>5

LEMMA PlacesInOrder ==
    ASSUME NEW S, IsFiniteSet(S), NEW R, StrictOrderOn(R, S),
           NEW x \in S, NEW y \in S, <<x, y>> \in R
    PROVE  Cardinality(Below(S, R, x)) < Cardinality(Below(S, R, y))
<1>1. Below(S, R, x) \in SUBSET (Below(S, R, y) \ {x})
  <2>1. ASSUME NEW z \in Below(S, R, x) PROVE z \in Below(S, R, y) /\ z # x
    BY DEF StrictOrderOn, Below
  <2>. QED  BY <2>1
<1>2. x \in Below(S, R, y)
  BY DEF Below
<1>3. /\ IsFiniteSet(Below(S, R, y) \ {x})
      /\ Cardinality(Below(S, R, y) \ {x}) = Cardinality(Below(S, R, y)) - 1
  BY <1>2, PlaceOfElement, FS_RemoveElement
<1>4. Cardinality(Below(S, R, x)) <= Cardinality(Below(S, R, y)) - 1
  BY <1>1, <1>3, FS_Subset
<1>5. Cardinality(Below(S, R, x)) \in Nat /\ Cardinality(Below(S, R, y)) \in Nat
  BY PlaceOfElement
<1>. QED  BY <1>4, <1>5

\* A finite set can be sorted: every element is at one place, and the order of
\* the places is the order of the elements.
LEMMA SortedByOrders ==
    ASSUME NEW S, IsFiniteSet(S), NEW R, StrictOrderOn(R, S)
    PROVE  /\ Cardinality(S) \in Nat
           /\ SortedBy(S, R) \in [1 .. Cardinality(S) -> S]
           /\ \A x \in S : \E i \in 1 .. Cardinality(S) : SortedBy(S, R)[i] = x
           /\ \A i, j \in 1 .. Cardinality(S) :
                 i < j => <<SortedBy(S, R)[i], SortedBy(S, R)[j]>> \in R
<1>1. Cardinality(S) \in Nat
  BY FS_CardinalityType
<1>2. ASSUME NEW x \in S, NEW y \in S, Place(S, R)[x] = Place(S, R)[y] PROVE x = y
  <2>1. Cardinality(Below(S, R, x)) = Cardinality(Below(S, R, y))
    <3>1. Cardinality(Below(S, R, x)) \in Nat /\ Cardinality(Below(S, R, y)) \in Nat
      BY PlaceOfElement
    <3>. QED  BY <1>2, <3>1 DEF Place
  <2>2. Cardinality(Below(S, R, x)) \in Nat
    BY PlaceOfElement
  <2>3. <<x, y>> \notin R /\ <<y, x>> \notin R
    BY <2>1, <2>2, PlacesInOrder
  <2>. QED  BY <2>3 DEF StrictOrderOn
<1>3. Place(S, R) \in [S -> 1 .. Cardinality(S)]
  <2>1. ASSUME NEW x \in S PROVE Cardinality(Below(S, R, x)) + 1 \in 1 .. Cardinality(S)
    BY PlaceOfElement
  <2>. QED  BY <2>1 DEF Place
<1>4. Place(S, R) \in Injection(S, 1 .. Cardinality(S))
  BY <1>2, <1>3 DEF Injection, IsInjective
<1>5. Place(S, R) \in Surjection(S, 1 .. Cardinality(S))
  <2>1. IsFiniteSet(1 .. Cardinality(S)) /\ Cardinality(1 .. Cardinality(S)) = Cardinality(S)
    BY <1>1, FS_Interval
  <2>. QED  BY <1>4, <2>1, FS_Injection
<1>6. ASSUME NEW i \in 1 .. Cardinality(S)
      PROVE  /\ SortedBy(S, R)[i] \in S
             /\ Cardinality(Below(S, R, SortedBy(S, R)[i])) = i - 1
  <2>1. PICK x \in S : Place(S, R)[x] = i
    BY <1>5 DEF Surjection
  <2>2. Cardinality(Below(S, R, x)) = i - 1
    BY <2>1, PlaceOfElement DEF Place
  <2>3. SortedBy(S, R)[i] = CHOOSE y \in S : Cardinality(Below(S, R, y)) = i - 1
    BY DEF SortedBy, Below
  <2>. QED  BY <2>2, <2>3
<1>7. SortedBy(S, R) \in [1 .. Cardinality(S) -> S]
  BY <1>6 DEF SortedBy
<1>8. ASSUME NEW x \in S PROVE \E i \in 1 .. Cardinality(S) : SortedBy(S, R)[i] = x
  <2> DEFINE i == Place(S, R)[x]
  <2>1. i \in 1 .. Cardinality(S)
    BY <1>3
  <2>2. SortedBy(S, R)[i] \in S /\ Place(S, R)[SortedBy(S, R)[i]] = i
    BY <1>6, <2>1 DEF Place
  <2>. QED  BY <1>2, <2>1, <2>2
<1>9. ASSUME NEW i \in 1 .. Cardinality(S), NEW j \in 1 .. Cardinality(S), i < j
      PROVE  <<SortedBy(S, R)[i], SortedBy(S, R)[j]>> \in R
  <2>1. SortedBy(S, R)[i] \in S /\ SortedBy(S, R)[j] \in S
    BY <1>6
  <2>2. ~(Cardinality(Below(S, R, SortedBy(S, R)[j])) < Cardinality(Below(S, R, SortedBy(S, R)[i])))
    BY <1>1, <1>6, <1>9
  <2>3. SortedBy(S, R)[i] # SortedBy(S, R)[j]
    BY <1>1, <1>6, <1>9
  <2>. QED  BY <2>1, <2>2, <2>3, PlacesInOrder DEF StrictOrderOn
<1>. QED  BY <1>1, <1>7, <1>8, <1>9

-----------------------------------------------------------------------------
(* Sums.                                                                   *)

IsSum(f, g, n) == f = [v \in 0 .. n |-> IF v = 0 THEN 0 ELSE f[v - 1] + g[v]]

LEMMA LessAdded ==
    ASSUME NEW a \in Nat, NEW b \in Nat, NEW c \in Nat, NEW d \in Nat, a <= b, c <= d
    PROVE  /\ a + c \in Nat /\ b + d \in Nat /\ a + c <= b + d
           /\ a < b \/ c < d => a + c < b + d
OBVIOUS

LEMMA SumExists ==
    ASSUME NEW n \in Nat, NEW g \in [1 .. n -> Nat]
    PROVE  \E f : IsSum(f, g, n)
<1> DEFINE Good(m) == \E f \in [0 .. m -> Nat] : IsSum(f, g, m)
<1>1. Good(0)
  <2>1. [v \in 0 .. 0 |-> 0] \in [0 .. 0 -> Nat] /\ IsSum([v \in 0 .. 0 |-> 0], g, 0)
    BY DEF IsSum
  <2>. QED  BY <2>1
<1>2. ASSUME NEW m \in 1 .. n, Good(m - 1) PROVE Good(m)
  <2>1. PICK f \in [0 .. m - 1 -> Nat] : IsSum(f, g, m - 1)
    BY <1>2
  <2> DEFINE h == [v \in 0 .. m |-> IF v = m THEN f[m - 1] + g[m] ELSE f[v]]
  <2>2. h \in [0 .. m -> Nat]
    OBVIOUS
  <2>3. ASSUME NEW v \in 0 .. m PROVE h[v] = IF v = 0 THEN 0 ELSE h[v - 1] + g[v]
    <3>1. CASE v = m
      BY <3>1
    <3>2. CASE v # m
      <4>1. v \in 0 .. m - 1 /\ (v # 0 => v - 1 \in 0 .. m /\ v - 1 # m)
        BY <3>2
      <4>2. f[v] = IF v = 0 THEN 0 ELSE f[v - 1] + g[v]
        BY <2>1, <4>1 DEF IsSum
      <4>. QED  BY <3>2, <4>1, <4>2
    <3>. QED  BY <3>1, <3>2
  <2>4. IsSum(h, g, m)
    BY <2>3 DEF IsSum
  <2>. QED  BY <2>2, <2>4
<1> HIDE DEF Good
<1>3. \A m \in 0 .. n : m \in {k \in 0 .. n : Good(k)}
  <2>1. 0 \in {k \in 0 .. n : Good(k)}
    BY <1>1
  <2>2. ASSUME NEW m \in 1 .. n, m - 1 \in {k \in 0 .. n : Good(k)}
        PROVE  m \in {k \in 0 .. n : Good(k)}
    BY <1>2, <2>2
  <2>. QED  BY <2>1, <2>2, Climb
<1>. QED  BY <1>3 DEF Good

\* A sum is a number, no less than any of its terms, and bounded if they are.
LEMMA SumBounds ==
    ASSUME NEW n \in Nat, NEW B \in Nat, NEW g \in [1 .. n -> 0 .. B], NEW f, IsSum(f, g, n)
    PROVE  /\ f[n] \in Nat
           /\ f[n] <= n * B
           /\ \A v \in 1 .. n : g[v] <= f[n]
<1> DEFINE Good(m) == /\ f[m] \in Nat /\ f[m] <= m * B
                      /\ \A v \in 1 .. m : g[v] <= f[m]
<1>1. Good(0)
  BY DEF IsSum
<1>2. ASSUME NEW m \in 1 .. n, Good(m - 1) PROVE Good(m)
  <2>1. f[m] = f[m - 1] + g[m] /\ g[m] \in 0 .. B
    BY DEF IsSum
  <2>2. f[m] \in Nat /\ f[m - 1] <= f[m] /\ g[m] <= f[m] /\ f[m] <= (m - 1) * B + B
    <3>1. (m - 1) * B \in Nat
      OBVIOUS
    <3>. QED  BY <1>2, <2>1, <3>1
  <2>4. (m - 1) * B + B = m * B
    OBVIOUS
  <2>3. ASSUME NEW v \in 1 .. m PROVE g[v] <= f[m]
    <3>1. CASE v = m
      BY <2>2, <3>1
    <3>2. CASE v # m
      <4>1. v \in 1 .. m - 1 /\ g[v] \in Nat
        BY <3>2
      <4>. QED  BY <1>2, <2>2, <4>1
    <3>. QED  BY <3>1, <3>2
  <2>. QED  BY <2>2, <2>3, <2>4
<1> HIDE DEF Good
<1>3. \A m \in 0 .. n : m \in {k \in 0 .. n : Good(k)}
  <2>1. 0 \in {k \in 0 .. n : Good(k)}
    BY <1>1
  <2>2. ASSUME NEW m \in 1 .. n, m - 1 \in {k \in 0 .. n : Good(k)}
        PROVE  m \in {k \in 0 .. n : Good(k)}
    BY <1>2, <2>2
  <2>. QED  BY <2>1, <2>2, Climb
<1>. QED  BY <1>3 DEF Good

\* If no term is smaller and one is larger, the sum is larger.
LEMMA SumGrows ==
    ASSUME NEW n \in Nat, NEW g \in [1 .. n -> Nat], NEW h \in [1 .. n -> Nat],
           NEW e, IsSum(e, g, n), NEW f, IsSum(f, h, n),
           \A v \in 1 .. n : g[v] <= h[v],
           NEW w \in 1 .. n, g[w] < h[w]
    PROVE  e[n] < f[n]
<1> DEFINE Good(m) == /\ e[m] \in Nat /\ f[m] \in Nat /\ e[m] <= f[m]
                      /\ w <= m => e[m] < f[m]
<1>1. Good(0)
  BY DEF IsSum
<1>2. ASSUME NEW m \in 1 .. n, Good(m - 1) PROVE Good(m)
  <2>1. /\ e[m] = e[m - 1] + g[m] /\ g[m] \in Nat
        /\ f[m] = f[m - 1] + h[m] /\ h[m] \in Nat /\ g[m] <= h[m]
    BY DEF IsSum
  <2>2. e[m - 1] \in Nat /\ f[m - 1] \in Nat /\ e[m - 1] <= f[m - 1]
    BY <1>2
  <2>3. w <= m => e[m - 1] < f[m - 1] \/ g[m] < h[m]
    <3>1. w <= m - 1 => e[m - 1] < f[m - 1]
      BY <1>2
    <3>2. w <= m => w <= m - 1 \/ w = m
      OBVIOUS
    <3>. QED  BY <3>1, <3>2
  <2>4. e[m] \in Nat /\ f[m] \in Nat /\ e[m] <= f[m]
    BY <2>1, <2>2, LessAdded
  <2>5. e[m - 1] < f[m - 1] \/ g[m] < h[m] => e[m] < f[m]
    <3>1. e[m - 1] < f[m - 1] \/ g[m] < h[m] => e[m - 1] + g[m] < f[m - 1] + h[m]
      <4> HIDE DEF Good
      <4>1. g[m] \in Nat /\ h[m] \in Nat /\ g[m] <= h[m]
        BY <2>1
      <4>. QED  BY <2>2, <4>1, LessAdded, Zenon
    <3>. QED  BY <2>1, <3>1
  <2>. QED  BY <2>3, <2>4, <2>5
<1> HIDE DEF Good
<1>3. \A m \in 0 .. n : m \in {k \in 0 .. n : Good(k)}
  <2>1. 0 \in {k \in 0 .. n : Good(k)}
    BY <1>1
  <2>2. ASSUME NEW m \in 1 .. n, m - 1 \in {k \in 0 .. n : Good(k)}
        PROVE  m \in {k \in 0 .. n : Good(k)}
    BY <1>2, <2>2
  <2>. QED  BY <2>1, <2>2, Climb
<1>. QED  BY <1>3 DEF Good

-----------------------------------------------------------------------------
(* Quotients.                                                              *)

LEMMA Quotient ==
    ASSUME NEW a \in Nat, NEW b \in Nat, b > 0
    PROVE  a \div b \in Nat /\ b * (a \div b) <= a /\ a < b * (a \div b) + b
OBVIOUS

LEMMA QuotientAtLeast ==
    ASSUME NEW a \in Nat, NEW b \in Nat, b > 0, NEW c \in Nat, b * c <= a
    PROVE  c <= a \div b
<1>1. /\ a \div b \in Nat /\ b * (a \div b) <= a /\ a < b * (a \div b) + b
  BY Quotient
<1>2. SUFFICES ASSUME a \div b < c PROVE FALSE
  BY <1>1
<1>3. (a \div b) + 1 <= c
  BY <1>1, <1>2
<1>4. b * ((a \div b) + 1) <= b * c
  BY <1>1, <1>3
<1>5. b * ((a \div b) + 1) = b * (a \div b) + b
  BY <1>1
<1>. QED  BY <1>1, <1>4, <1>5

LEMMA QuotientAtMost ==
    ASSUME NEW a \in Nat, NEW b \in Nat, b > 0, NEW c \in Nat, a <= b * c
    PROVE  a \div b <= c
OBVIOUS

LEMMA QuotientFalls ==
    ASSUME NEW k \in Nat, NEW x \in Nat, NEW y \in Nat, 0 < x, x < y, y - 1 <= k \div y
    PROVE  k \div y < k \div x
<1>1. k \div y \in Nat /\ y * (k \div y) <= k
  BY Quotient
<1> DEFINE q == k \div y
<1> HIDE DEF q
<1>2. q \in Nat /\ y * q <= k /\ y - 1 <= q
  BY <1>1 DEF q
<1>3. x * (q + 1) <= (y - 1) * (q + 1)
  BY <1>2
<1>4. (y - 1) * (q + 1) = y * q + y - 1 - q
  BY <1>2
<1>5. x * (q + 1) <= k
  <2>1. x * (q + 1) \in Nat /\ y * q \in Nat
    BY <1>2
  <2>. QED  BY <1>2, <1>3, <1>4, <2>1
<1>6. q + 1 <= k \div x
  BY <1>2, <1>5, QuotientAtLeast
<1>7. k \div x \in Nat
  BY Quotient
<1>. QED  BY <1>2, <1>6, <1>7 DEF q

-----------------------------------------------------------------------------
(* Rankings and their fusion.                                              *)

LEMMA SmallerOf ==
    ASSUME NEW a \in Nat, NEW b \in Nat
    PROVE  Smaller(a, b) \in 0 .. a /\ Smaller(a, b) \in 0 .. b
BY DEF Smaller

\* p is the first m elements of s.
Prefix(p, s, m) == p = [i \in 1 .. m |-> s[i]]

LEMMA CutIsPrefix ==
    ASSUME NEW X, NEW k \in Nat, NEW s \in [1 .. k -> X], NEW limit \in Nat
    PROVE  Prefix(Cut(s, limit), s, Smaller(k, limit))
<1>1. s \in Seq(X) /\ Len(s) = k
  OBVIOUS
<1> DEFINE m == Smaller(k, limit)
<1>2. m \in 0 .. k /\ m \in 0 .. limit
  BY SmallerOf
<1>3. Cut(s, limit) = SubSeq(s, 1, m)
  BY <1>1 DEF Cut, Smaller
<1>4. SubSeq(s, 1, m) = [i \in 1 .. m |-> s[i]]
  BY <1>1, <1>2
<1> HIDE DEF m
<1>6. Prefix(Cut(s, limit), s, m)
  BY <1>3, <1>4 DEF Prefix
<1>. QED  BY <1>6 DEF m

\* Evidence of different locators can be sorted.
LEMMA SortedEvidence ==
    ASSUME NEW S, IsFiniteSet(S),
           \A x \in S : x.loc \in Nat /\ x.score \in Int,
           \A x, y \in S : x.loc = y.loc => x = y
    PROVE  /\ Cardinality(S) \in Nat
           /\ Sorted(S) \in [1 .. Cardinality(S) -> S]
           /\ \A x \in S : \E i \in 1 .. Cardinality(S) : Sorted(S)[i] = x
           /\ \A i, j \in 1 .. Cardinality(S) :
                 i < j => Before(Sorted(S)[i], Sorted(S)[j])
<1> DEFINE R == {p \in S \X S : Before(p[1], p[2])}
<1>1. \A x, y \in S : <<x, y>> \in R <=> Before(x, y)
  OBVIOUS
<1>2. Sorted(S) = SortedBy(S, R)
  BY DEF Sorted, InOrder
<1> HIDE DEF R
<1>3. StrictOrderOn(R, S)
  <2>1. \A x \in S : <<x, x>> \notin R
    BY <1>1 DEF Before
  <2>2. ASSUME NEW x \in S, NEW y \in S, NEW z \in S, <<x, y>> \in R, <<y, z>> \in R
        PROVE  <<x, z>> \in R
    <3>1. Before(x, y) /\ Before(y, z)
      BY <1>1, <2>2
    <3>2. /\ x.loc \in Nat /\ y.loc \in Nat /\ z.loc \in Nat
          /\ x.score \in Int /\ y.score \in Int /\ z.score \in Int
      OBVIOUS
    <3>3. Before(x, z)
      BY <3>1, <3>2 DEF Before
    <3>. QED  BY <1>1, <3>3
  <2>3. ASSUME NEW x \in S, NEW y \in S, x # y PROVE <<x, y>> \in R \/ <<y, x>> \in R
    <3>1. /\ x.loc \in Nat /\ y.loc \in Nat /\ x.score \in Int /\ y.score \in Int
          /\ x.loc # y.loc
      BY <2>3
    <3>2. Before(x, y) \/ Before(y, x)
      BY <3>1 DEF Before
    <3>. QED  BY <1>1, <3>2
  <2>. QED  BY <2>1, <2>2, <2>3 DEF StrictOrderOn
<1>4. /\ Cardinality(S) \in Nat
      /\ Sorted(S) \in [1 .. Cardinality(S) -> S]
      /\ \A x \in S : \E i \in 1 .. Cardinality(S) : Sorted(S)[i] = x
      /\ \A i, j \in 1 .. Cardinality(S) : i < j => <<Sorted(S)[i], Sorted(S)[j]>> \in R
  BY <1>2, <1>3, SortedByOrders
<1>5. ASSUME NEW i \in 1 .. Cardinality(S), NEW j \in 1 .. Cardinality(S), i < j
      PROVE  Before(Sorted(S)[i], Sorted(S)[j])
  <2>1. Sorted(S)[i] \in S /\ Sorted(S)[j] \in S
    BY <1>4
  <2>. QED  BY <1>1, <1>4, <1>5, <2>1
<1>. QED  BY <1>4, <1>5

LEMMA ImageIsFinite ==
    ASSUME NEW S, IsFiniteSet(S), NEW f, S \subseteq DOMAIN f
    PROVE  IsFiniteSet({f[x] : x \in S})
<1> DEFINE T == {f[x] : x \in S}
<1>1. [x \in S |-> f[x]] \in Surjection(S, T)
  BY DEF Surjection
<1>. QED  BY <1>1, FS_Surjection

\* A ranking of at most depth different locators.
Ranking(r, depth) == \E k \in 0 .. depth : r \in [1 .. k -> Locators] /\ IsInjective(r)
Rankings(rs, n, depth) ==
    /\ n \in Nat /\ Len(rs) = n /\ DOMAIN rs = 1 .. n
    /\ \A v \in 1 .. n : Ranking(rs[v], depth)
Weighted(ws, n) == \A v \in 1 .. n : ws[v] = 85 \/ ws[v] = 100

LEMMA RankOfPlace ==
    ASSUME NEW r, IsInjective(r), NEW i \in DOMAIN r
    PROVE  r[i] \in Placed(r) /\ RankOf(r, r[i]) = i
BY DEF IsInjective, Placed, RankOf

LEMMA RankInRanking ==
    ASSUME NEW depth \in Nat, NEW r, Ranking(r, depth), NEW l \in Placed(r)
    PROVE  l \in Locators /\ RankOf(r, l) \in 1 .. depth /\ r[RankOf(r, l)] = l
<1>1. PICK k \in 0 .. depth : r \in [1 .. k -> Locators] /\ IsInjective(r)
  BY DEF Ranking
<1>2. PICK i \in 1 .. k : r[i] = l
  BY <1>1 DEF Placed
<1>3. RankOf(r, l) = i
  BY <1>1, <1>2, RankOfPlace
<1>. QED  BY <1>1, <1>2, <1>3

LEMMA ContributionFalls ==
    ASSUME NEW a \in 1 .. 300, NEW b \in 1 .. 300, a < b, NEW w, w = 85 \/ w = 100
    PROVE  Contribution(w, b) < Contribution(w, a)
<1> DEFINE K == w * 10000
           x == 60 + a
           y == 60 + b
<1>1. K \in Nat /\ x \in Nat /\ y \in Nat /\ 0 < x /\ x < y /\ y - 1 <= 2361
  BY SMT
<1>2. y * 2361 <= K
  BY SMT
<1>3. 2361 \in Nat /\ 0 < y
  BY SMT
<1> HIDE DEF K, x, y
<1>4. 2361 <= K \div y /\ K \div y \in Nat
  BY <1>1, <1>2, <1>3, QuotientAtLeast, Quotient, SMT
<1>5. y - 1 <= K \div y
  BY <1>1, <1>4, SMT
<1>6. K \div y < K \div x
  BY <1>1, <1>5, QuotientFalls, SMT
<1>. QED  BY <1>6, SMT DEF Contribution, K, x, y

\* The largest contribution, and the smallest within 300 and within 100 places.
Most == 16393
Least300 == 2361
Least100 == 5312

LEMMA ContributionWithin ==
    ASSUME NEW rank \in 1 .. 300, NEW w, w = 85 \/ w = 100
    PROVE  /\ Contribution(w, rank) \in 0 .. Most
           /\ Contribution(w, rank) >= Least300
           /\ rank <= 100 => Contribution(w, rank) >= Least100
<1>1. CASE w = 85
  <2>1. \A r \in 1 .. 300 : Contribution(w, r) = 850000 \div (60 + r)
    BY <1>1, SMT DEF Contribution
  <2>. QED  BY <2>1, SMT DEF Most, Least300, Least100
<1>2. CASE w = 100
  <2>1. \A r \in 1 .. 300 : Contribution(w, r) = 1000000 \div (60 + r)
    BY <1>2, SMT DEF Contribution
  <2>. QED  BY <2>1, SMT DEF Most, Least300, Least100
<1>. QED  BY <1>1, <1>2

LEMMA GainBounds ==
    ASSUME NEW depth \in 0 .. 300, NEW r, Ranking(r, depth), NEW w, w = 85 \/ w = 100, NEW l
    PROVE  /\ Gain(r, w, l) \in 0 .. Most
           /\ l \in Placed(r) => /\ Gain(r, w, l) >= Least300
                                 /\ depth <= 100 => Gain(r, w, l) >= Least100
<1>1. CASE l \in Placed(r)
  <2>1. RankOf(r, l) \in 1 .. depth
    BY <1>1, RankInRanking
  <2>2. RankOf(r, l) \in 1 .. 300 /\ (depth <= 100 => RankOf(r, l) <= 100)
    BY <2>1
  <2>3. /\ Contribution(w, RankOf(r, l)) \in 0 .. Most
        /\ Contribution(w, RankOf(r, l)) >= Least300
        /\ RankOf(r, l) <= 100 => Contribution(w, RankOf(r, l)) >= Least100
    BY <2>2, ContributionWithin
  <2>4. Gain(r, w, l) = Contribution(w, RankOf(r, l))
    BY <1>1 DEF Gain
  <2>. QED  BY <2>2, <2>3, <2>4
<1>2. CASE l \notin Placed(r)
  <2>1. Gain(r, w, l) = 0
    BY <1>2 DEF Gain
  <2>2. 0 \in 0 .. Most
    BY SMT DEF Most
  <2>. QED  BY <1>2, <2>1, <2>2
<1>. QED  BY <1>1, <1>2

Gains(rs, ws, l) == [v \in 1 .. Len(rs) |-> Gain(rs[v], ws[v], l)]

IsTotal(rs, ws, l, n) == \E f : IsSum(f, Gains(rs, ws, l), n) /\ Total(rs, ws, l) = f[n]

LEMMA TotalIsSum ==
    ASSUME NEW depth \in 0 .. 300, NEW n, NEW rs, Rankings(rs, n, depth),
           NEW ws, Weighted(ws, n), NEW l
    PROVE  /\ Gains(rs, ws, l) \in [1 .. n -> 0 .. Most]
           /\ IsTotal(rs, ws, l, n)
<1>1. n \in Nat /\ Len(rs) = n
  BY DEF Rankings
<1>2. \A v \in 1 .. n : Gain(rs[v], ws[v], l) \in 0 .. Most
  BY GainBounds DEF Rankings, Weighted
<1>3. Gains(rs, ws, l) \in [1 .. n -> 0 .. Most]
  BY <1>1, <1>2 DEF Gains
<1>4. Most \in Nat
  BY SMT DEF Most
<1>5. Gains(rs, ws, l) \in [1 .. n -> Nat]
  BY <1>3, <1>4
<1>6. PICK f : IsSum(f, Gains(rs, ws, l), n)
  BY <1>1, <1>5, SumExists
<1> DEFINE Sums(h) == h = [v \in 0 .. Len(rs) |-> IF v = 0 THEN 0
                              ELSE h[v - 1] + Gain(rs[v], ws[v], l)]
<1>7. \A h : Sums(h) => IsSum(h, Gains(rs, ws, l), n)
  <2>1. SUFFICES ASSUME NEW h, Sums(h) PROVE IsSum(h, Gains(rs, ws, l), n)
    OBVIOUS
  <2>2. \A v \in 0 .. n : v # 0 => Gains(rs, ws, l)[v] = Gain(rs[v], ws[v], l)
    BY <1>1 DEF Gains
  <2>. QED  BY <1>1, <2>1, <2>2 DEF IsSum
<1>8. Sums(f)
  <2>1. \A v \in 0 .. n : v # 0 => Gains(rs, ws, l)[v] = Gain(rs[v], ws[v], l)
    BY <1>1 DEF Gains
  <2>. QED  BY <1>1, <1>6, <2>1 DEF IsSum
<1>9. Total(rs, ws, l) = (CHOOSE h : Sums(h))[n]
  BY <1>1, Zenon DEF Total
<1> HIDE DEF Sums
<1>10. Sums(CHOOSE h : Sums(h))
  BY <1>8
<1>. QED  BY <1>3, <1>7, <1>9, <1>10 DEF IsTotal

LEMMA TotalBounds ==
    ASSUME NEW depth \in 0 .. 300, NEW n, NEW rs, Rankings(rs, n, depth),
           NEW ws, Weighted(ws, n), NEW l
    PROVE  /\ Total(rs, ws, l) \in Nat
           /\ Total(rs, ws, l) <= n * Most
           /\ (\E v \in 1 .. n : l \in Placed(rs[v])) =>
                 /\ Total(rs, ws, l) >= Least300
                 /\ depth <= 100 => Total(rs, ws, l) >= Least100
<1>1. n \in Nat /\ Len(rs) = n /\ Most \in Nat /\ Least300 \in Nat /\ Least100 \in Nat
  BY SMT DEF Rankings, Most, Least300, Least100
<1>5. Gains(rs, ws, l) \in [1 .. n -> 0 .. Most] /\ IsTotal(rs, ws, l, n)
  BY TotalIsSum
<1>2. PICK f : IsSum(f, Gains(rs, ws, l), n) /\ Total(rs, ws, l) = f[n]
  BY <1>5 DEF IsTotal
<1>3. /\ f[n] \in Nat /\ f[n] <= n * Most
      /\ \A v \in 1 .. n : Gains(rs, ws, l)[v] <= f[n]
  <2> DEFINE g == Gains(rs, ws, l)
  <2>1. g \in [1 .. n -> 0 .. Most] /\ IsSum(f, g, n)
    BY <1>2, <1>5
  <2> HIDE DEF g
  <2>2. f[n] \in Nat /\ f[n] <= n * Most /\ \A v \in 1 .. n : g[v] <= f[n]
    BY <1>1, <2>1, SumBounds
  <2>. QED  BY <2>2 DEF g
<1>4. ASSUME NEW v \in 1 .. n, l \in Placed(rs[v])
      PROVE  /\ Total(rs, ws, l) >= Least300
             /\ depth <= 100 => Total(rs, ws, l) >= Least100
  <2>1. Gains(rs, ws, l)[v] = Gain(rs[v], ws[v], l)
    BY <1>1 DEF Gains
  <2>2. Ranking(rs[v], depth) /\ (ws[v] = 85 \/ ws[v] = 100)
    BY DEF Rankings, Weighted
  <2>3. /\ Gain(rs[v], ws[v], l) \in 0 .. Most /\ Gain(rs[v], ws[v], l) >= Least300
        /\ depth <= 100 => Gain(rs[v], ws[v], l) >= Least100
    BY <1>4, <2>2, GainBounds
  <2>4. Gain(rs[v], ws[v], l) <= f[n] /\ Gain(rs[v], ws[v], l) \in Nat
    BY <1>1, <1>3, <2>1, <2>3
  <2>. QED  BY <1>1, <1>2, <1>3, <2>3, <2>4
<1>. QED  BY <1>2, <1>3, <1>4

\* A total of the rankings' contributions, normalised by the best, is above 400.
LEMMA NormalisedScore ==
    ASSUME NEW t \in Nat, NEW first \in Nat, t <= first,
           \/ first <= 2 * Most /\ t >= Least300
           \/ first <= 8 * Most /\ t >= Least100
    PROVE  (t * Top) \div first \in 401 .. Top
<1>1. t > 0 /\ first > 0
  BY SMT DEF Least300, Least100
<1>2. t * Top \in Nat /\ Top \in Nat /\ 401 \in Nat
  BY SMT DEF Top
<1>3. first * 401 <= t * Top
  <2>1. CASE first <= 2 * Most /\ t >= Least300
    BY <2>1, SMT DEF Most, Least300, Top
  <2>2. CASE first <= 8 * Most /\ t >= Least100
    BY <2>2, SMT DEF Most, Least100, Top
  <2>. QED  BY <2>1, <2>2
<1>4. t * Top <= first * Top
  BY SMT DEF Top
<1> HIDE DEF Top
<1>5. 401 <= (t * Top) \div first
  BY <1>1, <1>2, <1>3, QuotientAtLeast
<1>6. (t * Top) \div first <= Top
  BY <1>1, <1>2, <1>4, QuotientAtMost
<1>7. (t * Top) \div first \in Nat
  BY <1>1, <1>2, Quotient
<1>. QED  BY <1>2, <1>5, <1>6, <1>7

LEMMA PlacedIsFinite ==
    ASSUME NEW depth \in Nat, NEW r, Ranking(r, depth)
    PROVE  IsFiniteSet(Placed(r)) /\ Placed(r) \subseteq Locators
<1>1. PICK k \in 0 .. depth : r \in [1 .. k -> Locators] /\ IsInjective(r)
  BY DEF Ranking
<1>2. IsFiniteSet(1 .. k)
  BY FS_Interval
<1>3. DOMAIN r = 1 .. k
  BY <1>1
<1>4. IsFiniteSet({r[i] : i \in DOMAIN r})
  BY <1>2, <1>3, ImageIsFinite
<1>. QED  BY <1>1, <1>4 DEF Placed

\* What several rankings have found.
Ranked(rs) == UNION {Placed(rs[v]) : v \in DOMAIN rs}

LEMMA RankedLocators ==
    ASSUME NEW depth \in Nat, NEW n, NEW rs, Rankings(rs, n, depth)
    PROVE  /\ Ranked(rs) \subseteq Locators
           /\ IsFiniteSet(Ranked(rs))
           /\ \A l : l \in Ranked(rs) <=> \E v \in 1 .. n : l \in Placed(rs[v])
<1>1. \A v \in 1 .. n : Placed(rs[v]) \subseteq Locators
  BY PlacedIsFinite DEF Rankings
<1>2. \A l : l \in Ranked(rs) <=> \E v \in 1 .. n : l \in Placed(rs[v])
  BY DEF Ranked, Rankings
<1>3. Ranked(rs) \subseteq Locators
  BY <1>1, <1>2
<1>4. IsFiniteSet(Ranked(rs))
  BY <1>3, RetrievalAssumption, FS_Subset
<1>. QED  BY <1>2, <1>3, <1>4

\* Few or short rankings: those whose fusion keeps every score above 400.
Fusible(n, depth) == depth \in 0 .. 300 /\ (n <= 2 \/ (n <= 8 /\ depth <= 100))

\* A result of the search before it is governed.
Evidence(e, limit) ==
    \E k \in 0 .. limit : /\ e \in [1 .. k -> [loc : Locators, score : 401 .. Top]]
                          /\ IsInjective(Locs(e))

Summed(rs, ws) == {[loc |-> l, score |-> Total(rs, ws, l)] : l \in Ranked(rs)}

LEMMA SummedIs ==
    ASSUME NEW n, NEW depth, Fusible(n, depth), NEW rs, Rankings(rs, n, depth),
           NEW ws, Weighted(ws, n)
    PROVE  /\ IsFiniteSet(Summed(rs, ws))
           /\ \A x \in Summed(rs, ws) :
                /\ x \in [loc : Ranked(rs), score : Nat]
                /\ x.loc \in Nat /\ x.score \in Int
                /\ x.score = Total(rs, ws, x.loc)
           /\ \A x, y \in Summed(rs, ws) : x.loc = y.loc => x = y
           /\ \A l \in Ranked(rs) : \E x \in Summed(rs, ws) : x.loc = l
           /\ \A x, y \in Summed(rs, ws) : y.score <= x.score =>
                (y.score * Top) \div x.score \in 401 .. Top
<1>1. depth \in 0 .. 300 /\ depth \in Nat /\ n \in Nat
  BY DEF Fusible, Rankings
<1>2. \A l \in Ranked(rs) : Total(rs, ws, l) \in Nat
  BY <1>1, TotalBounds
<1> DEFINE f == [l \in Ranked(rs) |-> [loc |-> l, score |-> Total(rs, ws, l)]]
<1>3. IsFiniteSet({f[l] : l \in Ranked(rs)})
  BY <1>1, RankedLocators, ImageIsFinite
<1>4. Summed(rs, ws) = {f[l] : l \in Ranked(rs)}
  BY DEF Summed
<1>5. ASSUME NEW x \in Summed(rs, ws)
      PROVE  /\ x \in [loc : Ranked(rs), score : Nat]
             /\ x.loc \in Nat /\ x.score \in Int
             /\ x.score = Total(rs, ws, x.loc)
  <2>1. PICK l \in Ranked(rs) : x = [loc |-> l, score |-> Total(rs, ws, l)]
    BY DEF Summed
  <2>2. l \in Nat
    BY <1>1, RankedLocators, RetrievalAssumption
  <2>. QED  BY <1>2, <2>1, <2>2
<1>6. \A x, y \in Summed(rs, ws) : x.loc = y.loc => x = y
  BY <1>5
<1>7. ASSUME NEW l \in Ranked(rs) PROVE \E x \in Summed(rs, ws) : x.loc = l
  <2>1. [loc |-> l, score |-> Total(rs, ws, l)] \in Summed(rs, ws)
    BY DEF Summed
  <2>. QED  BY <2>1
<1>8. ASSUME NEW x \in Summed(rs, ws), NEW y \in Summed(rs, ws), y.score <= x.score
      PROVE  (y.score * Top) \div x.score \in 401 .. Top
  <2>1. x.score = Total(rs, ws, x.loc) /\ y.score = Total(rs, ws, y.loc)
    BY <1>5
  <2>2. x.score \in Nat /\ x.score <= n * Most
    BY <1>1, <2>1, TotalBounds
  <2>3. \E v \in 1 .. n : y.loc \in Placed(rs[v])
    BY <1>1, <1>5, RankedLocators
  <2>4. y.score \in Nat /\ y.score >= Least300 /\ (depth <= 100 => y.score >= Least100)
    BY <1>1, <2>1, <2>3, TotalBounds
  <2>5. \/ x.score <= 2 * Most /\ y.score >= Least300
        \/ x.score <= 8 * Most /\ y.score >= Least100
    <3>1. n <= 2 => n * Most <= 2 * Most
      BY <1>1, SMT DEF Most
    <3>2. n <= 8 => n * Most <= 8 * Most
      BY <1>1, SMT DEF Most
    <3>3. n * Most \in Nat /\ 2 * Most \in Nat /\ 8 * Most \in Nat
      BY <1>1, SMT DEF Most
    <3>. QED  BY <2>2, <2>4, <3>1, <3>2, <3>3 DEF Fusible
  <2>. QED  BY <1>8, <2>2, <2>4, <2>5, NormalisedScore
<1>. QED  BY <1>3, <1>4, <1>5, <1>6, <1>7, <1>8

\* A fused result is evidence: what the rankings found, with scores above 400;
\* one of two locators that has the larger total is there if the other is, and
\* before it.
LEMMA FusedEvidence ==
    ASSUME NEW n, NEW depth, Fusible(n, depth), NEW rs, Rankings(rs, n, depth),
           NEW ws, Weighted(ws, n), NEW limit \in Nat
    PROVE  /\ Evidence(Fused(rs, ws, limit), limit)
           /\ \A x \in Placed(Fused(rs, ws, limit)) : x.loc \in Ranked(rs)
           /\ \A k \in Ranked(rs), l \in Placed(Locs(Fused(rs, ws, limit))) :
                Total(rs, ws, l) < Total(rs, ws, k) =>
                  /\ k \in Placed(Locs(Fused(rs, ws, limit)))
                  /\ RankOf(Locs(Fused(rs, ws, limit)), k)
                       < RankOf(Locs(Fused(rs, ws, limit)), l)
<1> DEFINE S == Summed(rs, ws)
           c == Cardinality(S)
           order == Sorted(S)
           norm == [i \in DOMAIN order |->
                      [order[i] EXCEPT !.score = (@ * Top) \div order[1].score]]
           F == Fused(rs, ws, limit)
<1>1. /\ \A x \in S : /\ x \in [loc : Ranked(rs), score : Nat]
                      /\ x.loc \in Nat /\ x.score \in Int
                      /\ x.score = Total(rs, ws, x.loc)
      /\ \A x, y \in S : x.loc = y.loc => x = y
      /\ \A l \in Ranked(rs) : \E x \in S : x.loc = l
      /\ \A x, y \in S : y.score <= x.score => (y.score * Top) \div x.score \in 401 .. Top
  BY SummedIs
<1>2. /\ c \in Nat
      /\ order \in [1 .. c -> S]
      /\ \A x \in S : \E i \in 1 .. c : order[i] = x
      /\ \A i, j \in 1 .. c : i < j => Before(order[i], order[j])
  BY SummedIs, SortedEvidence
<1>3. F = Cut(norm, limit)
  BY DEF Fused, Summed, Ranked
<1>4. Ranked(rs) \subseteq Locators
  BY RankedLocators DEF Fusible
<1> HIDE DEF S, c, F, order
<1>5. ASSUME NEW i \in 1 .. c
      PROVE  /\ norm[i] \in [loc : Locators, score : 401 .. Top]
             /\ norm[i].loc = order[i].loc
  <2>1. order[i] \in S /\ order[1] \in S /\ 1 \in 1 .. c
    BY <1>2
  <2>2. order[i].score <= order[1].score
    <3>1. i = 1 \/ Before(order[1], order[i])
      BY <1>2, <2>1
    <3>2. order[i].score \in Nat /\ order[1].score \in Nat
      BY <1>1, <2>1
    <3>. QED  BY <3>1, <3>2 DEF Before
  <2>3. (order[i].score * Top) \div order[1].score \in 401 .. Top
    BY <1>1, <2>1, <2>2
  <2>4. order[i] \in [loc : Ranked(rs), score : Nat]
    BY <1>1, <2>1
  <2>5. norm[i] = [order[i] EXCEPT !.score = (order[i].score * Top) \div order[1].score]
    BY <1>2
  <2> HIDE DEF norm
  <2>. QED  BY <1>4, <2>3, <2>4, <2>5
<1>6. norm \in [1 .. c -> [loc : Locators, score : 401 .. Top]]
  <2>1. DOMAIN norm = 1 .. c /\ norm = [i \in 1 .. c |-> norm[i]]
    BY <1>2
  <2> HIDE DEF norm
  <2>. QED  BY <1>5, <2>1
<1> HIDE DEF norm
<1> DEFINE m == Smaller(c, limit)
<1>7. /\ m \in 0 .. c /\ m \in 0 .. limit
      /\ F \in [1 .. m -> [loc : Locators, score : 401 .. Top]]
      /\ \A i \in 1 .. m : F[i] = norm[i]
  <2> DEFINE X == [loc : Locators, score : 401 .. Top]
  <2>1. norm \in [1 .. c -> X] /\ c \in Nat
    BY <1>2, <1>6
  <2> HIDE DEF X
  <2>2. m \in 0 .. c /\ m \in 0 .. limit
    BY <2>1, SmallerOf
  <2>3. F = [i \in 1 .. m |-> norm[i]]
    <3>1. Prefix(Cut(norm, limit), norm, m)
      BY <2>1, CutIsPrefix, Zenon
    <3>. QED  BY <1>3, <3>1 DEF Prefix
  <2> HIDE DEF m
  <2>4. \A i \in 1 .. m : norm[i] \in X
    BY <2>1, <2>2
  <2>5. F \in [1 .. m -> X]
    BY <2>3, <2>4
  <2>. QED  BY <2>2, <2>3, <2>5 DEF X
<1> HIDE DEF m
<1>8. \A i \in 1 .. m : i \in 1 .. c /\ F[i].loc = order[i].loc
  BY <1>2, <1>5, <1>7
<1>9. DOMAIN Locs(F) = 1 .. m /\ \A i \in 1 .. m : Locs(F)[i] = order[i].loc
  BY <1>7, <1>8 DEF Locs
<1>10. ASSUME NEW i \in 1 .. c, NEW j \in 1 .. c, order[i].loc = order[j].loc PROVE i = j
  <2>1. order[i] = order[j] /\ order[i] \in S
    BY <1>1, <1>2, <1>10
  <2>2. ~Before(order[i], order[j]) /\ ~Before(order[j], order[i])
    BY <1>1, <2>1 DEF Before
  <2>. QED  BY <1>2, <2>2
<1>11. IsInjective(Locs(F))
  BY <1>8, <1>9, <1>10 DEF IsInjective
<1>12. Evidence(F, limit)
  <2>1. m \in 0 .. limit
    BY <1>7
  <2>. QED  BY <1>7, <1>11, <2>1 DEF Evidence
<1>13. ASSUME NEW x \in Placed(F) PROVE x.loc \in Ranked(rs)
  <2>1. PICK i \in 1 .. m : x = F[i]
    BY <1>7 DEF Placed
  <2>. QED  BY <1>1, <1>2, <1>8, <2>1
<1>14. ASSUME NEW k \in Ranked(rs), NEW l \in Placed(Locs(F)),
              Total(rs, ws, l) < Total(rs, ws, k)
       PROVE  k \in Placed(Locs(F)) /\ RankOf(Locs(F), k) < RankOf(Locs(F), l)
  <2>1. PICK j \in 1 .. m : l = Locs(F)[j]
    BY <1>9 DEF Placed
  <2>2. j \in 1 .. c /\ l = order[j].loc /\ order[j] \in S
    BY <1>2, <1>8, <1>9, <2>1
  <2>3. PICK i \in 1 .. c : order[i] \in S /\ order[i].loc = k
    BY <1>1, <1>2
  <2>4. order[j].score < order[i].score /\ order[i].score \in Nat /\ order[j].score \in Nat
    BY <1>1, <1>14, <2>2, <2>3
  <2>5. ~Before(order[j], order[i]) /\ i # j
    BY <2>4 DEF Before
  <2>6. i < j
    BY <1>2, <2>2, <2>5
  <2>7. i \in 1 .. m /\ Locs(F)[i] = k
    <3>1. i \in Nat /\ j \in Nat /\ m \in Nat /\ j <= m /\ 1 <= i
      BY <1>2, <1>7, <2>1, <2>3
    <3>2. i \in 1 .. m
      BY <2>6, <3>1
    <3>. QED  BY <1>9, <2>3, <3>2
  <2>8. /\ Locs(F)[i] \in Placed(Locs(F)) /\ RankOf(Locs(F), Locs(F)[i]) = i
        /\ RankOf(Locs(F), Locs(F)[j]) = j
    BY <1>9, <1>11, <2>7, RankOfPlace
  <2>. QED  BY <2>1, <2>6, <2>7, <2>8
<1>. QED  BY <1>12, <1>13, <1>14 DEF F

\* k is ranked before l wherever l is ranked.
Precedes(r, k, l) == l \in Placed(r) => k \in Placed(r) /\ RankOf(r, k) < RankOf(r, l)

LEMMA GainFalls ==
    ASSUME NEW depth \in 0 .. 300, NEW r, Ranking(r, depth), NEW w, w = 85 \/ w = 100,
           NEW k, NEW l, Precedes(r, k, l)
    PROVE  /\ Gain(r, w, l) \in Nat /\ Gain(r, w, k) \in Nat
           /\ Gain(r, w, l) <= Gain(r, w, k)
           /\ l \in Placed(r) => Gain(r, w, l) < Gain(r, w, k)
<1>1. Gain(r, w, l) \in Nat /\ Gain(r, w, k) \in Nat
  <2>1. Gain(r, w, l) \in 0 .. Most /\ Gain(r, w, k) \in 0 .. Most
    BY GainBounds
  <2>. QED  BY <2>1
<1>2. CASE l \notin Placed(r)
  BY <1>1, <1>2 DEF Gain
<1>3. CASE l \in Placed(r)
  <2>1. k \in Placed(r) /\ RankOf(r, k) < RankOf(r, l)
    BY <1>3 DEF Precedes
  <2>2. RankOf(r, k) \in 1 .. depth /\ RankOf(r, l) \in 1 .. depth
    BY <1>3, <2>1, RankInRanking
  <2>3. RankOf(r, k) \in 1 .. 300 /\ RankOf(r, l) \in 1 .. 300
    BY <2>2
  <2>4. Contribution(w, RankOf(r, l)) < Contribution(w, RankOf(r, k))
    BY <2>1, <2>3, ContributionFalls
  <2>5. /\ Gain(r, w, l) = Contribution(w, RankOf(r, l))
        /\ Gain(r, w, k) = Contribution(w, RankOf(r, k))
    BY <1>3, <2>1 DEF Gain
  <2>. QED  BY <1>1, <2>4, <2>5
<1>. QED  BY <1>2, <1>3

LEMMA TotalGrows ==
    ASSUME NEW depth \in 0 .. 300, NEW n, NEW rs, Rankings(rs, n, depth),
           NEW ws, Weighted(ws, n), NEW k, NEW l,
           \A v \in 1 .. n : Precedes(rs[v], k, l),
           NEW w \in 1 .. n, l \in Placed(rs[w])
    PROVE  Total(rs, ws, l) < Total(rs, ws, k)
<1>1. n \in Nat /\ Len(rs) = n
  BY DEF Rankings
<1> DEFINE g == Gains(rs, ws, l)
           h == Gains(rs, ws, k)
<1>2. g \in [1 .. n -> 0 .. Most] /\ h \in [1 .. n -> 0 .. Most]
  BY TotalIsSum
<1>3. g \in [1 .. n -> Nat] /\ h \in [1 .. n -> Nat]
  <2>1. Most \in Nat
    BY SMT DEF Most
  <2> HIDE DEF g, h
  <2>. QED  BY <1>2, <2>1
<1>4. IsTotal(rs, ws, l, n) /\ IsTotal(rs, ws, k, n)
  BY TotalIsSum
<1>5. PICK e : IsSum(e, g, n) /\ Total(rs, ws, l) = e[n]
  BY <1>4 DEF IsTotal
<1>6. PICK f : IsSum(f, h, n) /\ Total(rs, ws, k) = f[n]
  BY <1>4 DEF IsTotal
<1>7. \A v \in 1 .. n : g[v] = Gain(rs[v], ws[v], l) /\ h[v] = Gain(rs[v], ws[v], k)
  BY <1>1 DEF Gains
<1> HIDE DEF g, h
<1>8. ASSUME NEW v \in 1 .. n
      PROVE  g[v] <= h[v] /\ (l \in Placed(rs[v]) => g[v] < h[v])
  <2>1. Ranking(rs[v], depth) /\ (ws[v] = 85 \/ ws[v] = 100) /\ Precedes(rs[v], k, l)
    BY DEF Rankings, Weighted
  <2>. QED  BY <1>7, <2>1, GainFalls
<1>9. e[n] < f[n]
  <2>1. g[w] < h[w] /\ \A v \in 1 .. n : g[v] <= h[v]
    BY <1>8
  <2>. QED  BY <1>1, <1>3, <1>5, <1>6, <2>1, SumGrows
<1>. QED  BY <1>5, <1>6, <1>9

\* What all rankings agree on, their fusion keeps.
LEMMA FusionAgrees ==
    ASSUME NEW n, NEW depth, Fusible(n, depth), NEW rs, Rankings(rs, n, depth),
           NEW ws, Weighted(ws, n), NEW limit \in Nat, NEW k, NEW l,
           \A v \in 1 .. n : Precedes(rs[v], k, l)
    PROVE  Precedes(Locs(Fused(rs, ws, limit)), k, l)
<1> DEFINE F == Fused(rs, ws, limit)
<1>1. SUFFICES ASSUME l \in Placed(Locs(F))
               PROVE  k \in Placed(Locs(F)) /\ RankOf(Locs(F), k) < RankOf(Locs(F), l)
  BY DEF Precedes
<1>2. l \in Ranked(rs)
  <2>1. PICK x \in Placed(F) : l = x.loc
    BY <1>1 DEF Placed, Locs
  <2>. QED  BY <2>1, FusedEvidence
<1>3. depth \in 0 .. 300 /\ depth \in Nat
  BY DEF Fusible
<1>4. PICK w \in 1 .. n : l \in Placed(rs[w])
  BY <1>2, <1>3, RankedLocators
<1>5. k \in Ranked(rs)
  <2>1. k \in Placed(rs[w])
    BY <1>4 DEF Precedes
  <2>. QED  BY <1>3, <2>1, RankedLocators
<1>6. Total(rs, ws, l) < Total(rs, ws, k)
  BY <1>3, <1>4, TotalGrows
<1>. QED  BY <1>1, <1>5, <1>6, FusedEvidence

-----------------------------------------------------------------------------
(* The rankings of the routes.                                             *)

\* A sequence of different elements of S.
ListOf(r, S) == \E k \in Nat : r \in [1 .. k -> S] /\ IsInjective(r)

LEMMA SortedList ==
    ASSUME NEW S, IsFiniteSet(S), NEW R, StrictOrderOn(R, S)
    PROVE  ListOf(SortedBy(S, R), S)
<1> DEFINE r == SortedBy(S, R)
           c == Cardinality(S)
<1>1. /\ c \in Nat /\ r \in [1 .. c -> S]
      /\ \A i, j \in 1 .. c : i < j => <<r[i], r[j]>> \in R
  BY SortedByOrders
<1> HIDE DEF r, c
<1>2. ASSUME NEW i \in 1 .. c, NEW j \in 1 .. c, r[i] = r[j] PROVE i = j
  <2>1. <<r[i], r[j]>> \notin R /\ <<r[j], r[i]>> \notin R
    BY <1>1, <1>2 DEF StrictOrderOn
  <2>2. ~(i < j) /\ ~(j < i)
    BY <1>1, <2>1
  <2>. QED  BY <1>1, <2>2
<1>3. IsInjective(r)
  BY <1>1, <1>2 DEF IsInjective
<1>. QED  BY <1>1, <1>3 DEF ListOf, r

LEMMA CutList ==
    ASSUME NEW S, NEW r, ListOf(r, S), NEW limit \in Nat
    PROVE  /\ \E m \in 0 .. limit : Cut(r, limit) \in [1 .. m -> S]
           /\ IsInjective(Cut(r, limit))
           /\ Placed(Cut(r, limit)) \subseteq S
<1>1. PICK k \in Nat : r \in [1 .. k -> S] /\ IsInjective(r)
  BY DEF ListOf
<1> DEFINE m == Smaller(k, limit)
           p == Cut(r, limit)
<1>2. m \in 0 .. k /\ m \in 0 .. limit
  BY SmallerOf
<1>3. Prefix(p, r, m)
  BY <1>1, CutIsPrefix, Zenon
<1> HIDE DEF m, p
<1>4. p = [i \in 1 .. m |-> r[i]]
  BY <1>3 DEF Prefix
<1>5. \A i \in 1 .. m : i \in 1 .. k /\ r[i] \in S
  BY <1>1, <1>2
<1>6. p \in [1 .. m -> S]
  BY <1>4, <1>5
<1>7. IsInjective(p)
  <2>1. DOMAIN p = 1 .. m /\ \A i \in 1 .. m : p[i] = r[i]
    BY <1>4
  <2>. QED  BY <1>1, <1>5, <2>1 DEF IsInjective
<1>8. Placed(p) \subseteq S
  BY <1>6 DEF Placed
<1>. QED  BY <1>2, <1>6, <1>7, <1>8 DEF p

LEMMA CutRanking ==
    ASSUME NEW S \in SUBSET Locators, NEW r, ListOf(r, S), NEW depth \in Nat
    PROVE  Ranking(Cut(r, depth), depth) /\ Placed(Cut(r, depth)) \subseteq S
<1>1. PICK m \in 0 .. depth : Cut(r, depth) \in [1 .. m -> S]
  BY CutList
<1>2. Cut(r, depth) \in [1 .. m -> Locators]
  BY <1>1
<1>3. IsInjective(Cut(r, depth)) /\ Placed(Cut(r, depth)) \subseteq S
  BY CutList
<1>. QED  BY <1>2, <1>3 DEF Ranking

LEMMA RankedByList ==
    ASSUME NEW S \in SUBSET Locators, NEW scoring, \A l \in S : scoring[l] \in Int
    PROVE  ListOf(RankedBy(S, scoring), S)
<1> DEFINE E == {[loc |-> l, score |-> scoring[l]] : l \in S}
           e == Sorted(E)
           c == Cardinality(E)
<1>1. IsFiniteSet(E)
  <2> DEFINE f == [l \in S |-> [loc |-> l, score |-> scoring[l]]]
  <2>1. IsFiniteSet(S)
    BY RetrievalAssumption, FS_Subset
  <2>2. IsFiniteSet({f[l] : l \in S})
    BY <2>1, ImageIsFinite
  <2>3. E = {f[l] : l \in S}
    OBVIOUS
  <2>. QED  BY <2>2, <2>3
<1>2. /\ \A x \in E : x.loc \in S /\ x.loc \in Nat /\ x.score \in Int
      /\ \A x, y \in E : x.loc = y.loc => x = y
  BY RetrievalAssumption
<1> HIDE DEF E
<1>3. /\ c \in Nat /\ e \in [1 .. c -> E]
      /\ \A i, j \in 1 .. c : i < j => Before(e[i], e[j])
  BY <1>1, <1>2, SortedEvidence
<1> HIDE DEF e, c
<1>4. \A i \in 1 .. c : e[i].loc \in S
  BY <1>2, <1>3
<1>5. Locs(e) \in [1 .. c -> S]
  BY <1>3, <1>4 DEF Locs
<1>6. ASSUME NEW i \in 1 .. c, NEW j \in 1 .. c, e[i].loc = e[j].loc PROVE i = j
  <2>1. e[i] = e[j] /\ e[i] \in E
    BY <1>2, <1>3, <1>6
  <2>2. ~Before(e[i], e[j]) /\ ~Before(e[j], e[i])
    BY <1>2, <2>1 DEF Before
  <2>. QED  BY <1>3, <2>2
<1>7. IsInjective(Locs(e))
  BY <1>3, <1>6 DEF IsInjective, Locs
<1>. QED  BY <1>3, <1>5, <1>7 DEF ListOf, RankedBy, e, E

\* The elements that a sequence has at some of its places.
At(seq, places) == {seq[i] : i \in places}

LEMMA TakenList ==
    ASSUME NEW S, NEW k \in Nat, NEW seq \in [1 .. k -> S], NEW places \in SUBSET (1 .. k)
    PROVE  /\ \E c \in Nat : Taken(seq, places) \in [1 .. c -> At(seq, places)]
           /\ IsInjective(seq) => ListOf(Taken(seq, places), At(seq, places))
<1> DEFINE R == {p \in places \X places : p[1] < p[2]}
           order == SortedBy(places, R)
<1>1. IsFiniteSet(places)
  <2>1. IsFiniteSet(1 .. k)
    BY FS_Interval
  <2>. QED  BY <2>1, FS_Subset
<1>2. StrictOrderOn(R, places)
  BY DEF StrictOrderOn
<1>3. order = InOrder(places, LAMBDA i, j : i < j)
  BY DEF InOrder
<1>4. ListOf(order, places)
  <2> HIDE DEF R
  <2>. QED  BY <1>1, <1>2, SortedList
<1> HIDE DEF order
<1>5. PICK c \in Nat : order \in [1 .. c -> places] /\ IsInjective(order)
  BY <1>4 DEF ListOf
<1>6. Taken(seq, places) = [i \in 1 .. c |-> seq[order[i]]]
  BY <1>3, <1>5 DEF Taken
<1>7. Taken(seq, places) \in [1 .. c -> At(seq, places)]
  BY <1>5, <1>6 DEF At
<1>8. ASSUME IsInjective(seq) PROVE ListOf(Taken(seq, places), At(seq, places))
  <2>1. DOMAIN Taken(seq, places) = 1 .. c
    BY <1>6
  <2>2. \A i \in 1 .. c : Taken(seq, places)[i] = seq[order[i]] /\ order[i] \in 1 .. k
    BY <1>5, <1>6
  <2>3. IsInjective(Taken(seq, places))
    BY <1>5, <1>8, <2>1, <2>2 DEF IsInjective
  <2>. QED  BY <1>7, <2>3 DEF ListOf
<1>. QED  BY <1>7, <1>8

LEMMA JoinedLists ==
    ASSUME NEW A, NEW B, A \cap B = {}, NEW a, ListOf(a, A), NEW b, ListOf(b, B),
           NEW S, A \subseteq S, B \subseteq S
    PROVE  ListOf(a \o b, S)
<1>1. PICK m \in Nat : a \in [1 .. m -> A] /\ IsInjective(a)
  BY DEF ListOf
<1>2. PICK n \in Nat : b \in [1 .. n -> B] /\ IsInjective(b)
  BY DEF ListOf
<1>3. a \in Seq(A) /\ Len(a) = m /\ b \in Seq(B) /\ Len(b) = n
  BY <1>1, <1>2
<1> DEFINE s == a \o b
<1>4. a \in Seq(S) /\ b \in Seq(S)
  <2>1. a \in [1 .. m -> S] /\ b \in [1 .. n -> S]
    BY <1>1, <1>2
  <2>. QED  BY <2>1
<1>5. DOMAIN s = 1 .. m + n /\ \A i \in 1 .. m + n : s[i] = IF i <= m THEN a[i] ELSE b[i - m]
  BY <1>3, <1>4
<1>6. \A i \in 1 .. m + n : (i <= m => i \in 1 .. m) /\ (~(i <= m) => i - m \in 1 .. n)
  OBVIOUS
<1>7. s \in [1 .. m + n -> S]
  <2>1. \A i \in 1 .. m + n : s[i] \in S
    BY <1>1, <1>2, <1>5, <1>6
  <2>2. s \in Seq(S) /\ Len(s) = m + n
    BY <1>3, <1>4
  <2> HIDE DEF s
  <2>. QED  BY <2>1, <2>2
<1>8. ASSUME NEW i \in 1 .. m + n, NEW j \in 1 .. m + n, s[i] = s[j] PROVE i = j
  <2>1. CASE i <= m /\ j <= m
    BY <1>1, <1>5, <1>6, <1>8, <2>1 DEF IsInjective
  <2>2. CASE ~(i <= m) /\ ~(j <= m)
    <3>1. i - m \in 1 .. n /\ j - m \in 1 .. n /\ b[i - m] = b[j - m]
      BY <1>5, <1>6, <1>8, <2>2
    <3>2. i - m = j - m
      BY <1>2, <3>1 DEF IsInjective
    <3>. QED  BY <3>2
  <2>3. CASE i <= m /\ ~(j <= m)
    <3>1. s[i] \in A /\ s[j] \in B
      BY <1>1, <1>2, <1>5, <1>6, <2>3
    <3>. QED  BY <1>8, <3>1
  <2>4. CASE ~(i <= m) /\ j <= m
    <3>1. s[i] \in B /\ s[j] \in A
      BY <1>1, <1>2, <1>5, <1>6, <2>4
    <3>. QED  BY <1>8, <3>1
  <2>. QED  BY <2>1, <2>2, <2>3, <2>4
<1>9. IsInjective(s)
  <2> HIDE DEF s
  <2>. QED  BY <1>5, <1>8 DEF IsInjective
<1>. QED  BY <1>7, <1>9, m + n \in Nat DEF ListOf

\* A ranking of elements of S.
RankingIn(r, depth, S) == Ranking(r, depth) /\ Placed(r) \subseteq S

LEMMA FoundLocators ==
    /\ Found(Locators) \subseteq Locators
    /\ \A S : S \subseteq Locators => Found(S) \subseteq Found(Locators)
    /\ \A S : S \subseteq Locators => Found(S) \in SUBSET Locators
BY DEF Found

LEMMA ListInLarger ==
    ASSUME NEW A, NEW B, A \subseteq B, NEW r, ListOf(r, A)
    PROVE  ListOf(r, B)
<1>1. PICK k \in Nat : r \in [1 .. k -> A] /\ IsInjective(r)
  BY DEF ListOf
<1>2. r \in [1 .. k -> B]
  BY <1>1
<1>. QED  BY <1>1, <1>2 DEF ListOf

LEMMA ByOrdinalList ==
    ASSUME NEW S \in SUBSET Locators, NEW score, \A l \in S : score[l] \in Int
    PROVE  ListOf(ByOrdinal(S, score), S)
<1> DEFINE First(k, l) == \/ score[k] > score[l]
                          \/ score[k] = score[l] /\ (Ordinal[k] < Ordinal[l]
                                \/ (Ordinal[k] = Ordinal[l] /\ k < l))
           R == {p \in S \X S : First(p[1], p[2])}
<1>1. IsFiniteSet(S)
  BY RetrievalAssumption, FS_Subset
<1>2. \A l \in S : score[l] \in Int /\ Ordinal[l] \in Nat /\ l \in Nat
  BY RetrievalAssumption
<1>3. StrictOrderOn(R, S)
  <2>1. \A x, y \in S : <<x, y>> \in R <=> First(x, y)
    OBVIOUS
  <2> HIDE DEF R
  <2>2. \A x \in S : <<x, x>> \notin R
    BY <1>2, <2>1
  <2>3. ASSUME NEW x \in S, NEW y \in S, NEW z \in S, <<x, y>> \in R, <<y, z>> \in R
        PROVE  <<x, z>> \in R
    <3>1. First(x, y) /\ First(y, z)
      BY <2>1, <2>3
    <3>2. First(x, z)
      BY <1>2, <3>1
    <3>. QED  BY <2>1, <3>2
  <2>4. ASSUME NEW x \in S, NEW y \in S, x # y PROVE <<x, y>> \in R \/ <<y, x>> \in R
    BY <1>2, <2>1, <2>4
  <2>. QED  BY <2>2, <2>3, <2>4 DEF StrictOrderOn
<1>4. ByOrdinal(S, score) = SortedBy(S, R)
  BY DEF ByOrdinal, InOrder
<1> HIDE DEF R
<1>. QED  BY <1>1, <1>3, <1>4, SortedList

LEMMA BalancedList ==
    ASSUME NEW S \in SUBSET Locators
    PROVE  ListOf(BalancedSelection(S), S)
<1> DEFINE First(k, l) == Depth(S, k) < Depth(S, l) \/ (Depth(S, k) = Depth(S, l) /\ k < l)
           R == {p \in S \X S : First(p[1], p[2])}
<1>1. IsFiniteSet(S)
  BY RetrievalAssumption, FS_Subset
<1>2. ASSUME NEW l \in S PROVE Depth(S, l) \in Nat /\ l \in Nat
  <2>1. IsFiniteSet({k \in S : AssetOf[k] = AssetOf[l] /\ k < l})
    BY <1>1, FS_Subset
  <2>. QED  BY <2>1, FS_CardinalityType, RetrievalAssumption DEF Depth
<1>3. StrictOrderOn(R, S)
  <2>1. \A x, y \in S : <<x, y>> \in R <=> First(x, y)
    OBVIOUS
  <2> HIDE DEF R
  <2>2. \A x \in S : <<x, x>> \notin R
    BY <1>2, <2>1
  <2>3. ASSUME NEW x \in S, NEW y \in S, NEW z \in S, <<x, y>> \in R, <<y, z>> \in R
        PROVE  <<x, z>> \in R
    <3>1. First(x, y) /\ First(y, z)
      BY <2>1, <2>3
    <3>2. First(x, z)
      BY <1>2, <3>1
    <3>. QED  BY <2>1, <3>2
  <2>4. ASSUME NEW x \in S, NEW y \in S, x # y PROVE <<x, y>> \in R \/ <<y, x>> \in R
    BY <1>2, <2>1, <2>4
  <2>. QED  BY <2>2, <2>3, <2>4 DEF StrictOrderOn
<1>4. BalancedSelection(S) = SortedBy(S, R)
  BY DEF BalancedSelection, InOrder
<1> HIDE DEF R
<1>. QED  BY <1>1, <1>3, <1>4, SortedList

LEMMA Limits ==
    /\ CandidateLimit \in 1 .. 100
    /\ RouteLimit \in 1 .. 300
    /\ 3 * CandidateLimit \in 1 .. 300
<1>1. CandidateLimit \in 1 .. 100
  BY RetrievalAssumption DEF CandidateLimit, Smaller, Larger
<1>2. RouteLimit \in 1 .. 300
  BY <1>1, RetrievalAssumption DEF RouteLimit, Smaller
<1>. QED  BY <1>1, <1>2

LEMMA MaxOf ==
    ASSUME NEW n \in Nat, NEW T \in SUBSET (1 .. n), T # {}
    PROVE  Max(T) \in T
<1>1. PICK d \in {n - i : i \in T} : \A e \in {n - i : i \in T} : d <= e
  BY Least, {n - i : i \in T} \in SUBSET Nat, {n - i : i \in T} # {}
<1>2. PICK m \in T : d = n - m
  BY <1>1
<1>3. ASSUME NEW y \in T PROVE m >= y
  <2>1. n - y \in {n - i : i \in T} /\ y \in Nat /\ m \in Nat
    OBVIOUS
  <2>2. n - m <= n - y
    BY <1>1, <1>2, <2>1
  <2>. QED  BY <2>1, <2>2
<1>. QED  BY <1>3 DEF Max

LEMMA StrengthIs ==
    ASSUME NEW matched \in SUBSET Entities, NEW direct
    PROVE  \A l \in MentionedBy(matched) : Strength(matched, direct)[l] \in Int
<1>. SUFFICES ASSUME NEW l \in MentionedBy(matched) PROVE Strength(matched, direct)[l] \in Int
  OBVIOUS
<1> DEFINE base(e) == IF e \in direct THEN 200 ELSE 75
           T == {base(e) + 10 * Mentions[e][l] : e \in {x \in matched : l \in DOMAIN Mentions[x]}}
<1>1. Strength(matched, direct)[l] = Max(T)
  BY DEF Strength
<1>2. T \in SUBSET (1 .. 240)
  <2>. SUFFICES ASSUME NEW e \in matched, l \in DOMAIN Mentions[e]
                PROVE  base(e) + 10 * Mentions[e][l] \in 1 .. 240
    OBVIOUS
  <2>1. Mentions[e][l] \in 1 .. 4
    BY RetrievalAssumption
  <2>2. base(e) = 200 \/ base(e) = 75
    OBVIOUS
  <2> HIDE DEF base
  <2>. QED  BY <2>1, <2>2
<1>3. T # {}
  BY DEF MentionedBy
<1> HIDE DEF T
<1>4. Max(T) \in T
  BY <1>2, <1>3, MaxOf, 240 \in Nat
<1>5. Max(T) \in 1 .. 240
  BY <1>2, <1>4
<1>6. \A i \in 1 .. 240 : i \in Int
  OBVIOUS
<1>. QED  BY <1>1, <1>5, <1>6, Zenon

LEMMA EntityFinds ==
    ASSUME NEW matched \in SUBSET Entities
    PROVE  RankingIn(EntityRanking(matched), RouteLimit, Found(Locators))
<1> DEFINE S == Found(MentionedBy(matched))
<1>1. S \in SUBSET Found(Locators) /\ S \in SUBSET Locators
  BY FoundLocators DEF MentionedBy
<1>2. ListOf(ByOrdinal(S, Strength(matched, matched)), S)
  <2>1. \A l \in S : Strength(matched, matched)[l] \in Int
    BY StrengthIs DEF Found
  <2> HIDE DEF S
  <2>. QED  BY <1>1, <2>1, ByOrdinalList
<1>3. RouteLimit \in Nat
  BY Limits
<1>4. /\ Ranking(EntityRanking(matched), RouteLimit)
      /\ Placed(EntityRanking(matched)) \subseteq S
  BY <1>1, <1>2, <1>3, CutRanking DEF EntityRanking
<1>. QED  BY <1>1, <1>4 DEF RankingIn

LEMMA TagFinds ==
    ASSUME NEW matched
    PROVE  RankingIn(TagRanking(matched), RouteLimit, Found(Locators))
<1> DEFINE S == Found({l \in Locators : AssetOf[l] \in UNION {Labels[t] : t \in matched}})
<1>1. S \in SUBSET Found(Locators) /\ S \in SUBSET Locators
  BY FoundLocators
<1>2. TagRanking(matched) = Cut(BalancedSelection(S), RouteLimit)
  BY DEF TagRanking
<1> HIDE DEF S
<1>3. RouteLimit \in Nat
  BY Limits
<1>4. ListOf(BalancedSelection(S), S)
  BY <1>1, BalancedList
<1>5. Ranking(TagRanking(matched), RouteLimit) /\ Placed(TagRanking(matched)) \subseteq S
  BY <1>1, <1>2, <1>3, <1>4, CutRanking
<1>. QED  BY <1>1, <1>5 DEF RankingIn

LEMMA GraphFinds ==
    ASSUME NEW named \in SUBSET Nameable, NEW profile
    PROVE  RankingIn(GraphRanking(named, profile), CandidateLimit, Found(Locators))
<1> DEFINE matched  == IF profile = "global" /\ named = {} THEN Entities ELSE named
           expanded == matched \cup UNION {Related[e] : e \in matched}
           S == Found(MentionedBy(expanded))
           score == Strength(expanded, matched)
           limit == Smaller(60, CandidateLimit)
           ranked == ByOrdinal(S, score)
           first == FirstOfAsset(ranked)
           rest == DOMAIN ranked \ first
           all == IF profile = "global" THEN Taken(ranked, first) \o Taken(ranked, rest)
                                        ELSE ranked
<1>1. S \in SUBSET Found(Locators) /\ S \in SUBSET Locators
  BY FoundLocators DEF MentionedBy
<1>2. GraphRanking(named, profile) = Cut(all, limit)
  BY DEF GraphRanking
<1>3. ListOf(ranked, S)
  <2>1. expanded \in SUBSET Entities
    BY RetrievalAssumption
  <2> HIDE DEF expanded, matched
  <2>2. \A l \in S : score[l] \in Int
    BY <2>1, StrengthIs DEF Found
  <2> HIDE DEF S, score
  <2>. QED  BY <1>1, <2>2, ByOrdinalList
<1> HIDE DEF S, ranked
<1>4. ListOf(all, S)
  <2>1. PICK k \in Nat : ranked \in [1 .. k -> S] /\ IsInjective(ranked)
    BY <1>3 DEF ListOf
  <2> DEFINE A == At(ranked, first)
             B == At(ranked, rest)
  <2>2. first \in SUBSET (1 .. k) /\ rest \in SUBSET (1 .. k) /\ first \cap rest = {}
    BY <2>1 DEF FirstOfAsset
  <2> HIDE DEF first, rest
  <2>3. ListOf(Taken(ranked, first), A) /\ ListOf(Taken(ranked, rest), B)
    BY <2>1, <2>2, TakenList, Zenon
  <2>4. A \subseteq S /\ B \subseteq S /\ A \cap B = {}
    BY <2>1, <2>2 DEF IsInjective, At
  <2> HIDE DEF A, B
  <2>5. ListOf(Taken(ranked, first) \o Taken(ranked, rest), S)
    BY <2>3, <2>4, JoinedLists
  <2>. QED  BY <1>3, <2>5
<1> HIDE DEF all
<1>5. limit \in Nat /\ limit <= CandidateLimit /\ CandidateLimit \in Nat
  BY Limits DEF Smaller
<1> HIDE DEF limit
<1>6. /\ Ranking(GraphRanking(named, profile), limit)
      /\ Placed(GraphRanking(named, profile)) \subseteq S
  BY <1>1, <1>2, <1>4, <1>5, CutRanking
<1>7. Ranking(GraphRanking(named, profile), CandidateLimit)
  BY <1>5, <1>6 DEF Ranking
<1>. QED  BY <1>1, <1>6, <1>7 DEF RankingIn

LEMMA CommunityFinds ==
    ASSUME NEW order \in {<<>>} \cup SetToSeqs(Communities)
    PROVE  RankingIn(CommunityRanking(order), CandidateLimit, Found(Locators))
<1> DEFINE chunks == UNION Placed(order)
           last   == [l \in chunks |-> Max({i \in DOMAIN order : l \in order[i]})]
           S      == Found(chunks)
           First(k, l) == last[k] < last[l] \/ (last[k] = last[l] /\ k < l)
           R      == {p \in S \X S : First(p[1], p[2])}
<1>1. PICK c \in Nat : order \in [1 .. c -> Communities]
  <2>1. CASE order = <<>>
    <3>1. order \in [1 .. 0 -> Communities]
      BY <2>1
    <3>. QED  BY <3>1
  <2>2. CASE order \in SetToSeqs(Communities)
    <3>1. Cardinality(Communities) \in Nat
      BY RetrievalAssumption, FS_CardinalityType
    <3>. QED  BY <2>2, <3>1 DEF SetToSeqs
  <2>. QED  BY <2>1, <2>2
<1>2. chunks \subseteq Locators /\ \A l \in chunks : \E i \in 1 .. c : l \in order[i]
  <2>1. \A i \in 1 .. c : order[i] \subseteq Locators
    BY <1>1, RetrievalAssumption
  <2>2. DOMAIN order = 1 .. c
    BY <1>1
  <2>3. \A l \in chunks : \E i \in 1 .. c : l \in order[i]
    BY <2>2 DEF Placed
  <2>. QED  BY <2>1, <2>3
<1>3. S \in SUBSET Found(Locators) /\ S \in SUBSET Locators /\ S \subseteq chunks
  BY <1>2, FoundLocators DEF Found
<1>4. ASSUME NEW l \in S PROVE last[l] \in Nat /\ l \in Nat
  <2> DEFINE T == {i \in DOMAIN order : l \in order[i]}
  <2>1. l \in chunks /\ T \in SUBSET (1 .. c) /\ T # {}
    BY <1>1, <1>2, <1>3
  <2>2. last[l] = Max(T)
    BY <2>1
  <2> HIDE DEF T, last
  <2>3. Max(T) \in T
    BY <1>1, <2>1, MaxOf
  <2>4. Max(T) \in Nat
    <3>1. T \subseteq Nat
      BY <2>1
    <3>. QED  BY <2>3, <3>1
  <2>5. l \in Nat
    BY <1>3, RetrievalAssumption
  <2>. QED  BY <2>2, <2>4, <2>5
<1>5. StrictOrderOn(R, S)
  <2>1. \A x, y \in S : <<x, y>> \in R <=> First(x, y)
    OBVIOUS
  <2> HIDE DEF R, S, last
  <2>2. \A x \in S : <<x, x>> \notin R
    BY <1>4, <2>1
  <2>3. ASSUME NEW x \in S, NEW y \in S, NEW z \in S, <<x, y>> \in R, <<y, z>> \in R
        PROVE  <<x, z>> \in R
    <3>1. First(x, y) /\ First(y, z)
      BY <2>1, <2>3
    <3>2. First(x, z)
      BY <1>4, <3>1
    <3>. QED  BY <2>1, <3>2
  <2>4. ASSUME NEW x \in S, NEW y \in S, x # y PROVE <<x, y>> \in R \/ <<y, x>> \in R
    BY <1>4, <2>1, <2>4
  <2>. QED  BY <2>2, <2>3, <2>4 DEF StrictOrderOn
<1>6. CommunityRanking(order) = Cut(SortedBy(S, R), CandidateLimit)
  BY DEF CommunityRanking, InOrder
<1> HIDE DEF S, R
<1>7. IsFiniteSet(S) /\ CandidateLimit \in Nat
  <2>1. IsFiniteSet(S)
    BY <1>3, RetrievalAssumption, FS_Subset
  <2>. QED  BY <2>1, Limits
<1>8. ListOf(SortedBy(S, R), S)
  BY <1>5, <1>7, SortedList
<1>9. /\ Ranking(CommunityRanking(order), CandidateLimit)
      /\ Placed(CommunityRanking(order)) \subseteq S
  BY <1>3, <1>6, <1>7, <1>8, CutRanking
<1>. QED  BY <1>3, <1>9 DEF RankingIn

LEMMA EvidenceRanking ==
    ASSUME NEW limit \in Nat, NEW e, Evidence(e, limit)
    PROVE  Ranking(Locs(e), limit)
<1>1. PICK k \in 0 .. limit : /\ e \in [1 .. k -> [loc : Locators, score : 401 .. Top]]
                              /\ IsInjective(Locs(e))
  BY DEF Evidence
<1>2. Locs(e) \in [1 .. k -> Locators]
  <2>1. \A i \in 1 .. k : e[i] \in [loc : Locators, score : 401 .. Top]
    BY <1>1
  <2>2. \A i \in 1 .. k : e[i].loc \in Locators
    BY <2>1
  <2>. QED  BY <1>1, <2>2 DEF Locs
<1>. QED  BY <1>1, <1>2 DEF Ranking

LEMMA FusedFinds ==
    ASSUME NEW n, NEW depth, Fusible(n, depth), NEW rs, Rankings(rs, n, depth),
           NEW ws, Weighted(ws, n), NEW limit \in Nat,
           NEW H, \A v \in 1 .. n : Placed(rs[v]) \subseteq H
    PROVE  RankingIn(Locs(Fused(rs, ws, limit)), limit, H)
<1> DEFINE F == Fused(rs, ws, limit)
<1>1. Evidence(F, limit) /\ \A x \in Placed(F) : x.loc \in Ranked(rs)
  BY FusedEvidence
<1>2. Ranking(Locs(F), limit)
  BY <1>1, EvidenceRanking
<1>3. Ranked(rs) \subseteq H
  BY DEF Ranked, Rankings
<1>4. Placed(Locs(F)) \subseteq H
  <2> HIDE DEF F
  <2>. QED  BY <1>1, <1>3 DEF Placed, Locs
<1>. QED  BY <1>2, <1>4 DEF RankingIn

\* Two rankings in full weight.
LEMMA TwoRankings ==
    ASSUME NEW depth, NEW a, Ranking(a, depth), NEW b, Ranking(b, depth)
    PROVE  Rankings(<<a, b>>, 2, depth) /\ Rankings(<<a>>, 1, depth)
<1>1. \A v \in 1 .. 2 : Ranking(<<a, b>>[v], depth)
  <2>1. \A v \in 1 .. 2 : v = 1 \/ v = 2
    OBVIOUS
  <2>. QED  BY <2>1
<1>2. \A v \in 1 .. 1 : Ranking(<<a>>[v], depth)
  <2>1. \A v \in 1 .. 1 : v = 1
    OBVIOUS
  <2>. QED  BY <2>1
<1>. QED  BY <1>1, <1>2 DEF Rankings

LEMMA KeywordFinds ==
    ASSUME NEW scoring \in Scorings
    PROVE  /\ ListOf(KeywordRanking(scoring), Found(Locators))
           /\ ListOf(SemanticRanking(scoring), Found(Locators))
<1> DEFINE S == Matching(scoring)
           final == IF Postgres THEN scoring ELSE Boosted(scoring)
<1>1. S \in SUBSET Locators /\ S \subseteq Found(Locators)
  BY FoundLocators DEF Matching
<1>2. ASSUME NEW l \in S PROVE final[l] \in Int
  <2>1. l \in Locators /\ scoring \in [Locators -> 0 .. Top] /\ Boost \in [Locators -> Nat]
    BY <1>1, RetrievalAssumption
  <2>5. Top \in Nat
    BY SMT DEF Top
  <2>2. scoring[l] \in Int /\ Boost[l] \in Nat /\ Top \in Int
    BY <2>1, <2>5
  <2>3. Boosted(scoring)[l] = Smaller(scoring[l] + Boost[l], Top)
    BY <2>1 DEF Boosted
  <2>4. Boosted(scoring)[l] \in Int
    BY <2>2, <2>3 DEF Smaller
  <2>. QED  BY <2>2, <2>4
<1> HIDE DEF final
<1>3. ListOf(RankedBy(S, final), S)
  <2> HIDE DEF S
  <2>. QED  BY <1>1, <1>2, RankedByList
<1>4. ListOf(RankedBy(S, final), Found(Locators))
  <2> HIDE DEF S
  <2>. QED  BY <1>1, <1>3, ListInLarger
<1>. QED  BY <1>4 DEF KeywordRanking, SemanticRanking, final

LEMMA HybridFinds ==
    ASSUME NEW lexical \in Scorings, NEW semantic \in Scorings
    PROVE  RankingIn(HybridRanking(KeywordRanking(lexical), SemanticRanking(semantic),
                                   CandidateLimit), CandidateLimit, Found(Locators))
<1> DEFINE depth == 3 * CandidateLimit
           a == Cut(KeywordRanking(lexical), depth)
           b == Cut(SemanticRanking(semantic), depth)
           H == Found(Locators)
<1>1. depth \in 0 .. 300 /\ depth \in Nat /\ CandidateLimit \in Nat
  BY Limits
<1>2. HybridRanking(KeywordRanking(lexical), SemanticRanking(semantic), CandidateLimit)
        = Locs(Fused(<<a, b>>, <<100, 100>>, CandidateLimit))
  BY DEF HybridRanking
<1> HIDE DEF depth
<1>3. /\ Ranking(a, depth) /\ Placed(a) \subseteq H
      /\ Ranking(b, depth) /\ Placed(b) \subseteq H
  BY <1>1, KeywordFinds, FoundLocators, CutRanking
<1> HIDE DEF a, b, H
<1>4. Fusible(2, depth)
  BY <1>1 DEF Fusible
<1>5. Rankings(<<a, b>>, 2, depth)
  BY <1>3, TwoRankings
<1>6. Weighted(<<100, 100>>, 2)
  BY DEF Weighted
<1>7. \A v \in 1 .. 2 : Placed(<<a, b>>[v]) \subseteq H
  <2>1. \A v \in 1 .. 2 : v = 1 \/ v = 2
    OBVIOUS
  <2>. QED  BY <1>3, <2>1
<1>8. RankingIn(Locs(Fused(<<a, b>>, <<100, 100>>, CandidateLimit)), CandidateLimit, H)
  BY <1>1, <1>4, <1>5, <1>6, <1>7, FusedFinds
<1>. QED  BY <1>2, <1>8 DEF H

-----------------------------------------------------------------------------
(* The inductive invariant.                                                *)

RoutingSteps == {"entity", "tag", "graph", "community", "govern"}
CitingSteps == {"select", "expand", "done"}
Steps == {"idle", "variants"} \cup RoutingSteps \cup CitingSteps
Trusts == {"verified", "standard", "unverified"}

IsSearch(s) ==
    s = [step |-> s.step, profile |-> s.profile, rerank |-> s.rerank, variants |-> s.variants,
         results |-> s.results, lists |-> s.lists, fused |-> s.fused, evidence |-> s.evidence,
         indexed |-> s.indexed, allowed |-> s.allowed]

TypeInv ==
    /\ library \in [Documents -> [status : {"indexed", "processing", "archived"},
                                  replaces : Documents \cup {NoAsset},
                                  when : {"available", "future", "expired"},
                                  trust : Trusts, conflicted : BOOLEAN]]
    /\ IsSearch(search)
    /\ search.step \in Steps

\* A search at work has witnessed the state the documents are in.
WitnessInv ==
    search.step \notin {"idle", "done"} =>
        IndexedIn(library) \subseteq search.indexed /\ AllowedIn(library) \subseteq search.allowed

\* What the search may have found, and what it may cite.
Reach == {l \in Locators : AssetOf[l] \in Documents => AssetOf[l] \in search.indexed}
Citable == {l \in Locators : AssetOf[l] \in Documents =>
                                AssetOf[l] \in search.indexed \cap search.allowed}

VariantsInv ==
    search.step = "variants" =>
        /\ Len(search.variants) <= MaxVariants
        /\ search.results \in Seq(Seq(Locators))
        /\ Len(search.results) < MaxVariants
        /\ \A v \in 1 .. Len(search.results) :
              RankingIn(search.results[v], CandidateLimit, Reach)

RoutesInv ==
    search.step \in RoutingSteps =>
        /\ Evidence(search.evidence, CandidateLimit)
        /\ Placed(Locs(search.evidence)) \subseteq Reach
        /\ \A k, l \in Locators : (\A list \in search.lists : Precedes(list, k, l))
                                    => Precedes(Locs(search.evidence), k, l)

Cited == [loc : Locators, score : Int, trust : Trusts, doubt : BOOLEAN]
Gained(trust) == IF trust = "verified" THEN 600 ELSE IF trust = "standard" THEN 0 ELSE -400

\* The score of governed evidence: adjusted once, by the governance it carries.
Priced(x) ==
    AssetOf[x.loc] \in Documents =>
        \E p \in {0, 800, 1200, 2000} :
            /\ x.doubt <=> p # 0
            /\ x.score = Larger(0, Smaller(FusedScore(x.loc) + Gained(x.trust) - p, Top))
InScoreOrder(e) == \A i, j \in DOMAIN e : i < j => Before(e[i], e[j])

CitedInv ==
    search.step \in CitingSteps =>
        /\ Evidence(search.fused, CandidateLimit)
        /\ search.evidence \in Seq(Cited)
        /\ search.step = "select" => IsInjective(Locs(search.evidence))
        /\ \A x \in Placed(search.evidence) :
              x.loc \in Citable /\ x.loc \in Placed(Locs(search.fused))
        /\ ~search.rerank => /\ \A x \in Placed(search.evidence) : Priced(x)
                             /\ InScoreOrder(search.evidence)

SearchInv == TypeInv /\ WitnessInv /\ VariantsInv /\ RoutesInv /\ CitedInv

\* What keeps the fields of a search but for what it has witnessed.
SameSearch ==
    /\ search'.step = search.step /\ search'.rerank = search.rerank
    /\ search'.variants = search.variants /\ search'.results = search.results
    /\ search'.lists = search.lists /\ search'.fused = search.fused
    /\ search'.evidence = search.evidence
    /\ search.indexed \subseteq search'.indexed /\ search.allowed \subseteq search'.allowed

LEMMA WitnessedSearch ==
    ASSUME SearchInv, NEW lib, library' = lib, search' = Witnessed(lib, search)
    PROVE  /\ SameSearch /\ IsSearch(search') /\ search'.step \in Steps /\ WitnessInv'
<1>1. IsSearch(search) /\ search.step \in Steps
  BY DEF SearchInv, TypeInv
<1>2. CASE search.step \in {"idle", "done"}
  <2>1. search' = search
    BY <1>2 DEF Witnessed
  <2>. QED  BY <1>1, <1>2, <2>1 DEF SameSearch, WitnessInv
<1>3. CASE search.step \notin {"idle", "done"}
  <2>1. search' = [search EXCEPT !.indexed = search.indexed \cup IndexedIn(lib),
                                 !.allowed = search.allowed \cup AllowedIn(lib)]
    BY <1>3 DEF Witnessed
  <2>2. /\ IsSearch(search')
        /\ search'.step = search.step /\ search'.rerank = search.rerank
        /\ search'.variants = search.variants /\ search'.results = search.results
        /\ search'.lists = search.lists /\ search'.fused = search.fused
        /\ search'.evidence = search.evidence
        /\ search'.indexed = search.indexed \cup IndexedIn(lib)
        /\ search'.allowed = search.allowed \cup AllowedIn(lib)
    BY <1>1, <2>1 DEF IsSearch
  <2>3. WitnessInv'
    BY <2>2 DEF WitnessInv, IndexedIn, AllowedIn, Held
  <2>. QED  BY <1>1, <2>2, <2>3 DEF SameSearch
<1>. QED  BY <1>2, <1>3

\* What a change of the documents leaves true of the search.
LEMMA SameSearchKeeps ==
    ASSUME SearchInv, SameSearch
    PROVE  VariantsInv' /\ RoutesInv' /\ CitedInv'
<1>1. CandidateLimit' = CandidateLimit
  BY DEF SameSearch, CandidateLimit
<1>2. Reach \subseteq Reach' /\ Citable \subseteq Citable'
  BY DEF SameSearch, Reach, Citable
<1>3. VariantsInv'
  <2>1. SUFFICES ASSUME search.step = "variants" PROVE VariantsInv'
    BY DEF SameSearch, VariantsInv
  <2>2. VariantsInv
    BY DEF SearchInv
  <2>3. \A v \in 1 .. Len(search.results) :
            RankingIn(search.results[v], CandidateLimit, Reach)
              => RankingIn(search.results[v], CandidateLimit, Reach')
    BY <1>2 DEF RankingIn
  <2>4. /\ Len(search'.variants) <= MaxVariants
        /\ search'.results \in Seq(Seq(Locators)) /\ Len(search'.results) < MaxVariants
        /\ \A v \in 1 .. Len(search'.results) :
              RankingIn(search'.results[v], CandidateLimit', Reach')
    BY <1>1, <2>1, <2>2, <2>3 DEF SameSearch, VariantsInv
  <2>. QED  BY <2>4 DEF VariantsInv
<1>4. RoutesInv'
  <2>1. SUFFICES ASSUME search.step \in RoutingSteps PROVE RoutesInv'
    BY DEF SameSearch, RoutesInv
  <2>2. RoutesInv
    BY DEF SearchInv
  <2>. QED  BY <1>1, <1>2, <2>1, <2>2 DEF SameSearch, RoutesInv
<1>5. CitedInv'
  <2>1. SUFFICES ASSUME search.step \in CitingSteps PROVE CitedInv'
    BY DEF SameSearch, CitedInv
  <2>2. CitedInv
    BY DEF SearchInv
  <2>3. \A x : Priced(x) => Priced(x)'
    BY DEF Priced, FusedScore, SameSearch
  <2>. QED  BY <1>1, <1>2, <2>1, <2>2, <2>3 DEF SameSearch, CitedInv
<1>. QED  BY <1>3, <1>4, <1>5

Rows == [status : {"indexed", "processing", "archived"}, replaces : Documents \cup {NoAsset},
         when : {"available", "future", "expired"}, trust : Trusts, conflicted : BOOLEAN]

LEMMA EditsKeep ==
    ASSUME SearchInv, NEW d \in Documents,
           FinishIndexing(d) \/ TakeForIndexing(d) \/ ArchiveFound(d) \/ UpdateGovernance(d)
    PROVE  SearchInv'
<1>1. library \in [Documents -> Rows]
  BY DEF SearchInv, TypeInv, Rows
<1>2. library' \in [Documents -> Rows] /\ search' = Witnessed(library', search)
  <2>1. CASE FinishIndexing(d)
    <3>1. library' = [library EXCEPT ![d].status = "indexed"]
          /\ search' = Witnessed(library', search)
      BY <2>1 DEF FinishIndexing, Edit
    <3>. QED  BY <1>1, <3>1 DEF Rows
  <2>2. CASE TakeForIndexing(d)
    <3>1. library' = [library EXCEPT ![d].status = "processing"]
          /\ search' = Witnessed(library', search)
      BY <2>2 DEF TakeForIndexing, Edit
    <3>. QED  BY <1>1, <3>1 DEF Rows
  <2>3. CASE ArchiveFound(d)
    <3>1. library' = [library EXCEPT ![d].status = "archived"]
          /\ search' = Witnessed(library', search)
      BY <2>3 DEF ArchiveFound, Edit
    <3>. QED  BY <1>1, <3>1 DEF Rows
  <2>4. CASE UpdateGovernance(d)
    <3>1. PICK p \in (Documents \ {d}) \cup {NoAsset}, g \in Governances :
             Edit([library EXCEPT ![d] = [status |-> @.status, replaces |-> p, when |-> g.when,
                                          trust |-> g.trust, conflicted |-> g.conflicted]])
      BY <2>4 DEF UpdateGovernance
    <3>2. /\ library' = [library EXCEPT ![d] = [status |-> library[d].status, replaces |-> p,
                            when |-> g.when, trust |-> g.trust, conflicted |-> g.conflicted]]
          /\ search' = Witnessed(library', search)
      BY <3>1 DEF Edit
    <3>3. g \in [when : {"available", "future", "expired"}, trust : Trusts, conflicted : BOOLEAN]
      BY RetrievalAssumption DEF Trusts
    <3>4. library[d].status \in {"indexed", "processing", "archived"}
      BY <1>1 DEF Rows
    <3>5. [status |-> library[d].status, replaces |-> p, when |-> g.when,
           trust |-> g.trust, conflicted |-> g.conflicted] \in Rows
      BY <3>3, <3>4 DEF Rows
    <3>. QED  BY <1>1, <3>2, <3>5
  <2>. QED  BY <2>1, <2>2, <2>3, <2>4
<1>3. SameSearch /\ IsSearch(search') /\ search'.step \in Steps /\ WitnessInv'
  BY <1>2, WitnessedSearch
<1>4. VariantsInv' /\ RoutesInv' /\ CitedInv'
  BY <1>3, SameSearchKeeps
<1>. QED  BY <1>2, <1>3, <1>4 DEF SearchInv, TypeInv, Rows

\* A step of the search leaves the documents and what it has witnessed alone.
SearchStep ==
    /\ library' = library /\ IsSearch(search') /\ search'.step \in Steps \ {"idle"}
    /\ search.step \notin {"idle", "done"}
    /\ search'.indexed = search.indexed /\ search'.allowed = search.allowed

LEMMA SearchStepKeeps ==
    ASSUME SearchInv, SearchStep
    PROVE  TypeInv' /\ WitnessInv' /\ Reach' = Reach /\ Citable' = Citable
<1>1. TypeInv'
  BY DEF SearchInv, TypeInv, SearchStep
<1>2. WitnessInv'
  BY DEF SearchInv, WitnessInv, SearchStep, IndexedIn, AllowedIn, Held
<1>. QED  BY <1>1, <1>2 DEF SearchStep, Reach, Citable

\* What a route finds now was indexed at a moment of the search.
LEMMA FoundIsReached ==
    ASSUME SearchInv, search.step \notin {"idle", "done"}
    PROVE  Found(Locators) \subseteq Reach
BY DEF SearchInv, TypeInv, WitnessInv, Found, Visible, IndexedIn, Reach

LEMMA PlannedBounds ==
    ASSUME NEW variants \in Plans
    PROVE  Len(variants) <= MaxVariants
<1>1. PICK main \in {"original", "rewritten"},
           others \in {<<>>, <<"part">>, <<"part", "synonym">>} :
              variants = Planned(main, others)
  BY DEF Plans
<1> DEFINE all == <<main, "original">> \o others
           places == {i \in DOMAIN all : \A j \in 1 .. i - 1 : all[j] # all[i]}
           kept == Taken(all, places)
           words == {"original", "rewritten", "part", "synonym"}
<1>2. all \in Seq(words)
  <2>1. <<>> \in Seq(words) /\ <<"part">> \in Seq(words) /\ <<"part", "synonym">> \in Seq(words)
    OBVIOUS
  <2>2. others \in Seq(words)
    BY <1>1, <2>1
  <2>3. <<main, "original">> \in Seq(words)
    BY <1>1
  <2> HIDE DEF words
  <2>. QED  BY <2>2, <2>3
<1>3. PICK c \in Nat : kept \in [1 .. c -> At(all, places)]
  <2>1. Len(all) \in Nat /\ all \in [1 .. Len(all) -> words]
    <3> HIDE DEF all, words
    <3>. QED  BY <1>2
  <2>2. places \in SUBSET (1 .. Len(all))
    BY <1>2
  <2> HIDE DEF all, places
  <2>. QED  BY <2>1, <2>2, TakenList
<1>4. variants = Cut(kept, MaxVariants)
  BY <1>1 DEF Planned, Deduplicated
<1> HIDE DEF kept
<1>5. MaxVariants \in Nat
  BY RetrievalAssumption
<1>6. Prefix(Cut(kept, MaxVariants), kept, Smaller(c, MaxVariants))
  BY <1>3, <1>5, CutIsPrefix, Zenon
<1>7. Smaller(c, MaxVariants) \in 0 .. c /\ Smaller(c, MaxVariants) \in 0 .. MaxVariants
  BY <1>3, <1>5, SmallerOf
<1>8. Len(variants) = Smaller(c, MaxVariants)
  BY <1>3, <1>4, <1>6, <1>7 DEF Prefix
<1>. QED  BY <1>5, <1>7, <1>8

LEMMA BeginKeeps ==
    ASSUME SearchInv, BeginSearch
    PROVE  SearchInv'
<1>1. PICK profile \in Profiles, rerank \in BOOLEAN, variants \in Plans :
         search' = Witnessed(library, [NoSearch EXCEPT !.step = "variants",
                     !.profile = profile, !.rerank = rerank, !.variants = variants])
  BY DEF BeginSearch
<1>2. library' = library
  BY DEF BeginSearch
<1> DEFINE s == [NoSearch EXCEPT !.step = "variants",
                     !.profile = profile, !.rerank = rerank, !.variants = variants]
<1>3. /\ IsSearch(s) /\ s.step = "variants" /\ s.variants = variants /\ s.results = <<>>
      /\ s.indexed = {} /\ s.allowed = {}
  <2> DEFINE n == NoSearch
  <2>1. IsSearch(n) /\ n.results = <<>> /\ n.indexed = {} /\ n.allowed = {}
    BY DEF NoSearch, IsSearch
  <2>2. s = [n EXCEPT !.step = "variants", !.profile = profile, !.rerank = rerank,
                      !.variants = variants]
    OBVIOUS
  <2> HIDE DEF n, s
  <2>. QED  BY <2>1, <2>2 DEF IsSearch
<1> HIDE DEF s
<1>4. search' = [s EXCEPT !.indexed = s.indexed \cup IndexedIn(library),
                          !.allowed = s.allowed \cup AllowedIn(library)]
  BY <1>1, <1>3 DEF Witnessed, s
<1>5. /\ IsSearch(search') /\ search'.step = "variants" /\ search'.variants = variants
      /\ search'.results = <<>>
      /\ search'.indexed = IndexedIn(library) /\ search'.allowed = AllowedIn(library)
  BY <1>3, <1>4 DEF IsSearch
<1>6. TypeInv'
  BY <1>2, <1>5 DEF SearchInv, TypeInv, Steps
<1>7. WitnessInv'
  BY <1>2, <1>5 DEF WitnessInv, IndexedIn, AllowedIn, Held
<1>8. VariantsInv'
  <2>1. Len(variants) <= MaxVariants /\ MaxVariants \in Nat /\ 0 < MaxVariants
    BY PlannedBounds, RetrievalAssumption
  <2>2. search'.results \in Seq(Seq(Locators)) /\ Len(search'.results) = 0
    BY <1>5
  <2>. QED  BY <1>5, <2>1, <2>2 DEF VariantsInv
<1>9. RoutesInv' /\ CitedInv'
  BY <1>5 DEF RoutesInv, CitedInv, RoutingSteps, CitingSteps
<1>. QED  BY <1>6, <1>7, <1>8, <1>9 DEF SearchInv

LEMMA DeeperRanking ==
    ASSUME NEW d \in Nat, NEW e \in Nat, d <= e, NEW r, Ranking(r, d)
    PROVE  Ranking(r, e)
<1>1. PICK k \in 0 .. d : r \in [1 .. k -> Locators] /\ IsInjective(r)
  BY DEF Ranking
<1>2. k \in 0 .. e
  OBVIOUS
<1>. QED  BY <1>1, <1>2 DEF Ranking

\* Joining a route: what it found is fused with what was found before.
LEMMA JoinedKeeps ==
    ASSUME SearchInv, search.step \in RoutingSteps, NEW next \in RoutingSteps,
           NEW depth \in 0 .. 300, NEW found, RankingIn(found, depth, Found(Locators)),
           library' = library,
           search' = [search EXCEPT
              !.lists = search.lists \cup {found},
              !.evidence = Fused(<<Locs(search.evidence), found>>, <<100, 100>>, CandidateLimit),
              !.step = next]
    PROVE  SearchInv'
<1> DEFINE old == Locs(search.evidence)
           new == Fused(<<old, found>>, <<100, 100>>, CandidateLimit)
<1>1. /\ IsSearch(search') /\ search'.step = next /\ search'.rerank = search.rerank
      /\ search'.lists = search.lists \cup {found} /\ search'.evidence = new
      /\ search'.indexed = search.indexed /\ search'.allowed = search.allowed
  BY DEF SearchInv, TypeInv, IsSearch
<1> HIDE DEF new
<1>2. /\ Evidence(search.evidence, CandidateLimit) /\ Placed(old) \subseteq Reach
      /\ \A k, l \in Locators : (\A list \in search.lists : Precedes(list, k, l))
                                  => Precedes(old, k, l)
  BY DEF SearchInv, RoutesInv
<1>3. CandidateLimit \in Nat /\ CandidateLimit <= 300 /\ 300 \in 0 .. 300
  BY Limits
<1>4. Ranking(old, 300)
  <2>1. Ranking(old, CandidateLimit)
    BY <1>2, <1>3, EvidenceRanking
  <2>. QED  BY <1>3, <2>1, DeeperRanking
<1>5. Ranking(found, 300) /\ Placed(found) \subseteq Reach
  <2>1. Found(Locators) \subseteq Reach
    BY FoundIsReached DEF RoutingSteps
  <2>2. Ranking(found, depth) /\ Placed(found) \subseteq Reach
    BY <2>1 DEF RankingIn
  <2>3. depth \in Nat /\ depth <= 300 /\ 300 \in Nat
    OBVIOUS
  <2>. QED  BY <2>2, <2>3, DeeperRanking
<1> HIDE DEF old
<1>6. Rankings(<<old, found>>, 2, 300) /\ Weighted(<<100, 100>>, 2) /\ Fusible(2, 300)
  <2>1. Rankings(<<old, found>>, 2, 300)
    BY <1>4, <1>5, TwoRankings
  <2>2. Weighted(<<100, 100>>, 2)
    BY DEF Weighted
  <2>3. Fusible(2, 300)
    BY DEF Fusible
  <2>. QED  BY <2>1, <2>2, <2>3
<1>7. \A v \in 1 .. 2 : <<old, found>>[v] = old \/ <<old, found>>[v] = found
  <2>1. \A v \in 1 .. 2 : v = 1 \/ v = 2
    OBVIOUS
  <2>. QED  BY <2>1
<1>8. Evidence(new, CandidateLimit)
  BY <1>3, <1>6, FusedEvidence DEF new
<1>9. Placed(Locs(new)) \subseteq Reach
  <2>1. \A v \in 1 .. 2 : Placed(<<old, found>>[v]) \subseteq Reach
    BY <1>2, <1>5, <1>7
  <2>2. RankingIn(Locs(new), CandidateLimit, Reach)
    BY <1>3, <1>6, <2>1, FusedFinds DEF new
  <2>. QED  BY <2>2 DEF RankingIn
<1>10. ASSUME NEW k \in Locators, NEW l \in Locators,
              \A list \in search'.lists : Precedes(list, k, l)
       PROVE  Precedes(Locs(new), k, l)
  <2>1. Precedes(found, k, l) /\ Precedes(old, k, l)
    BY <1>1, <1>2, <1>10
  <2>2. \A v \in 1 .. 2 : Precedes(<<old, found>>[v], k, l)
    BY <1>7, <2>1
  <2>. QED  BY <1>3, <1>6, <2>2, FusionAgrees DEF new
<1>11. SearchStep
  BY <1>1 DEF SearchStep, RoutingSteps, Steps
<1>12. TypeInv' /\ WitnessInv' /\ Reach' = Reach
  BY <1>11, SearchStepKeeps
<1>13. CandidateLimit' = CandidateLimit
  BY <1>1 DEF CandidateLimit
<1>14. RoutesInv'
  BY <1>1, <1>8, <1>9, <1>10, <1>12, <1>13 DEF RoutesInv
<1>15. VariantsInv' /\ CitedInv'
  BY <1>1 DEF VariantsInv, CitedInv, RoutingSteps, CitingSteps
<1>. QED  BY <1>12, <1>14, <1>15 DEF SearchInv

LEMMA RouteFinds ==
    ASSUME NEW a, RankingIn(a, RouteLimit, Found(Locators)),
           NEW b, RankingIn(b, RouteLimit, Found(Locators))
    PROVE  /\ RankingIn(RouteCandidates(<<a, b>>), CandidateLimit, Found(Locators))
           /\ RankingIn(RouteCandidates(<<a>>), CandidateLimit, Found(Locators))
<1> DEFINE H == Found(Locators)
           d == RouteLimit
<1>1. d \in 0 .. 300 /\ CandidateLimit \in Nat
  BY Limits
<1>2. Ranking(a, d) /\ Placed(a) \subseteq H /\ Ranking(b, d) /\ Placed(b) \subseteq H
  BY DEF RankingIn
<1> HIDE DEF d, H
<1>3. Fusible(2, d) /\ Fusible(1, d)
  BY <1>1 DEF Fusible
<1>4. Rankings(<<a, b>>, 2, d) /\ Rankings(<<a>>, 1, d)
  BY <1>2, TwoRankings
<1>5. Weighted(Even(<<a, b>>), 2) /\ Weighted(Even(<<a>>), 1)
  BY DEF Weighted, Even
<1>6. \A v \in 1 .. 2 : Placed(<<a, b>>[v]) \subseteq H
  <2>1. \A v \in 1 .. 2 : v = 1 \/ v = 2
    OBVIOUS
  <2>. QED  BY <1>2, <2>1
<1>7. \A v \in 1 .. 1 : Placed(<<a>>[v]) \subseteq H
  <2>1. \A v \in 1 .. 1 : v = 1
    OBVIOUS
  <2>. QED  BY <1>2, <2>1
<1>8. RankingIn(RouteCandidates(<<a, b>>), CandidateLimit, H)
  BY <1>1, <1>3, <1>4, <1>5, <1>6, FusedFinds DEF RouteCandidates
<1>9. RankingIn(RouteCandidates(<<a>>), CandidateLimit, H)
  BY <1>1, <1>3, <1>4, <1>5, <1>7, FusedFinds DEF RouteCandidates
<1>. QED  BY <1>8, <1>9 DEF H

LEMMA VariantKeeps ==
    ASSUME SearchInv, RetrieveVariant
    PROVE  SearchInv'
<1>1. /\ search.step = "variants" /\ library' = library /\ IsSearch(search)
      /\ search.results \in Seq(Seq(Locators)) /\ Len(search.results) < MaxVariants
      /\ Len(search.variants) <= MaxVariants
      /\ \A v \in 1 .. Len(search.results) :
            RankingIn(search.results[v], CandidateLimit, Reach)
  BY DEF RetrieveVariant, SearchInv, VariantsInv, TypeInv
<1>2. PICK lexical \in Scorings, semantic \in Scorings :
        LET results == Append(search.results, HybridRanking(KeywordRanking(lexical),
                                                            SemanticRanking(semantic),
                                                            CandidateLimit))
            n       == Len(results)
        IN  search' = IF n < Len(search.variants) THEN [search EXCEPT !.results = results]
                      ELSE [search EXCEPT
                               !.step = "entity",
                               !.results = <<>>,
                               !.lists = Placed(results),
                               !.evidence = Fused(results, VariantWeights(n), CandidateLimit)]
  BY DEF RetrieveVariant
<1> DEFINE new == HybridRanking(KeywordRanking(lexical), SemanticRanking(semantic), CandidateLimit)
           results == Append(search.results, new)
           n == Len(results)
<1>3. CandidateLimit \in Nat /\ CandidateLimit <= 100 /\ MaxVariants \in Nat /\ MaxVariants <= 8
  BY Limits, RetrievalAssumption
<1>4. RankingIn(new, CandidateLimit, Reach)
  <2>1. RankingIn(new, CandidateLimit, Found(Locators))
    BY HybridFinds
  <2>2. Found(Locators) \subseteq Reach
    BY <1>1, FoundIsReached
  <2>. QED  BY <2>1, <2>2 DEF RankingIn
<1>5. search' = IF n < Len(search.variants) THEN [search EXCEPT !.results = results]
                ELSE [search EXCEPT !.step = "entity", !.results = <<>>,
                                    !.lists = Placed(results),
                                    !.evidence = Fused(results, VariantWeights(n), CandidateLimit)]
  BY <1>2
<1> HIDE DEF new
<1>6. new \in Seq(Locators)
  <2>1. PICK k \in 0 .. CandidateLimit : new \in [1 .. k -> Locators]
    BY <1>4 DEF RankingIn, Ranking
  <2>2. k \in Nat
    BY <1>3
  <2>. QED  BY <2>1, <2>2
<1>7. /\ results \in Seq(Seq(Locators)) /\ n = Len(search.results) + 1 /\ n <= MaxVariants
      /\ n \in Nat
      /\ \A v \in 1 .. n : RankingIn(results[v], CandidateLimit, Reach)
  <2>1. /\ results \in Seq(Seq(Locators)) /\ n = Len(search.results) + 1
        /\ results[n] = new
        /\ \A v \in 1 .. Len(search.results) : results[v] = search.results[v]
    BY <1>1, <1>6
  <2>2. n \in Nat /\ n <= MaxVariants
    BY <1>1, <1>3, <2>1
  <2>3. ASSUME NEW v \in 1 .. n PROVE RankingIn(results[v], CandidateLimit, Reach)
    <3>1. v = n \/ v \in 1 .. Len(search.results)
      BY <1>1, <2>1
    <3>. QED  BY <1>1, <1>4, <2>1, <3>1
  <2>. QED  BY <2>1, <2>2, <2>3
<1> HIDE DEF n, results
<1>8. CASE n < Len(search.variants)
  <2>1. search' = [search EXCEPT !.results = results]
    BY <1>5, <1>8
  <2>2. /\ IsSearch(search') /\ search'.step = "variants" /\ search'.rerank = search.rerank
        /\ search'.variants = search.variants /\ search'.results = results
        /\ search'.indexed = search.indexed /\ search'.allowed = search.allowed
    BY <1>1, <2>1 DEF IsSearch
  <2>3. SearchStep
    BY <1>1, <2>2 DEF SearchStep, Steps
  <2>4. TypeInv' /\ WitnessInv' /\ Reach' = Reach
    BY <2>3, SearchStepKeeps
  <2>5. CandidateLimit' = CandidateLimit
    BY <2>2 DEF CandidateLimit
  <2>6. VariantsInv'
    <3>1. n < MaxVariants
      BY <1>1, <1>3, <1>7, <1>8
    <3>. QED  BY <1>1, <1>7, <2>2, <2>4, <2>5, <3>1 DEF VariantsInv, n
  <2>7. RoutesInv' /\ CitedInv'
    BY <2>2 DEF RoutesInv, CitedInv, RoutingSteps, CitingSteps
  <2>. QED  BY <2>4, <2>6, <2>7 DEF SearchInv
<1>9. CASE ~(n < Len(search.variants))
  <2> DEFINE F == Fused(results, VariantWeights(n), CandidateLimit)
  <2>1. search' = [search EXCEPT !.step = "entity", !.results = <<>>,
                                 !.lists = Placed(results), !.evidence = F]
    BY <1>5, <1>9
  <2> HIDE DEF F
  <2>2. /\ IsSearch(search') /\ search'.step = "entity" /\ search'.rerank = search.rerank
        /\ search'.lists = Placed(results) /\ search'.evidence = F
        /\ search'.indexed = search.indexed /\ search'.allowed = search.allowed
    BY <1>1, <2>1 DEF IsSearch
  <2>3. SearchStep
    BY <1>1, <2>2 DEF SearchStep, Steps, RoutingSteps
  <2>4. TypeInv' /\ WitnessInv' /\ Reach' = Reach
    BY <2>3, SearchStepKeeps
  <2>5. CandidateLimit' = CandidateLimit
    BY <2>2 DEF CandidateLimit
  <2>6. Fusible(n, CandidateLimit)
    BY <1>3, <1>7 DEF Fusible
  <2>7. Rankings(results, n, CandidateLimit)
    BY <1>7 DEF Rankings, RankingIn, n
  <2>8. Weighted(VariantWeights(n), n)
    BY <1>7 DEF Weighted, VariantWeights
  <2>9. Evidence(F, CandidateLimit)
    BY <1>3, <2>6, <2>7, <2>8, FusedEvidence DEF F
  <2>10. Placed(Locs(F)) \subseteq Reach
    <3>1. \A v \in 1 .. n : Placed(results[v]) \subseteq Reach
      BY <1>7 DEF RankingIn
    <3>2. RankingIn(Locs(F), CandidateLimit, Reach)
      BY <1>3, <2>6, <2>7, <2>8, <3>1, FusedFinds DEF F
    <3>. QED  BY <3>2 DEF RankingIn
  <2>11. ASSUME NEW k \in Locators, NEW l \in Locators,
                \A list \in search'.lists : Precedes(list, k, l)
         PROVE  Precedes(Locs(F), k, l)
    <3>1. \A v \in 1 .. n : Precedes(results[v], k, l)
      BY <2>2, <2>7, <2>11 DEF Placed, Rankings
    <3>. QED  BY <1>3, <2>6, <2>7, <2>8, <3>1, FusionAgrees DEF F
  <2>12. RoutesInv'
    BY <2>2, <2>4, <2>5, <2>9, <2>10, <2>11 DEF RoutesInv
  <2>13. VariantsInv' /\ CitedInv'
    BY <2>2 DEF VariantsInv, CitedInv, CitingSteps
  <2>. QED  BY <2>4, <2>12, <2>13 DEF SearchInv
<1>. QED  BY <1>8, <1>9

\* A route that is skipped only moves the search on.
LEMMA SkippedKeeps ==
    ASSUME SearchInv, search.step \in RoutingSteps, NEW next \in RoutingSteps,
           library' = library, Skipped(next)
    PROVE  SearchInv'
<1>1. /\ IsSearch(search') /\ search'.step = next /\ search'.rerank = search.rerank
      /\ search'.lists = search.lists /\ search'.evidence = search.evidence
      /\ search'.indexed = search.indexed /\ search'.allowed = search.allowed
  BY DEF SearchInv, TypeInv, IsSearch, Skipped
<1>2. SearchStep
  BY <1>1 DEF SearchStep, RoutingSteps, Steps
<1>3. TypeInv' /\ WitnessInv' /\ Reach' = Reach
  BY <1>2, SearchStepKeeps
<1>4. CandidateLimit' = CandidateLimit
  BY <1>1 DEF CandidateLimit
<1>5. RoutesInv'
  BY <1>1, <1>3, <1>4 DEF SearchInv, RoutesInv
<1>6. VariantsInv' /\ CitedInv'
  BY <1>1 DEF VariantsInv, CitedInv, RoutingSteps, CitingSteps
<1>. QED  BY <1>3, <1>5, <1>6 DEF SearchInv

LEMMA EntityKeeps ==
    ASSUME SearchInv, EntityRoute
    PROVE  SearchInv'
<1>1. search.step \in RoutingSteps /\ library' = library /\ "tag" \in RoutingSteps
  BY DEF EntityRoute, RoutingSteps
<1>2. CASE Skipped("tag")
  BY <1>1, <1>2, SkippedKeeps
<1>3. CASE ~Skipped("tag")
  <2>1. PICK first \in SUBSET Nameable, second \in SUBSET Nameable :
           Joined(RouteCandidates(IF Rewritten
                                  THEN <<EntityRanking(first), EntityRanking(second)>>
                                  ELSE <<EntityRanking(first)>>), "tag")
    BY <1>3 DEF EntityRoute
  <2> DEFINE found == RouteCandidates(IF Rewritten
                                      THEN <<EntityRanking(first), EntityRanking(second)>>
                                      ELSE <<EntityRanking(first)>>)
  <2>2. RankingIn(found, CandidateLimit, Found(Locators))
    <3>1. first \in SUBSET Entities /\ second \in SUBSET Entities
      BY <2>1, RetrievalAssumption
    <3>. QED  BY <3>1, EntityFinds, RouteFinds
  <2>3. CandidateLimit \in 0 .. 300
    BY Limits
  <2>4. Joined(found, "tag")
    BY <2>1
  <2> HIDE DEF found
  <2>. QED  BY <1>1, <2>2, <2>3, <2>4, JoinedKeeps DEF Joined
<1>. QED  BY <1>2, <1>3

LEMMA TagKeeps ==
    ASSUME SearchInv, TagRoute
    PROVE  SearchInv'
<1>1. search.step \in RoutingSteps /\ library' = library /\ "graph" \in RoutingSteps
  BY DEF TagRoute, RoutingSteps
<1>2. CASE Skipped("graph")
  BY <1>1, <1>2, SkippedKeeps
<1>3. CASE ~Skipped("graph")
  <2>1. PICK first, second :
           Joined(RouteCandidates(IF Rewritten
                                  THEN <<TagRanking(first), TagRanking(second)>>
                                  ELSE <<TagRanking(first)>>), "graph")
    BY <1>3 DEF TagRoute
  <2> DEFINE found == RouteCandidates(IF Rewritten
                                      THEN <<TagRanking(first), TagRanking(second)>>
                                      ELSE <<TagRanking(first)>>)
  <2>2. RankingIn(found, CandidateLimit, Found(Locators))
    BY TagFinds, RouteFinds
  <2>3. CandidateLimit \in 0 .. 300
    BY Limits
  <2>4. Joined(found, "graph")
    BY <2>1
  <2> HIDE DEF found
  <2>. QED  BY <1>1, <2>2, <2>3, <2>4, JoinedKeeps DEF Joined
<1>. QED  BY <1>2, <1>3

LEMMA JoinedGraphKeeps ==
    ASSUME SearchInv, search.step \in RoutingSteps, NEW next \in RoutingSteps,
           NEW depth \in 0 .. 300, NEW found, RankingIn(found, depth, Found(Locators)),
           library' = library, JoinedGraph(found, next)
    PROVE  SearchInv'
<1>1. search' = [search EXCEPT
              !.lists = search.lists \cup {found},
              !.evidence = Fused(<<Locs(search.evidence), found>>, <<100, 100>>, CandidateLimit),
              !.step = next]
  BY DEF JoinedGraph, FusedGraph
<1>. QED  BY <1>1, JoinedKeeps

LEMMA GraphKeeps ==
    ASSUME SearchInv, GraphRoute
    PROVE  SearchInv'
<1>1. /\ search.step \in RoutingSteps /\ library' = library
      /\ "govern" \in RoutingSteps /\ "community" \in RoutingSteps
  BY DEF GraphRoute, RoutingSteps
<1>2. CASE search.profile = "local"
  BY <1>1, <1>2, SkippedKeeps DEF GraphRoute
<1>3. CASE search.profile # "local"
  <2>1. PICK named \in SUBSET Nameable :
           JoinedGraph(GraphRanking(named, search.profile),
                        IF search.profile = "global" THEN "community" ELSE "govern")
    BY <1>3 DEF GraphRoute
  <2> DEFINE found == GraphRanking(named, search.profile)
             next == IF search.profile = "global" THEN "community" ELSE "govern"
  <2>2. RankingIn(found, CandidateLimit, Found(Locators))
    BY <2>1, GraphFinds
  <2>3. CandidateLimit \in 0 .. 300
    BY Limits
  <2>4. JoinedGraph(found, next) /\ next \in RoutingSteps
    BY <1>1, <2>1
  <2> HIDE DEF found, next
  <2>. QED  BY <1>1, <2>2, <2>3, <2>4, JoinedGraphKeeps
<1>. QED  BY <1>2, <1>3

LEMMA CommunityKeeps ==
    ASSUME SearchInv, CommunityRoute
    PROVE  SearchInv'
<1>1. search.step \in RoutingSteps /\ library' = library /\ "govern" \in RoutingSteps
  BY DEF CommunityRoute, RoutingSteps
<1>2. PICK order \in {<<>>} \cup SetToSeqs(Communities) :
         JoinedGraph(CommunityRanking(order), "govern")
  BY DEF CommunityRoute
<1>3. RankingIn(CommunityRanking(order), CandidateLimit, Found(Locators))
  BY CommunityFinds
<1>4. CandidateLimit \in 0 .. 300
  BY Limits
<1>. QED  BY <1>1, <1>2, <1>3, <1>4, JoinedGraphKeeps

LEMMA TopIsNat == Top \in Nat
BY SMT DEF Top

LEMMA AdjustmentIs ==
    ASSUME TypeInv, NEW d \in Documents
    PROVE  /\ library[d].trust \in Trusts
           /\ library[d].when \in {"available", "future", "expired"}
           /\ library[d].conflicted \in BOOLEAN
           /\ \E p \in {0, 800, 1200, 2000} :
                /\ (library[d].when = "expired" \/ library[d].conflicted) <=> p # 0
                /\ Adjustment(d) = Gained(library[d].trust) - p
<1>1. /\ library[d].trust \in Trusts
      /\ library[d].when \in {"available", "future", "expired"}
      /\ library[d].conflicted \in BOOLEAN
  BY DEF TypeInv
<1> DEFINE late == IF library[d].when = "expired" THEN 1200 ELSE 0
           disputed == IF library[d].conflicted THEN 800 ELSE 0
           worth == CASE library[d].trust = "verified" -> 600
                      [] library[d].trust = "standard" -> 0
                      [] library[d].trust = "unverified" -> -400
<1>2. Adjustment(d) = worth - late - disputed
  BY DEF Adjustment
<1>3. worth = Gained(library[d].trust) /\ worth \in Int
  BY <1>1, SMT DEF Trusts, Gained
<1>4. late \in {0, 1200} /\ disputed \in {0, 800}
  BY SMT
<1>5. (library[d].when = "expired" \/ library[d].conflicted) <=> late + disputed # 0
  BY <1>1, SMT
<1> HIDE DEF late, disputed, worth
<1>6. late + disputed \in {0, 800, 1200, 2000}
  BY <1>4, SMT
<1>7. Adjustment(d) = Gained(library[d].trust) - (late + disputed)
  BY <1>2, <1>3, <1>4, SMT
<1>. QED  BY <1>1, <1>5, <1>6, <1>7

LEMMA GovernedIs ==
    ASSUME TypeInv, NEW x \in [loc : Locators, score : 401 .. Top]
    PROVE  /\ Governed(x) \in Cited /\ Governed(x).loc = x.loc
           /\ AssetOf[x.loc] \in Documents =>
                \E p \in {0, 800, 1200, 2000} :
                  /\ Governed(x).doubt <=> p # 0
                  /\ Governed(x).score
                       = Larger(0, Smaller(x.score + Gained(Governed(x).trust) - p, Top))
<1>1. x.loc \in Locators /\ x.score \in 401 .. Top /\ x.score \in Int /\ Top \in Int
  BY TopIsNat
<1>2. CASE AssetOf[x.loc] \notin Documents
  <2>1. Governed(x) = [loc |-> x.loc, score |-> x.score, trust |-> "standard", doubt |-> FALSE]
    BY <1>2 DEF Governed
  <2>. QED  BY <1>1, <1>2, <2>1 DEF Cited, Trusts
<1>3. CASE AssetOf[x.loc] \in Documents
  <2> DEFINE d == AssetOf[x.loc]
  <2>1. Governed(x) = [loc |-> x.loc, score |-> Adjusted(x.score, d), trust |-> library[d].trust,
                       doubt |-> library[d].when = "expired" \/ library[d].conflicted]
    BY <1>3 DEF Governed
  <2>2. /\ library[d].trust \in Trusts /\ library[d].conflicted \in BOOLEAN
    BY <1>3, AdjustmentIs
  <2>3. PICK p \in {0, 800, 1200, 2000} :
           /\ (library[d].when = "expired" \/ library[d].conflicted) <=> p # 0
           /\ Adjustment(d) = Gained(library[d].trust) - p
    BY <1>3, AdjustmentIs
  <2> HIDE DEF d
  <2>4. Gained(library[d].trust) \in Int /\ p \in Int
    BY <2>3, SMT DEF Gained
  <2>5. Adjusted(x.score, d)
          = Larger(0, Smaller(x.score + Gained(library[d].trust) - p, Top))
    <3>1. x.score + Adjustment(d) = x.score + Gained(library[d].trust) - p
      BY <1>1, <2>3, <2>4, SMT
    <3>. QED  BY <3>1 DEF Adjusted
  <2>6. Larger(0, Smaller(x.score + Gained(library[d].trust) - p, Top)) \in Int
    BY <1>1, <2>4, SMT DEF Larger, Smaller
  <2>7. Governed(x) \in Cited /\ Governed(x).loc = x.loc
    BY <1>1, <2>1, <2>2, <2>5, <2>6 DEF Cited
  <2>8. /\ Governed(x).doubt <=> p # 0
        /\ Governed(x).score = Larger(0, Smaller(x.score + Gained(Governed(x).trust) - p, Top))
    <3> DEFINE b == library[d].when = "expired" \/ library[d].conflicted
    <3>1. b \in BOOLEAN /\ (b <=> p # 0)
      BY <2>3
    <3>2. Governed(x) = [loc |-> x.loc, score |-> Adjusted(x.score, d),
                         trust |-> library[d].trust, doubt |-> b]
      BY <2>1
    <3> HIDE DEF b
    <3>3. Governed(x).trust = library[d].trust /\ Governed(x).score = Adjusted(x.score, d)
      BY <3>2
    <3>4. Governed(x).doubt <=> p # 0
      BY <3>1, <3>2
    <3>. QED  BY <2>5, <3>3, <3>4
  <2>. QED  BY <2>7, <2>8
<1>. QED  BY <1>2, <1>3

\* Cited evidence of different locators can be sorted.
LEMMA SortedCited ==
    ASSUME NEW S, IsFiniteSet(S), S \subseteq Cited,
           \A x, y \in S : x.loc = y.loc => x = y
    PROVE  /\ Sorted(S) \in Seq(Cited)
           /\ Placed(Sorted(S)) \subseteq S
           /\ IsInjective(Locs(Sorted(S)))
           /\ InScoreOrder(Sorted(S))
<1> DEFINE e == Sorted(S)
           c == Cardinality(S)
<1>1. \A x \in S : x.loc \in Nat /\ x.score \in Int
  BY RetrievalAssumption DEF Cited
<1>2. /\ c \in Nat /\ e \in [1 .. c -> S]
      /\ \A i, j \in 1 .. c : i < j => Before(e[i], e[j])
  BY <1>1, SortedEvidence
<1> HIDE DEF e, c
<1>3. e \in Seq(Cited)
  <2>1. e \in [1 .. c -> Cited]
    BY <1>2
  <2>. QED  BY <1>2, <2>1
<1>4. Placed(e) \subseteq S
  BY <1>2 DEF Placed
<1>5. ASSUME NEW i \in 1 .. c, NEW j \in 1 .. c, e[i].loc = e[j].loc PROVE i = j
  <2>1. e[i] = e[j] /\ e[i] \in S
    BY <1>2, <1>5
  <2>2. ~Before(e[i], e[j]) /\ ~Before(e[j], e[i])
    BY <1>1, <2>1 DEF Before
  <2>. QED  BY <1>2, <2>2
<1>6. IsInjective(Locs(e))
  BY <1>2, <1>5 DEF IsInjective, Locs
<1>7. InScoreOrder(e)
  BY <1>2 DEF InScoreOrder
<1>. QED  BY <1>3, <1>4, <1>6, <1>7 DEF e

LEMMA GovernKeeps ==
    ASSUME SearchInv, Govern
    PROVE  SearchInv'
<1> DEFINE e == search.evidence
           kept == {x \in Placed(e) :
                      AssetOf[x.loc] \in Documents => ~Excluded(AssetOf[x.loc])}
           G == {Governed(x) : x \in kept}
<1>1. /\ search.step \in RoutingSteps /\ library' = library /\ TypeInv /\ IsSearch(search)
      /\ Evidence(e, CandidateLimit) /\ Placed(Locs(e)) \subseteq Reach
      /\ AllowedIn(library) \subseteq search.allowed
  BY DEF SearchInv, TypeInv, RoutesInv, WitnessInv, Govern, RoutingSteps
<1>2. search' = [search EXCEPT !.step = "select", !.variants = <<>>, !.lists = {},
                               !.fused = e, !.evidence = Sorted(G)]
  BY DEF Govern
<1> HIDE DEF G
<1>3. /\ IsSearch(search') /\ search'.step = "select" /\ search'.rerank = search.rerank
      /\ search'.fused = e /\ search'.evidence = Sorted(G)
      /\ search'.indexed = search.indexed /\ search'.allowed = search.allowed
  <2> HIDE DEF e
  <2>. QED  BY <1>1, <1>2 DEF IsSearch
<1>4. SearchStep
  BY <1>1, <1>3 DEF SearchStep, RoutingSteps, CitingSteps, Steps
<1>5. TypeInv' /\ WitnessInv' /\ Citable' = Citable
  BY <1>4, SearchStepKeeps
<1>6. CandidateLimit' = CandidateLimit
  BY <1>3 DEF CandidateLimit
<1> HIDE DEF e, kept
<1>7. PICK k \in 0 .. CandidateLimit : /\ e \in [1 .. k -> [loc : Locators, score : 401 .. Top]]
                                       /\ IsInjective(Locs(e))
  BY <1>1 DEF Evidence
<1>8. DOMAIN e = 1 .. k /\ DOMAIN Locs(e) = 1 .. k /\ \A i \in 1 .. k : Locs(e)[i] = e[i].loc
  BY <1>7 DEF Locs
<1>9. ASSUME NEW x \in kept
      PROVE  /\ x \in [loc : Locators, score : 401 .. Top]
             /\ x.loc \in Placed(Locs(e)) /\ e[RankOf(Locs(e), x.loc)] = x
             /\ x.loc \in Citable
  <2>1. PICK i \in 1 .. k : x = e[i]
    BY <1>8 DEF kept, Placed
  <2>2. x \in [loc : Locators, score : 401 .. Top]
    BY <1>7, <2>1
  <2>3. Locs(e)[i] \in Placed(Locs(e)) /\ RankOf(Locs(e), Locs(e)[i]) = i
    BY <1>7, <1>8, RankOfPlace
  <2>4. x.loc \in Reach
    BY <1>1, <1>8, <2>1, <2>3
  <2>5. AssetOf[x.loc] \in Documents => AssetOf[x.loc] \in AllowedIn(library)
    BY DEF kept, Excluded, AllowedIn
  <2>6. x.loc \in Citable
    BY <1>1, <2>4, <2>5 DEF Reach, Citable
  <2>. QED  BY <1>8, <2>1, <2>2, <2>3, <2>6
<1>10. IsFiniteSet(kept)
  <2>1. IsFiniteSet(1 .. k)
    BY FS_Interval
  <2>2. IsFiniteSet(Placed(e))
    BY <1>8, <2>1, ImageIsFinite DEF Placed
  <2>3. kept \subseteq Placed(e)
    BY DEF kept
  <2>. QED  BY <2>2, <2>3, FS_Subset
<1>11. IsFiniteSet(G)
  <2> DEFINE f == [x \in kept |-> Governed(x)]
  <2>1. IsFiniteSet({f[x] : x \in kept})
    BY <1>10, ImageIsFinite
  <2>2. G = {f[x] : x \in kept}
    BY DEF G
  <2>. QED  BY <2>1, <2>2
<1>12. \A g \in G : \E x \in kept : g = Governed(x) /\ g \in Cited /\ g.loc = x.loc
  BY <1>1, <1>9, GovernedIs DEF G
<1>13. ASSUME NEW g \in G, NEW h \in G, g.loc = h.loc PROVE g = h
  <2>1. PICK x \in kept : g = Governed(x) /\ g.loc = x.loc
    BY <1>12
  <2>2. PICK y \in kept : h = Governed(y) /\ h.loc = y.loc
    BY <1>12
  <2>3. x = y
    BY <1>9, <1>13, <2>1, <2>2
  <2>. QED  BY <2>1, <2>2, <2>3
<1>14. /\ Sorted(G) \in Seq(Cited) /\ Placed(Sorted(G)) \subseteq G
       /\ IsInjective(Locs(Sorted(G))) /\ InScoreOrder(Sorted(G))
  <2>1. G \subseteq Cited
    BY <1>12
  <2>. QED  BY <1>11, <1>13, <2>1, SortedCited
<1>15. ASSUME NEW g \in G
       PROVE  g.loc \in Citable /\ g.loc \in Placed(Locs(e)) /\ Priced(g)'
  <2>1. PICK x \in kept : g = Governed(x) /\ g.loc = x.loc
    BY <1>12
  <2>2. /\ x \in [loc : Locators, score : 401 .. Top]
        /\ x.loc \in Placed(Locs(e)) /\ e[RankOf(Locs(e), x.loc)] = x
        /\ x.loc \in Citable
    BY <1>9
  <2>3. FusedScore(g.loc)' = x.score
    BY <1>3, <2>1, <2>2 DEF FusedScore
  <2>4. AssetOf[g.loc] \in Documents =>
          \E p \in {0, 800, 1200, 2000} :
             /\ g.doubt <=> p # 0
             /\ g.score = Larger(0, Smaller(x.score + Gained(g.trust) - p, Top))
    BY <1>1, <2>1, <2>2, GovernedIs
  <2>5. Priced(g)'
    BY <2>3, <2>4, SMT DEF Priced
  <2>. QED  BY <2>1, <2>2, <2>5
<1>16. CitedInv'
  <2>1. \A x \in Placed(Sorted(G)) :
           x.loc \in Citable /\ x.loc \in Placed(Locs(e)) /\ Priced(x)'
    BY <1>14, <1>15
  <2>. QED  BY <1>1, <1>3, <1>5, <1>6, <1>14, <2>1 DEF CitedInv
<1>17. VariantsInv' /\ RoutesInv'
  BY <1>3 DEF VariantsInv, RoutesInv, RoutingSteps
<1>. QED  BY <1>5, <1>16, <1>17 DEF SearchInv

LEMMA FailKeeps ==
    ASSUME SearchInv, FailSearch
    PROVE  SearchInv'
<1>1. library' = library /\ search' = NoSearch
  BY DEF FailSearch
<1>2. IsSearch(NoSearch) /\ NoSearch.step = "idle"
  BY DEF IsSearch, NoSearch
<1>3. IsSearch(search') /\ search'.step = "idle"
  BY <1>1, <1>2
<1>4. TypeInv'
  BY <1>1, <1>3 DEF SearchInv, TypeInv, Steps
<1>5. WitnessInv' /\ VariantsInv' /\ RoutesInv' /\ CitedInv'
  BY <1>3 DEF WitnessInv, VariantsInv, RoutesInv, CitedInv, RoutingSteps, CitingSteps
<1>. QED  BY <1>4, <1>5 DEF SearchInv

\* A selection from ranked evidence: nothing new, and in the same order.
PartOf(p, s) ==
    /\ p \in Seq(Cited)
    /\ Placed(p) \subseteq Placed(s)
    /\ InScoreOrder(s) => InScoreOrder(p)

LEMMA SubSeqIsPart ==
    ASSUME NEW s \in Seq(Cited), NEW m \in 0 .. Len(s)
    PROVE  PartOf(SubSeq(s, 1, m), s)
<1> DEFINE p == SubSeq(s, 1, m)
<1>1. p \in Seq(Cited) /\ Len(p) = m /\ DOMAIN p = 1 .. m
  OBVIOUS
<1>2. \A i \in 1 .. m : i \in DOMAIN s /\ p[i] = s[i]
  OBVIOUS
<1> HIDE DEF p
<1>3. Placed(p) \subseteq Placed(s)
  BY <1>1, <1>2 DEF Placed
<1>4. InScoreOrder(s) => InScoreOrder(p)
  BY <1>1, <1>2 DEF InScoreOrder
<1>. QED  BY <1>1, <1>3, <1>4 DEF PartOf, p

LEMMA CutIsPart ==
    ASSUME NEW s \in Seq(Cited), NEW limit \in Nat
    PROVE  PartOf(Cut(s, limit), s)
<1> DEFINE m == IF Len(s) < limit THEN Len(s) ELSE limit
<1>1. Len(s) \in Nat
  OBVIOUS
<1>2. m \in 0 .. Len(s)
  BY <1>1
<1>3. Cut(s, limit) = SubSeq(s, 1, m)
  BY DEF Cut
<1> HIDE DEF m
<1>. QED  BY <1>2, <1>3, SubSeqIsPart

LEMMA PartOfPart ==
    ASSUME NEW p, NEW q, NEW s, PartOf(p, q), PartOf(q, s)
    PROVE  PartOf(p, s)
BY DEF PartOf

LEMMA SelectedIsPart ==
    ASSUME NEW s \in Seq(Cited), NEW fitting
    PROVE  PartOf(Selected(s, fitting), s)
<1> DEFINE available == Cut(s, Allowed)
           stops == {i \in DOMAIN available : Stops(available, i, fitting)}
<1>1. Allowed \in Nat
  BY RetrievalAssumption DEF Allowed, Larger, Smaller
<1>2. PartOf(available, s)
  BY <1>1, CutIsPart
<1>3. available \in Seq(Cited)
  BY <1>2 DEF PartOf
<1> HIDE DEF available
<1>4. CASE stops = {}
  <2>1. Selected(s, fitting) = available
    BY <1>4 DEF Selected, available
  <2>. QED  BY <1>2, <2>1
<1>5. CASE stops # {}
  <2>1. Selected(s, fitting) = SubSeq(available, 1, Min(stops) - 1)
    BY <1>5 DEF Selected, available
  <2>2. stops \in SUBSET (1 .. Len(available)) /\ stops \in SUBSET Nat
    BY <1>3
  <2> HIDE DEF stops
  <2>3. PICK m \in stops : \A k \in stops : m <= k
    BY <1>5, <2>2, Least
  <2>4. Min(stops) \in stops
    BY <2>3 DEF Min
  <2>5. Min(stops) - 1 \in 0 .. Len(available)
    <3>1. Min(stops) \in 1 .. Len(available)
      BY <2>2, <2>4
    <3>. QED  BY <1>3, <3>1
  <2>6. PartOf(SubSeq(available, 1, Min(stops) - 1), available)
    BY <1>3, <2>5, SubSeqIsPart
  <2>. QED  BY <1>2, <2>1, <2>6, PartOfPart
<1>. QED  BY <1>4, <1>5

\* Evidence of the places of e, whatever it scores.
FromEvidence(r, e) ==
    /\ r \in Seq(Cited)
    /\ \A x \in Placed(r) : \E y \in Placed(e) : x.loc = y.loc

LEMMA PartIsFrom ==
    ASSUME NEW p, NEW r, NEW e, PartOf(p, r), FromEvidence(r, e)
    PROVE  FromEvidence(p, e)
BY DEF PartOf, FromEvidence

LEMMA RescoredIsFrom ==
    ASSUME NEW e \in Seq(Cited), IsInjective(Locs(e)),
           NEW T \in SUBSET Placed(e), NEW score, \A x \in T : score[x] \in Int
    PROVE  FromEvidence(Sorted({[x EXCEPT !.score = score[x]] : x \in T}), e)
<1> DEFINE S == {[x EXCEPT !.score = score[x]] : x \in T}
<1>1. Len(e) \in Nat /\ DOMAIN e = 1 .. Len(e) /\ \A i \in 1 .. Len(e) : e[i] \in Cited
  OBVIOUS
<1>2. IsFiniteSet(T)
  <2>1. IsFiniteSet(1 .. Len(e))
    BY <1>1, FS_Interval
  <2>2. IsFiniteSet(Placed(e))
    BY <1>1, <2>1, ImageIsFinite DEF Placed
  <2>. QED  BY <2>2, FS_Subset
<1>3. IsFiniteSet(S)
  <2> DEFINE f == [x \in T |-> [x EXCEPT !.score = score[x]]]
  <2>1. S = {f[x] : x \in T} /\ DOMAIN f = T
    OBVIOUS
  <2> HIDE DEF f, S
  <2>2. IsFiniteSet({f[x] : x \in T})
    BY <1>2, <2>1, ImageIsFinite
  <2>. QED  BY <2>1, <2>2
<1>4. \A x \in T : x \in Cited
  BY <1>1 DEF Placed
<1>5. \A g \in S : \E x \in T : g = [x EXCEPT !.score = score[x]] /\ g \in Cited /\ g.loc = x.loc
  BY <1>4 DEF Cited
<1> HIDE DEF S
<1>6. ASSUME NEW x \in T, NEW y \in T, x.loc = y.loc PROVE x = y
  <2>1. PICK i \in 1 .. Len(e) : x = e[i]
    BY <1>1 DEF Placed
  <2>2. PICK j \in 1 .. Len(e) : y = e[j]
    BY <1>1 DEF Placed
  <2>3. i = j
    BY <1>1, <1>6, <2>1, <2>2 DEF IsInjective, Locs
  <2>. QED  BY <2>1, <2>2, <2>3
<1>7. ASSUME NEW g \in S, NEW h \in S, g.loc = h.loc PROVE g = h
  <2>1. PICK x \in T : g = [x EXCEPT !.score = score[x]] /\ g.loc = x.loc
    BY <1>5
  <2>2. PICK y \in T : h = [y EXCEPT !.score = score[y]] /\ h.loc = y.loc
    BY <1>5
  <2>3. x = y
    BY <1>6, <1>7, <2>1, <2>2
  <2>. QED  BY <2>1, <2>2, <2>3
<1>8. Sorted(S) \in Seq(Cited) /\ Placed(Sorted(S)) \subseteq S
  <2>1. S \subseteq Cited
    BY <1>5
  <2>. QED  BY <1>3, <1>7, <2>1, SortedCited
<1>. QED  BY <1>5, <1>8 DEF FromEvidence, S

LEMMA RerankedIsFrom ==
    ASSUME NEW e \in Seq(Cited), IsInjective(Locs(e)), NEW r \in Reranked(e)
    PROVE  FromEvidence(r, e)
<1>1. Limit \in Nat
  BY RetrievalAssumption
<1>2. Effective(e) \in SUBSET Placed(e)
  BY DEF Effective
<1>3. \A x \in Placed(e) : x \in Cited
  BY DEF Placed
<1>4. \A x \in Cited : x.loc \in Locators /\ x.score \in Int
  BY DEF Cited
<1>5. \A s \in Scorings, l \in Locators : s[l] \in Int
  <2>1. \A s \in Scorings : s \in [Locators -> 0 .. Top]
    BY RetrievalAssumption
  <2>. QED  BY <2>1, TopIsNat
<1>6. ASSUME NEW s \in Scorings PROVE FromEvidence(ByRule(e, s), e)
  <2> DEFINE T == Effective(e)
             score == [x \in T |-> x.score + s[x.loc]]
             S == {[x EXCEPT !.score = score[x]] : x \in T}
  <2>1. \A x \in T : score[x] \in Int
    BY <1>2, <1>3, <1>4, <1>5
  <2>2. S = {[x EXCEPT !.score = @ + s[x.loc]] : x \in T}
    OBVIOUS
  <2>3. ByRule(e, s) = Cut(Sorted(S), Limit)
    BY <2>2 DEF ByRule
  <2> HIDE DEF T, score
  <2>4. FromEvidence(Sorted(S), e)
    BY <1>2, <2>1, RescoredIsFrom DEF T
  <2> HIDE DEF S
  <2>5. PartOf(Cut(Sorted(S), Limit), Sorted(S))
    BY <1>1, <2>4, CutIsPart DEF FromEvidence
  <2>. QED  BY <2>3, <2>4, <2>5, PartIsFrom
<1>7. ASSUME NEW T \in SUBSET Effective(e), NEW s \in Scorings
      PROVE  FromEvidence(ByModel(T, s), e)
  <2> DEFINE score == [x \in T |-> s[x.loc]]
             S == {[x EXCEPT !.score = score[x]] : x \in T}
  <2>1. \A x \in T : score[x] \in Int
    BY <1>2, <1>3, <1>4, <1>5
  <2>2. S = {[x EXCEPT !.score = s[x.loc]] : x \in T}
    OBVIOUS
  <2>3. ByModel(T, s) = Cut(Sorted(S), Limit)
    BY <2>2 DEF ByModel
  <2> HIDE DEF score
  <2>4. FromEvidence(Sorted(S), e)
    <3>1. T \in SUBSET Placed(e)
      BY <1>2
    <3>. QED  BY <2>1, <3>1, RescoredIsFrom
  <2> HIDE DEF S
  <2>5. PartOf(Cut(Sorted(S), Limit), Sorted(S))
    BY <1>1, <2>4, CutIsPart DEF FromEvidence
  <2>. QED  BY <2>3, <2>4, <2>5, PartIsFrom
<1>8. \/ \E s \in Scorings : r = ByRule(e, s)
      \/ \E T \in SUBSET Effective(e), s \in Scorings : r = ByModel(T, s)
      \/ \E kept \in 1 .. Limit, s \in Scorings : r = Cut(ByRule(e, s), kept)
      \/ \E kept \in 1 .. Limit, T \in SUBSET Effective(e), s \in Scorings :
            r = Cut(ByModel(T, s), kept)
  BY SMT DEF Reranked
<1>9. CASE \/ \E s \in Scorings : r = ByRule(e, s)
           \/ \E T \in SUBSET Effective(e), s \in Scorings : r = ByModel(T, s)
  BY <1>6, <1>7, <1>9
<1>10. ASSUME NEW q, FromEvidence(q, e), NEW kept \in 1 .. Limit PROVE FromEvidence(Cut(q, kept), e)
  <2>1. kept \in Nat
    BY <1>1
  <2>2. PartOf(Cut(q, kept), q)
    BY <1>10, <2>1, CutIsPart DEF FromEvidence
  <2>. QED  BY <1>10, <2>2, PartIsFrom
<1>11. CASE \E kept \in 1 .. Limit, s \in Scorings : r = Cut(ByRule(e, s), kept)
  BY <1>6, <1>10, <1>11
<1>12. CASE \E kept \in 1 .. Limit, T \in SUBSET Effective(e), s \in Scorings :
               r = Cut(ByModel(T, s), kept)
  BY <1>7, <1>10, <1>12
<1>. QED  BY <1>8, <1>9, <1>11, <1>12

LEMMA SelectKeeps ==
    ASSUME SearchInv, SelectEvidence
    PROVE  SearchInv'
<1> DEFINE e == search.evidence
<1>1. /\ search.step = "select" /\ library' = library /\ TypeInv /\ IsSearch(search)
      /\ Evidence(search.fused, CandidateLimit)
      /\ e \in Seq(Cited) /\ IsInjective(Locs(e))
      /\ \A x \in Placed(e) : x.loc \in Citable /\ x.loc \in Placed(Locs(search.fused))
      /\ ~search.rerank => (\A x \in Placed(e) : Priced(x)) /\ InScoreOrder(e)
  BY DEF SearchInv, TypeInv, CitedInv, SelectEvidence, CitingSteps
<1>2. PICK ranked \in IF search.rerank /\ e # <<>> THEN Reranked(e) ELSE {e} :
        \E c \in {Cut(ranked, Limit)} \cup {Selected(ranked, n) : n \in 0 .. Limit} :
           search' = [search EXCEPT !.step = "expand", !.evidence = c]
  BY DEF SelectEvidence
<1>3. PICK chosen \in {Cut(ranked, Limit)} \cup {Selected(ranked, n) : n \in 0 .. Limit} :
        search' = [search EXCEPT !.step = "expand", !.evidence = chosen]
  BY <1>2
<1>4. /\ IsSearch(search') /\ search'.step = "expand" /\ search'.rerank = search.rerank
      /\ search'.fused = search.fused /\ search'.evidence = chosen
      /\ search'.indexed = search.indexed /\ search'.allowed = search.allowed
  BY <1>1, <1>3 DEF IsSearch
<1>5. SearchStep
  BY <1>1, <1>4 DEF SearchStep, CitingSteps, Steps
<1>6. TypeInv' /\ WitnessInv' /\ Citable' = Citable
  BY <1>5, SearchStepKeeps
<1>7. CandidateLimit' = CandidateLimit
  BY <1>4 DEF CandidateLimit
<1> HIDE DEF e
<1>8. FromEvidence(ranked, e) /\ (~search.rerank => ranked = e)
  <2>1. FromEvidence(e, e)
    BY <1>1 DEF FromEvidence
  <2>2. CASE search.rerank /\ e # <<>>
    <3>1. ranked \in Reranked(e)
      BY <1>2, <2>2
    <3>. QED  BY <1>1, <2>2, <3>1, RerankedIsFrom
  <2>3. CASE ~(search.rerank /\ e # <<>>)
    <3>1. ranked = e
      BY <1>2, <2>3
    <3>. QED  BY <2>1, <3>1
  <2>. QED  BY <2>2, <2>3
<1>9. PartOf(chosen, ranked)
  <2>1. ranked \in Seq(Cited) /\ Limit \in Nat
    BY <1>8, RetrievalAssumption DEF FromEvidence
  <2>2. CASE chosen = Cut(ranked, Limit)
    BY <2>1, <2>2, CutIsPart
  <2>3. CASE \E n \in 0 .. Limit : chosen = Selected(ranked, n)
    BY <2>1, <2>3, SelectedIsPart
  <2>. QED  BY <1>3, <2>2, <2>3
<1>10. FromEvidence(chosen, e)
  BY <1>8, <1>9, PartIsFrom
<1>11. ASSUME NEW x \in Placed(chosen)
       PROVE  x.loc \in Citable /\ x.loc \in Placed(Locs(search.fused))
  BY <1>1, <1>10 DEF FromEvidence
<1>12. ASSUME ~search.rerank
       PROVE  (\A x \in Placed(chosen) : Priced(x)') /\ InScoreOrder(chosen)
  <2>1. PartOf(chosen, e)
    BY <1>8, <1>9, <1>12
  <2>2. \A x : Priced(x) => Priced(x)'
    BY <1>4 DEF Priced, FusedScore
  <2>. QED  BY <1>1, <1>12, <2>1, <2>2 DEF PartOf
<1>13. CitedInv'
  <2>1. chosen \in Seq(Cited)
    BY <1>10 DEF FromEvidence
  <2>. QED  BY <1>1, <1>4, <1>6, <1>7, <1>11, <1>12, <2>1 DEF CitedInv
<1>14. VariantsInv' /\ RoutesInv'
  BY <1>4 DEF VariantsInv, RoutesInv, RoutingSteps
<1>. QED  BY <1>6, <1>13, <1>14 DEF SearchInv

LEMMA GateKeeps ==
    ASSUME SearchInv, AnswerableGate
    PROVE  SearchInv'
<1> DEFINE e == search.evidence
<1>1. /\ search.step = "expand" /\ library' = library /\ IsSearch(search)
      /\ Evidence(search.fused, CandidateLimit) /\ e \in Seq(Cited)
      /\ \A x \in Placed(e) : x.loc \in Citable /\ x.loc \in Placed(Locs(search.fused))
      /\ ~search.rerank => (\A x \in Placed(e) : Priced(x)) /\ InScoreOrder(e)
  BY DEF SearchInv, TypeInv, CitedInv, AnswerableGate, CitingSteps
<1>2. \/ search' = [search EXCEPT !.step = "done"]
      \/ search' = [search EXCEPT !.step = "done", !.evidence = <<>>]
  BY DEF AnswerableGate
<1>3. /\ IsSearch(search') /\ search'.step = "done" /\ search'.rerank = search.rerank
      /\ search'.fused = search.fused
      /\ search'.evidence = e \/ search'.evidence = <<>>
      /\ search'.indexed = search.indexed /\ search'.allowed = search.allowed
  <2>1. CASE search' = [search EXCEPT !.step = "done"]
    BY <1>1, <2>1 DEF IsSearch
  <2>2. CASE search' = [search EXCEPT !.step = "done", !.evidence = <<>>]
    BY <1>1, <2>2 DEF IsSearch
  <2>. QED  BY <1>2, <2>1, <2>2
<1>4. SearchStep
  BY <1>1, <1>3 DEF SearchStep, CitingSteps, Steps
<1>5. TypeInv' /\ WitnessInv' /\ Citable' = Citable
  BY <1>4, SearchStepKeeps
<1>6. CandidateLimit' = CandidateLimit
  BY <1>3 DEF CandidateLimit
<1> HIDE DEF e
<1>7. \A x : Priced(x) => Priced(x)'
  BY <1>3 DEF Priced, FusedScore
<1>8. CitedInv'
  <2>1. CASE search'.evidence = e
    BY <1>1, <1>3, <1>5, <1>6, <1>7, <2>1 DEF CitedInv
  <2>2. CASE search'.evidence = <<>>
    <3>1. <<>> \in Seq(Cited) /\ Placed(<<>>) = {} /\ InScoreOrder(<<>>)
      BY DEF Placed, InScoreOrder
    <3>. QED  BY <1>1, <1>3, <1>6, <2>2, <3>1 DEF CitedInv
  <2>. QED  BY <1>3, <2>1, <2>2
<1>9. VariantsInv' /\ RoutesInv'
  BY <1>3 DEF VariantsInv, RoutesInv, RoutingSteps
<1>. QED  BY <1>5, <1>8, <1>9 DEF SearchInv

LEMMA SearchStarts ==
    ASSUME RetrievalInit
    PROVE  SearchInv
<1>1. IsSearch(NoSearch) /\ NoSearch.step = "idle"
  BY DEF IsSearch, NoSearch
<1>2. IsSearch(search) /\ search.step = "idle"
  BY <1>1 DEF RetrievalInit
<1>3. TypeInv
  BY <1>2 DEF TypeInv, RetrievalInit, Steps, Trusts
<1>. QED  BY <1>2, <1>3 DEF SearchInv, WitnessInv, VariantsInv, RoutesInv, CitedInv,
                            RoutingSteps, CitingSteps

LEMMA SearchProceeds ==
    ASSUME SearchInv, [RetrievalNext]_retrievalVars
    PROVE  SearchInv'
<1>1. CASE UNCHANGED retrievalVars
  <2>1. library' = library /\ search' = search
    BY <1>1 DEF retrievalVars
  <2>2. SameSearch
    BY <2>1 DEF SameSearch
  <2>3. TypeInv' /\ WitnessInv'
    BY <2>1 DEF SearchInv, TypeInv, WitnessInv, IndexedIn, AllowedIn, Held
  <2>. QED  BY <2>2, <2>3, SameSearchKeeps DEF SearchInv
<1>2. CASE RetrievalNext
  <2>1. ASSUME NEW d \in Documents, FinishIndexing(d) \/ TakeForIndexing(d)
                                    \/ ArchiveFound(d) \/ UpdateGovernance(d)
        PROVE  SearchInv'
    BY <2>1, EditsKeep
  <2>. QED  BY <1>2, <2>1, BeginKeeps, VariantKeeps, EntityKeeps, TagKeeps, GraphKeeps,
               CommunityKeeps, GovernKeeps, SelectKeeps, GateKeeps, FailKeeps
            DEF RetrievalNext
<1>. QED  BY <1>1, <1>2

-----------------------------------------------------------------------------
(* Theorems.                                                               *)

\* A penalty that leaves a score no lower than one without shows that the fused
\* score was higher: both are over 400, so that neither bound hides a difference
\* the other way.
LEMMA PenaltyShows ==
    ASSUME NEW a \in 401 .. Top, NEW b \in 401 .. Top, NEW gain \in {600, 0, -400},
           NEW p \in {800, 1200, 2000},
           Larger(0, Smaller(a + gain - p, Top)) >= Larger(0, Smaller(b + gain - 0, Top))
    PROVE  a > b
<1>1. Smaller(b + gain - 0, Top) > 0
  BY SMT DEF Smaller, Top
<1>2. Larger(0, Smaller(b + gain - 0, Top)) = Smaller(b + gain - 0, Top)
  BY <1>1, SMT DEF Larger, Smaller, Top
<1>3. Larger(0, Smaller(a + gain - p, Top)) = Smaller(a + gain - p, Top)
  BY <1>1, <1>2, SMT DEF Larger, Smaller, Top
<1>. QED  BY <1>2, <1>3, SMT DEF Smaller, Top

\* Every search of RetrievalService._search_with_trace stays within SearchInv,
\* whatever is done to its documents meanwhile: it has witnessed the documents it
\* works on, it finds what it may find, its evidence is ranked, scored above 400
\* and agrees with the rankings it was fused from, and what it cites is priced by
\* its governance.
THEOREM RetrievalInvariant == RetrievalSpec => []SearchInv
<1>. QED  BY SearchStarts, SearchProceeds, PTL DEF RetrievalSpec

\* What _search_with_trace cites is of documents that were indexed at some moment of
\* the search, and that apply_document_governance could let pass at some moment of it,
\* though each of its routes reads the documents at a moment of its own.
THEOREM CitationsWereCitable == RetrievalSpec => []CitedWasCitable
<1>1. SearchInv => CitedWasCitable
  <2>. SUFFICES ASSUME SearchInv, search.step \in CitingSteps,
                       NEW x \in Placed(search.evidence), AssetOf[x.loc] \in Documents
                PROVE  AssetOf[x.loc] \in search.indexed \cap search.allowed
    BY DEF CitedWasCitable, CitingSteps
  <2>. QED  BY DEF SearchInv, CitedInv, Citable
<1>. QED  BY <1>1, RetrievalInvariant, PTL

\* fuse_query_evidence and fuse_graph_evidence, applied to one route after the
\* other and cutting each time, keep every precedence all the routes agree on.
THEOREM FusionKeepsAgreement == RetrievalSpec => []RoutesAgree
<1>1. SearchInv => RoutesAgree
  <2> DEFINE found == Locs(search.evidence)
  <2>. SUFFICES ASSUME SearchInv, search.step \in RoutingSteps,
                       NEW l \in Placed(found), NEW k \in Locators \ {l},
                       \A list \in search.lists : l \in Placed(list) =>
                           k \in Placed(list) /\ RankOf(list, k) < RankOf(list, l)
                PROVE  k \in Placed(found) /\ RankOf(found, k) < RankOf(found, l)
    BY DEF RoutesAgree, RoutingSteps
  <2>1. /\ Placed(found) \subseteq Reach
        /\ (\A list \in search.lists : Precedes(list, k, l)) => Precedes(found, k, l)
    <3>1. l \in Locators
      BY DEF SearchInv, RoutesInv, Reach
    <3>. QED  BY <3>1 DEF SearchInv, RoutesInv
  <2>2. Precedes(found, k, l)
    BY <2>1 DEF Precedes
  <2>. QED  BY <2>2 DEF Precedes
<1>. QED  BY <1>1, RetrievalInvariant, PTL

\* apply_document_governance: where no reranker follows, evidence that is expired
\* or disputed comes before evidence of the same trust that is neither only if
\* the routes scored it higher.
THEOREM GovernanceOrdersEvidence == RetrievalSpec => []GovernedOrder
<1>1. SearchInv => GovernedOrder
  <2> DEFINE e == search.evidence
             places == Locs(search.fused)
  <2>. SUFFICES ASSUME SearchInv, ~search.rerank, search.step \in CitingSteps,
                       NEW i \in DOMAIN e, NEW j \in DOMAIN e,
                       i < j, e[i].doubt, ~e[j].doubt, e[i].trust = e[j].trust,
                       AssetOf[e[i].loc] \in Documents, AssetOf[e[j].loc] \in Documents
                PROVE  FusedScore(e[i].loc) > FusedScore(e[j].loc)
    BY DEF GovernedOrder, DoubtsComeLater, CitingSteps
  <2> DEFINE x == e[i]
             y == e[j]
             a == FusedScore(x.loc)
             b == FusedScore(y.loc)
             gain == Gained(x.trust)
  <2>1. /\ Evidence(search.fused, CandidateLimit) /\ e \in Seq(Cited)
        /\ \A z \in Placed(e) : z.loc \in Placed(places) /\ Priced(z)
        /\ InScoreOrder(e)
    BY DEF SearchInv, CitedInv
  <2>2. x \in Placed(e) /\ y \in Placed(e) /\ x \in Cited /\ y \in Cited
    BY <2>1 DEF Placed
  <2>3. Before(x, y) /\ x.score \in Int /\ y.score \in Int
    BY <2>1, <2>2 DEF InScoreOrder, Cited
  <2>4. x.score >= y.score
    BY <2>3 DEF Before
  <2>5. \A l \in Placed(places) : FusedScore(l) \in 401 .. Top
    <3>. SUFFICES ASSUME NEW l \in Placed(places) PROVE FusedScore(l) \in 401 .. Top
      OBVIOUS
    <3>1. PICK k \in Nat : search.fused \in [1 .. k -> [loc : Locators, score : 401 .. Top]]
      BY <2>1, Limits DEF Evidence
    <3>2. DOMAIN places = 1 .. k
      BY <3>1 DEF Locs
    <3>3. RankOf(places, l) \in 1 .. k
      BY <3>2 DEF RankOf, Placed
    <3>. QED  BY <3>1, <3>3 DEF FusedScore
  <2>6. a \in 401 .. Top /\ b \in 401 .. Top
    BY <2>1, <2>2, <2>5
  <2>7. gain \in {600, 0, -400}
    BY <2>2 DEF Cited, Trusts, Gained
  <2>8. PICK p \in {800, 1200, 2000} : x.score = Larger(0, Smaller(a + gain - p, Top))
    BY <2>1, <2>2 DEF Priced
  <2>9. y.score = Larger(0, Smaller(b + gain - 0, Top))
    BY <2>1, <2>2 DEF Priced
  <2> HIDE DEF a, b, gain, x, y
  <2>10. a > b
    BY <2>4, <2>6, <2>7, <2>8, <2>9, PenaltyShows
  <2>. QED  BY <2>10 DEF a, b, x, y
<1>. QED  BY <1>1, RetrievalInvariant, PTL
=============================================================================
