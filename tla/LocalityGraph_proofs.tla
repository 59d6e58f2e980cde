------------------------ MODULE LocalityGraph_proofs ------------------------
(***************************************************************************)
(* Facts about the tables of the locality graph (PDist, ADist, Bunch) that *)
(* hold for every set of nodes, every number of levels (at least two),     *)
(* every assignment of levels and every metric: what the oracle's loop and *)
(* the rings, which are cut out by its answers, rest on.                   *)
(***************************************************************************)
EXTENDS LocalityGraph, WellFoundedInduction, TLAPS

(* A non-empty set of naturals has a least element. *)
LEMMA LeastNat ==
    ASSUME NEW S \in SUBSET Nat, S # {}
    PROVE  \E m \in S : \A x \in S : m <= x
<1> DEFINE R == OpToRel(<, Nat)
<1>1. IsWellFoundedOn(R, Nat)
    BY NatLessThanWellFounded, Zenon
<1>2. \A x, y \in Nat : x < y => <<x, y>> \in R
    BY DEF OpToRel
<1> HIDE DEF R
<1>3. PICK m \in S : \A x \in S : ~ (<<x, m>> \in R)
    BY <1>1, WFMin, Zenon
<1>4. ASSUME NEW x \in S PROVE m <= x
    <2>1. x \in Nat /\ m \in Nat
        OBVIOUS
    <2>2. ~ (x < m)
        BY <1>2, <1>3, <2>1, Zenon
    <2> QED  BY <2>1, <2>2
<1> QED  BY <1>4

(* A non-empty set of nodes has a first nearest node to v: the CHOOSE of   *)
(* PDist has a witness.                                                    *)
LEMMA FirstNearestExists ==
    ASSUME dist \in [Node -> [Node -> Nat]], NEW v \in Node,
           NEW S \in SUBSET Node, S # {}
    PROVE  \E u \in S : IsFirstNearest(v, u, S)
<1> DEFINE D == {dist[v][u] : u \in S}
<1>1. D \in SUBSET Nat /\ D # {}
    OBVIOUS
<1>2. PICK m \in D : \A x \in D : m <= x
    BY <1>1, LeastNat
<1> DEFINE T == {u \in S : dist[v][u] = m}
<1>3. T \in SUBSET Nat /\ T # {}
    BY <1>2, NodeAssumption
<1> HIDE DEF T, D
<1>4. PICK u \in T : \A x \in T : u <= x
    BY <1>3, LeastNat
<1>5. u \in S /\ dist[v][u] = m
    BY <1>4 DEF T
<1>6. ASSUME NEW x \in S
      PROVE  \/ dist[v][u] < dist[v][x]
             \/ dist[v][u] = dist[v][x] /\ u <= x
    <2>1. m <= dist[v][x]
        BY <1>2 DEF D
    <2>2. dist[v][x] = m => u <= x
        BY <1>4 DEF T
    <2>3. dist[v][x] \in Nat /\ m \in Nat
        BY <1>1, <1>2
    <2>4. m < dist[v][x] \/ dist[v][x] = m
        BY <2>1, <2>3
    <2> QED  BY <2>2, <2>4, <1>5, Zenon
<1> QED  BY <1>5, <1>6 DEF IsFirstNearest

(* What PDist and ADist give on a level that has nodes. *)
LEMMA PDistNearest ==
    ASSUME dist \in [Node -> [Node -> Nat]], NEW v \in Node, NEW l,
           AtLevel(l) # {}
    PROVE  /\ PDist(v, l) \in AtLevel(l)
           /\ ADist(v, l) = dist[v][PDist(v, l)]
           /\ ADist(v, l) \in Nat
           /\ \A x \in AtLevel(l) : ADist(v, l) <= dist[v][x]
<1>1. AtLevel(l) \in SUBSET Node
    BY DEF AtLevel
<1>2. /\ PDist(v, l) \in AtLevel(l)
      /\ IsFirstNearest(v, PDist(v, l), AtLevel(l))
    BY <1>1, FirstNearestExists DEF PDist
<1>3. ADist(v, l) = dist[v][PDist(v, l)]
    BY DEF ADist
<1>4. ADist(v, l) \in Nat
    BY <1>1, <1>2, <1>3
<1>5. ASSUME NEW x \in AtLevel(l) PROVE ADist(v, l) <= dist[v][x]
    <2>1. dist[v][x] \in Nat
        BY <1>1
    <2> QED  BY <2>1, <1>2, <1>3, <1>4 DEF IsFirstNearest
<1> QED  BY <1>2, <1>3, <1>4, <1>5

(* ADist is a number that grows with the level. *)
LEMMA ADistMonotone ==
    ASSUME IsMetric(dist), level \in [Node -> 0..(K - 1)],
           NEW v \in Node, NEW l \in Nat, NEW j \in Nat, l <= j
    PROVE  /\ ADist(v, l) \in Nat
           /\ ADist(v, l) <= ADist(v, j)
<1>0. dist \in [Node -> [Node -> Nat]] /\ MaxFloat \in Nat /\ K \in Nat
    BY MaxFloatAssumption, KAssumption DEF IsMetric
<1>1. AtLevel(j) \subseteq AtLevel(l) /\ AtLevel(l) \subseteq Node
    BY <1>0 DEF AtLevel
<1>2. ADist(v, l) \in Nat
    BY <1>0, PDistNearest DEF ADist
<1>3. CASE AtLevel(j) # {}
    <2>1. /\ PDist(v, j) \in AtLevel(l)
          /\ ADist(v, j) = dist[v][PDist(v, j)]
        BY <1>0, <1>1, <1>3, PDistNearest
    <2> QED  BY <1>0, <1>2, <2>1, PDistNearest
<1>4. CASE AtLevel(j) = {}
    <2>1. ADist(v, j) = MaxFloat
        BY <1>4 DEF ADist
    <2>2. CASE AtLevel(l) = {}
        BY <2>1, <2>2, <1>0, <1>2 DEF ADist
    <2>3. CASE AtLevel(l) # {}
        <3>1. PDist(v, l) \in Node /\ ADist(v, l) = dist[v][PDist(v, l)]
            BY <1>0, <1>1, <2>3, PDistNearest
        <3>2. ADist(v, l) < MaxFloat
            BY <3>1 DEF IsMetric
        <3> QED  BY <1>0, <1>2, <2>1, <3>2
    <2> QED  BY <2>2, <2>3
<1> QED  BY <1>2, <1>3, <1>4

(* A node of level l or above that is no further from v than the nearest   *)
(* node of level l + 1 is in v's bunch.                                    *)
LEMMA NearIsInBunch ==
    ASSUME IsMetric(dist), level \in [Node -> 0..(K - 1)],
           NEW v \in Node, NEW x \in Node \ {v},
           NEW l \in 0..(K - 2), level[x] >= l,
           dist[v][x] <= ADist(v, l + 1)
    PROVE  x \in Bunch(v)
<1>0. K \in Nat /\ l \in Nat /\ l + 1 \in Nat
    BY KAssumption
<1>1. dist[v][x] \in Nat
    BY DEF IsMetric
<1>2. ASSUME NEW j \in (l + 1)..(K - 1) PROVE dist[v][x] <= ADist(v, j)
    <2>1. j \in Nat /\ l + 1 <= j
        BY <1>0
    <2>2. /\ ADist(v, l + 1) \in Nat
          /\ ADist(v, l + 1) <= ADist(v, j)
        BY <1>0, <2>1, ADistMonotone
    <2>3. ADist(v, j) \in Nat
        BY <2>1, ADistMonotone
    <2> QED  BY <1>1, <2>2, <2>3
<1>3. checkDistance(v, dist[v][x], l)
    BY <1>2 DEF checkDistance
<1> QED  BY <1>3 DEF Bunch

(* What a metric gives for three nodes. *)
LEMMA MetricFacts ==
    ASSUME IsMetric(dist), NEW x \in Node, NEW y \in Node, NEW z \in Node
    PROVE  /\ dist[x][y] \in Nat
           /\ dist[x][y] < MaxFloat
           /\ dist[x][y] = dist[y][x]
           /\ dist[x][x] = 0
           /\ dist[x][z] <= dist[x][y] + dist[y][z]
BY DEF IsMetric

(* A node that is the nearest to x of its level, and that the bunch of y    *)
(* lacks: then there is a level above, whose node nearest to y is nearer   *)
(* to y than that node, and is not x. This is why the loop of              *)
(* approxDistance (Save.go 589-612) never runs out of levels.              *)
LEMMA NextCandidate ==
    ASSUME IsMetric(dist), level \in [Node -> 0..(K - 1)],
           NEW x \in Node, NEW y \in Node \ {x}, NEW c \in Node \ {y},
           NEW l \in Nat, l < K, level[c] >= l, dist[x][c] = ADist(x, l),
           c \notin Bunch(y)
    PROVE  /\ l + 1 < K
           /\ PDist(y, l + 1) \in Node
           /\ PDist(y, l + 1) # x
           /\ level[PDist(y, l + 1)] >= l + 1
           /\ dist[y][PDist(y, l + 1)] = ADist(y, l + 1)
           /\ dist[y][PDist(y, l + 1)] < dist[y][c]
<1>1. /\ dist \in [Node -> [Node -> Nat]]
      /\ K \in Nat /\ K >= 2 /\ MaxFloat \in Nat
    BY KAssumption, MaxFloatAssumption DEF IsMetric
<1>2. l \in 0..(K - 2)
    <2>1. level[c] \in 0..(K - 1)
        OBVIOUS
    <2>2. level[c] # K - 1
        BY DEF Bunch
    <2> QED  BY <1>1, <2>1, <2>2
<1>3. dist[y][c] \in Nat /\ dist[x][c] \in Nat /\ dist[y][c] < MaxFloat
    BY MetricFacts
<1>4. ADist(y, l + 1) \in Nat
    <2>1. l + 1 \in Nat /\ l + 1 <= l + 1
        OBVIOUS
    <2> QED  BY <2>1, ADistMonotone
<1>5. ADist(y, l + 1) < dist[y][c]
    <2>1. ~ (dist[y][c] <= ADist(y, l + 1))
        BY <1>2, NearIsInBunch
    <2> QED  BY <2>1, <1>3, <1>4
<1>6. AtLevel(l + 1) # {}
    <2> SUFFICES ASSUME AtLevel(l + 1) = {} PROVE FALSE
        OBVIOUS
    <2>1. ADist(y, l + 1) = MaxFloat
        BY DEF ADist
    <2> QED  BY <2>1, <1>1, <1>3, <1>5
<1> DEFINE P == PDist(y, l + 1)
<1>7. P \in AtLevel(l + 1) /\ dist[y][P] = ADist(y, l + 1)
    BY <1>1, <1>6, PDistNearest
<1> HIDE DEF P
<1>8. P \in Node /\ level[P] >= l + 1
    BY <1>7 DEF AtLevel
<1>9. P # x
    <2> SUFFICES ASSUME P = x PROVE FALSE
        OBVIOUS
    <2>1. level[x] \in Nat /\ level[x] >= l
        BY <1>8
    <2>2. x \in AtLevel(l)
        BY <2>1 DEF AtLevel
    <2>3. /\ ADist(x, l) \in Nat
          /\ ADist(x, l) <= dist[x][x]
        BY <1>1, <2>2, PDistNearest
    <2>4. dist[x][x] = 0 /\ dist[y][x] \in Nat /\ dist[y][c] <= dist[y][x] + dist[x][c]
        BY MetricFacts
    <2>5. dist[y][x] = ADist(y, l + 1)
        BY <1>7
    <2> QED  BY <1>1, <1>3, <1>4, <1>5, <2>3, <2>4, <2>5
<1>10. l + 1 < K
    BY <1>1, <1>2
<1> QED  BY <1>5, <1>7, <1>8, <1>9, <1>10 DEF P

=============================================================================
