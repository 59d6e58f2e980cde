--------------------------- MODULE RingTrees_proofs ---------------------------
(***************************************************************************)
(* The rings of CreateOnetRings are what they should be for every set of   *)
(* nodes, every metric, every assignment of levels, all radii and all      *)
(* bounds: what dijkstra holds is always a tree, a tree that is accepted   *)
(* spans its ring, the second tree makes up for the inner nodes of the     *)
(* first, and a ring keeps what is settled in the smaller ones.            *)
(***************************************************************************)
EXTENDS RingTrees, LocalityGraph_proofs, FiniteSetTheorems

-----------------------------------------------------------------------------
(* The oracle: its answers are numbers, so the rings grow with the radius. *)

LEMMA Parity ==
    ASSUME NEW n \in Nat
    PROVE  ((n + 1) % 2 = 0) <=> ~(n % 2 = 0)
OBVIOUS

(* The candidate of a level that has nodes is the nearest one. *)
LEMMA CandidateAt ==
    ASSUME NEW u, NEW v, NEW i \in 0..(K - 1),
           i = 0 \/ PDist(IF i % 2 = 0 THEN u ELSE v, i) \in Node
    PROVE  Candidate(u, v)[i] = IF i = 0 THEN u ELSE PDist(IF i % 2 = 0 THEN u ELSE v, i)
<1> DEFINE near == [j \in 1..(K - 1) |-> PDist(IF j % 2 = 0 THEN u ELSE v, j)]
           isLast(j, n) == /\ j = 0 \/ near[j] \in Node
                           /\ \A k \in (j + 1)..n : near[k] \notin Node
           last(n) == CHOOSE j \in 0..n : isLast(j, n)
<1>1. Candidate(u, v)[i] = IF last(i) = 0 THEN u ELSE near[last(i)]
    BY DEF Candidate
<1>2. K \in Nat /\ i \in Nat
    BY KAssumption
<1>3. i = 0 \/ (i \in 1..(K - 1) /\ near[i] = PDist(IF i % 2 = 0 THEN u ELSE v, i))
    BY <1>2
<1> HIDE DEF near
<1>4. i \in 0..i /\ isLast(i, i)
    BY <1>2, <1>3
<1>5. ASSUME NEW j \in 0..i, isLast(j, i) PROVE j = i
    <2> SUFFICES ASSUME j # i PROVE FALSE
        OBVIOUS
    <2>1. i \in (j + 1)..i /\ i # 0
        BY <1>2
    <2> QED  BY <1>3, <1>5, <2>1
<1> HIDE DEF isLast
<1>6. last(i) = i
    BY <1>4, <1>5
<1> QED  BY <1>1, <1>3, <1>6

(* Some turn finds a candidate in the bunch of the other node. *)
LEMMA OracleFinds ==
    ASSUME IsMetric(dist), level \in [Node -> 0..(K - 1)],
           NEW u \in Node, NEW v \in Node \ {u}
    PROVE  \E i \in 0..(K - 1) : Candidate(u, v)[i] \in Bunch(IF i % 2 = 0 THEN v ELSE u)
<1> DEFINE x(i) == IF i % 2 = 0 THEN u ELSE v
           y(i) == IF i % 2 = 0 THEN v ELSE u
           c(i) == Candidate(u, v)[i]
           Good(i) == /\ c(i) \in Node /\ c(i) # y(i) /\ level[c(i)] >= i
                      /\ dist[x(i)][c(i)] = ADist(x(i), i)
<1> SUFFICES ASSUME \A i \in 0..(K - 1) : c(i) \notin Bunch(y(i)) PROVE FALSE
    OBVIOUS
<1>1. K \in Nat /\ K >= 2 /\ dist \in [Node -> [Node -> Nat]]
    BY KAssumption DEF IsMetric
<1>2. \A i \in Nat : /\ x(i) \in Node /\ y(i) \in Node \ {x(i)}
                     /\ x(i + 1) = y(i) /\ y(i + 1) = x(i)
    BY Parity
<1>3. Good(0)
    <2>1. 0 \in 0..(K - 1) /\ 0 % 2 = 0
        BY <1>1
    <2>2. c(0) = u /\ x(0) = u /\ y(0) = v
        BY <2>1, CandidateAt
    <2>3. u \in AtLevel(0) /\ level[u] >= 0
        BY <1>1 DEF AtLevel
    <2>4. ADist(u, 0) \in Nat /\ ADist(u, 0) <= dist[u][u]
        BY <1>1, <2>3, PDistNearest
    <2>5. dist[u][u] = 0
        BY MetricFacts
    <2> HIDE DEF c, x, y
    <2> QED  BY <2>2, <2>3, <2>4, <2>5
<1>4. ASSUME NEW i \in Nat, i < K, Good(i) PROVE i + 1 < K /\ Good(i + 1)
    <2>1. i \in 0..(K - 1) /\ c(i) \in Node \ {y(i)} /\ c(i) \notin Bunch(y(i))
        BY <1>1, <1>4
    <2> HIDE DEF c, x, y
    <2> DEFINE P == PDist(y(i), i + 1)
    <2>2. /\ i + 1 < K /\ P \in Node /\ P # x(i) /\ level[P] >= i + 1
          /\ dist[y(i)][P] = ADist(y(i), i + 1)
        <3>1. x(i) \in Node /\ y(i) \in Node \ {x(i)}
            BY <1>2
        <3>2. level[c(i)] >= i /\ dist[x(i)][c(i)] = ADist(x(i), i)
            BY <1>4
        <3> QED  BY <1>4, <2>1, <3>1, <3>2, NextCandidate
    <2>3. P = PDist(x(i + 1), i + 1)
        BY <1>2
    <2>4. i + 1 \in 0..(K - 1) /\ i + 1 # 0
        BY <1>1, <2>2
    <2> HIDE DEF P
    <2>5. c(i + 1) = P
        BY <2>2, <2>3, <2>4, CandidateAt DEF c, x
    <2> QED  BY <1>2, <2>2, <2>5
<1> DEFINE S == {i \in Nat : i < K /\ ~Good(i)}
<1> HIDE DEF Good
<1>5. S = {}
    <2> SUFFICES ASSUME S # {} PROVE FALSE
        OBVIOUS
    <2>1. PICK m \in S : \A n \in S : m <= n
        BY LeastNat
    <2>2. m \in Nat /\ m # 0 /\ m < K
        BY <1>3, <2>1
    <2>3. m - 1 \in Nat /\ m - 1 < K /\ m - 1 \notin S
        BY <1>1, <2>1, <2>2
    <2>4. Good(m)
        BY <2>2, <2>3, <1>4
    <2> QED  BY <2>1, <2>4
<1>6. K - 1 \in Nat /\ K - 1 < K /\ ~((K - 1) + 1 < K)
    BY <1>1
<1> QED  BY <1>4, <1>5, <1>6

(* What the oracle answers: a number, and zero for a node and itself. *)
LEMMA OracleAnswers ==
    ASSUME IsMetric(dist), level \in [Node -> 0..(K - 1)],
           bunch = [n \in Node |-> Bunch(n)],
           NEW u \in Node, NEW v \in Node
    PROVE  ApproxDistance(u, v) \in Nat /\ (u = v => ApproxDistance(u, v) = 0)
<1>1. CASE u = v
    BY <1>1 DEF ApproxDistance
<1>2. CASE u # v
    <2> DEFINE cand == Candidate(u, v)
               found == {i \in 0..(K - 1) : cand[i] \in bunch[IF i % 2 = 0 THEN v ELSE u]}
               first == CHOOSE i \in found : \A j \in found : i <= j
               w == cand[first]
               cbd(x) == IF x = w THEN 0
                         ELSE IF x \in bunch[w] \cup cluster(w) THEN dist[w][x] ELSE MaxFloat
    <2>1. found # {}
        <3>1. PICK i \in 0..(K - 1) : cand[i] \in Bunch(IF i % 2 = 0 THEN v ELSE u)
            BY <1>2, OracleFinds
        <3>2. bunch[IF i % 2 = 0 THEN v ELSE u] = Bunch(IF i % 2 = 0 THEN v ELSE u)
            OBVIOUS
        <3> HIDE DEF cand
        <3> QED  BY <3>1, <3>2
    <2>2. found \in SUBSET Nat
        <3>1. 0..(K - 1) \subseteq Nat
            BY KAssumption
        <3> HIDE DEF cand
        <3> QED  BY <3>1
    <2>3. first \in found
        <3> HIDE DEF found
        <3> QED  BY <2>1, <2>2, LeastNat
    <2>4. w \in Node
        <3> HIDE DEF first
        <3>1. w \in bunch[IF first % 2 = 0 THEN v ELSE u]
            BY <2>3
        <3> HIDE DEF w
        <3> QED  BY <3>1 DEF Bunch
    <2>5. ApproxDistance(u, v) = cbd(u) + cbd(v)
        BY <1>2 DEF ApproxDistance
    <2> HIDE DEF w
    <2>6. \A x \in Node : cbd(x) \in Nat
        BY <2>4, MaxFloatAssumption DEF IsMetric
    <2> HIDE DEF cbd
    <2> QED  BY <1>2, <2>5, <2>6
<1> QED  BY <1>1, <1>2

LEMMA GraphInvInit == Init => GraphInv
<1> SUFFICES ASSUME Init PROVE GraphInv
    OBVIOUS
<1>1. /\ IsMetric(dist) /\ level \in [Node -> 0..(K - 1)]
      /\ bunch = [n \in Node |-> Bunch(n)]
      /\ dist2 = [u \in Node |-> [v \in Node |-> ApproxDistance(u, v)]]
    BY MetricsAssumption DEF Init, Levels
<1>2. dist2 \in [Node -> [Node -> Nat]] /\ \A n \in Node : dist2[n][n] = 0
    BY <1>1, OracleAnswers
<1>3. GraphFrom(HighRoot) \in [Node -> SUBSET Node]
    <2>1. \A n \in Node : bunch[n] \subseteq Node
        BY <1>1 DEF Bunch
    <2> DEFINE g == RootedGraph(HighRoot)
    <2>2. \A n \in Node : g[n] \subseteq Node
        BY <2>1 DEF RootedGraph, ChildrenIn, cluster
    <2> HIDE DEF g
    <2>3. GraphFrom(HighRoot) = [n \in Node |-> g[n] \cup {m \in Node : n \in g[m]}]
        BY DEF GraphFrom, g
    <2> QED  BY <2>2, <2>3
<1> QED  BY <1>2, <1>3 DEF Init, GraphInv

(* The radii grow. *)
LEMMA RadiiGrow ==
    ASSUME NEW r \in 1..Len(Radii), NEW s \in 1..Len(Radii), r <= s
    PROVE  Radii[r] <= Radii[s]
<1> DEFINE Bad == {n \in Nat : n \in 1..Len(Radii) /\ r <= n /\ ~(Radii[r] <= Radii[n])}
<1>1. /\ Len(Radii) \in Nat
      /\ \A n \in 1..Len(Radii) : Radii[n] \in Nat
      /\ \A n \in 1..(Len(Radii) - 1) : Radii[n] < Radii[n + 1]
    BY RingAssumption
<1>2. Bad = {}
    <2> SUFFICES ASSUME Bad # {} PROVE FALSE
        OBVIOUS
    <2>1. PICK m \in Bad : \A n \in Bad : m <= n
        BY LeastNat
    <2>2. m # r /\ m \in 1..Len(Radii) /\ r <= m
        BY <1>1, <2>1
    <2>3. m - 1 \in 1..(Len(Radii) - 1) /\ r <= m - 1 /\ (m - 1) + 1 = m
        BY <1>1, <2>2
    <2>4. m - 1 \notin Bad /\ m - 1 \in Nat /\ m - 1 \in 1..Len(Radii)
        BY <1>1, <2>1, <2>2, <2>3
    <2>5. Radii[r] <= Radii[m - 1] /\ Radii[m - 1] < Radii[m]
        BY <1>1, <2>3, <2>4
    <2>6. Radii[m] \in Nat /\ Radii[m - 1] \in Nat /\ Radii[r] \in Nat
        BY <1>1, <2>2, <2>4
    <2> QED  BY <2>1, <2>5, <2>6
<1> QED  BY <1>1, <1>2

(* And so do the rings, which all contain the root. *)
LEMMA RingsGrow ==
    ASSUME GraphInv, rootName \in Node,
           NEW r \in 1..Len(Radii), NEW s \in 1..Len(Radii), r <= s
    PROVE  WithinRadius(r) \subseteq WithinRadius(s) /\ rootName \in WithinRadius(r)
<1>1. Radii[r] \in Nat /\ Radii[s] \in Nat /\ Radii[r] <= Radii[s]
    BY RadiiGrow, RingAssumption
<1> QED  BY <1>1 DEF WithinRadius, GraphInv

-----------------------------------------------------------------------------
(* Trees. *)

LEMMA NoNameIsNoNode == NoName \notin Node
BY NodeAssumption DEF NoName

(* A new tree is its root. *)
LEMMA FreshTree ==
    ASSUME NEW root \in Node, root \in AllowedNodes
    PROVE  /\ Fresh(root) \in TreeType
           /\ InTree(Fresh(root)) = {root}
           /\ Fresh(root).visited = {}
           /\ GoodTree(Fresh(root), root)
<1> DEFINE t == Fresh(root)
<1>1. /\ t.visited = {}
      /\ t.distances = [n \in Node |-> IF n = root THEN 0 ELSE Unreached]
      /\ t.depth = [n \in Node |-> IF n = root THEN 0 ELSE Unreached]
      /\ t.Children = [n \in Node |-> {}]
      /\ t.Parent = [n \in Node |-> NoName]
    BY DEF Fresh
<1>2. Unreached \in Nat /\ Unreached > 3
    BY RingAssumption
<1>3. t \in TreeType
    BY <1>2 DEF Fresh, TreeType
<1>4. t = Fresh(root)
    OBVIOUS
<1> HIDE DEF t
<1>5. InTree(t) = {root}
    <2>1. \A n \in Node : t.distances[n] = IF n = root THEN 0 ELSE Unreached
        BY <1>1
    <2>2. 0 < Unreached /\ ~(Unreached < Unreached)
        BY <1>2
    <2>3. \A n \in Node : t.distances[n] < Unreached <=> n = root
        BY <2>1, <2>2
    <2> QED  BY <2>3, Zenon DEF InTree
<1>6. IsTree(t, root)
    <2>1. t.Parent[root] = NoName /\ t.distances[root] = 0 /\ t.depth[root] = 0
        BY <1>1
    <2>2. \A m, n \in Node : n \in t.Children[m] <=> t.Parent[n] = m
        BY <1>1, NoNameIsNoNode
    <2>3. \A n \in Node : t.Parent[n] = NoName
        BY <1>1
    <2> QED  BY <1>5, <2>1, <2>2, <2>3 DEF IsTree
<1>7. \A n \in InTree(t) : /\ t.depth[n] \in 0..3
                           /\ 3 * t.distances[n] <= t.depth[n] * (Unreached - 1)
    <2>1. t.depth[root] = 0 /\ t.distances[root] = 0
        BY <1>1
    <2>2. 3 * 0 <= 0 * (Unreached - 1) /\ 0 \in 0..3
        BY <1>2
    <2> QED  BY <1>5, <2>1, <2>2
<1>8. GoodTree(t, root)
    BY <1>1, <1>4, <1>5, <1>6, <1>7 DEF GoodTree
<1> QED  BY <1>1, <1>3, <1>4, <1>5, <1>8

(* In a tree the deep copy finds the parents there were. *)
LEMMA CopyIsSame ==
    ASSUME NEW t \in TreeType, NEW root \in Node, IsTree(t, root)
    PROVE  DeepCopy(t) = t
<1> DEFINE P == [n \in Node |-> IF \E p \in Node : n \in t.Children[p]
                                THEN CHOOSE p \in Node : n \in t.Children[p] ELSE NoName]
<1>1. t.Parent \in [Node -> Node \cup {NoName}]
    BY DEF TreeType
<1>2. \A p, n \in Node : n \in t.Children[p] <=> t.Parent[n] = p
    BY DEF IsTree
<1>3. ASSUME NEW n \in Node PROVE P[n] = t.Parent[n]
    <2>1. CASE t.Parent[n] \in Node
        BY <1>2, <2>1
    <2>2. CASE t.Parent[n] \notin Node
        BY <1>1, <1>2, <2>2
    <2> QED  BY <2>1, <2>2
<1>4. P = t.Parent
    <2>1. P = [n \in Node |-> P[n]] /\ t.Parent = [n \in Node |-> t.Parent[n]]
        BY <1>1
    <2> HIDE DEF P
    <2> QED  BY <1>3, <2>1
<1>5. DeepCopy(t) = [t EXCEPT !.Parent = P]
    BY DEF DeepCopy
<1> HIDE DEF P
<1>6. [t EXCEPT !.Parent = t.Parent] = t
    BY DEF TreeType
<1> QED  BY <1>4, <1>5, <1>6

(* The tree after m is visited and takes S. *)
Grown(t, m, S) == AddChildren([t EXCEPT !.visited = @ \cup {m}], m, S)

IsGrown(g, t, m, S) ==
    /\ g.visited = t.visited \cup {m}
    /\ g.distances = [n \in Node |-> IF n \in S THEN t.distances[m] + dist[m][n]
                                     ELSE t.distances[n]]
    /\ g.depth = [n \in Node |-> IF n \in S THEN t.depth[m] + 1 ELSE t.depth[n]]
    /\ g.Children = [n \in Node |-> (t.Children[n] \ {c \in S : t.Parent[c] = n})
                                        \cup (IF n = m THEN S ELSE {})]
    /\ g.Parent = [n \in Node |-> IF n \in S THEN m ELSE t.Parent[n]]
    /\ g = [visited |-> g.visited, distances |-> g.distances, depth |-> g.depth,
            Children |-> g.Children, Parent |-> g.Parent]

LEMMA GrownFields ==
    ASSUME NEW t \in TreeType, NEW m \in Node, NEW S
    PROVE  IsGrown(Grown(t, m, S), t, m, S)
<1> DEFINE v == [t EXCEPT !.visited = @ \cup {m}]
<1>1. /\ v.visited = t.visited \cup {m} /\ v.distances = t.distances /\ v.depth = t.depth
      /\ v.Children = t.Children /\ v.Parent = t.Parent
    BY DEF TreeType
<1>2. Grown(t, m, S) = AddChildren(v, m, S)
    BY DEF Grown
<1> HIDE DEF v
<1> QED  BY <1>1, <1>2 DEF AddChildren, IsGrown

(* One visit: m takes nodes that nobody has visited. They have no children, *)
(* so no way that was there goes over them, and every other node keeps its  *)
(* way to the root.                                                         *)
LEMMA GrowTree ==
    ASSUME dist \in Metrics, AllowedNodes \subseteq Node,
           NEW t \in TreeType, NEW root \in Node, GoodTree(t, root),
           NEW m \in InTree(t), NEW S \in SUBSET AllowedNodes,
           S \cap (t.visited \cup {m} \cup t.Children[m]) = {},
           S # {} => t.depth[m] < 3,
           NEW g, g = Grown(t, m, S)
    PROVE  /\ g \in TreeType
           /\ GoodTree(g, root)
           /\ InTree(g) = InTree(t) \cup S
           /\ g.visited = t.visited \cup {m}
           /\ \A n \in Node : g.Parent[n] = IF n \in S THEN m ELSE t.Parent[n]
<1>1. /\ t.visited \subseteq Node /\ t.distances \in [Node -> Nat] /\ t.depth \in [Node -> Nat]
      /\ t.Children \in [Node -> SUBSET Node] /\ t.Parent \in [Node -> Node \cup {NoName}]
      /\ m \in Node /\ S \subseteq Node
    BY DEF TreeType, InTree
<1>2. /\ dist \in [Node -> [Node -> Nat]] /\ Unreached \in Nat /\ Unreached > 3
      /\ \A x, y \in Node : 3 * dist[x][y] < Unreached
    BY MetricsAssumption, RingAssumption DEF IsMetric
<1>0. IsGrown(g, t, m, S)
    BY <1>1, GrownFields
<1>3. /\ g.visited = t.visited \cup {m}
      /\ \A n \in Node :
            /\ g.distances[n] = IF n \in S THEN t.distances[m] + dist[m][n] ELSE t.distances[n]
            /\ g.depth[n] = IF n \in S THEN t.depth[m] + 1 ELSE t.depth[n]
            /\ g.Children[n] = (t.Children[n] \ {c \in S : t.Parent[c] = n})
                                   \cup (IF n = m THEN S ELSE {})
            /\ g.Parent[n] = IF n \in S THEN m ELSE t.Parent[n]
    BY <1>0 DEF IsGrown
<1>4. g \in TreeType
    <2>1. /\ g.visited \in SUBSET Node
          /\ g.distances \in [Node -> Nat]
          /\ g.depth \in [Node -> Nat]
          /\ g.Children \in [Node -> SUBSET Node]
          /\ g.Parent \in [Node -> Node \cup {NoName}]
        BY <1>0, <1>1, <1>2 DEF IsGrown
    <2> QED  BY <1>0, <2>1 DEF TreeType, IsGrown
(* What the tree is before the visit. *)
<1>5. /\ t.Parent[root] = NoName /\ t.distances[root] = 0 /\ t.depth[root] = 0
      /\ \A n \in InTree(t) \ {root} :
            /\ t.Parent[n] \in InTree(t)
            /\ t.distances[n] = t.distances[t.Parent[n]] + dist[t.Parent[n]][n]
            /\ t.depth[n] = t.depth[t.Parent[n]] + 1
      /\ \A p, n \in Node : n \in t.Children[p] <=> t.Parent[n] = p
      /\ \A n \in Node \ InTree(t) : t.Parent[n] = NoName
    BY DEF GoodTree, IsTree
<1>6. /\ \A n \in Node \ t.visited : t.Children[n] = {}
      /\ \A n \in InTree(t) : /\ t.depth[n] \in 0..3
                              /\ 3 * t.distances[n] <= t.depth[n] * (Unreached - 1)
      /\ InTree(t) \subseteq AllowedNodes
    BY DEF GoodTree
<1>7. root \in t.visited \/ m = root
    <2>1. CASE t = Fresh(root)
        <3>1. \A n \in Node : t.distances[n] = IF n = root THEN 0 ELSE Unreached
            BY <2>1 DEF Fresh
        <3>2. ~(Unreached < Unreached)
            BY <1>2
        <3>3. t.distances[m] < Unreached
            BY DEF InTree
        <3> QED  BY <1>1, <3>1, <3>2, <3>3
    <2> QED  BY <2>1 DEF GoodTree
<1>8. root \notin S /\ root \in g.visited
    BY <1>3, <1>7
<1>9. \A n \in S : n \notin t.visited /\ n # m /\ t.Children[n] = {}
    BY <1>1, <1>6
(* Three hops stay below Unreached. *)
<1>10. ASSUME NEW n \in S
       PROVE  /\ g.depth[n] \in 0..3
              /\ 3 * g.distances[n] <= g.depth[n] * (Unreached - 1)
              /\ g.distances[n] < Unreached
    <2> DEFINE a == t.distances[m]
               b == dist[m][n]
               k == t.depth[m]
    <2>1. /\ g.distances[n] = a + b /\ g.depth[n] = k + 1
          /\ a \in Nat /\ b \in Nat /\ 3 * b < Unreached
          /\ k \in 0..3 /\ k < 3 /\ 3 * a <= k * (Unreached - 1)
        BY <1>1, <1>2, <1>3, <1>6
    <2> HIDE DEF a, b, k
    <2>2. k = 0 \/ k = 1 \/ k = 2
        BY <2>1
    <2> QED  BY <1>2, <2>1, <2>2
<1>11. InTree(g) = InTree(t) \cup S
    <2>1. \A n \in Node : g.distances[n] < Unreached <=> (n \in S \/ t.distances[n] < Unreached)
        BY <1>3, <1>10
    <2> QED  BY <1>1, <2>1, Zenon DEF InTree
<1>12. IsTree(g, root)
    <2>1. g.Parent[root] = NoName /\ g.distances[root] = 0 /\ g.depth[root] = 0
        BY <1>3, <1>5, <1>8
    <2>2. ASSUME NEW n \in InTree(g) \ {root}
          PROVE  /\ g.Parent[n] \in InTree(g)
                 /\ g.distances[n] = g.distances[g.Parent[n]] + dist[g.Parent[n]][n]
                 /\ g.depth[n] = g.depth[g.Parent[n]] + 1
        <3>1. n \in Node
            BY DEF InTree
        <3>2. CASE n \in S
            BY <1>1, <1>3, <1>9, <1>11, <3>1, <3>2
        <3>3. CASE n \notin S
            <4> DEFINE p == t.Parent[n]
            <4>1. /\ p \in InTree(t) /\ t.distances[n] = t.distances[p] + dist[p][n]
                  /\ t.depth[n] = t.depth[p] + 1
                BY <1>5, <1>11, <3>3
            <4>2. p \in Node /\ n \in t.Children[p]
                BY <1>5, <3>1, <4>1 DEF InTree
            <4>3. p \notin S
                BY <1>9, <4>2
            <4>4. g.Parent[n] = p
                BY <1>3, <3>1, <3>3
            <4> HIDE DEF p
            <4> QED  BY <1>3, <1>11, <3>1, <3>3, <4>1, <4>2, <4>3, <4>4
        <3> QED  BY <3>2, <3>3
    <2>3. ASSUME NEW p \in Node, NEW n \in Node PROVE n \in g.Children[p] <=> g.Parent[n] = p
        <3>1. n \in t.Children[p] <=> t.Parent[n] = p
            BY <1>5
        <3>2. g.Children[p] = (t.Children[p] \ {c \in S : t.Parent[c] = p})
                                  \cup (IF p = m THEN S ELSE {})
            BY <1>3
        <3>3. g.Parent[n] = IF n \in S THEN m ELSE t.Parent[n]
            BY <1>3
        <3> QED  BY <3>1, <3>2, <3>3
    <2>4. \A n \in Node \ InTree(g) : g.Parent[n] = NoName
        BY <1>3, <1>5, <1>11
    <2> QED  BY <2>1, <2>2, <2>3, <2>4 DEF IsTree
<1>13. \A n \in Node \ g.visited : g.Children[n] = {}
    BY <1>3, <1>6
<1>14. \A n \in InTree(g) : /\ g.depth[n] \in 0..3
                            /\ 3 * g.distances[n] <= g.depth[n] * (Unreached - 1)
    <2> SUFFICES ASSUME NEW n \in InTree(g)
                 PROVE  /\ g.depth[n] \in 0..3
                        /\ 3 * g.distances[n] <= g.depth[n] * (Unreached - 1)
        OBVIOUS
    <2>1. CASE n \in S
        BY <1>10, <2>1
    <2>2. CASE n \notin S
        <3>1. n \in InTree(t) /\ n \in Node
            BY <1>11, <2>2 DEF InTree
        <3>2. g.depth[n] = t.depth[n] /\ g.distances[n] = t.distances[n]
            BY <1>3, <2>2, <3>1
        <3> QED  BY <1>6, <3>1, <3>2
    <2> QED  BY <2>1, <2>2
<1>15. GoodTree(g, root)
    BY <1>6, <1>8, <1>11, <1>12, <1>13, <1>14 DEF GoodTree
<1> QED  BY <1>3, <1>4, <1>11, <1>15

-----------------------------------------------------------------------------
(* dijkstra. *)

(* A visit is the growth of the tree by nodes of the ring nobody visited. *)
LEMMA VisitGrows ==
    ASSUME RingTypeOK, NEW m \in Node, NEW c, c \in Visit(copy, m)
    PROVE  \E S \in SUBSET AllowedNodes :
              /\ S \cap (copy.visited \cup {m} \cup copy.Children[m]) = {}
              /\ S # {} => copy.depth[m] < 3
              /\ c = Grown(copy, m, S)
<1> DEFINE v == [copy EXCEPT !.visited = @ \cup {m}]
           new == {nb \in (neighbors[m] \cap AllowedNodes) \ (v.visited \cup v.Children[m]) :
                      Relaxes(v, m, nb)}
<1>1. /\ v.visited = copy.visited \cup {m} /\ v.depth = copy.depth
      /\ v.Children = copy.Children
      /\ copy.depth[m] \in Nat /\ failedMode \in BOOLEAN
    BY DEF RingTypeOK, TreeType
<1>2. PICK S \in SUBSET new : c = AddChildren(v, m, S)
    BY DEF Visit
<1>3. c = Grown(copy, m, S)
    BY <1>2 DEF Grown
<1> HIDE DEF v
<1>4. S \in SUBSET AllowedNodes /\ S \cap (copy.visited \cup {m} \cup copy.Children[m]) = {}
    BY <1>1
<1>5. ASSUME NEW nb \in S PROVE copy.depth[m] < 3
    <2>1. Relaxes(v, m, nb)
        OBVIOUS
    <2> HIDE DEF new
    <2> QED  BY <1>1, <2>1 DEF Relaxes
<1> QED  BY <1>3, <1>4, <1>5

(* What a visit keeps: the tree, and the place of what is visited. *)
LEMMA VisitKeeps ==
    ASSUME RingTypeOK, GraphInv, TreesInv, NEW m \in InTree(copy), NEW c, c \in Visit(copy, m)
    PROVE  /\ c \in TreeType /\ GoodTree(c, crtRoot)
           /\ c.visited = copy.visited \cup {m}
           /\ \A n \in copy.visited : c.Parent[n] = copy.Parent[n]
           /\ \A n \in InTree(c) \ InTree(copy) : c.Parent[n] = m
<1>1. m \in Node
    BY DEF InTree
<1>2. PICK S \in SUBSET AllowedNodes :
              /\ S \cap (copy.visited \cup {m} \cup copy.Children[m]) = {}
              /\ S # {} => copy.depth[m] < 3
              /\ c = Grown(copy, m, S)
    BY <1>1, VisitGrows
<1>3. /\ dist \in Metrics /\ AllowedNodes \subseteq Node /\ copy \in TreeType
      /\ crtRoot \in Node /\ GoodTree(copy, crtRoot)
    BY DEF GraphInv, RingTypeOK, TreesInv
<1>4. /\ c \in TreeType /\ GoodTree(c, crtRoot)
      /\ InTree(c) = InTree(copy) \cup S
      /\ c.visited = copy.visited \cup {m}
      /\ \A n \in Node : c.Parent[n] = IF n \in S THEN m ELSE copy.Parent[n]
    BY <1>2, <1>3, GrowTree
<1>5. copy.visited \subseteq Node
    BY <1>3 DEF TreeType
<1> QED  BY <1>2, <1>3, <1>4, <1>5

(* The parts of the invariant that read only the graph and the rings. *)
LEMMA GraphFrame ==
    ASSUME GraphInv, UNCHANGED graph
    PROVE  /\ GraphInv' /\ dist' = dist /\ rootName' = rootName
           /\ \A r \in 1..Len(Radii) : WithinRadius(r)' = WithinRadius(r)
BY DEF graph, GraphInv, WithinRadius

LEMMA RingsFrame ==
    ASSUME RingInv, UNCHANGED <<graph, Trees>>
    PROVE  OneFailureTolerated' /\ RingsNested' /\ GraphInv'
<1>1. GraphInv' /\ \A r \in 1..Len(Radii) : WithinRadius(r)' = WithinRadius(r)
    BY GraphFrame DEF RingInv
<1>2. Trees' = Trees /\ OneFailureTolerated /\ RingsNested
    BY DEF RingInv
<1>3. OneFailureTolerated'
    BY <1>1, <1>2 DEF OneFailureTolerated, Spans
<1>4. RingsNested'
    BY <1>2 DEF RingsNested
<1> QED  BY <1>1, <1>3, <1>4

(* A tree that is good stays so while the ring does not shrink. *)
LEMMA GoodFrame ==
    ASSUME NEW t, NEW root, GoodTree(t, root), dist' = dist, AllowedNodes \subseteq AllowedNodes'
    PROVE  GoodTree(t, root)'
BY DEF GoodTree, IsTree, InTree, Fresh

-----------------------------------------------------------------------------
(* The steps of dijkstra keep the invariant. *)

LEMMA VisitStep ==
    ASSUME RingInv, NEW m \in InTree(copy) \ allowedLeafs, copy' \in Visit(copy, m),
           localVisited' = localVisited \cup {m},
           UNCHANGED <<graph, ring, crtRoot, allowedLeafs, failedMode, count>>,
           \/ pc \in {"first", "relaxed"} /\ pc' = pc
           \/ /\ pc \in {"first", "relaxed"} /\ pc' \in {"firstBuilt", "relaxedBuilt"}
              /\ Open = {} /\ m = crtRoot
           \/ pc = "second" /\ pc' \in {"second", "secondBuilt"}
    PROVE  RingInv'
<1>1. /\ RingTypeOK /\ GraphInv /\ TreesInv /\ FirstInv /\ SecondInv /\ KeptInv
    BY DEF RingInv
<1>2. /\ copy' \in TreeType /\ GoodTree(copy', crtRoot)
      /\ copy'.visited = copy.visited \cup {m}
      /\ \A n \in copy.visited : copy'.Parent[n] = copy.Parent[n]
      /\ \A n \in InTree(copy') \ InTree(copy) : copy'.Parent[n] = m
    BY <1>1, VisitKeeps
<1>3. /\ countt' = countt /\ AllowedNodes' = AllowedNodes /\ tree' = tree
      /\ previous' = previous /\ Trees' = Trees /\ rootName' = rootName /\ crtRoot' = crtRoot
      /\ allowedLeafs' = allowedLeafs /\ failedMode' = failedMode /\ count' = count
    BY DEF ring, graph
<1>4. m \in Node
    BY DEF InTree
<1>5. RingTypeOK'
    BY <1>1, <1>2, <1>3, <1>4 DEF RingTypeOK, FirstPhase, SecondPhase
<1>6. OneFailureTolerated' /\ RingsNested' /\ GraphInv'
    BY <1>3, RingsFrame
<1>7. TreesInv'
    <2>1. /\ dist' = dist /\ rootName' = rootName
          /\ WithinRadius(countt)' = WithinRadius(countt)
        BY <1>1, <1>3, GraphFrame DEF RingTypeOK
    <2>2. AllowedNodes \subseteq AllowedNodes'
        BY <1>3
    <2>3. ASSUME NEW t, NEW root, GoodTree(t, root) PROVE GoodTree(t, root)'
        BY <2>1, <2>2, <2>3, GoodFrame
    <2>4. GoodTree(tree, rootName)'
        BY <1>1, <1>3, <2>1, <2>3 DEF TreesInv, GoodTree, IsTree, InTree, Fresh
    <2>5. GoodTree(copy, crtRoot)'
        BY <1>2, <1>3, <2>1, <2>2 DEF GoodTree, IsTree, InTree, Fresh
    <2> QED  BY <1>1, <1>2, <1>3, <2>1, <2>4, <2>5 DEF TreesInv
<1>8. FirstInv'
    <2>1. pc' \in FirstPhase => pc \in FirstPhase
        BY DEF FirstPhase
    <2>2. ASSUME pc' \in {"firstBuilt", "relaxedBuilt"}, NEW n \in InTree(copy') \ copy'.visited
          PROVE  copy'.Parent[n] = rootName
        <3>1. /\ pc \in {"first", "relaxed"} /\ Open = {} /\ m = crtRoot
              /\ crtRoot = rootName /\ allowedLeafs = {}
            BY <1>1, <2>2 DEF FirstInv, FirstPhase
        <3>2. InTree(copy) \subseteq localVisited
            <4>1. InTree(copy) \subseteq AllowedNodes
                BY <1>1 DEF TreesInv, GoodTree
            <4> QED  BY <3>1, <4>1 DEF Open, InTree
        <3>3. InTree(copy) \subseteq copy'.visited
            BY <1>1, <1>2, <3>2 DEF TreesInv
        <3> QED  BY <1>2, <2>2, <3>1, <3>3
    <2>3. InTree(copy)' = InTree(copy')
        BY DEF InTree
    <2> QED  BY <1>1, <1>3, <2>1, <2>2, <2>3 DEF FirstInv
<1>9. SecondInv'
    <2>1. /\ pc' \in SecondPhase => pc \in SecondPhase
          /\ pc' \in {"second", "secondBuilt"} => pc = "second"
        BY DEF SecondPhase
    <2>2. innerNodes(tree)' = innerNodes(tree) /\ InTree(tree)' = InTree(tree)
          /\ OnetTree(rootName, tree)' = OnetTree(rootName, tree)
        BY <1>3 DEF innerNodes, InTree, OnetTree
    <2>3. pc' \in {"second", "secondBuilt"} =>
              (copy'.visited \cup {crtRoot}) \cap allowedLeafs = {}
        BY <1>1, <1>2, <2>1 DEF SecondInv
    <2> QED  BY <1>1, <1>3, <2>1, <2>2, <2>3 DEF SecondInv
<1>10. KeptInv'
    <2>1. pc' \in FirstPhase => pc \in FirstPhase
        BY DEF FirstPhase
    <2>2. Kept(tree)'
        BY <1>1, <1>3 DEF KeptInv, Kept
    <2>3. pc' \in FirstPhase => Kept(copy)'
        BY <1>1, <1>2, <1>3, <2>1 DEF KeptInv, Kept
    <2> QED  BY <1>1, <1>3, <2>2, <2>3 DEF KeptInv
<1> QED  BY <1>5, <1>6, <1>7, <1>8, <1>9, <1>10 DEF RingInv

LEMMA VisitNearestInv == RingInv /\ VisitNearest => RingInv'
<1> SUFFICES ASSUME RingInv, VisitNearest PROVE RingInv'
    OBVIOUS
<1>1. PICK m \in Open : copy' \in Visit(copy, m) /\ localVisited' = localVisited \cup {m}
    BY DEF VisitNearest
<1>2. m \in InTree(copy) \ allowedLeafs
    BY DEF Open, InTree, RingInv, RingTypeOK
<1>3. /\ UNCHANGED <<graph, ring, crtRoot, allowedLeafs, failedMode, count, pc>>
      /\ pc \in {"first", "relaxed", "second"}
    BY DEF VisitNearest, Building
<1> QED  BY <1>1, <1>2, <1>3, VisitStep

LEMMA VisitRootAgainInv == RingInv /\ VisitRootAgain => RingInv'
<1> SUFFICES ASSUME RingInv, VisitRootAgain PROVE RingInv'
    OBVIOUS
<1>1. /\ copy' \in Visit(copy, crtRoot) /\ localVisited' = localVisited \cup {crtRoot}
      /\ Open = {} /\ pc \in {"first", "relaxed", "second"}
      /\ UNCHANGED <<graph, ring, crtRoot, allowedLeafs, failedMode, count>>
    BY DEF VisitRootAgain, Building
<1>2. /\ pc = "first" => pc' = "firstBuilt"
      /\ pc = "relaxed" => pc' = "relaxedBuilt"
      /\ pc = "second" => pc' = "secondBuilt"
    BY DEF VisitRootAgain
<1>3. crtRoot \in InTree(copy)
    BY RingAssumption DEF RingInv, RingTypeOK, TreesInv, GoodTree, IsTree, InTree
<1>4. crtRoot \notin allowedLeafs
    BY <1>1 DEF RingInv, FirstInv, SecondInv, FirstPhase
<1> QED  BY <1>1, <1>2, <1>3, <1>4, VisitStep

-----------------------------------------------------------------------------
(* The other steps of CreateOnetRings. *)

(* The next radius starts with the first tree of this one, as it is. *)
LEMMA NextRadiusStep ==
    ASSUME RingInv, NEW t \in TreeType, GoodTree(t, rootName), NextRadius(t),
           UNCHANGED graph, tree' = t, previous' \in Nat,
           Trees' \in [1..Len(Radii) -> Seq([Root : Node, Roster : SUBSET Node,
                                             Parent : [Node -> Node \cup {NoName}]])],
           \A r \in 1..Len(Radii) : /\ r > countt => Trees'[r] = <<>>
                                    /\ Len(Trees'[r]) <= 2,
           Kept(t)'
    PROVE  RingTypeOK' /\ GraphInv' /\ TreesInv' /\ FirstInv' /\ SecondInv' /\ KeptInv'
<1>1. /\ RingTypeOK /\ GraphInv /\ TreesInv /\ FirstInv /\ SecondInv /\ KeptInv
    BY DEF RingInv
<1>2. /\ GraphInv' /\ dist' = dist /\ rootName' = rootName
      /\ \A r \in 1..Len(Radii) : WithinRadius(r)' = WithinRadius(r)
    BY <1>1, GraphFrame
<1>3. /\ countt \in 1..Len(Radii) /\ Len(Radii) \in Nat /\ rootName \in Node
      /\ AllowedNodes = WithinRadius(countt)
    BY <1>1, RingAssumption DEF RingTypeOK, TreesInv
<1>4. DeepCopy(t) = t
    BY <1>3, CopyIsSame DEF GoodTree
<1>5. CASE countt = Len(Radii)
    <2>1. /\ pc' = "done"
          /\ countt' = countt /\ AllowedNodes' = AllowedNodes /\ copy' = copy
          /\ localVisited' = localVisited /\ crtRoot' = crtRoot
          /\ allowedLeafs' = allowedLeafs /\ failedMode' = failedMode /\ count' = count
        BY <1>5 DEF NextRadius
    <2>2. RingTypeOK'
        BY <1>1, <1>2, <2>1 DEF RingTypeOK
    <2>3. TreesInv'
        <3>1. GoodTree(tree, rootName)'
            BY <1>2, <2>1 DEF GoodTree, IsTree, InTree, Fresh
        <3>2. GoodTree(copy, crtRoot)'
            BY <1>1, <1>2, <2>1 DEF TreesInv, GoodTree, IsTree, InTree, Fresh
        <3> QED  BY <1>1, <1>2, <1>3, <2>1, <3>1, <3>2 DEF TreesInv
    <2>4. FirstInv' /\ SecondInv'
        BY <2>1 DEF FirstInv, SecondInv, FirstPhase, SecondPhase
    <2>5. KeptInv'
        <3>1. Kept(tree)'
            BY DEF Kept
        <3> QED  BY <2>1, <3>1 DEF KeptInv, FirstPhase
    <2> QED  BY <1>2, <2>2, <2>3, <2>4, <2>5
<1>6. CASE countt # Len(Radii)
    <2>1. /\ pc' = "first"
          /\ countt' = countt + 1 /\ AllowedNodes' = WithinRadius(countt + 1) /\ copy' = t
          /\ localVisited' = {} /\ crtRoot' = rootName
          /\ allowedLeafs' = {} /\ failedMode' = FALSE /\ count' = 0
        BY <1>4, <1>6 DEF NextRadius
    <2>2. /\ countt + 1 \in 1..Len(Radii) /\ countt + 1 > countt /\ countt <= countt + 1
          /\ \A r \in 1..Len(Radii) : r > countt + 1 => r > countt
        BY <1>3, <1>6
    <2>3. AllowedNodes \subseteq AllowedNodes' /\ AllowedNodes' \subseteq Node
        <3>1. WithinRadius(countt) \subseteq WithinRadius(countt + 1)
            BY <1>1, <1>3, <2>2, RingsGrow
        <3> QED  BY <1>3, <2>1, <3>1 DEF WithinRadius
    <2>4. RingTypeOK'
        BY <1>1, <1>2, <1>3, <2>1, <2>2, <2>3 DEF RingTypeOK, FirstPhase
    <2>5. TreesInv'
        <3>1. GoodTree(tree, rootName)'
            BY <1>2, <2>3 DEF GoodTree, IsTree, InTree, Fresh
        <3>2. GoodTree(copy, crtRoot)'
            BY <1>2, <2>1, <2>3 DEF GoodTree, IsTree, InTree, Fresh
        <3> QED  BY <1>2, <2>1, <2>2, <3>1, <3>2 DEF TreesInv
    <2>6. FirstInv' /\ SecondInv'
        BY <1>2, <2>1, <2>2 DEF FirstInv, SecondInv, FirstPhase, SecondPhase
    <2>7. KeptInv'
        <3>1. Kept(tree)' /\ Kept(copy)'
            BY <2>1 DEF Kept
        <3> QED  BY <2>1, <2>2, <3>1 DEF KeptInv
    <2> QED  BY <1>2, <2>4, <2>5, <2>6, <2>7
<1> QED  BY <1>5, <1>6

(* A call that succeeds has reached the whole ring. *)
LEMMA SucceededSpans ==
    ASSUME RingInv, Succeeded
    PROVE  InTree(copy) = AllowedNodes
<1>1. InTree(copy) \subseteq AllowedNodes /\ AllowedNodes \subseteq Node
    BY DEF RingInv, RingTypeOK, TreesInv, GoodTree
<1> QED  BY <1>1 DEF Succeeded, InTree

(* What buildOnetTree makes of a tree. *)
LEMMA OnetTreeType ==
    ASSUME NEW t \in TreeType, NEW root \in Node
    PROVE  /\ OnetTree(root, t) \in [Root : Node, Roster : SUBSET Node,
                                     Parent : [Node -> Node \cup {NoName}]]
           /\ OnetTree(root, t).Root = root /\ OnetTree(root, t).Roster = InTree(t)
           /\ OnetTree(root, t).Parent = t.Parent
           /\ InTree(t) \subseteq Node
BY DEF OnetTree, TreeType, InTree

(* The first tree of a radius becomes a ring. *)
LEMMA FirstRing ==
    ASSUME RingInv, pc \in {"firstBuilt", "relaxedBuilt"}, Succeeded, UNCHANGED graph,
           NEW t, t = copy,
           Trees' = [Trees EXCEPT ![countt] = Append(@, OnetTree(rootName, t))]
    PROVE  /\ Trees' \in [1..Len(Radii) -> Seq([Root : Node, Roster : SUBSET Node,
                                                Parent : [Node -> Node \cup {NoName}]])]
           /\ Trees'[countt] = <<OnetTree(rootName, t)>>
           /\ \A r \in 1..Len(Radii) : /\ r > countt => Trees'[r] = <<>>
                                       /\ Len(Trees'[r]) <= 2
           /\ Kept(t)' /\ OneFailureTolerated' /\ RingsNested'
<1> DEFINE T == OnetTree(rootName, t)
           OT == [Root : Node, Roster : SUBSET Node, Parent : [Node -> Node \cup {NoName}]]
<1>1. /\ RingTypeOK /\ GraphInv /\ TreesInv /\ FirstInv /\ KeptInv
      /\ OneFailureTolerated /\ RingsNested
    BY DEF RingInv
<1>2. /\ t \in TreeType /\ rootName \in Node /\ countt \in 1..Len(Radii) /\ Len(Radii) \in Nat
      /\ Trees \in [1..Len(Radii) -> Seq(OT)]
      /\ crtRoot = rootName /\ Trees[countt] = <<>>
      /\ AllowedNodes = WithinRadius(countt)
    <2>1. /\ t \in TreeType /\ rootName \in Node /\ countt \in 1..Len(Radii)
          /\ Trees \in [1..Len(Radii) -> Seq(OT)]
        BY <1>1, Zenon DEF RingTypeOK
    <2>2. Len(Radii) \in Nat
        BY RingAssumption
    <2>3. /\ crtRoot = rootName /\ Trees[countt] = <<>>
          /\ AllowedNodes = WithinRadius(countt)
        BY <1>1 DEF FirstInv, FirstPhase, TreesInv
    <2> QED  BY <2>1, <2>2, <2>3
<1>3. /\ T \in OT /\ T.Root = rootName /\ T.Roster = InTree(t) /\ T.Parent = t.Parent
      /\ InTree(t) \subseteq Node
    BY <1>2, OnetTreeType
<1>4. InTree(t) = WithinRadius(countt)
    BY <1>2, SucceededSpans
<1>5. IsTree(t, rootName) /\ \A n \in Node \ t.visited : t.Children[n] = {}
    BY <1>1, <1>2 DEF TreesInv, GoodTree
<1>6. \A r \in 1..Len(Radii) : WithinRadius(r)' = WithinRadius(r)
    BY <1>1, GraphFrame
<1> HIDE DEF T, OT
<1>7. /\ Trees'[countt] = <<T>>
      /\ \A r \in 1..Len(Radii) : r # countt => Trees'[r] = Trees[r]
    BY <1>2 DEF T
<1>8. Trees' \in [1..Len(Radii) -> Seq(OT)]
    <2>1. Append(Trees[countt], T) \in Seq(OT)
        BY <1>2, <1>3
    <2> QED  BY <1>2, <2>1 DEF T
<1>9. <<T>> # <<>> /\ Len(<<T>>) = 1 /\ <<T>>[1] = T
    OBVIOUS
<1>10. \A r \in 1..Len(Radii) : /\ r > countt => Trees'[r] = <<>>
                                /\ Len(Trees'[r]) <= 2
    <2> SUFFICES ASSUME NEW r \in 1..Len(Radii)
                 PROVE  (r > countt => Trees'[r] = <<>>) /\ Len(Trees'[r]) <= 2
        OBVIOUS
    <2>1. (r > countt => Trees[r] = <<>>) /\ Len(Trees[r]) <= 2
        BY <1>1, Zenon DEF KeptInv
    <2>2. CASE r = countt
        BY <1>2, <1>7, <1>9, <2>2
    <2>3. CASE r # countt
        BY <1>7, <2>1, <2>3
    <2> QED  BY <2>2, <2>3
<1>11. ASSUME NEW n \in Settled(T) PROVE n \in t.visited
    <2>1. n \in InTree(t) /\ n \in Node /\ (t.Parent[n] # rootName \/ ~LeafIn(T, n))
        BY <1>3 DEF Settled
    <2>2. CASE t.Parent[n] # rootName
        BY <1>1, <2>1, <2>2 DEF FirstInv
    <2>3. CASE ~LeafIn(T, n)
        <3>1. PICK c \in T.Roster : T.Parent[c] = n
            BY <2>3 DEF LeafIn
        <3>2. c \in Node /\ c \in t.Children[n]
            BY <1>3, <1>5, <2>1, <3>1 DEF IsTree
        <3> QED  BY <1>5, <2>1, <3>2
    <2> QED  BY <2>1, <2>2, <2>3
<1>12. Kept(t)'
    <2> SUFFICES ASSUME NEW r \in 1..Len(Radii), Trees'[r] # <<>>, NEW n \in Settled(Trees'[r][1])
                 PROVE  n \in t.visited /\ t.Parent[n] = Trees'[r][1].Parent[n]
        BY DEF Kept
    <2>1. CASE r = countt
        BY <1>3, <1>7, <1>9, <1>11, <2>1
    <2>2. CASE r # countt
        <3>1. Kept(copy)
            BY <1>1 DEF KeptInv, FirstPhase
        <3> QED  BY <1>7, <2>2, <3>1 DEF Kept
    <2> QED  BY <2>1, <2>2
<1>13. OneFailureTolerated'
    <2> SUFFICES ASSUME NEW r \in 1..Len(Radii)
                 PROVE  /\ \A k \in 1..Len(Trees'[r]) : Trees'[r][k].Roster = WithinRadius(r)
                        /\ Len(Trees'[r]) = 2 =>
                             \A x \in Node : \E k \in 1..2 : LeafIn(Trees'[r][k], x)
        BY <1>6 DEF OneFailureTolerated, Spans
    <2>1. CASE r = countt
        <3>1. \A k \in 1..1 : k = 1
            OBVIOUS
        <3>2. Trees'[r] = <<T>>
            BY <1>7, <2>1
        <3>3. Len(Trees'[r]) = 1 /\ Trees'[r][1] = T
            BY <1>9, <3>2, Zenon
        <3> QED  BY <1>3, <1>4, <2>1, <3>1, <3>3
    <2>2. CASE r # countt
        BY <1>1, <1>7, <2>2 DEF OneFailureTolerated, Spans
    <2> QED  BY <2>1, <2>2
<1>14. RingsNested'
    <2> SUFFICES ASSUME NEW r \in 1..Len(Radii), NEW s \in 1..Len(Radii), r < s,
                        Trees'[r] # <<>>, Trees'[s] # <<>>
                 PROVE  /\ Trees'[r][1].Roster \subseteq Trees'[s][1].Roster
                        /\ \A n \in Settled(Trees'[r][1]) :
                              Trees'[s][1].Parent[n] = Trees'[r][1].Parent[n]
        BY DEF RingsNested
    <2>1. s <= countt
        BY <1>2, <1>10
    <2>2. r # countt /\ Trees'[r] = Trees[r]
        BY <1>2, <1>7, <2>1
    <2>3. CASE s = countt
        <3>1. Trees'[s][1] = T
            BY <1>7, <1>9, <2>3
        <3>2. Trees[r][1].Roster = WithinRadius(r)
            <4>1. 1 \in 1..Len(Trees[r])
                BY <1>2, <2>2
            <4> QED  BY <1>1, <4>1 DEF OneFailureTolerated, Spans
        <3>3. WithinRadius(r) \subseteq WithinRadius(countt)
            BY <1>1, <1>2, <2>1, <2>3, RingsGrow
        <3>4. \A n \in Settled(Trees[r][1]) : t.Parent[n] = Trees[r][1].Parent[n]
            BY <1>12, <2>2 DEF Kept
        <3> QED  BY <1>3, <1>4, <2>2, <3>1, <3>2, <3>3, <3>4
    <2>4. CASE s # countt
        BY <1>1, <1>7, <2>2, <2>4 DEF RingsNested
    <2> QED  BY <2>3, <2>4
<1> QED  BY <1>7, <1>8, <1>10, <1>12, <1>13, <1>14 DEF T, OT

LEMMA AcceptFirstInv == RingInv /\ AcceptFirst => RingInv'
<1> SUFFICES ASSUME RingInv, AcceptFirst PROVE RingInv'
    OBVIOUS
<1>1. /\ RingTypeOK /\ GraphInv /\ TreesInv /\ FirstInv /\ SecondInv /\ KeptInv
    BY DEF RingInv
<1>2. /\ pc \in {"firstBuilt", "relaxedBuilt"} /\ Succeeded /\ UNCHANGED graph
    BY DEF AcceptFirst
<1>3. /\ copy \in TreeType /\ rootName \in Node /\ crtRoot = rootName
      /\ GoodTree(copy, rootName)
    BY <1>1, <1>2 DEF RingTypeOK, FirstInv, FirstPhase, TreesInv
<1>4. PICK t : t = copy
    OBVIOUS
<1>5. t \in TreeType /\ GoodTree(t, rootName)
    BY <1>3, <1>4
<1>6. DeepCopy(copy) = t
    BY <1>3, <1>4, CopyIsSame DEF GoodTree
<1> DEFINE size == Cardinality(InTree(t))
<1>7. size \in Nat
    <2>1. InTree(t) \subseteq Node /\ IsFiniteSet(Node)
        BY RingAssumption DEF InTree
    <2> QED  BY <2>1, FS_Subset, FS_CardinalityType
<1>8. /\ tree' = t
      /\ IF size = previous \/ size < 2
         THEN NextRadius(t) /\ UNCHANGED <<previous, Trees>>
         ELSE /\ previous' = size
              /\ Trees' = [Trees EXCEPT ![countt] = Append(@, OnetTree(rootName, t))]
              /\ IF size > 2
                 THEN /\ pc' = "pick" /\ allowedLeafs' = innerNodes(copy)
                      /\ failedMode' = FALSE /\ count' = 0
                      /\ UNCHANGED <<countt, AllowedNodes, copy, localVisited, crtRoot>>
                 ELSE NextRadius(t)
    BY <1>6 DEF AcceptFirst
<1> HIDE DEF size
<1>9. CASE size = previous \/ size < 2
    <2>1. NextRadius(t) /\ previous' = previous /\ Trees' = Trees
        BY <1>8, <1>9
    <2>2. Kept(t)'
        BY <1>1, <1>2, <1>4, <2>1 DEF KeptInv, FirstPhase, Kept
    <2>3. RingTypeOK' /\ GraphInv' /\ TreesInv' /\ FirstInv' /\ SecondInv' /\ KeptInv'
        <3>1. /\ previous' \in Nat
              /\ Trees' \in [1..Len(Radii) -> Seq([Root : Node, Roster : SUBSET Node,
                                                   Parent : [Node -> Node \cup {NoName}]])]
            BY <1>1, <2>1 DEF RingTypeOK
        <3>2. \A r \in 1..Len(Radii) : /\ r > countt => Trees'[r] = <<>>
                                       /\ Len(Trees'[r]) <= 2
            <4>1. \A r \in 1..Len(Radii) : /\ r > countt => Trees[r] = <<>>
                                           /\ Len(Trees[r]) <= 2
                BY <1>1, Zenon DEF KeptInv
            <4> QED  BY <2>1, <4>1, Zenon
        <3> QED  BY <1>2, <1>5, <1>8, <2>1, <2>2, <3>1, <3>2, NextRadiusStep
    <2>4. OneFailureTolerated' /\ RingsNested'
        BY <1>2, <2>1, RingsFrame
    <2> QED  BY <2>3, <2>4 DEF RingInv
<1>10. CASE ~(size = previous \/ size < 2)
    <2>1. /\ previous' \in Nat
          /\ Trees' = [Trees EXCEPT ![countt] = Append(@, OnetTree(rootName, t))]
        BY <1>7, <1>8, <1>10
    <2>2. /\ Trees' \in [1..Len(Radii) -> Seq([Root : Node, Roster : SUBSET Node,
                                               Parent : [Node -> Node \cup {NoName}]])]
          /\ Trees'[countt] = <<OnetTree(rootName, t)>>
          /\ \A r \in 1..Len(Radii) : /\ r > countt => Trees'[r] = <<>>
                                      /\ Len(Trees'[r]) <= 2
          /\ Kept(t)' /\ OneFailureTolerated' /\ RingsNested'
        BY <1>2, <1>4, <2>1, FirstRing
    <2>3. CASE size > 2
        <3>1. /\ pc' = "pick" /\ allowedLeafs' = innerNodes(t)
              /\ failedMode' = FALSE /\ count' = 0 /\ countt' = countt
              /\ AllowedNodes' = AllowedNodes /\ copy' = t /\ localVisited' = localVisited
              /\ crtRoot' = rootName
            BY <1>3, <1>4, <1>8, <1>10, <2>3
        <3>2. /\ GraphInv' /\ dist' = dist /\ rootName' = rootName
              /\ \A r \in 1..Len(Radii) : WithinRadius(r)' = WithinRadius(r)
            BY <1>1, <1>2, GraphFrame
        <3>3. RingTypeOK'
            BY <1>1, <1>3, <1>5, <1>8, <2>1, <2>2, <3>1, <3>2
            DEF RingTypeOK, FirstPhase, SecondPhase, innerNodes
        <3>4. TreesInv'
            <4>1. GoodTree(tree, rootName)' /\ GoodTree(copy, crtRoot)'
                BY <1>5, <1>8, <3>1, <3>2 DEF GoodTree, IsTree, InTree, Fresh
            <4> QED  BY <1>1, <1>4, <3>1, <3>2, <4>1 DEF TreesInv, RingTypeOK
        <3>5. FirstInv'
            BY <3>1 DEF FirstInv, FirstPhase
        <3>6. SecondInv'
            <4>1. InTree(t) = AllowedNodes
                BY <1>2, <1>4, SucceededSpans
            <4>2. /\ innerNodes(tree)' = innerNodes(t) /\ InTree(tree)' = InTree(t)
                  /\ OnetTree(rootName, tree)' = OnetTree(rootName, t)
                BY <1>8, <3>2 DEF innerNodes, InTree, OnetTree
            <4> QED  BY <2>2, <3>1, <4>1, <4>2 DEF SecondInv
        <3>7. KeptInv'
            <4>1. Kept(tree)'
                BY <1>8, <2>2 DEF Kept
            <4> QED  BY <2>2, <3>1, <4>1 DEF KeptInv, FirstPhase
        <3> QED  BY <2>2, <3>2, <3>3, <3>4, <3>5, <3>6, <3>7 DEF RingInv
    <2>4. CASE ~(size > 2)
        <3>1. NextRadius(t)
            BY <1>8, <1>10, <2>4
        <3>2. RingTypeOK' /\ GraphInv' /\ TreesInv' /\ FirstInv' /\ SecondInv' /\ KeptInv'
            BY <1>2, <1>5, <1>8, <2>1, <2>2, <3>1, NextRadiusStep
        <3> QED  BY <2>2, <3>2 DEF RingInv
    <2> QED  BY <2>3, <2>4
<1> QED  BY <1>9, <1>10

(* Steps that leave the rings alone, and the first tree with them. *)
LEMMA ResumeStep ==
    ASSUME RingInv, UNCHANGED <<graph, ring>>,
           copy' \in TreeType, crtRoot' \in Node, GoodTree(copy', crtRoot'),
           localVisited' \subseteq copy'.visited, allowedLeafs' = allowedLeafs,
           failedMode' \in BOOLEAN, count' \in Nat,
           \/ pc \in FirstPhase /\ pc' \in {"first", "relaxed"} /\ crtRoot' = rootName /\ Kept(copy')
           \/ /\ pc \in SecondPhase /\ pc' \in {"pick", "second"}
              /\ pc' = "second" => (copy'.visited \cup {crtRoot'}) \cap allowedLeafs = {}
    PROVE  RingInv'
<1>1. /\ RingTypeOK /\ GraphInv /\ TreesInv /\ FirstInv /\ SecondInv /\ KeptInv
    BY DEF RingInv
<1>2. /\ countt' = countt /\ AllowedNodes' = AllowedNodes /\ tree' = tree
      /\ previous' = previous /\ Trees' = Trees
    BY DEF ring
<1>3. /\ OneFailureTolerated' /\ RingsNested' /\ GraphInv' /\ dist' = dist /\ rootName' = rootName
      /\ \A r \in 1..Len(Radii) : WithinRadius(r)' = WithinRadius(r)
    BY <1>1, <1>2, RingsFrame, GraphFrame
<1>4. RingTypeOK'
    <2>1. localVisited' \subseteq Node
        BY DEF TreeType
    <2> QED  BY <1>1, <1>2, <1>3, <2>1 DEF RingTypeOK, FirstPhase, SecondPhase
<1>5. TreesInv'
    <2>1. GoodTree(tree, rootName)'
        BY <1>1, <1>2, <1>3 DEF TreesInv, GoodTree, IsTree, InTree, Fresh
    <2>2. GoodTree(copy, crtRoot)'
        BY <1>2, <1>3 DEF GoodTree, IsTree, InTree, Fresh
    <2> QED  BY <1>1, <1>2, <1>3, <2>1, <2>2 DEF TreesInv, RingTypeOK
<1>6. FirstInv'
    BY <1>1, <1>2, <1>3 DEF FirstInv, FirstPhase
<1>7. SecondInv'
    <2>1. /\ innerNodes(tree)' = innerNodes(tree) /\ InTree(tree)' = InTree(tree)
          /\ OnetTree(rootName, tree)' = OnetTree(rootName, tree)
        BY <1>2, <1>3 DEF innerNodes, InTree, OnetTree
    <2>2. pc' \in SecondPhase => pc \in SecondPhase
        BY DEF SecondPhase
    <2>3. ~(pc' = "secondBuilt")
        OBVIOUS
    <2> QED  BY <1>1, <1>2, <1>3, <2>1, <2>2, <2>3 DEF SecondInv
<1>8. KeptInv'
    <2>1. Kept(tree)'
        BY <1>1, <1>2 DEF KeptInv, Kept
    <2>2. pc' \in FirstPhase => Kept(copy)'
        BY <1>2 DEF Kept, FirstPhase
    <2>3. \A r \in 1..Len(Radii) : Len(Trees'[r]) <= 2 /\ (r > countt' => Trees'[r] = <<>>)
        BY <1>1, <1>2, Zenon DEF KeptInv
    <2> QED  BY <2>1, <2>2, <2>3 DEF KeptInv
<1> QED  BY <1>3, <1>4, <1>5, <1>6, <1>7, <1>8 DEF RingInv

LEMMA BumpNat == ASSUME NEW n \in Nat, NEW b \in Nat PROVE Bump(n, b) \in Nat
BY DEF Bump

LEMMA CallRelaxedInv == RingInv /\ CallRelaxed => RingInv'
<1> SUFFICES ASSUME RingInv, CallRelaxed PROVE RingInv'
    OBVIOUS
<1>1. /\ pc = "firstBuilt" /\ pc' = "relaxed" /\ failedMode' = TRUE /\ localVisited' = {}
      /\ UNCHANGED <<graph, ring>> /\ copy' = copy /\ crtRoot' = crtRoot
      /\ allowedLeafs' = allowedLeafs /\ count' = count
    BY DEF CallRelaxed
<1>2. /\ copy \in TreeType /\ crtRoot \in Node /\ GoodTree(copy, crtRoot) /\ count \in Nat
      /\ crtRoot = rootName /\ Kept(copy)
    BY <1>1 DEF RingInv, RingTypeOK, TreesInv, FirstInv, KeptInv, FirstPhase
<1> QED  BY <1>1, <1>2, ResumeStep DEF FirstPhase

LEMMA TryFirstAgainInv == RingInv /\ TryFirstAgain => RingInv'
<1> SUFFICES ASSUME RingInv, TryFirstAgain PROVE RingInv'
    OBVIOUS
<1>1. /\ pc \in {"firstBuilt", "relaxedBuilt"} /\ pc' = "first" /\ localVisited' = {}
      /\ copy' = DeepCopy(tree) /\ count' = Bump(count, MaxCount)
      /\ UNCHANGED <<graph, ring>> /\ crtRoot' = crtRoot
      /\ allowedLeafs' = allowedLeafs /\ failedMode' = failedMode
    BY DEF TryFirstAgain
<1>2. /\ tree \in TreeType /\ rootName \in Node /\ GoodTree(tree, rootName) /\ Kept(tree)
      /\ crtRoot = rootName /\ count \in Nat /\ failedMode \in BOOLEAN
    BY <1>1 DEF RingInv, RingTypeOK, TreesInv, FirstInv, KeptInv, FirstPhase
<1>3. copy' = tree
    BY <1>1, <1>2, CopyIsSame DEF GoodTree
<1>4. count' \in Nat
    BY <1>1, <1>2, BumpNat, RingAssumption
<1> QED  BY <1>1, <1>2, <1>3, <1>4, ResumeStep DEF FirstPhase

LEMMA StartSecondInv == RingInv /\ StartSecond => RingInv'
<1> SUFFICES ASSUME RingInv, StartSecond PROVE RingInv'
    OBVIOUS
<1>1. PICK n \in InTree(tree) \ (allowedLeafs \cup {rootName}) : crtRoot' = n /\ copy' = Fresh(n)
    BY DEF StartSecond
<1>2. /\ pc = "pick" /\ pc' = "second" /\ localVisited' = {}
      /\ failedMode' = (failedMode \/ count > FailAfter)
      /\ UNCHANGED <<graph, ring>> /\ allowedLeafs' = allowedLeafs /\ count' = count
    BY DEF StartSecond
<1>3. n \in Node /\ n \in AllowedNodes /\ count \in Nat
    BY DEF InTree, RingInv, RingTypeOK, TreesInv, GoodTree
<1>4. /\ Fresh(n) \in TreeType /\ Fresh(n).visited = {} /\ GoodTree(Fresh(n), n)
    BY <1>3, FreshTree
<1>5. failedMode' \in BOOLEAN
    BY <1>2
<1>6. (copy'.visited \cup {crtRoot'}) \cap allowedLeafs = {}
    BY <1>1, <1>4
<1> QED  BY <1>1, <1>2, <1>3, <1>4, <1>5, <1>6, ResumeStep DEF SecondPhase

LEMMA PickAgainInv == RingInv /\ PickAgain => RingInv'
<1> SUFFICES ASSUME RingInv, PickAgain PROVE RingInv'
    OBVIOUS
<1>1. /\ pc = "pick" /\ pc' = pc /\ count' = Bump(count, GiveUpAfter)
      /\ UNCHANGED <<graph, ring>> /\ copy' = copy /\ localVisited' = localVisited
      /\ crtRoot' = crtRoot /\ allowedLeafs' = allowedLeafs /\ failedMode' = failedMode
    BY DEF PickAgain
<1>2. /\ copy \in TreeType /\ crtRoot \in Node /\ GoodTree(copy, crtRoot)
      /\ localVisited \subseteq copy.visited /\ failedMode \in BOOLEAN /\ count \in Nat
    BY DEF RingInv, RingTypeOK, TreesInv
<1>3. count' \in Nat
    BY <1>1, <1>2, BumpNat, RingAssumption
<1> QED  BY <1>1, <1>2, <1>3, ResumeStep DEF SecondPhase

LEMMA TrySecondAgainInv == RingInv /\ TrySecondAgain => RingInv'
<1> SUFFICES ASSUME RingInv, TrySecondAgain PROVE RingInv'
    OBVIOUS
<1>1. /\ pc = "secondBuilt" /\ pc' = "pick" /\ count' = Bump(count, GiveUpAfter)
      /\ UNCHANGED <<graph, ring>> /\ copy' = copy /\ localVisited' = localVisited
      /\ crtRoot' = crtRoot /\ allowedLeafs' = allowedLeafs /\ failedMode' = failedMode
    BY DEF TrySecondAgain
<1>2. /\ copy \in TreeType /\ crtRoot \in Node /\ GoodTree(copy, crtRoot)
      /\ localVisited \subseteq copy.visited /\ failedMode \in BOOLEAN /\ count \in Nat
    BY DEF RingInv, RingTypeOK, TreesInv
<1>3. count' \in Nat
    BY <1>1, <1>2, BumpNat, RingAssumption
<1> QED  BY <1>1, <1>2, <1>3, ResumeStep DEF SecondPhase

(* What NextRadius(tree) needs when the rings are those of the first tree. *)
LEMMA LeaveSecond ==
    ASSUME RingInv, UNCHANGED graph, NextRadius(tree), tree' = tree, previous' = previous,
           Trees' \in [1..Len(Radii) -> Seq([Root : Node, Roster : SUBSET Node,
                                             Parent : [Node -> Node \cup {NoName}]])],
           \A r \in 1..Len(Radii) :
               /\ (Trees'[r] = <<>>) = (Trees[r] = <<>>)
               /\ Trees'[r][1] = Trees[r][1] \/ Trees[r] = <<>>
               /\ Len(Trees'[r]) <= 2
    PROVE  RingTypeOK' /\ GraphInv' /\ TreesInv' /\ FirstInv' /\ SecondInv' /\ KeptInv'
<1>1. PICK t : t = tree
    OBVIOUS
<1>2. t \in TreeType /\ GoodTree(t, rootName) /\ previous' \in Nat /\ Kept(t)
    BY <1>1 DEF RingInv, RingTypeOK, TreesInv, KeptInv
<1>3. Kept(t)'
    BY <1>2 DEF Kept
<1>4. \A r \in 1..Len(Radii) : /\ r > countt => Trees'[r] = <<>>
                               /\ Len(Trees'[r]) <= 2
    <2>1. \A r \in 1..Len(Radii) : r > countt => Trees[r] = <<>>
        BY Zenon DEF RingInv, KeptInv
    <2> QED  BY <2>1
<1> QED  BY <1>1, <1>2, <1>3, <1>4, NextRadiusStep

LEMMA GiveUpSecondInv == RingInv /\ GiveUpSecond => RingInv'
<1> SUFFICES ASSUME RingInv, GiveUpSecond PROVE RingInv'
    OBVIOUS
<1>1. /\ NextRadius(tree) /\ UNCHANGED graph
      /\ tree' = tree /\ previous' = previous /\ Trees' = Trees
    BY DEF GiveUpSecond
<1>2. \A r \in 1..Len(Radii) : Len(Trees[r]) <= 2
    BY Zenon DEF RingInv, KeptInv
<1>3. Trees' \in [1..Len(Radii) -> Seq([Root : Node, Roster : SUBSET Node,
                                         Parent : [Node -> Node \cup {NoName}]])]
    BY <1>1 DEF RingInv, RingTypeOK
<1>4. RingTypeOK' /\ GraphInv' /\ TreesInv' /\ FirstInv' /\ SecondInv' /\ KeptInv'
    BY <1>1, <1>2, <1>3, LeaveSecond
<1>5. OneFailureTolerated' /\ RingsNested'
    BY <1>1, RingsFrame
<1> QED  BY <1>4, <1>5 DEF RingInv

(* An inner node of the first tree is never visited by the second, so it   *)
(* has no children there: of every node one of the two trees can do        *)
(* without.                                                                *)
LEMMA AcceptSecondInv == RingInv /\ AcceptSecond => RingInv'
<1> SUFFICES ASSUME RingInv, AcceptSecond PROVE RingInv'
    OBVIOUS
<1> DEFINE OT == [Root : Node, Roster : SUBSET Node, Parent : [Node -> Node \cup {NoName}]]
           T1 == OnetTree(rootName, tree)
           T2 == OnetTree(crtRoot, copy)
<1>1. /\ RingTypeOK /\ GraphInv /\ TreesInv /\ SecondInv /\ KeptInv
      /\ OneFailureTolerated /\ RingsNested
    BY DEF RingInv
<1>2. /\ pc = "secondBuilt" /\ Succeeded /\ NextRadius(tree) /\ UNCHANGED graph
      /\ tree' = tree /\ previous' = previous
      /\ Trees' = [Trees EXCEPT ![countt] = Append(@, T2)]
    BY DEF AcceptSecond
<1>3. /\ copy \in TreeType /\ tree \in TreeType /\ crtRoot \in Node /\ rootName \in Node
      /\ countt \in 1..Len(Radii) /\ Trees \in [1..Len(Radii) -> Seq(OT)]
    BY <1>1, Zenon DEF RingTypeOK
<1>4. /\ T2 \in OT /\ T2.Roster = InTree(copy) /\ T2.Parent = copy.Parent
      /\ T1.Roster = InTree(tree) /\ T1.Parent = tree.Parent
      /\ InTree(copy) \subseteq Node /\ InTree(tree) \subseteq Node
    BY <1>3, OnetTreeType
<1>5. /\ Trees[countt] = <<T1>> /\ allowedLeafs = innerNodes(tree)
      /\ InTree(tree) = AllowedNodes /\ copy.visited \cap allowedLeafs = {}
    BY <1>1, <1>2 DEF SecondInv, SecondPhase
<1>6. InTree(copy) = AllowedNodes /\ AllowedNodes = WithinRadius(countt)
    BY <1>1, <1>2, SucceededSpans DEF TreesInv
<1>7. \A x \in Node : LeafIn(T1, x) \/ LeafIn(T2, x)
    <2> SUFFICES ASSUME NEW x \in Node PROVE LeafIn(T1, x) \/ LeafIn(T2, x)
        OBVIOUS
    <2>1. CASE x \in innerNodes(tree)
        <3>1. copy.Children[x] = {}
            BY <1>1, <1>5, <2>1 DEF TreesInv, GoodTree
        <3>2. \A n \in Node : copy.Parent[n] # x
            BY <1>1, <3>1 DEF TreesInv, GoodTree, IsTree
        <3> QED  BY <1>4, <3>2 DEF LeafIn
    <2>2. CASE x \notin innerNodes(tree)
        <3>1. tree.Children[x] = {}
            BY <2>2 DEF innerNodes
        <3>2. \A n \in Node : tree.Parent[n] # x
            BY <1>1, <3>1 DEF TreesInv, GoodTree, IsTree
        <3> QED  BY <1>4, <3>2 DEF LeafIn
    <2> QED  BY <2>1, <2>2
<1> HIDE DEF OT, T1, T2
<1>8. /\ Trees'[countt] = Append(<<T1>>, T2)
      /\ \A r \in 1..Len(Radii) : r # countt => Trees'[r] = Trees[r]
    BY <1>2, <1>3, <1>5
<1>9. /\ Len(Append(<<T1>>, T2)) = 2 /\ Append(<<T1>>, T2)[1] = T1 /\ Append(<<T1>>, T2)[2] = T2
      /\ Append(<<T1>>, T2) # <<>> /\ <<T1>> # <<>> /\ <<T1>>[1] = T1
    OBVIOUS
<1>10. Trees' \in [1..Len(Radii) -> Seq(OT)]
    <2>1. Append(Trees[countt], T2) \in Seq(OT)
        BY <1>3, <1>4
    <2> QED  BY <1>2, <1>3, <2>1
<1>11. \A r \in 1..Len(Radii) :
           /\ (Trees'[r] = <<>>) = (Trees[r] = <<>>)
           /\ Trees'[r][1] = Trees[r][1] \/ Trees[r] = <<>>
           /\ Len(Trees'[r]) <= 2
    <2> SUFFICES ASSUME NEW r \in 1..Len(Radii)
                 PROVE  /\ (Trees'[r] = <<>>) = (Trees[r] = <<>>)
                        /\ Trees'[r][1] = Trees[r][1] \/ Trees[r] = <<>>
                        /\ Len(Trees'[r]) <= 2
        OBVIOUS
    <2>1. CASE r = countt
        <3>1. Trees'[r] = Append(<<T1>>, T2) /\ Trees[r] = <<T1>>
            BY <1>5, <1>8, <2>1
        <3>2. Len(Trees'[r]) = 2 /\ Trees'[r][1] = T1 /\ Trees[r][1] = T1
            BY <1>9, <3>1, Zenon
        <3>3. Trees'[r] # <<>> /\ Trees[r] # <<>>
            BY <1>9, <3>1, Zenon
        <3> QED  BY <3>2, <3>3
    <2>2. CASE r # countt
        <3>1. Len(Trees[r]) <= 2
            BY <1>1, Zenon DEF KeptInv
        <3> QED  BY <1>8, <2>2, <3>1
    <2> QED  BY <2>1, <2>2
<1>12. RingTypeOK' /\ GraphInv' /\ TreesInv' /\ FirstInv' /\ SecondInv' /\ KeptInv'
    BY <1>2, <1>10, <1>11, LeaveSecond DEF OT
<1>13. OneFailureTolerated'
    <2>1. \A r \in 1..Len(Radii) : WithinRadius(r)' = WithinRadius(r)
        BY <1>1, <1>2, GraphFrame
    <2> SUFFICES ASSUME NEW r \in 1..Len(Radii)
                 PROVE  /\ \A k \in 1..Len(Trees'[r]) : Trees'[r][k].Roster = WithinRadius(r)
                        /\ Len(Trees'[r]) = 2 =>
                             \A x \in Node : \E k \in 1..2 : LeafIn(Trees'[r][k], x)
        BY <2>1 DEF OneFailureTolerated, Spans
    <2>2. CASE r = countt
        <3>1. /\ Len(Trees'[r]) = 2 /\ Trees'[r][1] = T1 /\ Trees'[r][2] = T2
            BY <1>8, <1>9, <2>2, Zenon
        <3>2. \A k \in 1..2 : k = 1 \/ k = 2
            OBVIOUS
        <3>3. 1 \in 1..2 /\ 2 \in 1..2
            OBVIOUS
        <3> QED  BY <1>4, <1>5, <1>6, <1>7, <2>2, <3>1, <3>2, <3>3
    <2>3. CASE r # countt
        <3>1. Trees'[r] = Trees[r]
            BY <1>8, <2>3
        <3>2. /\ \A k \in 1..Len(Trees[r]) : Trees[r][k].Roster = WithinRadius(r)
              /\ Len(Trees[r]) = 2 => \A x \in Node : \E k \in 1..2 : LeafIn(Trees[r][k], x)
            BY <1>1, Zenon DEF OneFailureTolerated, Spans
        <3> QED  BY <3>1, <3>2, Zenon
    <2> QED  BY <2>2, <2>3
<1>14. RingsNested'
    <2> SUFFICES ASSUME NEW r \in 1..Len(Radii), NEW s \in 1..Len(Radii), r < s,
                        Trees'[r] # <<>>, Trees'[s] # <<>>
                 PROVE  /\ Trees'[r][1].Roster \subseteq Trees'[s][1].Roster
                        /\ \A n \in Settled(Trees'[r][1]) :
                              Trees'[s][1].Parent[n] = Trees'[r][1].Parent[n]
        BY DEF RingsNested
    <2>1. Trees[r] # <<>> /\ Trees[s] # <<>>
        BY <1>11
    <2>2. Trees'[r][1] = Trees[r][1] /\ Trees'[s][1] = Trees[s][1]
        BY <1>11, <2>1
    <2> QED  BY <1>1, <2>1, <2>2 DEF RingsNested
<1> QED  BY <1>12, <1>13, <1>14 DEF RingInv

-----------------------------------------------------------------------------
LEMMA RingInvInit == Init => RingInv
<1> SUFFICES ASSUME Init PROVE RingInv
    OBVIOUS
<1>1. GraphInv
    BY GraphInvInit
<1>2. /\ rootName \in Node /\ countt = 1 /\ AllowedNodes = WithinRadius(1)
      /\ tree = Fresh(rootName) /\ copy = Fresh(rootName)
      /\ localVisited = {} /\ crtRoot = rootName /\ allowedLeafs = {}
      /\ failedMode = FALSE /\ count = 0 /\ previous = 0 /\ pc = "first"
      /\ Trees = [r \in 1..Len(Radii) |-> <<>>]
    BY DEF Init
<1>3. Len(Radii) \in Nat /\ 1 \in 1..Len(Radii)
    BY RingAssumption
<1>4. rootName \in AllowedNodes /\ AllowedNodes \subseteq Node
    <2>1. 1 <= 1
        OBVIOUS
    <2>2. rootName \in WithinRadius(1)
        BY <1>1, <1>2, <1>3, <2>1, RingsGrow
    <2> QED  BY <1>2, <2>2 DEF WithinRadius
<1>5. Fresh(rootName) \in TreeType /\ GoodTree(Fresh(rootName), rootName)
    BY <1>2, <1>4, FreshTree
<1>6. \A r \in 1..Len(Radii) : Trees[r] = <<>> /\ Len(Trees[r]) = 0
    BY <1>2
<1>7. RingTypeOK
    <2>1. Trees \in [1..Len(Radii) -> Seq([Root : Node, Roster : SUBSET Node,
                                            Parent : [Node -> Node \cup {NoName}]])]
        BY <1>2
    <2> QED  BY <1>2, <1>3, <1>4, <1>5, <2>1 DEF RingTypeOK, FirstPhase
<1>8. TreesInv
    BY <1>2, <1>5 DEF TreesInv
<1>9. FirstInv /\ SecondInv
    BY <1>2, <1>3, <1>6 DEF FirstInv, SecondInv, FirstPhase, SecondPhase
<1>10. KeptInv
    BY <1>6 DEF KeptInv, Kept
<1>11. OneFailureTolerated
    <2>1. \A k \in 1..0 : FALSE
        OBVIOUS
    <2> QED  BY <1>6, <2>1 DEF OneFailureTolerated
<1>12. RingsNested
    BY <1>6 DEF RingsNested
<1> QED  BY <1>1, <1>7, <1>8, <1>9, <1>10, <1>11, <1>12 DEF RingInv

LEMMA RingInvStutter == RingInv /\ UNCHANGED vars => RingInv'
<1> SUFFICES ASSUME RingInv, UNCHANGED vars PROVE RingInv'
    OBVIOUS
<1> USE DEF vars, graph, ring
<1>1. OneFailureTolerated' /\ RingsNested' /\ GraphInv'
    BY RingsFrame
<1>2. RingTypeOK'
    BY DEF RingInv, RingTypeOK
<1>3. TreesInv'
    BY DEF RingInv, TreesInv, GoodTree, IsTree, InTree, Fresh, WithinRadius
<1>4. FirstInv'
    BY DEF RingInv, FirstInv, InTree
<1>5. SecondInv'
    BY DEF RingInv, SecondInv, InTree, innerNodes, OnetTree
<1>6. KeptInv'
    BY DEF RingInv, KeptInv, Kept
<1> QED  BY <1>1, <1>2, <1>3, <1>4, <1>5, <1>6 DEF RingInv

(* RingInv is an invariant of CreateOnetRings: it holds of the tables the   *)
(* call starts with, and each turn of dijkstra, each attempt and each       *)
(* change of radius keeps it.                                               *)
THEOREM RingInvariance == Spec => []RingInv
<1>1. RingInv /\ [Next]_vars => RingInv'
    <2> SUFFICES ASSUME RingInv, [Next]_vars PROVE RingInv'
        OBVIOUS
    <2> QED  BY VisitNearestInv, VisitRootAgainInv, AcceptFirstInv, CallRelaxedInv,
                TryFirstAgainInv, StartSecondInv, PickAgainInv, AcceptSecondInv,
                GiveUpSecondInv, TrySecondAgainInv, RingInvStutter DEF Next
<1> QED  BY <1>1, RingInvInit, PTL DEF Spec

(* Whatever was moved, copied or left by a failed call, what dijkstra holds *)
(* is a tree in which parents, children, distances and depths agree; the    *)
(* child that is cut out of its old parent (gentree.go 1066) is there.      *)
THEOREM AlwaysATreeThm == Spec => []AlwaysATree
<1>1. RingInv => AlwaysATree
    BY DEF RingInv, TreesInv, GoodTree, AlwaysATree
<1> QED  BY <1>1, RingInvariance, PTL

(* Every tree of a ring spans exactly the nodes within the radius, and      *)
(* where there are two, every node is a leaf of one of them.                *)
THEOREM OneFailureToleratedThm == Spec => []OneFailureTolerated
<1>1. RingInv => OneFailureTolerated
    BY DEF RingInv
<1> QED  BY <1>1, RingInvariance, PTL

(* Rings are nested, and a larger ring keeps the parents of the smaller one *)
(* but for leaves right below the root.                                     *)
THEOREM RingsNestedThm == Spec => []RingsNested
<1>1. RingInv => RingsNested
    BY DEF RingInv
<1> QED  BY <1>1, RingInvariance, PTL
=============================================================================
