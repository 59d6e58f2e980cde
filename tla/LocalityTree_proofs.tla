------------------------- MODULE LocalityTree_proofs -------------------------
(***************************************************************************)
(* Proofs about the optimisation of the locality graph and the walk that   *)
(* makes the multicast's tree nodes of it, for every finite set of nodes,  *)
(* every number of levels (at least two), assignment of levels, metric and *)
(* bound. None of them depends on which bridges the depth-first search     *)
(* finds, so GetBridges is never expanded.                                 *)
(***************************************************************************)
EXTENDS LocalityTree, LocalityGraph_proofs, FiniteSetTheorems

-----------------------------------------------------------------------------
(* The tables of the graph. *)

LEMMA MinIsLeast ==
    ASSUME NEW S \in SUBSET Node, S # {}
    PROVE  Min(S) \in S /\ \A x \in S : Min(S) <= x
<1>1. \E m \in S : \A x \in S : m <= x
    BY NodeAssumption, LeastNat
<1> QED  BY <1>1 DEF Min

(* A link is in the bunch of one end and the cluster of the other. *)
LEMMA LinksSymmetric ==
    ASSUME NEW x \in Node, NEW y \in Node
    PROVE  /\ y \in Bunch(x) <=> x \in Cluster(y)
           /\ y \in Neighbours(x) <=> x \in Neighbours(y)
<1>1. \A m, n \in Node : n \in Bunch(m) <=> m \in Cluster(n)
    BY DEF Bunch, Cluster
<1> QED  BY <1>1 DEF Neighbours

LEMMA NoSelfLink ==
    ASSUME NEW x \in Node
    PROVE  /\ Bunch(x) \subseteq Node \ {x}
           /\ Cluster(x) \subseteq Node \ {x}
BY DEF Bunch, Cluster

(* The nearest node of a level is in the bunch. *)
LEMMA NearestInBunch ==
    ASSUME IsMetric(dist), level \in Levels, NEW v \in Node,
           NEW l \in 0..(K - 1), PDist(v, l) \in Node \ {v}
    PROVE  PDist(v, l) \in Bunch(v)
<1> DEFINE u == PDist(v, l)
<1>1. dist \in [Node -> [Node -> Nat]] /\ level \in [Node -> 0..(K - 1)]
    BY DEF IsMetric, Levels
<1>2. AtLevel(l) # {}
    BY NodeAssumption DEF PDist, NoName
<1>3. u \in AtLevel(l) /\ ADist(v, l) = dist[v][u]
    BY <1>1, <1>2, PDistNearest
<1>4. level[u] \in 0..(K - 1) /\ level[u] >= l
    BY <1>1, <1>3 DEF AtLevel
<1> HIDE DEF u
<1>5. CASE l = K - 1
    BY <1>3, <1>4, <1>5, KAssumption DEF Bunch, u
<1>6. CASE l # K - 1
    <2>1. l \in 0..(K - 2) /\ l \in Nat /\ l + 1 \in Nat /\ l <= l + 1
        BY <1>6, KAssumption
    <2>2. dist[v][u] <= ADist(v, l + 1)
        BY <1>1, <1>3, <2>1, ADistMonotone
    <2> QED  BY <1>1, <1>4, <2>1, <2>2, NearIsInBunch DEF u
<1> QED  BY <1>5, <1>6

(* The tables are those of level and dist, which never change. *)
LEMMA TablesFrame ==
    ASSUME UNCHANGED <<level, dist>>
    PROVE  /\ \A n \in Node, l \in 0..(K - 1) : PDist(n, l)' = PDist(n, l)
           /\ \A n \in Node : Bunch(n)' = Bunch(n) /\ Cluster(n)' = Cluster(n)
<1>1. ASSUME NEW n, NEW l PROVE PDist(n, l)' = PDist(n, l) /\ ADist(n, l)' = ADist(n, l)
    BY DEF PDist, ADist, AtLevel, IsFirstNearest
<1>2. ASSUME NEW n, NEW d, NEW l PROVE checkDistance(n, d, l)' = checkDistance(n, d, l)
    BY <1>1 DEF checkDistance
<1>3. ASSUME NEW n PROVE Bunch(n)' = Bunch(n)
    BY <1>2 DEF Bunch
<1> QED  BY <1>1, <1>3 DEF Cluster

-----------------------------------------------------------------------------
(* One step of RemoveLinks takes at most one link away. *)

(* y leaves the bunch of x, and x the cluster of y. *)
RemovesLink(x, y) ==
    /\ OptimalBunch' = [OptimalBunch EXCEPT ![x] = @ \ {y}]
    /\ OptimalCluster' = [OptimalCluster EXCEPT ![y] = @ \ {x}]
    /\ ~IsInPDist(y, x)
    /\ cbd' = NoDistance(x, y) \/ cbd' = NoDistance(y, x)

LEMMA ClusterRemoval ==
    ASSUME OptimizeTypeOK, RemoveFromCluster
    PROVE  \E c \in Node : RemovesLink(c, a) /\ pos' = c
<1> DEFINE c == Min(ClusterTodo)
<1>1. ClusterTodo \in SUBSET Node /\ ClusterTodo # {}
    BY DEF OptimizeTypeOK, ClusterTodo, RemoveFromCluster
<1>2. c \in ClusterTodo /\ c \in Node
    BY <1>1, MinIsLeast
<1>3. ~IsInPDist(a, c)
    BY <1>2 DEF ClusterTodo, CanRemoveFromCluster
<1>4. RemovesLink(c, a) /\ pos' = c
    BY <1>3 DEF RemovesLink, RemoveFromCluster
<1> QED  BY <1>2, <1>4

(* The three ways of a turn of the bunch loop. *)
LEMMA BunchStepWays ==
    ASSUME OptimizeTypeOK, BunchStep
    PROVE  /\ pos' \in Node \cup {-1}
           /\ nrPerLevel' \subseteq Node
           /\ Priority' = Priority \/ Priority' = PriorityFor(nrPerLevel)
           /\ \/ UNCHANGED <<linkVars, nredges>>
              \/ \E b \in OptimalBunch[a] : RemovesLink(a, b) /\ nredges' = nredges - 1
<1> DEFINE b == Min(BunchTodo)
<1>1. BunchTodo \in SUBSET Node /\ BunchTodo # {}
    BY DEF OptimizeTypeOK, BunchTodo, BunchStep
<1>2. b \in BunchTodo /\ b \in Node
    BY <1>1, MinIsLeast
<1>3. b \in OptimalBunch[a]
    BY <1>2 DEF BunchTodo
<1>4. nrPerLevel \subseteq Node
    BY DEF OptimizeTypeOK
<1> HIDE DEF b
<1>5. CASE /\ nrPerLevel' = nrPerLevel \ {b} /\ pos' = b
           /\ UNCHANGED <<linkVars, nredges, Priority>>
    BY <1>2, <1>4, <1>5
<1>6. CASE /\ Priority' = PriorityFor(nrPerLevel) /\ pos' = b
           /\ UNCHANGED <<linkVars, nredges, nrPerLevel>>
    BY <1>2, <1>4, <1>6
<1>7. CASE /\ ~IsInPDist(b, a) /\ Priority' = PriorityFor(nrPerLevel)
           /\ nrPerLevel' = nrPerLevel \ {b}
           /\ OptimalBunch' = [OptimalBunch EXCEPT ![a] = @ \ {b}]
           /\ OptimalCluster' = [OptimalCluster EXCEPT ![b] = @ \ {a}]
           /\ cbd' = NoDistance(a, b)
           /\ nredges' = nredges - 1 /\ pos' = -1
    <2>1. RemovesLink(a, b)
        BY <1>7 DEF RemovesLink
    <2> QED  BY <1>3, <1>4, <1>7, <2>1
<1> QED  BY <1>5, <1>6, <1>7 DEF BunchStep, b

(* NoDistance, entry by entry. *)
LEMMA NoDistanceEntries ==
    ASSUME cbd \in [Node -> [Node -> 0..MaxFloat]], NEW x \in Node, NEW y \in Node
    PROVE  /\ NoDistance(x, y) \in [Node -> [Node -> 0..MaxFloat]]
           /\ \A m, n \in Node :
                NoDistance(x, y)[m][n] = IF (m = x /\ n = y) \/ (m = y /\ n = x)
                                         THEN MaxFloat ELSE cbd[m][n]
<1> DEFINE once == [cbd EXCEPT ![x][y] = MaxFloat]
<1>1. MaxFloat \in 0..MaxFloat
    BY MaxFloatAssumption
<1>2. once \in [Node -> [Node -> 0..MaxFloat]]
    BY <1>1
<1>3. \A m, n \in Node : once[m][n] = IF m = x /\ n = y THEN MaxFloat ELSE cbd[m][n]
    OBVIOUS
<1>4. NoDistance(x, y) = [once EXCEPT ![y][x] = MaxFloat]
    BY DEF NoDistance
<1> HIDE DEF once
<1>5. NoDistance(x, y) \in [Node -> [Node -> 0..MaxFloat]]
    BY <1>1, <1>2, <1>4
<1>6. \A m, n \in Node : NoDistance(x, y)[m][n] = IF m = y /\ n = x THEN MaxFloat ELSE once[m][n]
    BY <1>2, <1>4
<1> QED  BY <1>3, <1>5, <1>6

LEMMA RemovalTypes ==
    ASSUME OptimizeTypeOK, NEW x \in Node, NEW y \in Node, RemovesLink(x, y)
    PROVE  /\ OptimalBunch' \in [Node -> SUBSET Node]
           /\ OptimalCluster' \in [Node -> SUBSET Node]
           /\ cbd' \in [Node -> [Node -> 0..MaxFloat]]
<1>1. cbd \in [Node -> [Node -> 0..MaxFloat]]
    BY DEF OptimizeTypeOK
<1>2. /\ NoDistance(x, y) \in [Node -> [Node -> 0..MaxFloat]]
      /\ NoDistance(y, x) \in [Node -> [Node -> 0..MaxFloat]]
    BY <1>1, NoDistanceEntries
<1>3. cbd' \in [Node -> [Node -> 0..MaxFloat]]
    BY <1>2, Zenon DEF RemovesLink
<1> QED  BY <1>3 DEF OptimizeTypeOK, RemovesLink

LEMMA NextNodeType ==
    ASSUME a \in Node, NextNode
    PROVE  a' \in Node /\ pc' \in {"done", "node"}
<1>1. CASE a = Max(Node)
    BY <1>1 DEF NextNode
<1>2. CASE a # Max(Node)
    <2> DEFINE S == {n \in Node : n > a}
    <2>1. S # {}
        <3> SUFFICES ASSUME \A n \in Node : ~(n > a) PROVE a = Max(Node)
            BY <1>2
        <3>1. ASSUME NEW n \in Node PROVE a >= n
            <4>1. n \in Nat /\ a \in Nat /\ ~(n > a)
                BY NodeAssumption
            <4> QED  BY <4>1
        <3>2. Max(Node) \in Node /\ Max(Node) >= a
            BY <3>1 DEF Max
        <3>3. Max(Node) \in Nat /\ a \in Nat /\ a >= Max(Node)
            BY <3>1, <3>2, NodeAssumption
        <3> QED  BY <3>2, <3>3
    <2>2. a' = Min(S) /\ pc' = "node"
        BY <1>2 DEF NextNode
    <2> QED  BY <2>1, <2>2, MinIsLeast
<1> QED  BY <1>1, <1>2

LEMMA CountsAreNat ==
    ASSUME NEW S \in SUBSET Node
    PROVE  IsFiniteSet(S) /\ Cardinality(S) \in Nat
BY OptimizeAssumption, FS_Subset, FS_CardinalityType

-----------------------------------------------------------------------------
(* The types. *)

(* UpdateDistance keeps the distances in range: it only shortens them. *)
LEMMA RelaxedType ==
    ASSUME OptimizeTypeOK, NEW n \in Node
    PROVE  /\ Relaxed(n) \in 0..MaxFloat
           /\ cbd[a][n] \in Nat /\ cbd[a][crtNode] \in Nat /\ cbd[crtNode][n] \in Nat
           /\ Relaxed(n) <= cbd[a][n]
<1>1. /\ cbd[a][n] \in 0..MaxFloat /\ cbd[a][crtNode] \in 0..MaxFloat
      /\ cbd[crtNode][n] \in 0..MaxFloat
    BY DEF OptimizeTypeOK
<1> QED  BY <1>1, MaxFloatAssumption DEF Relaxed, IsShorter, Through

LEMMA TypesNext == OptimizeTypeOK /\ Next => OptimizeTypeOK'
<1> SUFFICES ASSUME OptimizeTypeOK, Next PROVE OptimizeTypeOK'
    OBVIOUS
<1> USE KAssumption, OptimizeAssumption
<1>1. CASE StartNode
    <2>1. Neighbours(a) \in SUBSET Node
        BY NoSelfLink DEF Neighbours, OptimizeTypeOK
    <2>2. OptimalBunch[a] \in SUBSET Node
        BY DEF OptimizeTypeOK
    <2>3. nredges' \in Nat /\ nrPerLevel' \subseteq Node
        BY <1>1, <2>1, <2>2, CountsAreNat DEF StartNode
    <2> QED  BY <1>1, <2>3 DEF StartNode, OptimizeTypeOK, linkVars, visitVars
<1>2. CASE RemoveFromCluster
    <2>1. PICK c \in Node : RemovesLink(c, a) /\ pos' = c
        BY <1>2, ClusterRemoval
    <2>2. nredges' \in Nat
        BY <1>2 DEF RemoveFromCluster, TooMany, OptimizeTypeOK
    <2>3. /\ OptimalBunch' \in [Node -> SUBSET Node]
          /\ OptimalCluster' \in [Node -> SUBSET Node]
          /\ cbd' \in [Node -> [Node -> 0..MaxFloat]]
        BY <2>1, RemovalTypes DEF OptimizeTypeOK
    <2> QED  BY <1>2, <2>1, <2>2, <2>3 DEF RemoveFromCluster, OptimizeTypeOK, visitVars
<1>3. CASE NextClusterPriority
    <2>1. Priority' \in -1..(K + 1)
        BY <1>3 DEF NextClusterPriority, OptimizeTypeOK
    <2> QED  BY <1>3, <2>1 DEF NextClusterPriority, OptimizeTypeOK, linkVars, visitVars
<1>4. CASE BunchStep
    <2>1. Priority' \in -1..(K + 1)
        BY <1>4, BunchStepWays DEF PriorityFor, OptimizeTypeOK
    <2>2. pos' \in Node \cup {-1} /\ nrPerLevel' \subseteq Node
        BY <1>4, BunchStepWays
    <2>3. /\ OptimalBunch' \in [Node -> SUBSET Node]
          /\ OptimalCluster' \in [Node -> SUBSET Node]
          /\ cbd' \in [Node -> [Node -> 0..MaxFloat]]
          /\ nredges' \in Nat
        <3>1. CASE UNCHANGED <<linkVars, nredges>>
            BY <3>1 DEF OptimizeTypeOK, linkVars
        <3>2. CASE \E b \in OptimalBunch[a] : RemovesLink(a, b) /\ nredges' = nredges - 1
            <4>1. PICK b \in Node : RemovesLink(a, b) /\ nredges' = nredges - 1
                BY <3>2 DEF OptimizeTypeOK
            <4>2. nredges' \in Nat
                BY <1>4, <4>1 DEF BunchStep, TooMany, OptimizeTypeOK
            <4> QED  BY <4>1, <4>2, RemovalTypes DEF OptimizeTypeOK
        <3> QED  BY <1>4, <3>1, <3>2, BunchStepWays
    <2> QED  BY <1>4, <2>1, <2>2, <2>3 DEF BunchStep, OptimizeTypeOK, visitVars
<1>5. CASE BunchAgain
    BY <1>5 DEF BunchAgain, OptimizeTypeOK, linkVars, visitVars
<1>6. CASE StartUpdate
    <2>1. a' \in Node /\ pc' \in {"done", "node", "update"}
        BY <1>6, NextNodeType DEF StartUpdate, OptimizeTypeOK
    <2> QED  BY <1>6, <2>1 DEF StartUpdate, OptimizeTypeOK, linkVars
<1>7. CASE VisitNext
    <2>1. cbd' \in [Node -> [Node -> 0..MaxFloat]]
        BY <1>7, RelaxedType DEF VisitNext, OptimizeTypeOK
    <2>2. Links' \in [Node -> [Node -> SUBSET Node]]
        <3>1. ASSUME NEW n \in Node
              PROVE  (IF IsShorter(n) THEN Links[a][n] \cup {crtNode} ELSE Links[a][n]) \in SUBSET Node
            BY DEF OptimizeTypeOK
        <3> QED  BY <1>7, <3>1 DEF VisitNext, OptimizeTypeOK
    <2>3. visited' \subseteq Node /\ crtNode' \in Node /\ pc' \in {"update", "panic"}
        BY <1>7 DEF VisitNext, OptimizeTypeOK
    <2> QED  BY <1>7, <2>1, <2>2, <2>3 DEF VisitNext, OptimizeTypeOK
<1>8. CASE EndUpdate
    <2>1. a' \in Node /\ pc' \in {"done", "node"}
        BY <1>8, NextNodeType DEF EndUpdate, OptimizeTypeOK
    <2> QED  BY <1>8, <2>1 DEF EndUpdate, OptimizeTypeOK, linkVars, visitVars
<1> QED  BY <1>1, <1>2, <1>3, <1>4, <1>5, <1>6, <1>7, <1>8 DEF Next

-----------------------------------------------------------------------------
(* What a step does to links and distances. *)

(* Every step of the optimisation leaves the links alone or removes one. *)
LEMMA OneLinkAtMost ==
    ASSUME OptimizeTypeOK, Next
    PROVE  /\ UNCHANGED <<level, dist, OptType>>
           /\ \/ UNCHANGED <<OptimalBunch, OptimalCluster>> /\ (UNCHANGED cbd \/ VisitNext)
              \/ \E x, y \in Node : RemovesLink(x, y)
<1>1. UNCHANGED <<level, dist, OptType>>
    BY DEF Next, StartNode, RemoveFromCluster, NextClusterPriority, BunchStep, BunchAgain,
           StartUpdate, VisitNext, EndUpdate
<1>2. CASE RemoveFromCluster
    <2>1. a \in Node
        BY DEF OptimizeTypeOK
    <2> QED  BY <1>1, <1>2, <2>1, ClusterRemoval
<1>3. CASE BunchStep
    <2>1. CASE UNCHANGED <<linkVars, nredges>>
        BY <1>1, <2>1 DEF linkVars
    <2>2. CASE \E b \in OptimalBunch[a] : RemovesLink(a, b) /\ nredges' = nredges - 1
        <3>1. PICK b \in Node : RemovesLink(a, b)
            BY <2>2 DEF OptimizeTypeOK
        <3>2. a \in Node
            BY DEF OptimizeTypeOK
        <3> QED  BY <1>1, <3>1, <3>2
    <2> QED  BY <1>3, <2>1, <2>2, BunchStepWays
<1>4. CASE VisitNext
    BY <1>1, <1>4 DEF VisitNext
<1>5. CASE StartNode \/ NextClusterPriority \/ BunchAgain \/ StartUpdate \/ EndUpdate
    BY <1>1, <1>5 DEF StartNode, NextClusterPriority, BunchAgain, StartUpdate, EndUpdate, linkVars
<1> QED  BY <1>2, <1>3, <1>4, <1>5 DEF Next

LEMMA NearestNext == OptimizeTypeOK /\ NearestKept /\ Next => NearestKept'
<1> SUFFICES ASSUME OptimizeTypeOK, NearestKept, Next PROVE NearestKept'
    OBVIOUS
<1>0. \A n \in Node, l \in 0..(K - 1) : PDist(n, l)' = PDist(n, l)
    BY OneLinkAtMost, TablesFrame
<1> SUFFICES ASSUME NEW n \in Node, NEW l \in 0..(K - 1), PDist(n, l) \in Node \ {n}
             PROVE  PDist(n, l) \in OptimalBunch'[n]
    BY <1>0 DEF NearestKept
<1>1. PDist(n, l) \in OptimalBunch[n]
    BY DEF NearestKept
<1>2. CASE UNCHANGED OptimalBunch
    BY <1>1, <1>2
<1>3. ASSUME NEW x \in Node, NEW y \in Node, RemovesLink(x, y)
      PROVE  PDist(n, l) \in OptimalBunch'[n]
    <2>1. n = x => PDist(n, l) # y
        BY <1>3 DEF RemovesLink, IsInPDist
    <2>2. OptimalBunch'[n] = IF n = x THEN OptimalBunch[n] \ {y} ELSE OptimalBunch[n]
        BY <1>3 DEF RemovesLink, OptimizeTypeOK
    <2> QED  BY <1>1, <2>1, <2>2
<1> QED  BY <1>2, <1>3, OneLinkAtMost

LEMMA SelfNext ==
    ASSUME OptimizeTypeOK, Next,
           \A n \in Node : n \notin OptimalBunch[n] \cup OptimalCluster[n]
    PROVE  \A n \in Node : n \notin OptimalBunch'[n] \cup OptimalCluster'[n]
<1>1. CASE UNCHANGED <<OptimalBunch, OptimalCluster>>
    BY <1>1
<1>2. ASSUME NEW x \in Node, NEW y \in Node, RemovesLink(x, y)
      PROVE  \A n \in Node : n \notin OptimalBunch'[n] \cup OptimalCluster'[n]
    BY <1>2 DEF RemovesLink, OptimizeTypeOK
<1> QED  BY <1>1, <1>2, OneLinkAtMost

(* A detour is as long as a way between the two nodes. *)
LEMMA DetourIsReal ==
    ASSUME OptimizeTypeOK, DistancesSound, NEW n \in Node
    PROVE  dist[a][n] <= Relaxed(n)
<1>1. IsMetric(dist) /\ a \in Node /\ crtNode \in Node
    BY MetricsAssumption DEF OptimizeTypeOK
<1>2. /\ cbd[a][n] \in Nat /\ cbd[a][crtNode] \in Nat /\ cbd[crtNode][n] \in Nat
    BY RelaxedType
<1>3. /\ dist[a][crtNode] <= cbd[a][crtNode]
      /\ dist[crtNode][n] <= cbd[crtNode][n]
      /\ dist[a][n] <= cbd[a][n]
    BY <1>1 DEF DistancesSound
<1>4. /\ dist[a][crtNode] \in Nat /\ dist[crtNode][n] \in Nat /\ dist[a][n] \in Nat
      /\ dist[a][n] <= dist[a][crtNode] + dist[crtNode][n]
    BY <1>1, MetricFacts
<1>5. dist[a][n] <= Through(n)
    BY <1>2, <1>3, <1>4 DEF Through
<1> QED  BY <1>3, <1>5 DEF Relaxed

LEMMA DistancesNext == OptimizeTypeOK /\ DistancesSound /\ Next => DistancesSound'
<1> SUFFICES ASSUME OptimizeTypeOK, DistancesSound, Next, NEW m \in Node, NEW n \in Node
             PROVE  cbd'[m][n] = cbd'[n][m] /\ dist[m][n] <= cbd'[m][n]
    BY OneLinkAtMost DEF DistancesSound
<1>1. IsMetric(dist)
    BY MetricsAssumption DEF OptimizeTypeOK
<1>2. dist[m][n] \in Nat /\ dist[m][n] < MaxFloat /\ dist[m][n] = dist[n][m]
    BY <1>1, MetricFacts
<1>3. cbd[m][n] = cbd[n][m] /\ dist[m][n] <= cbd[m][n]
    BY DEF DistancesSound
<1>4. CASE UNCHANGED cbd
    BY <1>3, <1>4
<1>5. ASSUME NEW x \in Node, NEW y \in Node, RemovesLink(x, y)
      PROVE  cbd'[m][n] = cbd'[n][m] /\ dist[m][n] <= cbd'[m][n]
    <2> DEFINE gone == (m = x /\ n = y) \/ (m = y /\ n = x)
    <2>1. cbd \in [Node -> [Node -> 0..MaxFloat]]
        BY DEF OptimizeTypeOK
    <2>3. /\ cbd'[m][n] = IF gone THEN MaxFloat ELSE cbd[m][n]
          /\ cbd'[n][m] = IF gone THEN MaxFloat ELSE cbd[n][m]
        <3>1. CASE cbd' = NoDistance(x, y)
            BY <2>1, <3>1, NoDistanceEntries
        <3>2. CASE cbd' = NoDistance(y, x)
            BY <2>1, <3>2, NoDistanceEntries
        <3> QED  BY <1>5, <3>1, <3>2 DEF RemovesLink
    <2> QED  BY <1>2, <1>3, <2>3, MaxFloatAssumption
<1>6. CASE VisitNext
    <2> DEFINE new(u, v) == IF u = a THEN Relaxed(v) ELSE IF v = a THEN Relaxed(u) ELSE cbd[u][v]
    <2>1. cbd'[m][n] = new(m, n) /\ cbd'[n][m] = new(n, m)
        BY <1>6 DEF VisitNext
    <2>2. dist[a][n] <= Relaxed(n) /\ dist[a][m] <= Relaxed(m)
        BY DetourIsReal
    <2>3. a \in Node
        BY DEF OptimizeTypeOK
    <2>4. dist[a][m] = dist[m][a]
        BY <1>1, <2>3, MetricFacts
    <2> QED  BY <1>3, <2>1, <2>2, <2>4
<1> QED  BY <1>4, <1>5, <1>6, OneLinkAtMost

-----------------------------------------------------------------------------
(* The bound on the bunches. *)

(* The roster is finite, so it has a last node: the one after which fewest *)
(* nodes come.                                                             *)
LEMMA LastNode == \E m \in Node : \A n \in Node : m >= n
<1> DEFINE After(m) == {n \in Node : n > m}
           C == {Cardinality(After(m)) : m \in Node}
<1>1. \A m \in Node : Cardinality(After(m)) \in Nat
    BY CountsAreNat
<1>2. C \in SUBSET Nat /\ C # {}
    BY <1>1, OptimizeAssumption
<1>3. PICK c \in C : \A x \in C : c <= x
    BY <1>2, LeastNat
<1>4. PICK m \in Node : c = Cardinality(After(m))
    BY <1>3
<1>5. \A n \in Node : c <= Cardinality(After(n))
    BY <1>3
<1> HIDE DEF After, C
<1>6. ASSUME NEW n \in Node PROVE m >= n
    <2>1. m \in Nat /\ n \in Nat /\ \A k \in Node : k \in Nat
        BY NodeAssumption
    <2> SUFFICES ASSUME n > m PROVE FALSE
        BY <2>1
    <2>2. ~(n > n)
        BY <2>1
    <2>3. After(n) \in SUBSET After(m)
        <3>1. ASSUME NEW k \in Node, k > n PROVE k > m
            BY <2>1, <3>1
        <3> QED  BY <3>1 DEF After
    <2>4. n \in After(m) /\ n \notin After(n)
        BY <2>2 DEF After
    <2>5. IsFiniteSet(After(m))
        <3>1. After(m) \in SUBSET Node
            BY DEF After
        <3> QED  BY <3>1, CountsAreNat
    <2>6. Cardinality(After(n)) <= Cardinality(After(m)) /\ Cardinality(After(n)) # Cardinality(After(m))
        BY <2>3, <2>4, <2>5, FS_Subset
    <2>7. Cardinality(After(m)) <= Cardinality(After(n))
        BY <1>4, <1>5
    <2> QED  BY <1>1, <2>6, <2>7
<1> QED  BY <1>6

(* The next node, or none, is reached when all before it are through. *)
LEMMA NextNodeOrder ==
    ASSUME a \in Node, NextNode
    PROVE  /\ \A n \in Node : n < a' => n < a \/ n = a
           /\ pc' = "done" => \A n \in Node : n <= a
<1>1. a \in Nat /\ \A n \in Node : n \in Nat
    BY NodeAssumption
<1>2. CASE a = Max(Node)
    <2>1. \E m \in Node : \A n \in Node : m >= n
        BY LastNode
    <2>2. \A n \in Node : a >= n
        BY <1>2, <2>1 DEF Max
    <2> QED  BY <1>1, <1>2, <2>2 DEF NextNode
<1>3. CASE a # Max(Node)
    <2> DEFINE S == {n \in Node : n > a}
    <2>1. a' = Min(S) /\ pc' = "node"
        BY <1>3 DEF NextNode
    <2>2. ASSUME NEW n \in Node, n < a' PROVE n < a \/ n = a
        <3>1. n \notin S
            <4> SUFFICES ASSUME n \in S PROVE FALSE
                OBVIOUS
            <4>1. Min(S) \in S /\ Min(S) <= n
                BY MinIsLeast
            <4>2. Min(S) \in Nat /\ n \in Nat
                BY <4>1, <1>1
            <4> QED  BY <2>1, <2>2, <4>1, <4>2
        <3>2. n \in Nat /\ ~(n > a)
            BY <1>1, <3>1
        <3> QED  BY <1>1, <3>2
    <2> QED  BY <2>1, <2>2
<1> QED  BY <1>2, <1>3

LEMMA BunchNext == OptimizeTypeOK /\ BunchInv /\ Next => BunchInv'
<1> SUFFICES ASSUME OptimizeTypeOK, BunchInv, Next, OptType # 1, OptType' = OptType
             PROVE  BunchInv'
    BY OneLinkAtMost DEF BunchInv
<1> DEFINE Size(n) == Cardinality(OptimalBunch[n])
<1>1. /\ pc # "cluster"
      /\ \A n \in Node : n < a => Size(n) <= MaxLinks
      /\ pc = "bunch" => nredges = Size(a)
      /\ pc = "update" => Size(a) <= MaxLinks
    BY DEF BunchInv
<1>2. a \in Node /\ OptimalBunch \in [Node -> SUBSET Node]
    BY DEF OptimizeTypeOK
<1>3. CASE StartNode
    BY <1>1, <1>3 DEF StartNode, BunchInv, linkVars
<1>4. CASE RemoveFromCluster
    BY <1>1, <1>4 DEF RemoveFromCluster
<1>5. CASE NextClusterPriority
    BY <1>1, <1>5 DEF NextClusterPriority
<1>6. CASE BunchStep
    <2>0. pc = "bunch" /\ pc' = "bunch" /\ a' = a
        BY <1>6 DEF BunchStep
    <2>1. CASE UNCHANGED <<linkVars, nredges>>
        BY <1>1, <2>0, <2>1 DEF BunchInv, linkVars
    <2>2. CASE \E b \in OptimalBunch[a] : RemovesLink(a, b) /\ nredges' = nredges - 1
        <3>1. PICK b \in OptimalBunch[a] : RemovesLink(a, b) /\ nredges' = nredges - 1
            BY <2>2
        <3>2. /\ OptimalBunch'[a] = OptimalBunch[a] \ {b}
              /\ \A n \in Node \ {a} : OptimalBunch'[n] = OptimalBunch[n]
            BY <1>2, <3>1 DEF RemovesLink
        <3>3. IsFiniteSet(OptimalBunch[a])
            BY <1>2, CountsAreNat
        <3>4. Cardinality(OptimalBunch'[a]) = Size(a) - 1
            BY <3>2, <3>3, FS_RemoveElement
        <3>5. ASSUME NEW n \in Node, n < a PROVE Cardinality(OptimalBunch'[n]) <= MaxLinks
            <4>1. n # a
                BY <1>2, <3>5, NodeAssumption
            <4> QED  BY <1>1, <3>2, <3>5, <4>1
        <3> QED  BY <1>1, <2>0, <3>1, <3>4, <3>5 DEF BunchInv
    <2> QED  BY <1>6, <2>1, <2>2, BunchStepWays
<1>7. CASE BunchAgain
    BY <1>1, <1>7 DEF BunchAgain, BunchInv, linkVars
<1>8. ASSUME Size(a) <= MaxLinks, NextNode, UNCHANGED OptimalBunch
      PROVE  BunchInv'
    <2>1. /\ \A n \in Node : n < a' => n < a \/ n = a
          /\ pc' = "done" => \A n \in Node : n <= a
        BY <1>2, <1>8, NextNodeOrder
    <2>2. \A n \in Node : n < a' => Cardinality(OptimalBunch'[n]) <= MaxLinks
        BY <1>1, <1>8, <2>1
    <2>3. pc' \in {"done", "node"} /\ (pc' = "done" => a' = a)
        BY <1>8 DEF NextNode
    <2> QED  BY <1>8, <2>1, <2>2, <2>3 DEF BunchInv
<1>9. CASE StartUpdate
    <2>1. Size(a) <= MaxLinks
        <3>1. Size(a) \in Nat
            BY <1>2, CountsAreNat
        <3> QED  BY <1>1, <1>9, <3>1, OptimizeAssumption DEF StartUpdate, TooMany
    <2>2. UNCHANGED OptimalBunch
        BY <1>9 DEF StartUpdate, linkVars
    <2>3. CASE NextNode
        BY <1>8, <2>1, <2>2, <2>3
    <2>4. CASE pc' = "update" /\ UNCHANGED a
        BY <1>1, <2>1, <2>2, <2>4 DEF BunchInv
    <2> QED  BY <1>9, <2>3, <2>4 DEF StartUpdate
<1>10. CASE VisitNext
    <2>1. pc' \in {"update", "panic"} /\ UNCHANGED <<a, OptimalBunch>> /\ pc = "update"
        BY <1>10 DEF VisitNext
    <2> QED  BY <1>1, <2>1 DEF BunchInv
<1>11. CASE EndUpdate
    BY <1>1, <1>8, <1>11 DEF EndUpdate, linkVars
<1> QED  BY <1>3, <1>4, <1>5, <1>6, <1>7, <1>9, <1>10, <1>11 DEF Next

(* What CreateLocalityGraph leaves is a good start. *)
LEMMA OptimizeInit == Init => OptimizeInv /\ NearestKept /\ DistancesSound
<1> SUFFICES ASSUME Init PROVE OptimizeInv /\ NearestKept /\ DistancesSound
    OBVIOUS
<1> USE KAssumption
<1>1. IsMetric(dist) /\ level \in Levels /\ dist \in Metrics
    BY MetricsAssumption DEF Init
<1>2. \A n \in Node : OptimalBunch[n] = Bunch(n) /\ OptimalCluster[n] = Cluster(n)
    BY DEF Init
<1>3. \A n \in Node : Bunch(n) \subseteq Node \ {n} /\ Cluster(n) \subseteq Node \ {n}
    BY NoSelfLink
<1>4. \A m, n \in Node : cbd[m][n] = ClusterBunchDistances(m, n)
    BY DEF Init
<1>5. ASSUME NEW m \in Node, NEW n \in Node
      PROVE  /\ ClusterBunchDistances(m, n) \in 0..MaxFloat
             /\ ClusterBunchDistances(m, n) = ClusterBunchDistances(n, m)
             /\ dist[m][n] <= ClusterBunchDistances(m, n)
    <2>1. /\ dist[m][n] \in Nat /\ dist[m][n] < MaxFloat /\ dist[m][n] = dist[n][m]
          /\ dist[m][m] = 0
        BY <1>1, MetricFacts
    <2>2. n \in Bunch(m) \cup Cluster(m) <=> m \in Bunch(n) \cup Cluster(n)
        BY LinksSymmetric DEF Neighbours
    <2> QED  BY <2>1, <2>2, MaxFloatAssumption DEF ClusterBunchDistances
<1>6. a \in Node /\ \A n \in Node : ~(n < a)
    <2>1. a = Min(Node) /\ Node # {}
        BY OptimizeAssumption DEF Init
    <2>2. Min(Node) \in Node /\ \A n \in Node : Min(Node) <= n
        BY <2>1, MinIsLeast
    <2>3. ASSUME NEW n \in Node PROVE ~(n < a)
        <3>1. n \in Nat /\ a \in Nat /\ a <= n
            BY <2>1, <2>2, NodeAssumption
        <3> QED  BY <3>1
    <2> QED  BY <2>1, <2>2, <2>3
<1>7. OptimizeTypeOK
    <2>1. cbd \in [Node -> [Node -> 0..MaxFloat]]
        BY <1>5 DEF Init
    <2>2. /\ OptimalBunch \in [Node -> SUBSET Node]
          /\ OptimalCluster \in [Node -> SUBSET Node]
        BY <1>3 DEF Init
    <2> QED  BY <1>1, <1>6, <2>1, <2>2 DEF Init, OptimizeTypeOK
<1>8. BunchInv
    BY <1>6 DEF BunchInv, Init
<1>9. NearestKept
    BY <1>1, <1>2, NearestInBunch DEF NearestKept
<1>10. DistancesSound
    BY <1>4, <1>5 DEF DistancesSound
<1> QED  BY <1>2, <1>3, <1>7, <1>8, <1>9, <1>10 DEF OptimizeInv

LEMMA OptimizeNext == OptimizeInv /\ Next => OptimizeInv'
BY TypesNext, BunchNext, SelfNext DEF OptimizeInv

-----------------------------------------------------------------------------
(* The graph that is not optimised: some node is linked to all others. *)

(* The highest level that has nodes. *)
LEMMA HighestLevel ==
    ASSUME level \in Levels
    PROVE  \E l \in 0..(K - 1) : AtLevel(l) # {} /\ \A j \in (l + 1)..(K - 1) : AtLevel(j) = {}
<1>0. K \in Nat /\ K >= 2
    BY KAssumption
<1> DEFINE S == {k \in 0..(K - 1) : AtLevel(K - 1 - k) # {}}
<1>1. S \in SUBSET Nat
    BY <1>0
<1>2. K - 1 \in S
    <2>1. Root \in Node /\ level[Root] \in 0..(K - 1)
        BY OptimizeAssumption DEF Levels
    <2>2. Root \in AtLevel(0)
        BY <1>0, <2>1 DEF AtLevel
    <2>3. K - 1 - (K - 1) = 0 /\ K - 1 \in 0..(K - 1)
        BY <1>0
    <2> QED  BY <2>2, <2>3
<1>3. PICK k \in S : \A x \in S : k <= x
    BY <1>1, <1>2, LeastNat
<1> DEFINE l == K - 1 - k
<1>4. l \in 0..(K - 1) /\ AtLevel(l) # {} /\ k \in 0..(K - 1)
    BY <1>0, <1>3
<1>5. ASSUME NEW j \in (l + 1)..(K - 1) PROVE AtLevel(j) = {}
    <2>1. K - 1 - j \in 0..(K - 1) /\ K - 1 - j < k /\ K - 1 - (K - 1 - j) = j
        BY <1>0, <1>4
    <2>2. K - 1 - j \notin S
        BY <1>3, <1>4, <2>1
    <2> QED  BY <2>1, <2>2
<1> HIDE DEF l
<1> QED  BY <1>4, <1>5

LEMMA Hub ==
    ASSUME IsMetric(dist), level \in Levels
    PROVE  \E h \in Node : \A v \in Node \ {h} : h \in Bunch(v)
<1>0. K \in Nat /\ K >= 2 /\ MaxFloat \in Nat
    BY KAssumption, MaxFloatAssumption
<1>1. PICK l \in 0..(K - 1) : AtLevel(l) # {} /\ \A j \in (l + 1)..(K - 1) : AtLevel(j) = {}
    BY HighestLevel
<1>2. PICK h \in Node : level[h] >= l
    BY <1>1 DEF AtLevel
<1>3. level[h] \in 0..(K - 1)
    BY DEF Levels
<1>4. ASSUME NEW v \in Node \ {h} PROVE h \in Bunch(v)
    <2>1. CASE l = K - 1
        <3>1. level[h] = K - 1
            BY <1>0, <1>2, <1>3, <2>1
        <3> QED  BY <3>1 DEF Bunch
    <2>2. CASE l # K - 1
        <3>1. l \in 0..(K - 2)
            BY <1>0, <2>2
        <3>2. dist[v][h] \in Nat /\ dist[v][h] < MaxFloat
            BY MetricFacts
        <3>3. ASSUME NEW j \in (l + 1)..(K - 1) PROVE dist[v][h] <= ADist(v, j)
            <4>1. ADist(v, j) = MaxFloat
                BY <1>1 DEF ADist
            <4> QED  BY <1>0, <3>2, <4>1
        <3>4. checkDistance(v, dist[v][h], l)
            BY <3>3 DEF checkDistance
        <3> QED  BY <1>2, <3>1, <3>4 DEF Bunch
    <2> QED  BY <2>1, <2>2
<1> QED  BY <1>4

(* So every node is at most two links away from the root. *)
LEMMA TwoLinksReachAll ==
    ASSUME IsMetric(dist), level \in Levels,
           \A n \in Node : OptimalLinks(n) = Neighbours(n)
    PROVE  WithinTwo = Node
<1>1. PICK h \in Node : \A v \in Node \ {h} : h \in Bunch(v)
    BY Hub
<1>2. \A v \in Node \ {h} : h \in OptimalLinks(v) /\ v \in OptimalLinks(h)
    BY <1>1, LinksSymmetric DEF Neighbours
<1>3. \A n \in Node : OptimalLinks(n) \subseteq Node
    BY NoSelfLink DEF Neighbours
<1>4. Root \in Node
    BY OptimizeAssumption
<1>5. h \in Around({Root})
    BY <1>2, <1>4 DEF Around
<1>6. Around({Root}) \subseteq Node
    BY <1>3, <1>4 DEF Around
<1>7. Node \subseteq WithinTwo
    BY <1>2, <1>5 DEF WithinTwo, Around
<1>8. WithinTwo \subseteq Node
    BY <1>3, <1>6 DEF WithinTwo, Around
<1> QED  BY <1>7, <1>8

-----------------------------------------------------------------------------
(* The walk. *)

(* The links of a node are nodes, and not itself. *)
LEMMA LinksType ==
    ASSUME OptimizeInv, NEW n \in Node
    PROVE  OptimalLinks(n) \in SUBSET (Node \ {n})
BY DEF OptimizeInv, OptimizeTypeOK, OptimalLinks

(* CreateAndSetChildren processes one node and undoes no other. *)
LEMMA ProcessOne ==
    ASSUME OptimizeInv, WalkTypeOK, GraphKept, NEW n \in Node, CreateAndSetChildren(n),
           UNCHANGED <<OptimalBunch, OptimalCluster>>
    PROVE  /\ NodeList' \subseteq Node /\ Root \in NodeList'
           /\ Children' \in [Node -> SUBSET Node] /\ Parent' \in [Node -> Node \cup {NoName}]
           /\ nrProcessedNodes' = nrProcessedNodes + 1 /\ nrProcessedNodes' \in Nat
           /\ \A m \in Node : OptimalLinks(m)' = OptimalLinks(m)
           /\ Processed(n)' /\ Children'[n] = OptimalLinks(n)
           /\ \A m \in Node : Processed(m) => Processed(m)'
           /\ \A m \in Node : Children'[m] \in {{}, OptimalLinks(m)}
           /\ \A m \in Node : Parent'[m] \in Node => m \in Children'[Parent'[m]]
<1>1. OptimalLinks(n) \in SUBSET Node
    BY LinksType
<1>2. \A m : OptimalLinks(m)' = OptimalLinks(m)
    BY DEF OptimalLinks
<1>3. /\ Children \in [Node -> SUBSET Node] /\ Parent \in [Node -> Node \cup {NoName}]
      /\ NodeList \subseteq Node /\ Root \in NodeList /\ nrProcessedNodes \in Nat
    BY DEF WalkTypeOK
<1>4. /\ \A m \in Node : Children[m] \in {{}, OptimalLinks(m)}
      /\ \A m \in Node : Parent[m] \in Node => m \in Children[Parent[m]]
    BY DEF GraphKept
<1>5. /\ Children' = [Children EXCEPT ![n] = @ \cup OptimalLinks(n)]
      /\ Parent' = [c \in Node |-> IF c \in OptimalLinks(n) \ NodeList THEN n ELSE Parent[c]]
      /\ NodeList' = NodeList \cup OptimalLinks(n)
      /\ nrProcessedNodes' = nrProcessedNodes + 1
    BY DEF CreateAndSetChildren
<1>6. /\ Children' \in [Node -> SUBSET Node] /\ Parent' \in [Node -> Node \cup {NoName}]
    BY <1>1, <1>3, <1>5
<1>7. /\ Children'[n] = OptimalLinks(n)
      /\ \A m \in Node \ {n} : Children'[m] = Children[m]
    BY <1>3, <1>4, <1>5
<1>8. Processed(n)'
    BY <1>2, <1>5, <1>7 DEF Processed
<1>9. ASSUME NEW m \in Node, Processed(m) PROVE Processed(m)'
    BY <1>2, <1>5, <1>7, <1>9 DEF Processed
<1>10. ASSUME NEW m \in Node, Parent'[m] \in Node PROVE m \in Children'[Parent'[m]]
    <2>1. CASE m \in OptimalLinks(n) \ NodeList
        BY <1>5, <1>7, <2>1
    <2>2. CASE m \notin OptimalLinks(n) \ NodeList
        <3>1. Parent'[m] = Parent[m]
            BY <1>5, <2>2
        <3>2. m \in Children[Parent[m]]
            BY <1>4, <1>10, <3>1
        <3>3. Children[Parent[m]] \subseteq Children'[Parent[m]]
            BY <1>4, <1>7, <1>10, <3>1
        <3> QED  BY <3>1, <3>2, <3>3
    <2> QED  BY <2>1, <2>2
<1>11. NodeList' \subseteq Node /\ Root \in NodeList' /\ nrProcessedNodes' \in Nat
    BY <1>1, <1>3, <1>5
<1>12. \A m \in Node : Children'[m] \in {{}, OptimalLinks(m)}
    BY <1>4, <1>7
<1> QED  BY <1>2, <1>5, <1>6, <1>7, <1>8, <1>9, <1>10, <1>11, <1>12

-----------------------------------------------------------------------------
(* The steps of the composition keep TreeInv. *)

(* The walk does not touch the graph. *)
LEMMA OptimizeFrame == OptimizeInv /\ UNCHANGED <<level, dist, optVars>> => OptimizeInv'
BY DEF OptimizeInv, OptimizeTypeOK, BunchInv, optVars, linkVars, visitVars

(* What a call of CreateAndSetChildren keeps of the invariant. *)
LEMMA ProcessKeeps ==
    ASSUME TreeInv, NEW n \in Node, CreateAndSetChildren(n),
           UNCHANGED <<level, dist, optVars, Optimized>>,
           walk' # "no", Optimized => pc = "done", Processed(Root)'
    PROVE  OptimizeInv' /\ GraphKept'
<1>1. OptimizeInv /\ WalkTypeOK /\ GraphKept
    BY DEF TreeInv
<1>2. OptimizeInv'
    BY <1>1, OptimizeFrame
<1>3. UNCHANGED <<OptimalBunch, OptimalCluster, pc>>
    BY DEF optVars, linkVars
<1>4. /\ \A m \in Node : OptimalLinks(m)' = OptimalLinks(m)
      /\ \A m \in Node : Children'[m] \in {{}, OptimalLinks(m)}
      /\ \A m \in Node : Parent'[m] \in Node => m \in Children'[Parent'[m]]
    BY <1>1, <1>3, ProcessOne
<1>5. [m \in Node |-> Bunch(m)]' = [m \in Node |-> Bunch(m)]
    BY TablesFrame
<1>6. [m \in Node |-> Cluster(m)]' = [m \in Node |-> Cluster(m)]
    BY TablesFrame
<1>7. ~Optimized' => /\ OptimalBunch' = [m \in Node |-> Bunch(m)]'
                     /\ OptimalCluster' = [m \in Node |-> Cluster(m)]'
    BY <1>1, <1>3, <1>5, <1>6 DEF GraphKept
<1>8. Optimized' => pc' = "done"
    BY <1>3
<1> QED  BY <1>2, <1>4, <1>7, <1>8 DEF GraphKept

LEMMA OptimizeStep == TreeInv /\ Optimize => TreeInv'
<1> SUFFICES ASSUME TreeInv, Optimize PROVE TreeInv'
    OBVIOUS
<1>1. /\ Next /\ Optimized /\ UNCHANGED <<Optimized, walkVars>>
    BY DEF Optimize
<1>2. pc # "done"
    BY <1>1 DEF Next, StartNode, RemoveFromCluster, NextClusterPriority, BunchStep, BunchAgain,
                StartUpdate, VisitNext, EndUpdate
<1>3. walk = "no"
    BY <1>1, <1>2 DEF TreeInv, GraphKept
<1>4. OptimizeInv'
    BY <1>1, OptimizeNext DEF TreeInv
<1>5. WalkTypeOK'
    BY <1>1 DEF TreeInv, WalkTypeOK, walkVars
<1>6. WalkInv'
    BY <1>1, <1>3 DEF WalkInv, walkVars
<1>7. GraphKept'
    <2>1. /\ UNCHANGED <<Optimized, walk, Children, Parent, nrProcessedNodes>>
        BY <1>1 DEF walkVars
    <2>2. /\ Children = [n \in Node |-> {}] /\ nrProcessedNodes = 0
          /\ \A n \in Node : Parent[n] \in Node => n \in Children[Parent[n]]
        BY <1>3 DEF TreeInv, GraphKept
    <2> QED  BY <1>1, <1>3, <2>1, <2>2 DEF GraphKept
<1> QED  BY <1>4, <1>5, <1>6, <1>7 DEF TreeInv

LEMMA ProcessRootStep == TreeInv /\ ProcessRoot => TreeInv'
<1> SUFFICES ASSUME TreeInv, ProcessRoot PROVE TreeInv'
    OBVIOUS
<1>1. OptimizeInv /\ WalkTypeOK /\ GraphKept
    BY DEF TreeInv
<1>2. /\ walk = "no" /\ walk' = "children" /\ CreateAndSetChildren(Root)
      /\ range' = OptimalLinks(Root) /\ Root \in Node
      /\ UNCHANGED <<level, dist, optVars, Optimized, nextLevelNodes>>
      /\ Optimized => pc = "done"
    BY OptimizeAssumption DEF ProcessRoot
<1>3. UNCHANGED <<OptimalBunch, OptimalCluster>>
    BY <1>2 DEF optVars, linkVars
<1>4. /\ NodeList' \subseteq Node /\ Root \in NodeList'
      /\ Children' \in [Node -> SUBSET Node] /\ Parent' \in [Node -> Node \cup {NoName}]
      /\ nrProcessedNodes' = nrProcessedNodes + 1 /\ nrProcessedNodes' \in Nat
      /\ OptimalLinks(Root)' = OptimalLinks(Root)
      /\ Processed(Root)'
    BY <1>1, <1>2, <1>3, ProcessOne
<1>5. OptimalLinks(Root) \in SUBSET Node
    BY <1>1, <1>2, LinksType
<1>6. WalkTypeOK'
    BY <1>1, <1>2, <1>4, <1>5 DEF WalkTypeOK
<1>7. WalkInv'
    <2>1. nrProcessedNodes' = 1
        BY <1>1, <1>2, <1>4 DEF GraphKept
    <2> QED  BY <1>2, <1>4, <2>1 DEF WalkInv
<1>8. OptimizeInv' /\ GraphKept'
    BY <1>2, <1>4, ProcessKeeps
<1> QED  BY <1>6, <1>7, <1>8 DEF TreeInv

LEMMA ProcessChildStep == TreeInv /\ ProcessChild => TreeInv'
<1> SUFFICES ASSUME TreeInv, ProcessChild PROVE TreeInv'
    OBVIOUS
<1>1. OptimizeInv /\ WalkTypeOK /\ GraphKept /\ WalkInv
    BY DEF TreeInv
<1>2. /\ walk = "children" /\ walk' = "children"
      /\ UNCHANGED <<level, dist, optVars, Optimized>>
    BY DEF ProcessChild
<1>3. PICK n \in range : /\ CreateAndSetChildren(n)
                         /\ nextLevelNodes' = nextLevelNodes \cup Children'[n]
                         /\ range' = range \ {n}
    BY DEF ProcessChild
<1>4. n \in Node /\ Root \in Node /\ range \subseteq Node /\ nextLevelNodes \subseteq Node
    BY <1>1, OptimizeAssumption DEF WalkTypeOK
<1>5. UNCHANGED <<OptimalBunch, OptimalCluster>>
    BY <1>2 DEF optVars, linkVars
<1>6. /\ NodeList' \subseteq Node /\ Root \in NodeList'
      /\ Children' \in [Node -> SUBSET Node] /\ Parent' \in [Node -> Node \cup {NoName}]
      /\ nrProcessedNodes' = nrProcessedNodes + 1 /\ nrProcessedNodes' \in Nat
      /\ \A m \in Node : OptimalLinks(m)' = OptimalLinks(m)
      /\ Processed(n)' /\ Children'[n] = OptimalLinks(n)
      /\ \A m \in Node : Processed(m) => Processed(m)'
    BY <1>1, <1>3, <1>4, <1>5, ProcessOne
<1>7. Processed(Root)' /\ (Optimized => pc = "done")
    BY <1>1, <1>2, <1>4, <1>6 DEF GraphKept
<1>8. OptimizeInv' /\ GraphKept'
    BY <1>2, <1>3, <1>4, <1>7, ProcessKeeps
<1>9. WalkTypeOK'
    BY <1>1, <1>2, <1>3, <1>4, <1>6 DEF WalkTypeOK
<1>10. WalkInv'
    <2>1. /\ range \subseteq OptimalLinks(Root)
          /\ nrProcessedNodes + Cardinality(range) = 1 + Cardinality(OptimalLinks(Root))
          /\ \A m \in OptimalLinks(Root) \ range :
               Processed(m) /\ OptimalLinks(m) \subseteq nextLevelNodes
        BY <1>1, <1>2 DEF WalkInv
    <2>2. Cardinality(range') = Cardinality(range) - 1 /\ Cardinality(range) \in Nat
        BY <1>3, <1>4, CountsAreNat, FS_RemoveElement
    <2>3. OptimalLinks(Root) \in SUBSET Node /\ Cardinality(OptimalLinks(Root)) \in Nat
        BY <1>1, <1>4, LinksType, CountsAreNat
    <2>4. nrProcessedNodes' + Cardinality(range') = 1 + Cardinality(OptimalLinks(Root))
        <3>1. nrProcessedNodes \in Nat
            BY <1>1 DEF WalkTypeOK
        <3> QED  BY <1>6, <2>1, <2>2, <2>3, <3>1
    <2>5. ASSUME NEW m \in OptimalLinks(Root) \ range'
          PROVE  Processed(m)' /\ OptimalLinks(m)' \subseteq nextLevelNodes'
        BY <1>3, <1>6, <2>1, <2>3
    <2>6. OptimalLinks(Root)' = OptimalLinks(Root)
        BY <1>4, <1>6
    <2>7. range' \subseteq OptimalLinks(Root)
        BY <1>3, <2>1
    <2> QED  BY <1>2, <2>4, <2>5, <2>6, <2>7 DEF WalkInv
<1> QED  BY <1>8, <1>9, <1>10 DEF TreeInv

LEMMA ProcessNextStep == TreeInv /\ ProcessNext => TreeInv'
<1> SUFFICES ASSUME TreeInv, ProcessNext PROVE TreeInv'
    OBVIOUS
<1>1. OptimizeInv /\ WalkTypeOK /\ GraphKept /\ WalkInv
    BY DEF TreeInv
<1>2. /\ walk = "levels" /\ walk' = "levels"
      /\ UNCHANGED <<level, dist, optVars, Optimized>>
    BY DEF ProcessNext
<1>3. PICK n \in range : /\ CreateAndSetChildren(n)
                         /\ nextLevelNodes' = nextLevelNodes \cup Children'[n]
                         /\ \E seen \in SUBSET (nextLevelNodes' \ nextLevelNodes) :
                               range' = (range \ {n}) \cup seen
    BY DEF ProcessNext
<1>4. n \in Node /\ Root \in Node /\ range \subseteq Node /\ nextLevelNodes \subseteq Node
    BY <1>1, OptimizeAssumption DEF WalkTypeOK
<1>5. UNCHANGED <<OptimalBunch, OptimalCluster>>
    BY <1>2 DEF optVars, linkVars
<1>6. /\ NodeList' \subseteq Node /\ Root \in NodeList'
      /\ Children' \in [Node -> SUBSET Node] /\ Parent' \in [Node -> Node \cup {NoName}]
      /\ nrProcessedNodes' \in Nat
      /\ \A m \in Node : OptimalLinks(m)' = OptimalLinks(m)
      /\ Processed(n)' /\ Children'[n] = OptimalLinks(n)
      /\ \A m \in Node : Processed(m) => Processed(m)'
    BY <1>1, <1>3, <1>4, <1>5, ProcessOne
<1>7. Processed(Root)' /\ (Optimized => pc = "done")
    BY <1>1, <1>2, <1>4, <1>6 DEF GraphKept
<1>8. OptimizeInv' /\ GraphKept'
    BY <1>2, <1>3, <1>4, <1>7, ProcessKeeps
<1>9. nextLevelNodes' \subseteq Node /\ range' \subseteq Node /\ range \ {n} \subseteq range'
    BY <1>3, <1>4, <1>6
<1>10. WalkTypeOK'
    BY <1>1, <1>2, <1>6, <1>9 DEF WalkTypeOK
<1>11. WalkInv'
    <2>1. OptimalLinks(Root) \in SUBSET Node /\ \A m \in Node : OptimalLinks(m) \in SUBSET Node
        BY <1>1, <1>4, LinksType
    <2>2. ASSUME NEW m \in OptimalLinks(Root)
          PROVE  /\ Processed(m)' /\ OptimalLinks(m)' \subseteq nextLevelNodes'
                 /\ \A k \in OptimalLinks(m)' \ range' : Processed(k)'
        <3>1. /\ Processed(m) /\ OptimalLinks(m) \subseteq nextLevelNodes
              /\ \A k \in OptimalLinks(m) \ range : Processed(k)
            BY <1>1, <1>2 DEF WalkInv
        <3>2. m \in Node /\ OptimalLinks(m)' = OptimalLinks(m) /\ OptimalLinks(m) \subseteq Node
            BY <1>6, <2>1
        <3>3. ASSUME NEW k \in OptimalLinks(m) \ range' PROVE Processed(k)'
            <4>1. k = n \/ k \notin range
                BY <1>9, <3>3
            <4> QED  BY <1>6, <3>1, <3>2, <4>1
        <3> QED  BY <1>3, <1>6, <3>1, <3>2, <3>3
    <2>3. OptimalLinks(Root)' = OptimalLinks(Root)
        BY <1>4, <1>6
    <2> QED  BY <1>2, <2>2, <2>3 DEF WalkInv
<1> QED  BY <1>8, <1>10, <1>11 DEF TreeInv

LEMMA EndRangeStep == TreeInv /\ EndRange => TreeInv'
<1> SUFFICES ASSUME TreeInv, EndRange PROVE TreeInv'
    OBVIOUS
<1>1. OptimizeInv /\ WalkTypeOK /\ GraphKept /\ WalkInv /\ Root \in Node
    BY OptimizeAssumption DEF TreeInv
<1>2. /\ walk \in {"children", "levels"} /\ range = {}
      /\ UNCHANGED <<level, dist, optVars, Optimized, NodeList, Children, Parent,
                     nrProcessedNodes, nextLevelNodes>>
      /\ \/ walk' = "levels" /\ range' = nextLevelNodes
         \/ /\ walk' = "done" /\ range' = range
            /\ ~(nrProcessedNodes <= Cardinality(Node) /\ Children[Root] # {})
    BY DEF EndRange
<1>3. UNCHANGED <<OptimalBunch, OptimalCluster, pc>>
    BY <1>2 DEF optVars, linkVars
<1>4. OptimizeInv'
    BY <1>1, <1>2, OptimizeFrame
<1>5. WalkTypeOK'
    BY <1>1, <1>2 DEF WalkTypeOK
<1>6. /\ \A m : OptimalLinks(m)' = OptimalLinks(m)
      /\ \A m : Processed(m)' <=> Processed(m)
    BY <1>2, <1>3 DEF OptimalLinks, Processed
<1>7. WithinTwo' = WithinTwo
    BY <1>6 DEF WithinTwo, Around
<1>8. GraphKept'
    <2>1. /\ [m \in Node |-> Bunch(m)]' = [m \in Node |-> Bunch(m)]
          /\ [m \in Node |-> Cluster(m)]' = [m \in Node |-> Cluster(m)]
        BY <1>2, TablesFrame
    <2> QED  BY <1>1, <1>2, <1>3, <1>6, <2>1 DEF GraphKept
<1>9. OptimalLinks(Root) \in SUBSET (Node \ {Root}) /\ Processed(Root)
    BY <1>1, <1>2, LinksType DEF GraphKept
<1>10. ASSUME walk = "children" PROVE WalkInv'
    <2>1. /\ nrProcessedNodes + Cardinality(range) = 1 + Cardinality(OptimalLinks(Root))
          /\ \A n \in OptimalLinks(Root) :
               Processed(n) /\ OptimalLinks(n) \subseteq nextLevelNodes
        BY <1>1, <1>2, <1>10 DEF WalkInv
    <2>2. nrProcessedNodes <= Cardinality(Node)
        <3>1. /\ IsFiniteSet(Node) /\ IsFiniteSet(Node \ {Root})
              /\ Cardinality(Node \ {Root}) = Cardinality(Node) - 1
            BY <1>1, OptimizeAssumption, FS_RemoveElement
        <3>2. Cardinality(OptimalLinks(Root)) <= Cardinality(Node \ {Root})
            BY <1>9, <3>1, FS_Subset
        <3>3. Cardinality(range) = 0
            BY <1>2, FS_EmptySet
        <3>4. /\ Cardinality(Node) \in Nat /\ Cardinality(OptimalLinks(Root)) \in Nat
              /\ nrProcessedNodes \in Nat
            BY <1>1, <1>9, CountsAreNat DEF WalkTypeOK
        <3> QED  BY <2>1, <3>1, <3>2, <3>3, <3>4
    <2>3. CASE walk' = "levels" /\ range' = nextLevelNodes
        BY <1>2, <1>6, <2>1, <2>3 DEF WalkInv
    <2>4. CASE walk' = "done" /\ Children[Root] = {}
        <3>1. OptimalLinks(Root) = {}
            BY <1>9, <2>4 DEF Processed
        <3>2. WithinTwo = {Root}
            BY <3>1 DEF WithinTwo, Around
        <3> QED  BY <1>6, <1>7, <1>9, <2>4, <3>2 DEF WalkInv
    <2> QED  BY <1>2, <2>2, <2>3, <2>4
<1>11. ASSUME walk = "levels" PROVE WalkInv'
    <2>1. \A n \in OptimalLinks(Root) :
            /\ Processed(n) /\ OptimalLinks(n) \subseteq nextLevelNodes
            /\ \A m \in OptimalLinks(n) : Processed(m)
        BY <1>1, <1>2, <1>11 DEF WalkInv
    <2>2. CASE walk' = "levels" /\ range' = nextLevelNodes
        BY <1>2, <1>6, <2>1, <2>2 DEF WalkInv
    <2>3. CASE walk' = "done"
        <3>1. \A n \in WithinTwo : Processed(n)
            BY <1>9, <2>1 DEF WithinTwo, Around
        <3> QED  BY <1>6, <1>7, <2>3, <3>1 DEF WalkInv
    <2> QED  BY <1>2, <2>2, <2>3
<1> QED  BY <1>2, <1>4, <1>5, <1>8, <1>10, <1>11 DEF TreeInv

LEMMA TreeInvInit == TreeInit => TreeInv
<1> SUFFICES ASSUME TreeInit PROVE TreeInv
    OBVIOUS
<1>1. OptimizeInv
    BY OptimizeInit DEF TreeInit
<1>2. WalkTypeOK
    BY OptimizeAssumption DEF TreeInit, WalkTypeOK
<1>3. \A n \in Node : Parent[n] \notin Node
    <2>1. NoName \notin Node
        BY NodeAssumption DEF NoName
    <2> QED  BY <2>1 DEF TreeInit
<1>4. GraphKept
    BY <1>3 DEF TreeInit, GraphKept, Init
<1>5. WalkInv
    BY DEF TreeInit, WalkInv
<1> QED  BY <1>1, <1>2, <1>4, <1>5 DEF TreeInv

LEMMA TreeInvStutter == TreeInv /\ UNCHANGED allVars => TreeInv'
<1> SUFFICES ASSUME TreeInv, UNCHANGED allVars PROVE TreeInv'
    OBVIOUS
<1>1. UNCHANGED <<level, dist, optVars>> /\ UNCHANGED <<Optimized, walkVars>>
    BY DEF allVars
<1>2. OptimizeInv'
    BY <1>1, OptimizeFrame DEF TreeInv
<1>3. /\ UNCHANGED <<OptimalBunch, OptimalCluster, pc, Optimized, NodeList, Children, Parent,
                     nrProcessedNodes, nextLevelNodes, range, walk>>
    BY <1>1 DEF optVars, linkVars, walkVars
<1>4. WalkTypeOK'
    BY <1>3 DEF TreeInv, WalkTypeOK
<1>5. /\ [m \in Node |-> Bunch(m)]' = [m \in Node |-> Bunch(m)]
      /\ [m \in Node |-> Cluster(m)]' = [m \in Node |-> Cluster(m)]
    BY <1>1, TablesFrame
<1>6. /\ \A m : OptimalLinks(m)' = OptimalLinks(m)
      /\ \A m : Processed(m)' <=> Processed(m)
    BY <1>3 DEF OptimalLinks, Processed
<1>7. GraphKept'
    BY <1>3, <1>5, <1>6 DEF TreeInv, GraphKept
<1>8. WithinTwo' = WithinTwo
    BY <1>6 DEF WithinTwo, Around
<1>9. WalkInv'
    BY <1>3, <1>6, <1>8 DEF TreeInv, WalkInv
<1> QED  BY <1>2, <1>4, <1>7, <1>9 DEF TreeInv

(* TreeInv is inductive: through the optimisation, in whatever order the   *)
(* bridges are found, and through the walk over what is left of the graph. *)
THEOREM TreeInvariance == TreeSpec => []TreeInv
<1>1. TreeInv /\ [TreeNext]_allVars => TreeInv'
    BY OptimizeStep, ProcessRootStep, ProcessChildStep, ProcessNextStep, EndRangeStep,
       TreeInvStutter DEF TreeNext
<1> QED  BY <1>1, TreeInvInit, PTL DEF TreeSpec

(* The steps of the walk change neither graph nor distances. *)
LEMMA WalkFrame ==
    ASSUME [TreeNext]_allVars, ~Optimize
    PROVE  UNCHANGED <<level, dist, OptimalBunch, cbd>>
BY DEF TreeNext, ProcessRoot, ProcessChild, ProcessNext, EndRange, allVars, optVars, linkVars

(* RemoveLinks never takes the link to a nearest node from anyone, whoever *)
(* starts the removal: the loop of approxDistance finds them all.          *)
THEOREM NearestKeptThm == TreeSpec => []NearestKept
<1>1. TreeInit => NearestKept
    BY OptimizeInit DEF TreeInit
<1>2. TreeInv /\ NearestKept /\ [TreeNext]_allVars => NearestKept'
    <2> SUFFICES ASSUME TreeInv, NearestKept, [TreeNext]_allVars PROVE NearestKept'
        OBVIOUS
    <2>1. CASE Optimize
        BY <2>1, NearestNext DEF Optimize, TreeInv, OptimizeInv
    <2>2. CASE ~Optimize
        <3>1. UNCHANGED <<level, dist, OptimalBunch>>
            BY <2>2, WalkFrame
        <3>2. \A n \in Node, l \in 0..(K - 1) : PDist(n, l)' = PDist(n, l)
            BY <3>1, TablesFrame
        <3> QED  BY <3>1, <3>2 DEF NearestKept
    <2> QED  BY <2>1, <2>2
<1> QED  BY <1>1, <1>2, TreeInvariance, PTL DEF TreeSpec

(* Whatever RemoveLinks resets and UpdateDistance finds, the entries of    *)
(* ClusterBunchDistances are symmetric and never below the true distance.  *)
THEOREM DistancesSoundThm == TreeSpec => []DistancesSound
<1>1. TreeInit => DistancesSound
    BY OptimizeInit DEF TreeInit
<1>2. TreeInv /\ DistancesSound /\ [TreeNext]_allVars => DistancesSound'
    <2> SUFFICES ASSUME TreeInv, DistancesSound, [TreeNext]_allVars PROVE DistancesSound'
        OBVIOUS
    <2>1. CASE Optimize
        BY <2>1, DistancesNext DEF Optimize, TreeInv, OptimizeInv
    <2>2. CASE ~Optimize
        <3>1. UNCHANGED <<dist, cbd>>
            BY <2>2, WalkFrame
        <3> QED  BY <3>1 DEF DistancesSound
    <2> QED  BY <2>1, <2>2
<1> QED  BY <1>1, <1>2, TreeInvariance, PTL DEF TreeSpec

(* When only bunches are optimised and RemoveLinks ends, max bounds every  *)
(* bunch, whatever the order in which links were lost.                     *)
THEOREM BunchBoundThm == TreeSpec => []BunchBound
<1>1. TreeInv => BunchBound
    <2> SUFFICES ASSUME TreeInv, pc = "done", OptType # 1, NEW n \in Node
                 PROVE  Cardinality(OptimalBunch[n]) <= MaxLinks
        BY DEF BunchBound
    <2>1. /\ \A m \in Node : m < a => Cardinality(OptimalBunch[m]) <= MaxLinks
          /\ Cardinality(OptimalBunch[a]) <= MaxLinks
          /\ n <= a
        BY DEF TreeInv, OptimizeInv, BunchInv
    <2>2. n \in Nat /\ a \in Nat
        BY NodeAssumption DEF TreeInv, OptimizeInv, OptimizeTypeOK
    <2>3. n < a \/ n = a
        BY <2>1, <2>2
    <2> QED  BY <2>1, <2>3
<1> QED  BY <1>1, TreeInvariance, PTL

(* However the map order and the repeated count come out, the walk of      *)
(* CreateOnetLPTree processes every node up to two links from the root.    *)
THEOREM WalkReachesThm == TreeSpec => []WalkReaches
<1>1. TreeInv => WalkReaches
    <2> SUFFICES ASSUME TreeInv, walk = "done" PROVE WalkReaches
        BY DEF WalkReaches
    <2>1. \A n \in WithinTwo : Processed(n)
        BY DEF TreeInv, WalkInv
    <2>2. WithinTwo \subseteq NodeList
        <3>1. Root \in NodeList /\ \A n \in Around({Root}) : Processed(n)
            BY <2>1 DEF TreeInv, WalkTypeOK, WithinTwo, Around
        <3>2. Around({Root}) \subseteq NodeList
            BY <2>1, <3>1 DEF Around, Processed
        <3> QED  BY <3>1, <3>2 DEF WithinTwo, Around, Processed
    <2> QED  BY <2>1, <2>2 DEF WalkReaches, Around, Processed
<1> QED  BY <1>1, TreeInvariance, PTL

(* On the graph as CreateLocalityGraph builds it some node is linked to    *)
(* all others, so the walk gives every node of the roster its tree node,   *)
(* and neighbours agree: the assumption of the multicast and of BFTCoSi.   *)
THEOREM NeighborsAgreeThm == TreeSpec => []NeighborsAgree
<1>1. TreeInv => NeighborsAgree
    <2> SUFFICES ASSUME TreeInv, walk = "done", ~Optimized PROVE NeighborsAgree
        BY DEF NeighborsAgree
    <2>1. IsMetric(dist) /\ level \in Levels
        BY MetricsAssumption DEF TreeInv, OptimizeInv, OptimizeTypeOK
    <2>2. \A n \in Node : OptimalLinks(n) = Neighbours(n)
        BY DEF TreeInv, GraphKept, OptimalLinks, Neighbours
    <2>3. WithinTwo = Node
        BY <2>1, <2>2, TwoLinksReachAll
    <2>4. \A n \in Node : Children[n] = Neighbours(n) /\ Neighbours(n) \subseteq NodeList
        BY <2>2, <2>3 DEF TreeInv, WalkInv, Processed
    <2>5. NodeList = Node
        <3>1. NodeList \subseteq Node /\ Root \in NodeList
            BY DEF TreeInv, WalkTypeOK
        <3>2. ASSUME NEW n \in Node PROVE n \in NodeList
            <4>1. n \in Around(Around({Root}))
                BY <2>3 DEF WithinTwo
            <4>2. Around({Root}) \subseteq Node
                BY <2>3 DEF WithinTwo, Around
            <4>3. \A m \in Node : OptimalLinks(m) \subseteq NodeList
                BY <2>2, <2>4
            <4>4. Around({Root}) \subseteq NodeList
                BY <3>1, <4>3, OptimizeAssumption DEF Around
            <4> QED  BY <4>1, <4>2, <4>3, <4>4 DEF Around
        <3> QED  BY <3>1, <3>2
    <2>6. ASSUME NEW n \in Node PROVE NeighborsOf(n) = Neighbours(n)
        <3>1. ASSUME Parent[n] \in Node PROVE Parent[n] \in Neighbours(n)
            <4>1. n \in Children[Parent[n]]
                BY <3>1 DEF TreeInv, GraphKept
            <4>2. n \in Neighbours(Parent[n])
                BY <2>4, <3>1, <4>1
            <4> QED  BY <3>1, <4>2, LinksSymmetric
        <3> QED  BY <2>4, <3>1 DEF NeighborsOf
    <2>7. \A m, n \in Node : m \in NeighborsOf(n) <=> n \in NeighborsOf(m)
        BY <2>6, LinksSymmetric
    <2> QED  BY <2>5, <2>7 DEF NeighborsAgree
<1> QED  BY <1>1, TreeInvariance, PTL
=============================================================================
