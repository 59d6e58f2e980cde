----------------------- MODULE DistanceOracle_proofs -----------------------
(***************************************************************************)
(* The oracle's loop ends below the number of levels and its answer is     *)
(* within the stretch 2K-1, for every set of nodes, every number of levels *)
(* (at least two), every assignment of levels and every metric.            *)
(***************************************************************************)
EXTENDS DistanceOracle, LocalityGraph_proofs

-----------------------------------------------------------------------------
(* Multiplication as the loop needs it. *)
LEMMA Times ==
    ASSUME NEW n \in Nat, NEW D \in Nat
    PROVE  /\ n * D \in Nat
           /\ (n + 1) * D = n * D + D
           /\ (2 * n + 1) * D = 2 * (n * D) + D
OBVIOUS

LEMMA TimesMonotone ==
    ASSUME NEW n \in Nat, NEW m \in Nat, NEW D \in Nat, n <= m
    PROVE  n * D <= m * D
OBVIOUS

LEMMA LoopInvMetric ==
    ASSUME LoopInv
    PROVE  /\ IsMetric(dist)
           /\ U # V
           /\ dist[U][V] = dist[u0][v0] /\ dist[V][U] = dist[u0][v0]
           /\ dist[u0][v0] \in Nat
           /\ K \in Nat /\ K >= 2 /\ MaxFloat \in Nat
<1>1. IsMetric(dist)
    BY MetricsAssumption DEF LoopInv, OracleTypeOK
<1>2. u0 \in Node /\ v0 \in Node /\ u0 # v0
    BY DEF LoopInv, OracleTypeOK
<1>3. dist[u0][v0] = dist[v0][u0] /\ dist[u0][v0] \in Nat
    BY <1>1, <1>2, MetricFacts
<1>4. (U = u0 /\ V = v0) \/ (U = v0 /\ V = u0)
    BY DEF LoopInv
<1> QED  BY <1>1, <1>2, <1>3, <1>4, KAssumption, MaxFloatAssumption

(* The candidate is U itself or has a link to U: its entry in              *)
(* ClusterBunchDistances is set.                                           *)
LEMMA CandidateLinked ==
    ASSUME LoopInv, w # U
    PROVE  w \in Bunch(U)
<1>1. /\ IsMetric(dist) /\ level \in [Node -> 0..(K - 1)]
      /\ U \in Node /\ w \in Node \ {U} /\ i \in Nat /\ i < K
      /\ level[w] >= i /\ dist[U][w] = ADist(U, i)
      /\ K \in Nat /\ K >= 2
    BY LoopInvMetric DEF LoopInv, OracleTypeOK
<1>2. CASE i = 0
    <2>1. /\ ADist(U, 0) \in Nat
          /\ ADist(U, 0) <= ADist(U, 0 + 1)
        BY <1>1, ADistMonotone
    <2>2. 0 \in 0..(K - 2) /\ level[w] >= 0
        BY <1>1, <1>2
    <2> QED  BY <1>1, <1>2, <2>1, <2>2, NearIsInBunch
<1>3. CASE i # 0
    <2>1. /\ i - 1 \in 0..(K - 2)
          /\ (i - 1) + 1 = i
          /\ level[w] \in Nat
        BY <1>1, <1>3
    <2>2. level[w] >= i - 1
        BY <1>1, <2>1
    <2>3. /\ ADist(U, i) \in Nat
          /\ dist[U][w] <= ADist(U, (i - 1) + 1)
        BY <1>1, <2>1, ADistMonotone
    <2> QED  BY <1>1, <2>1, <2>2, <2>3, NearIsInBunch
<1> QED  BY <1>2, <1>3

(* The turn of the loop that does not find a common bunch node: there is a *)
(* level above, its node nearest to V is nearer than the old candidate,    *)
(* and it is not U.                                                        *)
LEMMA AdvanceFacts ==
    ASSUME LoopInv, w \notin Bunch(V)
    PROVE  /\ i + 1 < K
           /\ PDist(V, i + 1) \in Node
           /\ PDist(V, i + 1) # U
           /\ level[PDist(V, i + 1)] >= i + 1
           /\ dist[V][PDist(V, i + 1)] = ADist(V, i + 1)
           /\ dist[V][PDist(V, i + 1)] <= (i + 1) * dist[u0][v0]
<1>1. /\ IsMetric(dist) /\ level \in [Node -> 0..(K - 1)]
      /\ U \in Node /\ V \in Node \ {U} /\ w \in Node \ {V} /\ i \in Nat /\ i < K
      /\ level[w] >= i /\ dist[U][w] = ADist(U, i)
      /\ dist[U][w] <= i * dist[u0][v0]
      /\ dist[V][U] = dist[u0][v0] /\ dist[u0][v0] \in Nat
    BY LoopInvMetric DEF LoopInv, OracleTypeOK
<1> DEFINE P == PDist(V, i + 1)
<1>2. /\ i + 1 < K /\ P \in Node /\ P # U /\ level[P] >= i + 1
      /\ dist[V][P] = ADist(V, i + 1) /\ dist[V][P] < dist[V][w]
    BY <1>1, NextCandidate
<1> HIDE DEF P
<1>3. /\ dist[V][P] \in Nat /\ dist[V][w] \in Nat /\ dist[U][w] \in Nat
      /\ dist[V][w] <= dist[V][U] + dist[U][w]
    BY <1>1, <1>2, MetricFacts
<1>4. /\ i * dist[u0][v0] \in Nat
      /\ (i + 1) * dist[u0][v0] = i * dist[u0][v0] + dist[u0][v0]
    BY <1>1, Times
<1>5. dist[V][P] <= (i + 1) * dist[u0][v0]
    BY <1>1, <1>2, <1>3, <1>4
<1> QED  BY <1>2, <1>5 DEF P

-----------------------------------------------------------------------------
(* Initially the candidate is U itself, at distance zero. *)
LEMMA LoopInvInit == Init => LoopInv
<1> SUFFICES ASSUME Init PROVE LoopInv
    OBVIOUS
<1>1. OracleTypeOK
    BY KAssumption DEF Init, Levels, OracleTypeOK
<1>2. IsMetric(dist) /\ dist \in [Node -> [Node -> Nat]]
    BY <1>1, MetricsAssumption DEF OracleTypeOK, IsMetric
<1>3. U \in AtLevel(0)
    BY <1>1 DEF AtLevel, OracleTypeOK
<1>4. dist[U][U] = 0
    BY <1>1, <1>2, MetricFacts DEF OracleTypeOK
<1>5. ADist(U, 0) \in Nat /\ ADist(U, 0) <= dist[U][U]
    BY <1>1, <1>2, <1>3, PDistNearest DEF OracleTypeOK
<1>6. dist[u0][v0] \in Nat
    BY <1>1, <1>2, MetricFacts DEF OracleTypeOK
<1>7. dist[U][w] = ADist(U, i) /\ dist[U][w] <= i * dist[u0][v0]
    <2>1. 0 * dist[u0][v0] = 0
        BY <1>6
    <2> QED  BY <1>4, <1>5, <2>1 DEF Init
<1>8. i < K /\ w # V /\ level[w] >= i
    BY <1>1, KAssumption DEF Init, OracleTypeOK
<1> QED  BY <1>1, <1>7, <1>8 DEF Init, LoopInv

(* Every step of the loop keeps what it knows. *)
LEMMA LoopInvStep == LoopInv /\ [Next]_vars => LoopInv'
<1> SUFFICES ASSUME LoopInv, [Next]_vars PROVE LoopInv'
    OBVIOUS
<1>1. CASE Found
    <2>1. UNCHANGED <<level, dist, u0, v0, U, V, w, i>>
        BY <1>1 DEF Found, graph
    <2>2. ADist(U, i)' = ADist(U, i)
        BY <2>1 DEF ADist, PDist, AtLevel, IsFirstNearest
    <2>3. \A x, y \in Node : ClusterBunchDistances(x, y) \in Nat
        BY LoopInvMetric DEF ClusterBunchDistances, IsMetric
    <2>4. result' \in Nat
        <3>1. /\ ClusterBunchDistances(w, U) \in Nat
              /\ ClusterBunchDistances(w, V) \in Nat
            BY <2>3 DEF LoopInv, OracleTypeOK
        <3> QED  BY <1>1, <3>1 DEF Found
    <2>5. OracleTypeOK'
        BY <1>1, <2>1, <2>4 DEF Found, LoopInv, OracleTypeOK
    <2> QED  BY <2>1, <2>2, <2>5 DEF LoopInv
<1>2. CASE Advance
    <2>1. w \notin Bunch(V)
        BY <1>2 DEF Advance
    <2> DEFINE P == PDist(V, i + 1)
    <2>2. /\ i + 1 < K
          /\ P \in Node /\ P # U
          /\ level[P] >= i + 1
          /\ dist[V][P] = ADist(V, i + 1)
          /\ dist[V][P] <= (i + 1) * dist[u0][v0]
        BY <2>1, AdvanceFacts
    <2>3. /\ level' = level /\ dist' = dist /\ u0' = u0 /\ v0' = v0
          /\ U' = V /\ V' = U /\ i' = i + 1 /\ w' = P
          /\ pc' = pc /\ result' = result
        BY <1>2, <2>2 DEF Advance, graph
    <2>4. ADist(U, i)' = ADist(V, i + 1)
        BY <2>3 DEF ADist, PDist, AtLevel, IsFirstNearest
    <2> HIDE DEF P
    <2>5. OracleTypeOK'
        BY <2>2, <2>3 DEF LoopInv, OracleTypeOK
    <2>6. (U' = u0' /\ V' = v0') \/ (U' = v0' /\ V' = u0')
        BY <2>3 DEF LoopInv
    <2> QED  BY <2>2, <2>3, <2>4, <2>5, <2>6 DEF LoopInv
<1>3. CASE UNCHANGED vars
    <2>1. ADist(U, i)' = ADist(U, i)
        BY <1>3 DEF vars, ADist, PDist, AtLevel, IsFirstNearest
    <2> QED  BY <1>3, <2>1 DEF vars, LoopInv, OracleTypeOK
<1> QED  BY <1>1, <1>2, <1>3 DEF Next

(* The answer given in a state of the loop is within the bounds. *)
LEMMA FoundWithinStretch ==
    ASSUME LoopInv, Found
    PROVE  /\ dist[u0][v0] <= result'
           /\ result' <= (2 * K - 1) * dist[u0][v0]
<1> DEFINE D == dist[u0][v0]
<1>1. /\ IsMetric(dist)
      /\ U \in Node /\ V \in Node /\ w \in Node /\ i \in Nat /\ i < K
      /\ dist[U][w] <= i * D
      /\ K \in Nat
      /\ dist[U][V] = D /\ D \in Nat
    BY LoopInvMetric DEF LoopInv, OracleTypeOK
<1>2. /\ dist[w][U] = dist[U][w] /\ dist[w][V] = dist[V][w]
      /\ dist[U][w] \in Nat /\ dist[w][V] \in Nat /\ dist[w][w] = 0
      /\ dist[U][V] <= dist[U][w] + dist[w][V]
      /\ dist[w][V] <= dist[w][U] + dist[U][V]
    BY <1>1, MetricFacts
<1>3. ClusterBunchDistances(w, V) = dist[w][V]
    <2>1. w \in Bunch(V) /\ w # V
        BY DEF Found, LoopInv
    <2>2. V \in Cluster(w)
        BY <1>1, <2>1 DEF Cluster
    <2> QED  BY <2>1, <2>2 DEF ClusterBunchDistances
<1>4. ClusterBunchDistances(w, U) = dist[w][U]
    <2>1. CASE w = U
        BY <2>1, <1>2 DEF ClusterBunchDistances
    <2>2. CASE w # U
        <3>1. w \in Bunch(U)
            BY <2>2, CandidateLinked
        <3>2. U \in Cluster(w)
            BY <1>1, <2>2, <3>1 DEF Cluster
        <3> QED  BY <2>2, <3>2 DEF ClusterBunchDistances
    <2> QED  BY <2>1, <2>2
<1>5. result' = dist[U][w] + dist[w][V]
    BY <1>2, <1>3, <1>4 DEF Found
<1>6. result' <= (2 * i + 1) * D
    <2>1. /\ i * D \in Nat
          /\ (2 * i + 1) * D = 2 * (i * D) + D
        BY <1>1, Times
    <2> HIDE DEF D
    <2> QED  BY <1>1, <1>2, <1>5, <2>1
<1>7. (2 * i + 1) * D <= (2 * K - 1) * D
    <2>1. 2 * i + 1 \in Nat /\ 2 * K - 1 \in Nat /\ 2 * i + 1 <= 2 * K - 1
        BY <1>1
    <2> HIDE DEF D
    <2> QED  BY <1>1, <2>1, TimesMonotone
<1>8. /\ result' \in Nat
      /\ (2 * i + 1) * D \in Nat /\ (2 * K - 1) * D \in Nat
    <2>1. 2 * i + 1 \in Nat /\ 2 * K - 1 \in Nat
        BY <1>1
    <2> HIDE DEF D
    <2> QED  BY <1>1, <1>2, <1>5, <2>1, Times
<1>9. D <= result'
    BY <1>1, <1>2, <1>5
<1>10. result' <= (2 * K - 1) * D
    <2> HIDE DEF D
    <2> QED  BY <1>6, <1>7, <1>8
<1> QED  BY <1>9, <1>10

(***************************************************************************)
(* The loop invariant of approxDistance holds on every turn: the candidate *)
(* is the node of its level nearest to U, is not V, and is at most i times *)
(* the asked distance away.                                                *)
(***************************************************************************)
THEOREM LoopInvariance == Spec => []LoopInv
BY LoopInvInit, LoopInvStep, PTL DEF Spec

(***************************************************************************)
(* approxDistance never reaches "shouldn't get here!" (Save.go 602-605):   *)
(* whatever the levels and the coordinates, it finds a common bunch node   *)
(* before it runs out of levels.                                           *)
(***************************************************************************)
THEOREM NeverGetsHereThm == Spec => []NeverGetsHere
<1>1. LoopInv => NeverGetsHere
    BY DEF LoopInv, NeverGetsHere
<1> QED  BY <1>1, LoopInvariance, PTL

(***************************************************************************)
(* The distance approxDistance returns is at least the true distance and   *)
(* at most 2K-1 times as long.                                             *)
(***************************************************************************)
THEOREM StretchBoundThm == Spec => []StretchBound
<1>1. Init => StretchBound
    BY DEF Init, StretchBound
<1>2. LoopInv /\ StretchBound /\ [Next]_vars => StretchBound'
    <2> SUFFICES ASSUME LoopInv, StretchBound, [Next]_vars
                 PROVE  StretchBound'
        OBVIOUS
    <2>1. CASE Found
        <3>1. UNCHANGED <<dist, u0, v0>>
            BY <2>1 DEF Found, graph
        <3> QED  BY <2>1, <3>1, FoundWithinStretch DEF StretchBound
    <2>2. CASE Advance
        BY <2>2 DEF Advance, graph, StretchBound
    <2>3. CASE UNCHANGED vars
        BY <2>3 DEF vars, StretchBound
    <2> QED  BY <2>1, <2>2, <2>3 DEF Next
<1> QED  BY <1>1, <1>2, LoopInvariance, PTL DEF Spec
=============================================================================
