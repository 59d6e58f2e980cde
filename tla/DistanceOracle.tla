--------------------------- MODULE DistanceOracle ---------------------------
(***************************************************************************)
(* The approximate distance oracle that gentree reads from the locality    *)
(* graph (approxDistance and AproximateDistanceOracle, Save.go 580-824).   *)
(*                                                                         *)
(* The loop of approxDistance is the state machine: one action per turn of *)
(* the loop. The pairs of the oracle's double loop do not influence one    *)
(* another (nothing writes to the graph), so a behaviour answers one pair, *)
(* chosen in Init. The graph is the one before OptimizeGraph, as in the    *)
(* ring service (OPTIMIZED is false, cosi_service/service.go 77).          *)
(***************************************************************************)
EXTENDS LocalityGraph

VARIABLES
    u0, v0,   \* the pair the oracle is asked for
    U, V,     \* nodeU and nodeV: the pair, exchanged at every turn
    w,        \* the candidate node between them
    i,        \* the level the candidate comes from
    pc,       \* "loop" or "done"
    result    \* the distance returned

vars == <<level, dist, u0, v0, U, V, w, i, pc, result>>
graph == <<level, dist, u0, v0>>

-----------------------------------------------------------------------------
(* approxDistance *)

(* The oracle asks for every ordered pair of different nodes; its answer   *)
(* for a node and itself is 0 without the loop.                            *)
Init ==
    /\ level \in Levels
    /\ dist \in Metrics
    /\ u0 \in Node /\ v0 \in Node \ {u0}
    /\ U = u0 /\ V = v0 /\ w = u0 /\ i = 0
    /\ pc = "loop" /\ result = 0

(* The candidate is in V's bunch: leave the loop with the two distances. *)
Found ==
    /\ pc = "loop"
    /\ i < K
    /\ w \in Bunch(V)
    /\ pc' = "done"
    /\ result' = ClusterBunchDistances(w, U) + ClusterBunchDistances(w, V)
    /\ UNCHANGED <<graph, U, V, w, i>>

(* Mutant: the two nodes are not exchanged before the next lookup. *)
AdvanceNoSwap ==
    /\ pc = "loop"
    /\ i < K
    /\ w \notin Bunch(V)
    /\ i' = i + 1
    /\ w' = IF i + 1 < K /\ PDist(V, i + 1) \in Node THEN PDist(V, i + 1) ELSE w
    /\ UNCHANGED <<graph, U, V, pc, result>>

(* One level up on the other side.  The candidate stays the old one when no *)
(* node has the name in PDist.  At i + 1 = K the code logs "shouldn't get   *)
(* here!" and then reads PDist out of range: the process panics, so no      *)
(* action is enabled in a state with i = K.                                 *)
Advance ==
    /\ pc = "loop"
    /\ i < K
    /\ w \notin Bunch(V)
    /\ i' = i + 1
    /\ U' = V /\ V' = U
    /\ w' = IF i + 1 < K /\ PDist(V, i + 1) \in Node THEN PDist(V, i + 1) ELSE w
    /\ UNCHANGED <<graph, pc, result>>

Next == Found \/ Advance

Spec == Init /\ [][Next]_vars

-----------------------------------------------------------------------------
(* The type invariant of the loop's variables. *)
OracleTypeOK ==
    /\ level \in [Node -> 0..(K - 1)]
    /\ dist \in Metrics
    /\ u0 \in Node /\ v0 \in Node /\ u0 # v0
    /\ U \in Node /\ V \in Node /\ w \in Node
    /\ i \in Nat
    /\ pc \in {"loop", "done"}
    /\ result \in Nat

(* The loop of approxDistance finds a common bunch node before it runs out *)
(* of levels: the line that logs "shouldn't get here!" (Save.go 602-605)   *)
(* is never reached and PDist is never read out of range, for all levels,  *)
(* coincident nodes and empty levels included.                             *)
NeverGetsHere == i < K

(* The distance approxDistance returns is never below the true one and at  *)
(* most 2K-1 times as long (5 times for three levels, the bound            *)
(* MultipleRadiusesTreesTest counts violations of, localityservice.go      *)
(* 226); so it is never made of an unset entry of ClusterBunchDistances    *)
(* ("shouldn't get here!bad distances", Save.go 618-623).                  *)
StretchBound ==
    pc = "done" => /\ dist[u0][v0] <= result
                   /\ result <= (2 * K - 1) * dist[u0][v0]

(* What approxDistance knows at the head of its loop: the candidate comes  *)
(* from level i or above, it is as near to U as any node of that level, it *)
(* is not V itself (whose own bunch would not hold it), and it is at most  *)
(* i times the asked distance away from U.                                 *)
LoopInv ==
    /\ OracleTypeOK
    /\ i < K
    /\ \/ U = u0 /\ V = v0
       \/ U = v0 /\ V = u0
    /\ w # V
    /\ level[w] >= i
    /\ dist[U][w] = ADist(U, i)
    /\ dist[U][w] <= i * dist[u0][v0]

=============================================================================
