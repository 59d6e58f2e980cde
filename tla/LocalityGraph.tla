---------------------------- MODULE LocalityGraph ----------------------------
(***************************************************************************)
(* The locality graph of gentree (CreateLocalityGraph, gentree.go          *)
(* 117-274): every node has a level, and its bunch holds the nodes that    *)
(* are nearer to it than the nearest node of a higher level.               *)
(*                                                                         *)
(* CreateLocalityGraph is a pure function of the coordinates and the       *)
(* levels of the nodes, so its tables (PDist, ADist, Bunch, Cluster,       *)
(* ClusterBunchDistances) are operators on the variables level and dist,   *)
(* which the modules that extend this one choose in Init and never change. *)
(*                                                                         *)
(* Distances are natural numbers: float64 coordinates on a grid, with no   *)
(* rounding.                                                               *)
(***************************************************************************)
EXTENDS Integers

CONSTANTS
    Node,      \* the nodes, named by their index in all.All
    K,         \* the argument `levels`: NR_LEVELS, 3 in both services
    Metrics,   \* the distance functions the coordinates may give
    MaxFloat   \* math.MaxFloat64: larger than every distance

(***************************************************************************)
(* What ComputeDist guarantees: the Euclidean distance is a metric (two    *)
(* nodes may share coordinates) and stays below math.MaxFloat64.           *)
(***************************************************************************)
IsMetric(d) ==
    /\ d \in [Node -> [Node -> Nat]]
    /\ \A x, y \in Node : d[x][y] < MaxFloat /\ d[x][y] = d[y][x]
    /\ \A x \in Node : d[x][x] = 0
    /\ \A x, y, z \in Node : d[x][z] <= d[x][y] + d[y][z]

ASSUME NodeAssumption == Node \subseteq Nat
(* With one level CreateLocalityGraph gives every node an empty bunch. *)
ASSUME KAssumption == K \in Nat /\ K >= 2
ASSUME MaxFloatAssumption == MaxFloat \in Nat
ASSUME MetricsAssumption == \A d \in Metrics : IsMetric(d)

VARIABLES
    level,    \* LocalityNode.Level of every node
    dist      \* ComputeDist of every two nodes

(* The levels: in pass i every node of level i - 1 moves up to i or stays, *)
(* so the random draw (and the nodes file) can give any levels.            *)
Levels == [Node -> 0..(K - 1)]

-----------------------------------------------------------------------------
(* The tables CreateLocalityGraph builds. *)

NoName == -1   \* the empty name PDist holds for a level without nodes

AtLevel(l) == {u \in Node : level[u] >= l}

(* Nobody of S is nearer to v than u, and nobody as near comes before u. *)
IsFirstNearest(v, u, S) ==
    \A x \in S : \/ dist[v][u] < dist[v][x]
                 \/ dist[v][u] = dist[v][x] /\ u <= x

(* The nearest node of level l or above: the first one found, since the    *)
(* scan replaces it only when the distance is strictly smaller.            *)
PDist(v, l) ==
    IF AtLevel(l) = {}
    THEN NoName
    ELSE CHOOSE u \in AtLevel(l) : IsFirstNearest(v, u, AtLevel(l))

ADist(v, l) ==
    IF AtLevel(l) = {} THEN MaxFloat ELSE dist[v][PDist(v, l)]

(* Mutant: with <, the nearest node of a level is not in the bunch. *)
checkDistanceStrict(v, d, l) == \A j \in (l + 1)..(K - 1) : d < ADist(v, j)

checkDistance(v, d, l) == \A j \in (l + 1)..(K - 1) : d <= ADist(v, j)

(* Mutant: the nodes of the top level are not put in every bunch. *)
BunchWithoutTop(v1) ==
    {v2 \in Node \ {v1} :
        \E l \in 0..(K - 2) :
            level[v2] >= l /\ checkDistance(v1, dist[v1][v2], l)}

Bunch(v1) ==
    {v2 \in Node \ {v1} :
        \/ \E l \in 0..(K - 2) :
               level[v2] >= l /\ checkDistance(v1, dist[v1][v2], l)
        \/ level[v2] = K - 1}

Cluster(v1) == {v2 \in Node \ {v1} : v1 \in Bunch(v2)}

(* Zero on the diagonal and math.MaxFloat64 elsewhere (service.go 112-121) *)
(* until the graph gets a link.                                            *)
ClusterBunchDistances(x, y) ==
    CASE x = y                         -> 0
      [] y \in Bunch(x) \cup Cluster(x) -> dist[x][y]
      [] OTHER                         -> MaxFloat
=============================================================================
