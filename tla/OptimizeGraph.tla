---------------------------- MODULE OptimizeGraph ----------------------------
(***************************************************************************)
(* OptimizeGraph of gentree: RemoveLinks (Save.go 98-341) takes links out  *)
(* of the locality graph until no node has more than max of them, keeping  *)
(* bridges and the links to the nearest nodes of each level, and           *)
(* UpdateDistance (Save.go 22-95) then looks for a way around the links    *)
(* that are gone. The nodes are treated one after the other.               *)
(*                                                                         *)
(* The code is sequential. What it does not determine is the order in      *)
(* which Go ranges over a map: the order of the depth-first search in      *)
(* GetBridges, and which of several nearest nodes UpdateDistance visits.   *)
(***************************************************************************)
EXTENDS LocalityGraph, Sequences, SequencesExt, FiniteSetsExt

CONSTANTS
    Root,       \* the node that calls OptimizeGraph
    MaxLinks,   \* the argument max: MIN_BUNCH_SIZE
    OptTypes    \* the values of the argument OptType: 1 (the constant OPTTYPE
                \* of the services) also removes from the cluster

(* "Careful, the bound can not be less than 2" (localityservice.go 201). *)
ASSUME OptimizeAssumption ==
    Root \in Node /\ IsFiniteSet(Node) /\ MaxLinks \in Nat /\ MaxLinks >= 2

VARIABLES
    OptType,         \* the argument
    OptimalBunch,    \* OptimalBunch[n]: the bunch without the removed links
    OptimalCluster,  \* OptimalCluster[n]: the same for the cluster
    cbd,             \* ClusterBunchDistances
    Links,           \* Links[m][n]: the nodes over which m found a way to n
    Bridges,         \* the links {m, n} that GetBridges returned last
    a,               \* node_a, the node whose links are removed
    nredges,         \* how many links RemoveLinks believes node_a has
    nrPerLevel,      \* the bunch nodes of node_a marked true in nrPerLevel
    Priority,        \* ClusterPriority, or PriorityLevel in the bunch loop
    pos,             \* the last node the current range over all.All looked at
    visited,         \* the nodes UpdateDistance has visited
    crtNode,         \* the one it visited last
    pc               \* "node", "cluster", "bunch", "update", "done", "panic"

linkVars == <<OptimalBunch, OptimalCluster, cbd, Bridges>>
visitVars == <<Links, visited, crtNode>>
vars == <<level, dist, OptType, linkVars, a, nredges, nrPerLevel, Priority, pos, visitVars, pc>>

-----------------------------------------------------------------------------
(* GetBridges *)

(* GetChildren: the nodes n is linked to, in either direction. *)
GetChildren(bunch, cluster, n) == bunch[n] \cup cluster[n]

Edges(bunch, cluster) ==
    UNION {{{m, n} : n \in GetChildren(bunch, cluster, m)} : m \in Node}

(* The nodes reached from S over a set of links. *)
Reach(links, S) ==
    LET reach[T \in SUBSET Node] ==
            LET more == T \cup UNION {e \in links : e \cap T # {}}
            IN  IF more = T THEN T ELSE reach[more]
    IN  reach[S]

(* The test fup[c] > tin[A] of `recursive`: the link {m, n} is the only way *)
(* from one of its ends to the other.                                      *)
IsBridge(links, m, n) == n \notin Reach(links \ {{m, n}}, {m})

(* What `recursive` leaves in Attributes.Bridges, for every order of the    *)
(* children: path is the stack of calls, and every call begins by making    *)
(* the whole map anew, whatever earlier calls have put there.               *)
DepthFirst(links) ==
    LET visit[path \in Seq(Node), state \in SUBSET Node, bridges \in SUBSET SUBSET Node] ==
            LET A == Head(path)
                new == {c \in Node \ state : {A, c} \in links}
            IN  CASE new # {} ->
                       UNION {visit[<<c>> \o path, state \cup {c}, {}] : c \in new}
                  [] new = {} /\ Len(path) = 1 -> {bridges}
                  [] OTHER ->
                       visit[Tail(path), state,
                             IF IsBridge(links, path[2], A) THEN bridges \cup {{path[2], A}}
                                                            ELSE bridges]
    IN  visit[<<Root>>, {Root}, {}]

GetBridges(bunch, cluster) == DepthFirst(Edges(bunch, cluster))

-----------------------------------------------------------------------------
Init ==
    /\ level \in Levels
    /\ dist \in Metrics
    /\ OptType \in OptTypes
    /\ OptimalBunch = [n \in Node |-> Bunch(n)]
    /\ OptimalCluster = [n \in Node |-> Cluster(n)]
    /\ cbd = [m \in Node |-> [n \in Node |-> ClusterBunchDistances(m, n)]]
    /\ Links = [m \in Node |-> [n \in Node |-> {}]]
    /\ Bridges \in GetBridges(OptimalBunch, OptimalCluster)
    /\ a = Min(Node)
    /\ nredges = 0 /\ nrPerLevel = {} /\ Priority = 0 /\ pos = -1
    /\ visited = {} /\ crtNode = a
    /\ pc = "node"

(* The links of n in the graph as CreateLocalityGraph built it. *)
Neighbours(n) == Bunch(n) \cup Cluster(n)

(* The start of a turn of the loop over the nodes. The links are counted in *)
(* the original graph (OptType 1) or in the optimised bunch.                *)
StartNode ==
    /\ pc = "node"
    /\ nredges' = IF OptType = 1 THEN Cardinality(Neighbours(a))
                                 ELSE Cardinality(OptimalBunch[a])
    /\ nrPerLevel' = OptimalBunch[a]
    /\ pos' = -1
    /\ IF OptType = 1 THEN pc' = "cluster" /\ Priority' = -1
                      ELSE pc' = "bunch" /\ Priority' = K
    /\ UNCHANGED <<level, dist, OptType, linkVars, a, visitVars>>

(* Mutant: one link more than max is not too many. *)
TooManyOffByOne == nredges > MaxLinks + 1

(* The condition of the loops that remove links. *)
TooMany == nredges > MaxLinks

(* Mutant: the distance is reset in one direction only. *)
NoDistanceOneWay(m, n) == [cbd EXCEPT ![m][n] = MaxFloat]

(* The link is gone, and with it the direct distance, in both directions. *)
NoDistance(m, n) == [cbd EXCEPT ![m][n] = MaxFloat, ![n][m] = MaxFloat]

IsInPDist(m, n) == \E l \in 0..(K - 1) : PDist(n, l) = m

(* Mutant: the links to the nearest nodes are removed like any other. *)
CanRemoveFromClusterPDist(c) ==
    c # a /\ {a, c} \notin Bridges

(* The link from c's bunch to a may go: a is not one of the nearest nodes  *)
(* of c, and the link is not known as a bridge.                            *)
CanRemoveFromCluster(c) ==
    ~IsInPDist(a, c) /\ c # a /\ {a, c} \notin Bridges

(* The rest of one range over all.All: the cluster nodes of level Priority *)
(* that can be removed.                                                    *)
ClusterTodo ==
    {c \in OptimalCluster[a] : c > pos /\ level[c] = Priority /\ CanRemoveFromCluster(c)}

RemoveFromCluster ==
    /\ pc = "cluster" /\ TooMany
    /\ ClusterTodo # {}
    /\ LET c == Min(ClusterTodo)
       IN  /\ OptimalCluster' = [OptimalCluster EXCEPT ![a] = @ \ {c}]
           /\ OptimalBunch' = [OptimalBunch EXCEPT ![c] = @ \ {a}]
           /\ cbd' = NoDistance(a, c)
           /\ pos' = c
    /\ Bridges' \in GetBridges(OptimalBunch', OptimalCluster')
    /\ nredges' = nredges - 1
    /\ UNCHANGED <<level, dist, OptType, a, nrPerLevel, Priority, visitVars, pc>>

(* Mutant: nothing ends the loop over the levels. *)
NextClusterPriorityEndless ==
    /\ pc = "cluster"
    /\ TooMany => ClusterTodo = {}
    /\ pos' = -1
    /\ IF TooMany
       THEN Priority' = Priority + 1 /\ UNCHANGED pc
       ELSE pc' = "bunch" /\ Priority' = K
    /\ UNCHANGED <<level, dist, OptType, linkVars, a, nredges, nrPerLevel, visitVars>>

(* The next level, or the bunch if the links are few enough or the levels  *)
(* are through.                                                            *)
NextClusterPriority ==
    /\ pc = "cluster"
    /\ TooMany => ClusterTodo = {}
    /\ pos' = -1
    /\ IF TooMany /\ Priority <= K
       THEN Priority' = Priority + 1 /\ UNCHANGED pc
       ELSE pc' = "bunch" /\ Priority' = K
    /\ UNCHANGED <<level, dist, OptType, linkVars, a, nredges, nrPerLevel, visitVars>>

-----------------------------------------------------------------------------
(* The bunch loop *)

BunchTodo == {c \in OptimalBunch[a] : c > pos}

(* PriorityLevel goes down when none of its nodes is left. Below 0 it      *)
(* matches nothing, whatever its value: -1 stands for all of these.        *)
PriorityFor(marks) ==
    IF {c \in marks : level[c] = Priority} = {} /\ Priority >= 0
    THEN Priority - 1 ELSE Priority

(* One turn of the range over all.All: the node is kept for good, is not   *)
(* of the level that is being removed, or is removed, which ends the range.*)
BunchStep ==
    /\ pc = "bunch" /\ TooMany
    /\ BunchTodo # {}
    /\ LET b == Min(BunchTodo)
           p == PriorityFor(nrPerLevel)
       IN  \/ /\ IsInPDist(b, a) \/ {a, b} \in Bridges
              /\ nrPerLevel' = nrPerLevel \ {b}
              /\ pos' = b
              /\ UNCHANGED <<linkVars, nredges, Priority>>
           \/ /\ ~IsInPDist(b, a) /\ {a, b} \notin Bridges
              /\ Priority' = p
              /\ level[b] # p
              /\ pos' = b
              /\ UNCHANGED <<linkVars, nredges, nrPerLevel>>
           \/ /\ ~IsInPDist(b, a) /\ {a, b} \notin Bridges
              /\ Priority' = p
              /\ level[b] = p
              /\ nrPerLevel' = nrPerLevel \ {b}
              /\ OptimalBunch' = [OptimalBunch EXCEPT ![a] = @ \ {b}]
              /\ OptimalCluster' = [OptimalCluster EXCEPT ![b] = @ \ {a}]
              /\ cbd' = NoDistance(a, b)
              /\ Bridges' \in GetBridges(OptimalBunch', OptimalCluster')
              /\ nredges' = nredges - 1
              /\ pos' = -1
    /\ UNCHANGED <<level, dist, OptType, a, visitVars, pc>>

(* The range is through and there are still too many links: once more. *)
BunchAgain ==
    /\ pc = "bunch" /\ TooMany
    /\ BunchTodo = {}
    /\ pos' = -1
    /\ UNCHANGED <<level, dist, OptType, linkVars, a, nredges, nrPerLevel, Priority, visitVars, pc>>

-----------------------------------------------------------------------------
(* UpdateDistance *)

NextNode ==
    IF a = Max(Node) THEN pc' = "done" /\ UNCHANGED a
    ELSE pc' = "node" /\ a' = Min({n \in Node : n > a})

Known(n) == {m \in Node : cbd[n][m] < MaxFloat}

(* The bunch loop ends. UpdateDistance returns at once if it knows as many *)
(* distances as the node has links; the known ones include the distance of *)
(* the node to itself.                                                     *)
StartUpdate ==
    /\ pc = "bunch" /\ ~TooMany
    /\ visited' = {} /\ crtNode' = a /\ UNCHANGED Links
    /\ IF Cardinality(Known(a)) = Cardinality(Neighbours(a))
       THEN NextNode
       ELSE pc' = "update" /\ UNCHANGED a
    /\ UNCHANGED <<level, dist, OptType, linkVars, nredges, nrPerLevel, Priority, pos>>

(* The way from a to n over crtNode, and the distance of a to n once it is *)
(* taken into account.                                                     *)
Through(n) == cbd[a][crtNode] + cbd[crtNode][n]
IsShorter(n) == cbd[crtNode][n] < MaxFloat /\ Through(n) < cbd[a][n]
Relaxed(n) == IF IsShorter(n) THEN Through(n) ELSE cbd[a][n]

(* One turn: relax over crtNode, then visit one of the nearest nodes not   *)
(* visited yet. If there is none the code logs "nil!" and dereferences the *)
(* nil pointer.                                                            *)
VisitNext ==
    /\ pc = "update"
    /\ Cardinality(visited \cap Neighbours(a)) < Cardinality(Neighbours(a))
    /\ cbd' = [m \in Node |-> [n \in Node |->
                 IF m = a THEN Relaxed(n) ELSE IF n = a THEN Relaxed(m) ELSE cbd[m][n]]]
    /\ Links' = [Links EXCEPT ![a] = [n \in Node |->
                    IF IsShorter(n) THEN @[n] \cup {crtNode} ELSE @[n]]]
    /\ LET open == {n \in Node \ visited : cbd'[a][n] < MaxFloat}
       IN  IF open = {}
           THEN pc' = "panic" /\ UNCHANGED <<visited, crtNode>>
           ELSE \E n \in open :
                  /\ \A m \in open : cbd'[a][n] <= cbd'[a][m]
                  /\ visited' = visited \cup {n} /\ crtNode' = n
                  /\ UNCHANGED pc
    /\ UNCHANGED <<level, dist, OptType, OptimalBunch, OptimalCluster, Bridges, a, nredges,
                   nrPerLevel, Priority, pos>>

EndUpdate ==
    /\ pc = "update"
    /\ Cardinality(visited \cap Neighbours(a)) = Cardinality(Neighbours(a))
    /\ NextNode
    /\ UNCHANGED <<level, dist, OptType, linkVars, nredges, nrPerLevel, Priority, pos, visitVars>>

Next ==
    \/ StartNode \/ RemoveFromCluster \/ NextClusterPriority
    \/ BunchStep \/ BunchAgain
    \/ StartUpdate \/ VisitNext \/ EndUpdate

Spec == Init /\ [][Next]_vars

-----------------------------------------------------------------------------
(* Type invariant of RemoveLinks and UpdateDistance: in particular the      *)
(* counter of links stays a natural number and the levels stay in range.    *)
OptimizeTypeOK ==
    /\ level \in Levels /\ dist \in Metrics /\ OptType \in OptTypes
    /\ OptimalBunch \in [Node -> SUBSET Node]
    /\ OptimalCluster \in [Node -> SUBSET Node]
    /\ cbd \in [Node -> [Node -> 0..MaxFloat]]
    /\ Links \in [Node -> [Node -> SUBSET Node]]
    /\ a \in Node /\ crtNode \in Node /\ visited \subseteq Node
    /\ nredges \in Nat /\ nrPerLevel \subseteq Node
    /\ Priority \in -1..(K + 1) /\ pos \in Node \cup {-1}
    /\ pc \in {"node", "cluster", "bunch", "update", "done", "panic"}

(* Every node keeps its links to the nearest node of each level, which the *)
(* loop of approxDistance walks along, although RemoveLinks takes links    *)
(* away from either end, and a node's bunch shrinks while it is the turn   *)
(* of another.                                                             *)
NearestKept ==
    \A n \in Node, l \in 0..(K - 1) :
        PDist(n, l) \in Node \ {n} => PDist(n, l) \in OptimalBunch[n]

(* Whatever RemoveLinks resets and UpdateDistance fills in again, entries  *)
(* of ClusterBunchDistances are the same in both directions and never      *)
(* below the distance of the two nodes: the detours are real ones.         *)
DistancesSound ==
    \A m, n \in Node : cbd[m][n] = cbd[n][m] /\ dist[m][n] <= cbd[m][n]

(* "Optimization is the upperBound set on the bunch of each node of the    *)
(* graph" (gentree.go 600): when RemoveLinks is through no bunch is larger,*)
(* whoever's turn took which link. So it is when only bunches are          *)
(* optimised. With OptType 1 it is not: a neighbour in both the cluster    *)
(* and the bunch is counted once, and subtracted when it leaves the        *)
(* cluster although it stays in the bunch.                                 *)
BunchBound ==
    pc = "done" /\ OptType # 1 =>
        \A n \in Node : Cardinality(OptimalBunch[n]) <= MaxLinks

(* Why the bound holds when only bunches are optimised: a node's bunch is   *)
(* made small in its own turn, in which nredges counts it, and no turn adds *)
(* to any bunch.                                                            *)
BunchInv ==
    OptType # 1 =>
        /\ pc # "cluster"
        /\ \A n \in Node : n < a => Cardinality(OptimalBunch[n]) <= MaxLinks
        /\ pc = "bunch" => nredges = Cardinality(OptimalBunch[a])
        /\ pc \in {"update", "done"} => Cardinality(OptimalBunch[a]) <= MaxLinks
        /\ pc = "done" => \A n \in Node : n <= a

(* What RemoveLinks and UpdateDistance keep, with NearestKept and           *)
(* DistancesSound, which need no more than the types.                       *)
OptimizeInv ==
    /\ OptimizeTypeOK /\ BunchInv
    /\ \A n \in Node : n \notin OptimalBunch[n] \cup OptimalCluster[n]

(* RemoveLinks skips a link that GetBridges knows as a bridge, and          *)
(* GetBridges "Returns all the bridges of the current Graph" (Save.go 383): *)
(* so no removal cuts the graph in two.                                     *)
StaysConnected == Reach(Edges(OptimalBunch, OptimalCluster), {Root}) = Node

(* approxDistance on the optimised graph logs "shouldn't get here!bad      *)
(* distances" (Save.go 619) for an entry it reads that is MaxFloat64. Its  *)
(* first test reads the one of u and v whenever u is in the bunch of v.    *)
NoBadDistances ==
    pc = "done" => \A v \in Node : \A u \in Bunch(v) : cbd[u][v] < MaxFloat
=============================================================================
