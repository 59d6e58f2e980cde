------------------------------ MODULE RingTrees ------------------------------
(***************************************************************************)
(* The rings of one root (CreateOnetRings, gentree.go 1250-1585): for each *)
(* radius, from the smallest to the largest, a first tree of the nodes     *)
(* within the radius, grown from the tree of the radius before, and a      *)
(* second one with another root, in which the inner nodes of the first     *)
(* tree are leaves. genTrees calls it for one root after the other, and    *)
(* nothing it writes is read by the next call, so a behaviour is one call. *)
(*                                                                         *)
(* A tree is built by a variant of Dijkstra's algorithm that stops at a    *)
(* depth and a number of children, and that may fail. The order of a range *)
(* over a map is a choice: among nodes of the same distance, and among the *)
(* neighbours when there is no room for all of them.                       *)
(***************************************************************************)
EXTENDS LocalityGraph, FiniteSets, Sequences

CONSTANTS
    Radii,        \* radiuses, in growing order
    HighRoot,     \* highLevelRootName: the literal "node_19"
    Unreached,    \* 66000: the distance and the depth of a node not reached
                  \* yet. Everything from 60000 on counts as such; no path
                  \* of three hops in the largest ring is that long
    MaxChildren,  \* 10: a node with so many children gets no more
    MaxCount,     \* 20: so many first trees may fail before the relaxed mode
    FailAfter,    \* 10: so many second trees before it
    GiveUpAfter   \* 20: so many before the second tree is given up

ASSUME RingAssumption ==
    /\ Radii \in Seq(Nat) /\ Len(Radii) > 0
    /\ \A r \in 1..(Len(Radii) - 1) : Radii[r] < Radii[r + 1]
    /\ HighRoot \in Node /\ IsFiniteSet(Node)
    /\ Unreached \in Nat /\ Unreached > 3
    /\ \A d \in Metrics : \A x, y \in Node : 3 * d[x][y] < Unreached
    /\ MaxChildren \in Nat /\ MaxCount \in Nat
    /\ FailAfter \in Nat /\ GiveUpAfter \in Nat /\ FailAfter <= GiveUpAfter

VARIABLES
    bunch,         \* LocalityNode.Bunch of every node
    dist2,         \* the answers of the distance oracle
    neighbors,     \* the graph as HighRoot sees it
    rootName,      \* the argument
    countt,        \* the index of the radius
    AllowedNodes,  \* the nodes within the radius
    tree,          \* visited, distances, inTree and depth: the first tree of
                   \* the radius before
    copy,          \* their copies, or the maps of the second tree
    localVisited,  \* localVisited of dijkstra
    crtRoot,       \* crtNodeName: the root of the tree that is being built
    allowedLeafs,  \* the inner nodes of the first tree, once that is built
    failedMode,    \* isRelaxedMode of the first loop, failed of the second
    count,         \* count of the first loop, repeats of the second
    previous,      \* previousRingRosterlen
    Trees,         \* Trees[r]: the trees of radius r
    pc             \* "first", "relaxed": the two calls of dijkstra for the first
                   \* tree, "firstBuilt", "relaxedBuilt": their ends; "pick",
                   \* "second", "secondBuilt"; "done"

graph == <<level, dist, bunch, dist2, neighbors, rootName>>
ring == <<countt, AllowedNodes, tree, previous, Trees>>
vars == <<graph, ring, copy, localVisited, crtRoot, allowedLeafs, failedMode, count, pc>>

-----------------------------------------------------------------------------
(* The distance oracle and the graph *)

cluster(n) == {m \in Node : n \in bunch[m]}

(* The candidates of approxDistance(u, v): in turn i the node of level i    *)
(* nearest to one of the two, in turns; the last one there was when there   *)
(* is no such node, and u at first.                                         *)
Candidate(u, v) ==
    LET near == [j \in 1..(K - 1) |-> PDist(IF j % 2 = 0 THEN u ELSE v, j)]
        isLast(j, i) == /\ j = 0 \/ near[j] \in Node
                        /\ \A k \in (j + 1)..i : near[k] \notin Node
        last(i) == CHOOSE j \in 0..i : isLast(j, i)
    IN  [i \in 0..(K - 1) |-> IF last(i) = 0 THEN u ELSE near[last(i)]]

(* AproximateDistanceOracle: dist2[u][v], over the first candidate that is *)
(* in the bunch of the other node.                                         *)
ApproxDistance(u, v) ==
    LET cand == Candidate(u, v)
        found == {i \in 0..(K - 1) : cand[i] \in bunch[IF i % 2 = 0 THEN v ELSE u]}
        w == cand[CHOOSE i \in found : \A j \in found : i <= j]
        cbd(x) == IF x = w THEN 0 ELSE IF x \in bunch[w] \cup cluster(w) THEN dist[w][x]
                  ELSE MaxFloat
    IN  IF u = v THEN 0 ELSE cbd(u) + cbd(v)

(* Filter on the graph that is not optimised, where there are no Links: the *)
(* cluster of the root, as far as it is within the radius.                  *)
Filter(root, radius) ==
    {root} \cup {n \in cluster(root) : dist2[root][n] <= radius}

(* CreateAndSetChildren: the children of n are its links to nodes of S. *)
ChildrenIn(n, S) == (cluster(n) \cup bunch[n]) \cap S

(* buildRootedLocalityGraph: the root and its children get children, as far *)
(* as the filter allows. In the graph that is not optimised these are all   *)
(* the nodes of the filter.                                                 *)
RootedGraph(root) ==
    LET S == Filter(root, Radii[Len(Radii)])
        processed == {root} \cup ChildrenIn(root, S)
    IN  [n \in Node |-> IF n \in processed THEN ChildrenIn(n, S) ELSE {}]

(* dfsBuildGraph: parents and children become neighbours. *)
GraphFrom(root) ==
    LET g == RootedGraph(root)
    IN  [n \in Node |-> g[n] \cup {m \in Node : n \in g[m]}]

(* The nodes of the ring with the given radius. *)
WithinRadius(r) ==
    {n \in Node : dist2[rootName][n] <= Radii[r] \/ dist2[n][rootName] <= Radii[r]}

-----------------------------------------------------------------------------
(* Trees *)

Fresh(root) ==
    [visited   |-> {},
     distances |-> [n \in Node |-> IF n = root THEN 0 ELSE Unreached],
     depth     |-> [n \in Node |-> IF n = root THEN 0 ELSE Unreached],
     Children  |-> [n \in Node |-> {}],
     Parent    |-> [n \in Node |-> NoName]]

(* The nodes with an entry in nodesInTree: the root and what it reached. *)
InTree(t) == {n \in Node : t.distances[n] < Unreached}

(* The deep copy makes new nodes and adds the children: AddChild sets the   *)
(* parent.                                                                  *)
DeepCopy(t) ==
    [t EXCEPT !.Parent = [n \in Node |->
        IF \E p \in Node : n \in t.Children[p]
        THEN CHOOSE p \in Node : n \in t.Children[p] ELSE NoName]]

innerNodes(t) == {n \in Node : t.Children[n] # {}}

(* What buildOnetTree returns. *)
OnetTree(root, t) == [Root |-> root, Roster |-> InTree(t), Parent |-> t.Parent]

-----------------------------------------------------------------------------
(* dijkstra *)

FirstTree == pc \in {"first", "relaxed"}

(* Whether m takes its neighbour nb as a child: for a shorter way to nb, or *)
(* for a way of any length within the radius. The second moves nodes away   *)
(* from nearer parents.                                                     *)
Relaxes(t, m, nb) ==
    LET way == t.distances[m] + dist[m][nb]
    IN  \/ /\ t.distances[nb] > way
           /\ t.depth[m] < IF failedMode THEN 3 ELSE 2
        \/ /\ way <= Radii[countt]
           /\ \/ (FirstTree \/ nb \in allowedLeafs) /\ t.depth[m] < 2
              \/ failedMode /\ t.depth[m] < 3

(* Mutant: a node that moves stays a child of its old parent. *)
AddChildrenTwice(t, m, S) ==
    [visited   |-> t.visited,
     distances |-> [n \in Node |-> IF n \in S THEN t.distances[m] + dist[m][n]
                                   ELSE t.distances[n]],
     depth     |-> [n \in Node |-> IF n \in S THEN t.depth[m] + 1 ELSE t.depth[n]],
     Children  |-> [t.Children EXCEPT ![m] = @ \cup S],
     Parent    |-> [n \in Node |-> IF n \in S THEN m ELSE t.Parent[n]]]

(* The nodes of S become children of m, and leave the one they had. *)
AddChildren(t, m, S) ==
    [visited   |-> t.visited,
     distances |-> [n \in Node |-> IF n \in S THEN t.distances[m] + dist[m][n]
                                   ELSE t.distances[n]],
     depth     |-> [n \in Node |-> IF n \in S THEN t.depth[m] + 1 ELSE t.depth[n]],
     Children  |-> [n \in Node |->
                       (t.Children[n] \ {c \in S : t.Parent[c] = n})
                           \cup (IF n = m THEN S ELSE {})],
     Parent    |-> [n \in Node |-> IF n \in S THEN m ELSE t.Parent[n]]]

(* The trees that visiting m may leave: its neighbours that are not visited *)
(* and within the radius become children, as many as there is room for.     *)
Visit(t, m) ==
    LET v == [t EXCEPT !.visited = @ \cup {m}]
        new == {nb \in (neighbors[m] \cap AllowedNodes) \ (v.visited \cup v.Children[m]) :
                   Relaxes(v, m, nb)}
        room == MaxChildren - Cardinality(v.Children[m])
    IN  {AddChildren(v, m, S) : S \in {S \in SUBSET new :
            \/ S = new /\ Cardinality(new) <= room
            \/ Cardinality(S) = room /\ Cardinality(new) > room}}

(* Mutant: the second tree may use the inner nodes of the first again. *)
OpenAny ==
    {n \in AllowedNodes : copy.distances[n] < Unreached /\ n \notin localVisited}

(* The nodes that can be visited next: leaves of the second tree cannot. *)
Open ==
    {n \in AllowedNodes : /\ copy.distances[n] < Unreached
                          /\ n \notin localVisited \cup allowedLeafs}

Building == pc \in {"first", "relaxed", "second"}

(* Mutant: the node is not marked as visited in this call. *)
VisitNearestUnmarked ==
    /\ Building
    /\ \E m \in Open :
          /\ \A n \in Open : copy.distances[m] <= copy.distances[n]
          /\ copy' \in Visit(copy, m)
    /\ UNCHANGED <<graph, ring, localVisited, crtRoot, allowedLeafs, failedMode, count, pc>>

(* One turn of the loop: visit a node with the smallest distance. *)
VisitNearest ==
    /\ Building
    /\ \E m \in Open :
          /\ \A n \in Open : copy.distances[m] <= copy.distances[n]
          /\ copy' \in Visit(copy, m)
          /\ localVisited' = localVisited \cup {m}
    /\ UNCHANGED <<graph, ring, crtRoot, allowedLeafs, failedMode, count, pc>>

(* The last turn finds no node and so visits the root once more. *)
VisitRootAgain ==
    /\ Building
    /\ Open = {}
    /\ copy' \in Visit(copy, crtRoot)
    /\ localVisited' = localVisited \cup {crtRoot}
    /\ pc' = CASE pc = "first" -> "firstBuilt" [] pc = "relaxed" -> "relaxedBuilt"
               [] pc = "second" -> "secondBuilt"
    /\ UNCHANGED <<graph, ring, crtRoot, allowedLeafs, failedMode, count>>

(* What dijkstra returns. *)
Succeeded ==
    /\ \A n \in AllowedNodes :
          /\ copy.distances[n] < Unreached
          /\ failedMode \/ copy.depth[n] <= 2
    /\ failedMode \/ \A n \in Node : Cardinality(copy.Children[n]) <= MaxChildren

-----------------------------------------------------------------------------
(* CreateOnetRings *)

Init ==
    /\ level \in Levels /\ dist \in Metrics
    /\ bunch = [n \in Node |-> Bunch(n)]
    /\ dist2 = [u \in Node |-> [v \in Node |-> ApproxDistance(u, v)]]
    /\ neighbors = GraphFrom(HighRoot)
    /\ rootName \in Node
    /\ countt = 1 /\ AllowedNodes = WithinRadius(1)
    /\ tree = Fresh(rootName) /\ copy = Fresh(rootName)
    /\ localVisited = {} /\ crtRoot = rootName /\ allowedLeafs = {}
    /\ failedMode = FALSE /\ count = 0 /\ previous = 0
    /\ Trees = [r \in 1..Len(Radii) |-> <<>>]
    /\ pc = "first"

(* The counters are only compared: above the last bound they may stop. *)
Bump(n, bound) == IF n > bound THEN n ELSE n + 1

(* Mutant: every radius starts with a new tree. *)
NextRadiusFresh(t) ==
    IF countt = Len(Radii)
    THEN /\ pc' = "done"
         /\ UNCHANGED <<countt, AllowedNodes, copy, localVisited, crtRoot,
                        allowedLeafs, failedMode, count>>
    ELSE /\ countt' = countt + 1
         /\ AllowedNodes' = WithinRadius(countt + 1)
         /\ copy' = Fresh(rootName) /\ localVisited' = {} /\ crtRoot' = rootName
         /\ allowedLeafs' = {} /\ failedMode' = FALSE /\ count' = 0
         /\ pc' = "first"

(* The next radius, with the state of the first tree in t; the end after   *)
(* the last.                                                               *)
NextRadius(t) ==
    IF countt = Len(Radii)
    THEN /\ pc' = "done"
         /\ UNCHANGED <<countt, AllowedNodes, copy, localVisited, crtRoot,
                        allowedLeafs, failedMode, count>>
    ELSE /\ countt' = countt + 1
         /\ AllowedNodes' = WithinRadius(countt + 1)
         /\ copy' = DeepCopy(t) /\ localVisited' = {} /\ crtRoot' = rootName
         /\ allowedLeafs' = {} /\ failedMode' = FALSE /\ count' = 0
         /\ pc' = "first"

(* The first tree is built and copied back. It is a new ring if its roster *)
(* is, and then it gets a second tree if it has more than two nodes.       *)
AcceptFirst ==
    LET t == DeepCopy(copy)
        size == Cardinality(InTree(t))
    IN  /\ pc \in {"firstBuilt", "relaxedBuilt"}
        /\ Succeeded
        /\ tree' = t
        /\ IF size = previous \/ size < 2
           THEN NextRadius(t) /\ UNCHANGED <<previous, Trees>>
           ELSE /\ previous' = size
                /\ Trees' = [Trees EXCEPT ![countt] = Append(@, OnetTree(rootName, t))]
                /\ IF size > 2
                   THEN /\ pc' = "pick" /\ allowedLeafs' = innerNodes(copy)
                        /\ failedMode' = FALSE /\ count' = 0
                        /\ UNCHANGED <<countt, AllowedNodes, copy, localVisited, crtRoot>>
                   ELSE NextRadius(t)
        /\ UNCHANGED graph

(* After enough failures the code calls dijkstra a second time, in relaxed *)
(* mode and on the copies the failed call has left.                        *)
CallRelaxed ==
    /\ pc = "firstBuilt"
    /\ ~Succeeded /\ count > MaxCount
    /\ failedMode' = TRUE /\ localVisited' = {}
    /\ pc' = "relaxed"
    /\ UNCHANGED <<graph, ring, copy, crtRoot, allowedLeafs, count>>

(* Mutant: the attempts are counted down. *)
TryFirstAgainDown ==
    /\ \/ pc = "firstBuilt" /\ count <= MaxCount
       \/ pc = "relaxedBuilt"
    /\ ~Succeeded
    /\ copy' = DeepCopy(tree) /\ localVisited' = {}
    /\ count' = count - 1
    /\ pc' = "first"
    /\ UNCHANGED <<graph, ring, crtRoot, allowedLeafs, failedMode>>

(* Once more from the tree of the radius before, for as long as it takes. *)
TryFirstAgain ==
    /\ \/ pc = "firstBuilt" /\ count <= MaxCount
       \/ pc = "relaxedBuilt"
    /\ ~Succeeded
    /\ copy' = DeepCopy(tree) /\ localVisited' = {}
    /\ count' = Bump(count, MaxCount)
    /\ pc' = "first"
    /\ UNCHANGED <<graph, ring, crtRoot, allowedLeafs, failedMode>>

(* The random node of the roster can be the root of the second tree: a new *)
(* tree, in relaxed mode after enough attempts.                            *)
StartSecond ==
    /\ pc = "pick"
    /\ \E n \in InTree(tree) \ (allowedLeafs \cup {rootName}) :
          /\ crtRoot' = n
          /\ copy' = Fresh(n)
    /\ localVisited' = {}
    /\ failedMode' = (failedMode \/ count > FailAfter)
    /\ pc' = "second"
    /\ UNCHANGED <<graph, ring, allowedLeafs, count>>

(* It cannot: draw again. *)
PickAgain ==
    /\ pc = "pick"
    /\ InTree(tree) \cap (allowedLeafs \cup {rootName}) # {}
    /\ count' = Bump(count, GiveUpAfter)
    /\ UNCHANGED <<graph, ring, copy, localVisited, crtRoot, allowedLeafs, failedMode, pc>>

AcceptSecond ==
    /\ pc = "secondBuilt"
    /\ Succeeded
    /\ Trees' = [Trees EXCEPT ![countt] = Append(@, OnetTree(crtRoot, copy))]
    /\ NextRadius(tree)
    /\ UNCHANGED <<graph, tree, previous>>

(* The ring stays with one tree. *)
GiveUpSecond ==
    /\ pc = "secondBuilt"
    /\ ~Succeeded /\ count > GiveUpAfter
    /\ NextRadius(tree)
    /\ UNCHANGED <<graph, tree, previous, Trees>>

TrySecondAgain ==
    /\ pc = "secondBuilt"
    /\ ~Succeeded /\ count <= GiveUpAfter
    /\ count' = Bump(count, GiveUpAfter)
    /\ pc' = "pick"
    /\ UNCHANGED <<graph, ring, copy, localVisited, crtRoot, allowedLeafs, failedMode>>

Next ==
    \/ VisitNearest \/ VisitRootAgain
    \/ AcceptFirst \/ CallRelaxed \/ TryFirstAgain
    \/ StartSecond \/ PickAgain
    \/ AcceptSecond \/ GiveUpSecond \/ TrySecondAgain

Spec == Init /\ [][Next]_vars

(* The program is sequential and runs: some step is taken while one can be. *)
FairSpec == Spec /\ WF_vars(Next)

-----------------------------------------------------------------------------
TreeType ==
    [visited : SUBSET Node, distances : [Node -> Nat], depth : [Node -> Nat],
     Children : [Node -> SUBSET Node], Parent : [Node -> Node \cup {NoName}]]

(* Building the first tree of a radius, and building the second. *)
FirstPhase == {"first", "relaxed", "firstBuilt", "relaxedBuilt"}
SecondPhase == {"pick", "second", "secondBuilt"}

(* Type invariant of the variables of CreateOnetRings. *)
RingTypeOK ==
    /\ tree \in TreeType /\ copy \in TreeType
    /\ rootName \in Node /\ crtRoot \in Node /\ countt \in 1..Len(Radii)
    /\ AllowedNodes \subseteq Node /\ localVisited \subseteq Node
    /\ allowedLeafs \subseteq Node /\ failedMode \in BOOLEAN
    /\ count \in Nat /\ previous \in Nat
    /\ pc \in FirstPhase \cup SecondPhase \cup {"done"}
    /\ Trees \in [1..Len(Radii) -> Seq([Root : Node, Roster : SUBSET Node,
                                        Parent : [Node -> Node \cup {NoName}]])]

(* A tree with the given root: its distances and depths are those of the   *)
(* way over the parents, which leads to the root, and parents and children *)
(* agree.                                                                  *)
IsTree(t, root) ==
    /\ t.Parent[root] = NoName /\ t.distances[root] = 0 /\ t.depth[root] = 0
    /\ \A n \in InTree(t) \ {root} :
          LET p == t.Parent[n] IN
            /\ p \in InTree(t)
            /\ t.distances[n] = t.distances[p] + dist[p][n]
            /\ t.depth[n] = t.depth[p] + 1
    /\ \A m, n \in Node : n \in t.Children[m] <=> t.Parent[n] = m
    /\ \A n \in Node \ InTree(t) : t.Parent[n] = NoName

(* dijkstra moves nodes to other parents, starts on what an earlier radius *)
(* or a failed call has left, and visits its root twice: what it holds is  *)
(* a tree all the same. In particular the child it takes away from a       *)
(* parent is there: the index -1 of a missing child would panic.           *)
AlwaysATree == IsTree(copy, crtRoot) /\ IsTree(tree, rootName)

(* For every radius the trees span exactly the nodes within it ("different *)
(* lengths big problem", gentree.go 1494), and the second tree tolerates   *)
(* what the first does not: whichever node is missing, the others are all  *)
(* still connected in one of the two.                                      *)
Spans(t, r) == t.Roster = WithinRadius(r)
LeafIn(t, x) == \A n \in t.Roster : t.Parent[n] # x
OneFailureTolerated ==
    \A r \in 1..Len(Radii) :
        /\ \A k \in 1..Len(Trees[r]) : Spans(Trees[r][k], r)
        /\ Len(Trees[r]) = 2 =>
             \A x \in Node : \E k \in 1..2 : LeafIn(Trees[r][k], x)

(* A ring contains the smaller ones: the first tree of a radius is grown   *)
(* from the one before, and what is settled there is not moved: nodes that *)
(* have children, and nodes below a child of the root. A leaf right below  *)
(* the root may move, since the last visit of the root can take a node     *)
(* that is itself visited only when the next radius is built.              *)
Settled(t) == {n \in t.Roster : t.Parent[n] # t.Root \/ ~LeafIn(t, n)}
RingsNested ==
    \A r, s \in 1..Len(Radii) :
        r < s /\ Trees[r] # <<>> /\ Trees[s] # <<>> =>
            /\ Trees[r][1].Roster \subseteq Trees[s][1].Roster
            /\ \A n \in Settled(Trees[r][1]) :
                  Trees[s][1].Parent[n] = Trees[r][1].Parent[n]

(* CreateOnetRings returns, although nothing bounds the attempts at a first *)
(* tree: where the strict limits leave a node out, the relaxed call on the  *)
(* half-built tree reaches it. This takes a HighRoot of the highest level   *)
(* with every node within the largest radius, or the graph that it sees     *)
(* lacks nodes of the ring; and rings in which no node has more links than  *)
(* it may have children, or a node that is linked to a full one only is     *)
(* left out whatever the attempt.                                           *)
GraphComplete ==
    level[HighRoot] = K - 1 /\ \A n \in Node : dist2[HighRoot][n] <= Radii[Len(Radii)]
RoomForAll ==
    \A n \in Node : Cardinality((neighbors[n] \cap WithinRadius(Len(Radii))) \ {rootName})
                      <= MaxChildren
RingsBuilt == (GraphComplete /\ RoomForAll) => <>(pc = "done")

-----------------------------------------------------------------------------
(* The inductive invariant behind AlwaysATree, OneFailureTolerated and     *)
(* RingsNested.                                                            *)

(* The tables that CreateOnetRings only reads. *)
GraphInv ==
    /\ level \in Levels /\ dist \in Metrics
    /\ dist2 \in [Node -> [Node -> Nat]] /\ \A n \in Node : dist2[n][n] = 0
    /\ neighbors \in [Node -> SUBSET Node]

(* Why a tree stays one: only a visited node has children and only a node  *)
(* that is not visited moves; the root is visited first; and three hops    *)
(* are shorter than the distance that stands for no way at all.            *)
GoodTree(t, root) ==
    /\ IsTree(t, root)
    /\ \A n \in Node \ t.visited : t.Children[n] = {}
    /\ root \in t.visited \/ t = Fresh(root)
    /\ \A n \in InTree(t) : /\ t.depth[n] \in 0..3
                            /\ 3 * t.distances[n] <= t.depth[n] * (Unreached - 1)
    /\ InTree(t) \subseteq AllowedNodes

TreesInv ==
    /\ AllowedNodes = WithinRadius(countt)
    /\ GoodTree(tree, rootName) /\ GoodTree(copy, crtRoot)
    /\ localVisited \subseteq copy.visited

(* The first tree: when a call ends, the nodes that are not visited are    *)
(* the ones the last visit of the root has taken.                          *)
FirstInv ==
    /\ pc \in FirstPhase => /\ crtRoot = rootName /\ allowedLeafs = {}
                            /\ Trees[countt] = <<>>
    /\ pc \in {"firstBuilt", "relaxedBuilt"} =>
          \A n \in InTree(copy) \ copy.visited : copy.Parent[n] = rootName

(* The second tree visits no inner node of the first. *)
SecondInv ==
    /\ pc \in SecondPhase => /\ allowedLeafs = innerNodes(tree)
                             /\ InTree(tree) = AllowedNodes
                             /\ Trees[countt] = <<OnetTree(rootName, tree)>>
    /\ pc \in {"second", "secondBuilt"} => (copy.visited \cup {crtRoot}) \cap allowedLeafs = {}

(* What is settled in a ring is visited, so that it stays where it is. *)
Kept(t) ==
    \A r \in 1..Len(Radii) :
        Trees[r] # <<>> =>
            \A n \in Settled(Trees[r][1]) :
                n \in t.visited /\ t.Parent[n] = Trees[r][1].Parent[n]
KeptInv ==
    /\ \A r \in 1..Len(Radii) : Len(Trees[r]) <= 2 /\ (r > countt => Trees[r] = <<>>)
    /\ Kept(tree)
    /\ pc \in FirstPhase => Kept(copy)

RingInv ==
    /\ RingTypeOK /\ GraphInv /\ TreesInv /\ FirstInv /\ SecondInv /\ KeptInv
    /\ OneFailureTolerated /\ RingsNested
=============================================================================
