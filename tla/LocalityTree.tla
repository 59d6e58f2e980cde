----------------------------- MODULE LocalityTree -----------------------------
(***************************************************************************)
(* The graph over which the multicast of tree_experiment runs: FTtest      *)
(* (localityservice.go 143-177) optimises the locality graph if it is told *)
(* to, and CreateOnetLPTree (gentree.go 605-740) makes tree nodes of it,   *)
(* from the root outwards. A node the walk meets gets a parent; its        *)
(* children, which are all its neighbours, it gets when it is processed.   *)
(* The walk ends by a count of processed nodes that counts a node as often *)
(* as it is processed.                                                     *)
(***************************************************************************)
EXTENDS OptimizeGraph

VARIABLES
    Optimized,         \* the argument: whether OptimizeGraph is called
    NodeList,          \* nodesInTree: the nodes that have a tree node
    Children,          \* TreeNode.Children
    Parent,            \* TreeNode.Parent
    nrProcessedNodes,
    nextLevelNodes,    \* nextLevelNodesAux, which is the same map
    range,             \* what the current range has still to process
    walk               \* "no", "children", "levels", "done"

optVars == <<OptType, linkVars, a, nredges, nrPerLevel, Priority, pos, visitVars, pc>>
walkVars == <<NodeList, Children, Parent, nrProcessedNodes, nextLevelNodes, range, walk>>
allVars == <<level, dist, optVars, Optimized, walkVars>>

TreeInit ==
    /\ Init
    /\ Optimized \in BOOLEAN
    /\ NodeList = {Root} /\ nrProcessedNodes = 0
    /\ Children = [n \in Node |-> {}]
    /\ Parent = [n \in Node |-> NoName]
    /\ nextLevelNodes = {} /\ range = {}
    /\ walk = "no"

Optimize == Optimized /\ Next /\ UNCHANGED <<Optimized, walkVars>>

(* Mutant: only the loop over the cluster. *)
OptimalLinksCluster(n) == OptimalCluster[n]

(* The neighbours CreateAndSetChildren ranges over. *)
OptimalLinks(n) == OptimalCluster[n] \cup OptimalBunch[n]

(* n gets its children, and is the parent of those that are new. *)
CreateAndSetChildren(n) ==
    /\ Children' = [Children EXCEPT ![n] = @ \cup OptimalLinks(n)]
    /\ Parent' = [c \in Node |-> IF c \in OptimalLinks(n) \ NodeList THEN n ELSE Parent[c]]
    /\ NodeList' = NodeList \cup OptimalLinks(n)
    /\ nrProcessedNodes' = nrProcessedNodes + 1

ProcessRoot ==
    /\ walk = "no"
    /\ pc = "done" \/ ~Optimized
    /\ CreateAndSetChildren(Root)
    /\ range' = OptimalLinks(Root)
    /\ walk' = "children"
    /\ UNCHANGED <<level, dist, optVars, Optimized, nextLevelNodes>>

(* Mutant: the children themselves are put in the next level. *)
ProcessChildAgain ==
    /\ walk = "children"
    /\ \E n \in range :
          /\ CreateAndSetChildren(n)
          /\ nextLevelNodes' = nextLevelNodes \cup {n}
          /\ range' = range \ {n}
    /\ UNCHANGED <<level, dist, optVars, Optimized, walk>>

(* The range over the children of the root. *)
ProcessChild ==
    /\ walk = "children"
    /\ \E n \in range :
          /\ CreateAndSetChildren(n)
          /\ nextLevelNodes' = nextLevelNodes \cup Children'[n]
          /\ range' = range \ {n}
    /\ UNCHANGED <<level, dist, optVars, Optimized, walk>>

(* A range over nextLevelNodes, which the loop itself extends: Go may or    *)
(* may not come to the nodes that are added meanwhile.                      *)
ProcessNext ==
    /\ walk = "levels"
    /\ \E n \in range :
          /\ CreateAndSetChildren(n)
          /\ nextLevelNodes' = nextLevelNodes \cup Children'[n]
          /\ \E seen \in SUBSET (nextLevelNodes' \ nextLevelNodes) :
                range' = (range \ {n}) \cup seen
    /\ UNCHANGED <<level, dist, optVars, Optimized, walk>>

(* The range is through: once more, unless enough nodes were processed. *)
EndRange ==
    /\ walk \in {"children", "levels"}
    /\ range = {}
    /\ IF nrProcessedNodes <= Cardinality(Node) /\ Children[Root] # {}
       THEN walk' = "levels" /\ range' = nextLevelNodes
       ELSE walk' = "done" /\ UNCHANGED range
    /\ UNCHANGED <<level, dist, optVars, Optimized, NodeList, Children, Parent,
                   nrProcessedNodes, nextLevelNodes>>

TreeNext == Optimize \/ ProcessRoot \/ ProcessChild \/ ProcessNext \/ EndRange

TreeSpec == TreeInit /\ [][TreeNext]_allVars

-----------------------------------------------------------------------------
(* The neighbours a protocol instance finds for its node: its children, and *)
(* its parent if that is not one of them (DelayedSendToNeighbors).          *)
NeighborsOf(n) == Children[n] \cup ({Parent[n]} \cap Node)

(* S and the nodes that are one link away from it. *)
Around(S) == S \cup UNION {OptimalLinks(n) : n \in S}

(* The nodes at most two links away from the root. *)
WithinTwo == Around(Around({Root}))

(* CreateOnetLPTree stops by a count in which nodes occur repeatedly, and   *)
(* ranges over a map that it extends meanwhile. However that comes out,     *)
(* every node up to two links from the root has all its links as children,  *)
(* and every node up to three links away has a tree node.                   *)
WalkReaches ==
    walk = "done" => /\ \A n \in WithinTwo : Children[n] = OptimalLinks(n)
                     /\ Around(WithinTwo) \subseteq NodeList

(* What the multicast and the signing protocol take for granted (the         *)
(* symmetric graph of LocalityPres and DynamicTree): on the graph that is    *)
(* not optimised every node of the roster has a tree node, and two nodes     *)
(* agree on whether they are neighbours.                                     *)
NeighborsAgree ==
    walk = "done" /\ ~Optimized =>
        /\ NodeList = Node
        /\ \A m, n \in Node : m \in NeighborsOf(n) <=> n \in NeighborsOf(m)

-----------------------------------------------------------------------------
(* The inductive invariant behind the properties of the walk. *)

(* CreateAndSetChildren was called for n. *)
Processed(n) == Children[n] = OptimalLinks(n) /\ OptimalLinks(n) \subseteq NodeList

WalkTypeOK ==
    /\ Optimized \in BOOLEAN
    /\ NodeList \subseteq Node /\ Root \in NodeList
    /\ Children \in [Node -> SUBSET Node] /\ Parent \in [Node -> Node \cup {NoName}]
    /\ nrProcessedNodes \in Nat
    /\ nextLevelNodes \subseteq Node /\ range \subseteq Node
    /\ walk \in {"no", "children", "levels", "done"}

(* A node has all its links as children or none, and its parent is linked   *)
(* to it. The graph is not touched by the walk, or is as it was built.      *)
GraphKept ==
    /\ \A n \in Node : Children[n] \in {{}, OptimalLinks(n)}
    /\ \A n \in Node : Parent[n] \in Node => n \in Children[Parent[n]]
    /\ walk = "no" => Children = [n \in Node |-> {}] /\ nrProcessedNodes = 0
    /\ walk # "no" => (Optimized => pc = "done") /\ Processed(Root)
    /\ ~Optimized => /\ OptimalBunch = [n \in Node |-> Bunch(n)]
                     /\ OptimalCluster = [n \in Node |-> Cluster(n)]

(* The children of the root are processed once each, so the count cannot    *)
(* end the walk before the next level is processed, too.                    *)
WalkInv ==
    /\ walk = "children" =>
         /\ range \subseteq OptimalLinks(Root)
         /\ nrProcessedNodes + Cardinality(range) = 1 + Cardinality(OptimalLinks(Root))
         /\ \A n \in OptimalLinks(Root) \ range :
              Processed(n) /\ OptimalLinks(n) \subseteq nextLevelNodes
    /\ walk = "levels" =>
         /\ \A n \in OptimalLinks(Root) :
              /\ Processed(n) /\ OptimalLinks(n) \subseteq nextLevelNodes
              /\ \A m \in OptimalLinks(n) \ range : Processed(m)
    /\ walk = "done" => \A n \in WithinTwo : Processed(n)

TreeInv == OptimizeInv /\ WalkTypeOK /\ GraphKept /\ WalkInv
=============================================================================
