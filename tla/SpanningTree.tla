---------------------------- MODULE SpanningTree ----------------------------
(***************************************************************************)
(* What the announcement phase of ProtocolBFTCoSi promises to the rest of  *)
(* the protocol: a tree grows from the root along edges of the locality    *)
(* graph, a node that has joined never moves, and the root declares the    *)
(* tree complete only once every node of the ring has joined it.           *)
(* DynamicTree implements this specification.                              *)
(***************************************************************************)
CONSTANTS Node, Root, Nbr, None

VARIABLES tree,      \* the nodes that have joined
          parent,    \* parent[n]: the node n joined under, None outside the tree
          complete   \* the root has declared the tree complete

vars == <<tree, parent, complete>>

Init == /\ tree = {}
        /\ parent = [n \in Node |-> None]
        /\ complete = FALSE

\* The root is the first node of the tree and has no parent.
Plant == /\ Root \notin tree
         /\ tree' = tree \cup {Root}
         /\ UNCHANGED <<parent, complete>>

\* A node outside the tree joins under a neighbour that is in it.
Join(n, p) == /\ n \notin tree /\ n # Root
              /\ p \in tree /\ n \in Nbr[p]
              /\ tree' = tree \cup {n}
              /\ parent' = [parent EXCEPT ![n] = p]
              /\ UNCHANGED complete

\* The root may say the tree is complete only when it is.
Complete == /\ ~complete
            /\ tree = Node
            /\ complete' = TRUE
            /\ UNCHANGED <<tree, parent>>

Next == Plant \/ (\E n, p \in Node : Join(n, p)) \/ Complete

Spec == Init /\ [][Next]_vars
=============================================================================
