------------------------------ MODULE MCBFTCoSi ------------------------------
(* Small rings on which TLC checks BFTCoSi.                                 *)
EXTENDS BFTCoSi

CONSTANTS a, b, c, d, e

\* The undirected graph with the given set of edges {m, n}.
Graph(N, E) == [n \in N |-> {m \in N \ {n} : {m, n} \in E}]

\* Two triangles on the edge b-c and a leaf e behind d. Announcements cross
\* on b-c and meet at d; which of b and c becomes d's parent, and whether they
\* hang under a side by side or in a chain, depends on the order of arrival.
MCNode == {a, b, c, d, e}
DiamondTail == Graph(MCNode, {{a, b}, {a, c}, {b, c}, {b, d}, {c, d}, {d, e}})

\* Every pair of four nodes is linked: up to three children under one node.
MCNode4 == {a, b, c, d}
Complete4 == Graph(MCNode4, {{m, n} : m, n \in MCNode4})

=============================================================================
