---------------------------- MODULE MCNyleService ----------------------------
(* Two conodes and two requests for NyleService.                           *)
EXTENDS NyleService, TLC

CONSTANTS a, b, c1, c2

MCNode == {a, b}

MCBunch == (a :> {b}) @@ (b :> {a})

\* A ring of one node, and rings of two. The least ring of b with a in it is
\* its second.
MCRings == (a :> <<{a}, {a, b}>>) @@ (b :> <<{b}, {a, b}>>)

\* Two requests to a, at the same time if the clients like.
MCCall == {c1, c2}
MCCallNode == [c \in MCCall |-> a]
MCReqId == (c1 :> 0) @@ (c2 :> 1)
=============================================================================
