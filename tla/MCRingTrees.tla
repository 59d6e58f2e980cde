----------------------------- MODULE MCRingTrees -----------------------------
(* Five nodes in the plane, in two ways; distances along the axes. *)
EXTENDS RingTrees

Abs(x) == IF x < 0 THEN -x ELSE x
InPlane(place) ==
    [x \in Node |-> [y \in Node |->
        Abs(place[x + 1][1] - place[y + 1][1]) + Abs(place[x + 1][2] - place[y + 1][2])]]

MCMetrics == {InPlane(<< <<9, 7>>, <<0, 11>>, <<11, 1>>, <<9, 4>>, <<10, 2>> >>),
              InPlane(<< <<10, 8>>, <<10, 6>>, <<8, 11>>, <<5, 10>>, <<3, 12>> >>)}
MCRadii == <<5, 10, 14>>
=============================================================================
