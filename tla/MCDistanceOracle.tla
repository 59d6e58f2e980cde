-------------------------- MODULE MCDistanceOracle --------------------------
(* Four nodes on a line and on the corners of a 3 by 4 rectangle, two of *)
(* them possibly at the same place.                                      *)
EXTENDS DistanceOracle

Line == {0, 1, 3, 4}
Abs(x) == IF x < 0 THEN -x ELSE x
LineMetrics ==
    {[x \in Node |-> [y \in Node |-> Abs(pos[x] - pos[y])]] : pos \in [Node -> Line]}

Corner == {0, 3} \X {0, 4}
Side(c1, c2) ==
    CASE c1 = c2                               -> 0
      [] c1[1] # c2[1] /\ c1[2] = c2[2]        -> 3
      [] c1[1] = c2[1] /\ c1[2] # c2[2]        -> 4
      [] OTHER                                 -> 5
RectangleMetrics ==
    {[x \in Node |-> [y \in Node |-> Side(pos[x], pos[y])]] : pos \in [Node -> Corner]}

MCMetrics == LineMetrics \cup RectangleMetrics
=============================================================================
