--------------------------- MODULE MCLocalityTree ---------------------------
(* Five nodes on a line.                                                   *)
EXTENDS LocalityTree

Abs(x) == IF x < 0 THEN -x ELSE x
OnLine(place) == [x \in Node |-> [y \in Node |-> Abs(place[x + 1] - place[y + 1])]]

MCMetrics == {OnLine(<<0, 1, 3, 7, 8>>), OnLine(<<0, 7, 1, 8, 3>>)}
=============================================================================
