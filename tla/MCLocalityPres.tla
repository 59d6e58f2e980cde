---------------------------- MODULE MCLocalityPres ----------------------------
(* Four nodes for LocalityPres.                                            *)
EXTENDS LocalityPres, TLC

CONSTANTS a, b, c, d

MCNode == {a, b, c, d}

\* A diamond: d can hear from b or from c first.
MCChildren == (a :> {b, c}) @@ (b :> {a, d}) @@ (c :> {a, d}) @@ (d :> {b, c})
MCParent == (a :> a) @@ (b :> a) @@ (c :> a) @@ (d :> b)
=============================================================================
