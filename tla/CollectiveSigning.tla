-------------------------- MODULE CollectiveSigning --------------------------
(***************************************************************************)
(* What a round of BFTCoSi promises: two collective signatures, one after  *)
(* the other, over all the nodes of a ring. Every node commits to both     *)
(* before the first challenge is answered, every node confirms (signs the  *)
(* prepare round) before anyone answers the second challenge, and the      *)
(* signature is released once every node has answered it. BFTCoSi          *)
(* implements this specification, whatever tree the round runs on.         *)
(***************************************************************************)
CONSTANTS Node, Root

VARIABLES stage,      \* "collect", "confirm", "respond" or "signed"
          committed,  \* the nodes that have committed to both rounds
          confirmed,  \* the nodes that have answered the prepare challenge
          responded   \* the nodes that have answered the commit challenge

vars == <<stage, committed, confirmed, responded>>

Init == /\ stage = "collect"
        /\ committed = {} /\ confirmed = {} /\ responded = {}

Commit(n) == /\ stage = "collect"
             /\ n \notin committed
             /\ committed' = committed \cup {n}
             /\ UNCHANGED <<stage, confirmed, responded>>

\* The prepare challenge goes out.
Challenge == /\ stage = "collect"
             /\ committed = Node
             /\ stage' = "confirm"
             /\ UNCHANGED <<committed, confirmed, responded>>

Confirm(n) == /\ stage = "confirm"
              /\ n # Root /\ n \notin confirmed
              /\ confirmed' = confirmed \cup {n}
              /\ UNCHANGED <<stage, committed, responded>>

\* The root confirms last, and the commit challenge goes out.
ConfirmRoot == /\ stage = "confirm"
               /\ confirmed = Node \ {Root}
               /\ confirmed' = Node
               /\ stage' = "respond"
               /\ UNCHANGED <<committed, responded>>

Respond(n) == /\ stage = "respond"
              /\ n # Root /\ n \notin responded
              /\ responded' = responded \cup {n}
              /\ UNCHANGED <<stage, committed, confirmed>>

\* The root answers last, and the signature is complete.
Sign == /\ stage = "respond"
        /\ responded = Node \ {Root}
        /\ responded' = Node
        /\ stage' = "signed"
        /\ UNCHANGED <<committed, confirmed>>

Next == \/ Challenge \/ ConfirmRoot \/ Sign
        \/ \E n \in Node : Commit(n) \/ Confirm(n) \/ Respond(n)

Spec == Init /\ [][Next]_vars
=============================================================================
