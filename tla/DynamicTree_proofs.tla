------------------------- MODULE DynamicTree_proofs -------------------------
(***************************************************************************)
(* Proofs about the announcement phase for every finite connected locality *)
(* graph: Inv is inductive, it implies the safety properties that the runs *)
(* check, and DynamicTree implements SpanningTree.                         *)
(***************************************************************************)
EXTENDS DynamicTree, TLAPS, FiniteSetTheorems

-----------------------------------------------------------------------------
(* Messages and answers                                                    *)

\* Two messages are equal only if their types, senders and receivers are.
LEMMA MessagesDiffer ==
  ASSUME NEW x, NEW y, NEW u, NEW v
  PROVE  /\ Announce(x, y) = Announce(u, v) <=> x = u /\ y = v
         /\ LoopBreak(x, y) = LoopBreak(u, v) <=> x = u /\ y = v
         /\ RoundPrepare(x, y) = RoundPrepare(u, v) <=> x = u /\ y = v
         /\ Announce(x, y) # LoopBreak(u, v)
         /\ Announce(x, y) # RoundPrepare(u, v)
         /\ LoopBreak(x, y) # RoundPrepare(u, v)
BY SMT DEF Announce, LoopBreak, RoundPrepare

\* Messages between nodes are messages, and every message is one of these.
LEMMA MessagesTyped ==
  ASSUME NEW x \in Node, NEW y \in Node
  PROVE  /\ Announce(x, y) \in Message
         /\ LoopBreak(x, y) \in Message
         /\ RoundPrepare(x, y) \in Message
BY SMT DEF Announce, LoopBreak, RoundPrepare, Message

\* A message in flight is an Announce, a LoopBreak or a RoundPrepare between
\* two nodes.
LEMMA MessagesForm ==
  ASSUME NEW m \in Message
  PROVE  \E x, y \in Node : \/ m = Announce(x, y)
                            \/ m = LoopBreak(x, y)
                            \/ m = RoundPrepare(x, y)
<1>1. m.from \in Node /\ m.to \in Node
  BY SMT DEF Message
<1>2. \/ m = Announce(m.from, m.to)
      \/ m = LoopBreak(m.from, m.to)
      \/ m = RoundPrepare(m.from, m.to)
  BY SMT DEF Message, Announce, LoopBreak, RoundPrepare
<1> QED
  BY <1>1, <1>2

\* The sets whose sizes the counting argument compares are finite.
LEMMA FiniteNeighbours ==
  ASSUME NEW n \in Node
  PROVE  /\ IsFiniteSet(Nbr[n])
         /\ IsFiniteSet(Outstanding(n))
         /\ Cardinality(Nbr[n]) \in Nat
         /\ Cardinality(Outstanding(n)) \in Nat
<1>1. Nbr[n] \subseteq Node
  BY GraphAssumption
<1>2. Outstanding(n) \subseteq Node
  BY <1>1 DEF Outstanding
<1> QED
  BY <1>1, <1>2, FiniteAssumption, FS_Subset, FS_CardinalityType

\* Every node waits for a natural number of answers: all its neighbours if
\* it has no parent, all but the parent otherwise.
LEMMA WaitCount ==
  ASSUME NEW n \in Node, NEW p,
         n = Root => p = None,
         n # Root => p \in Nbr[n]
  PROVE  /\ NeighborsToWaitFor(n) \in Nat
         /\ IsFiniteSet(Nbr[n] \ {p})
         /\ Cardinality(Nbr[n] \ {p}) = NeighborsToWaitFor(n)
<1>1. IsFiniteSet(Nbr[n]) /\ Cardinality(Nbr[n]) \in Nat
  BY FiniteNeighbours
<1>2. CASE n = Root
  <2>1. Nbr[n] \ {p} = Nbr[n]
    BY <1>2, RootAssumption, GraphAssumption
  <2> QED
    BY <1>1, <1>2, <2>1 DEF NeighborsToWaitFor
<1>3. CASE n # Root
  <2>1. p \in Nbr[n]
    BY <1>3
  <2>2. /\ IsFiniteSet(Nbr[n] \ {p})
        /\ Cardinality(Nbr[n] \ {p}) = Cardinality(Nbr[n]) - 1
    BY <1>1, <2>1, FS_RemoveElement
  <2>3. Cardinality(Nbr[n] \ {p}) \in Nat
    BY <2>2, FS_CardinalityType
  <2> QED
    BY <1>3, <2>2, <2>3 DEF NeighborsToWaitFor
<1> QED
  BY <1>2, <1>3

-----------------------------------------------------------------------------
(* Inv is inductive: one lemma per operation                               *)

\* The empty network satisfies the invariant.
LEMMA InitInv == TreeInit => Inv
<1> SUFFICES ASSUME TreeInit PROVE Inv
  OBVIOUS
<1>1. TypeOK /\ PhaseInv
  BY RootAssumption DEF TreeInit, TypeOK, PhaseInv
<1>2. MsgInv /\ AnswersAddUp /\ TreeAgreement
  BY DEF TreeInit, MsgInv, AnswersAddUp, TreeAgreement
<1>3. NoCycle
  BY DEF TreeInit, NoCycle
<1> QED
  BY <1>1, <1>2, <1>3 DEF Inv

\* Only the root starts a round: if any node has seen the announcement, the
\* root has.
LEMMA RootFirst ==
  ASSUME Inv, seen # {}
  PROVE  Root \in seen
<1> SUFFICES ASSUME Root \notin seen PROVE FALSE
  OBVIOUS
<1>1. seen \in SUBSET (seen \ {Root})
  OBVIOUS
<1>2. PICK n \in seen : Parent[n] \notin seen
  BY <1>1 DEF Inv, NoCycle
<1> QED
  BY <1>2 DEF Inv, PhaseInv

\* A node that joins the tree keeps the invariant (RootAnnounce and
\* ReadAnnounce).
LEMMA FirstAnnounceInv ==
  ASSUME Inv, NEW n \in Node, NEW p \in Node \cup {None},
         \/ n = Root /\ p = None
         \/ p \in Node /\ Announce(p, n) \in msgs,
         FirstAnnounce(n, p)
  PROVE  Inv'
<1> USE DEF Inv
<1>1. /\ n \notin seen
      /\ seen' = seen \cup {n}
      /\ Parent' = [Parent EXCEPT ![n] = p]
      /\ UNCHANGED <<nrPrepareCommit, dynamicChildren, prepared>>
  BY DEF FirstAnnounce
<1>2. n = Root => p = None
  <2>1. CASE p \in Node /\ Announce(p, n) \in msgs
    <3>1. p \in seen
      BY <2>1 DEF MsgInv
    <3>2. Root \in seen
      BY <3>1, RootFirst
    <3> QED
      BY <3>2, <1>1
  <2> QED
    BY <2>1
<1>3. n # Root => /\ p \in Node /\ p \in seen
                  /\ p \in Nbr[n] /\ n \in Nbr[p]
                  /\ Announce(p, n) \in msgs
  BY GraphAssumption DEF MsgInv
<1>4. IsLeafInRound(n, p) => /\ n # Root
                             /\ Nbr[n] \ {p} = {}
                             /\ NeighborsToWaitFor(n) = 0
  <2> SUFFICES ASSUME IsLeafInRound(n, p)
               PROVE  /\ n # Root
                      /\ Nbr[n] \ {p} = {}
                      /\ NeighborsToWaitFor(n) = 0
    OBVIOUS
  <2>1. p # None /\ Cardinality(Nbr[n]) = 1
    BY DEF IsLeafInRound
  <2>2. n # Root
    BY <1>2, <2>1
  <2>3. NeighborsToWaitFor(n) = 0
    BY <2>1, <2>2 DEF NeighborsToWaitFor
  <2>4. IsFiniteSet(Nbr[n] \ {p}) /\ Cardinality(Nbr[n] \ {p}) = 0
    BY <1>2, <1>3, <2>3, WaitCount
  <2> QED
    BY <2>2, <2>3, <2>4, FS_EmptySet
<1>5. \A x, y : /\ Announce(x, y) \in msgs' <=>
                     \/ Announce(x, y) \in msgs /\ ~(x = p /\ y = n)
                     \/ x = n /\ y \in Nbr[n] \ {p}
                /\ LoopBreak(x, y) \in msgs' <=> LoopBreak(x, y) \in msgs
                /\ RoundPrepare(x, y) \in msgs' <=> RoundPrepare(x, y) \in msgs
  <2> SUFFICES ASSUME NEW x, NEW y
               PROVE  /\ Announce(x, y) \in msgs' <=>
                           \/ Announce(x, y) \in msgs /\ ~(x = p /\ y = n)
                           \/ x = n /\ y \in Nbr[n] \ {p}
                      /\ LoopBreak(x, y) \in msgs' <=> LoopBreak(x, y) \in msgs
                      /\ RoundPrepare(x, y) \in msgs' <=> RoundPrepare(x, y) \in msgs
    OBVIOUS
  <2>1. msgs' = (msgs \ {Announce(p, n)}) \cup SendToNeighborsExcParent(n, p)
    <3>1. Nbr[n] \ {p} = {} => SendToNeighborsExcParent(n, p) = {}
      BY DEF SendToNeighborsExcParent
    <3> QED
      BY <1>4, <3>1 DEF FirstAnnounce
  <2>2. /\ Announce(x, y) \in SendToNeighborsExcParent(n, p)
             <=> x = n /\ y \in Nbr[n] \ {p}
        /\ LoopBreak(x, y) \notin SendToNeighborsExcParent(n, p)
        /\ RoundPrepare(x, y) \notin SendToNeighborsExcParent(n, p)
    BY MessagesDiffer DEF SendToNeighborsExcParent
  <2> QED
    BY <2>1, <2>2, MessagesDiffer
<1>6. ready' \subseteq ready \cup {n}
  BY DEF FirstAnnounce
<1>7. n \in ready' => NeighborsToWaitFor(n) = 0
  <2>1. n \notin ready
    BY <1>1 DEF PhaseInv
  <2> QED
    BY <1>4, <2>1 DEF FirstAnnounce
<1>8. TypeOK'
  <2>1. msgs' \subseteq Message
    <3>1. SendToNeighborsExcParent(n, p) \subseteq Message
      BY MessagesTyped, GraphAssumption DEF SendToNeighborsExcParent
    <3> QED
      BY <3>1 DEF FirstAnnounce, TypeOK
  <2> QED
    BY <1>1, <1>6, <2>1 DEF TypeOK
<1>9. PhaseInv'
  <2>1. prepared' \subseteq ready' /\ ready' \subseteq seen'
    BY <1>1, <1>6 DEF PhaseInv, FirstAnnounce
  <2>2. Parent'[Root] = None
    BY <1>1, <1>2 DEF PhaseInv, TypeOK
  <2>3. \A m \in Node \ seen' : Parent'[m] = None /\ nrPrepareCommit'[m] = 0
    BY <1>1 DEF PhaseInv, TypeOK
  <2>4. \A m \in seen' \ {Root} : Parent'[m] \in Nbr[m] /\ Parent'[m] \in seen'
    BY <1>1, <1>3 DEF PhaseInv, TypeOK
  <2>5. \A m \in ready' : nrPrepareCommit'[m] = NeighborsToWaitFor(m)
    BY <1>1, <1>6, <1>7 DEF PhaseInv
  <2>6. \A m \in seen' : \A q \in Nbr[m] \ seen' : Announce(m, q) \in msgs'
    <3> SUFFICES ASSUME NEW m \in seen', NEW q \in Nbr[m] \ seen'
                 PROVE  Announce(m, q) \in msgs'
      OBVIOUS
    <3>1. CASE m = n
      <4>1. q # p
        BY <3>1, <1>1, <1>2, <1>3, RootAssumption, GraphAssumption
      <4> QED
        BY <4>1, <3>1, <1>5
    <3>2. CASE m # n
      <4>1. m \in seen /\ q \in Nbr[m] \ seen /\ q # n
        BY <3>2, <1>1
      <4>2. Announce(m, q) \in msgs
        BY <4>1 DEF PhaseInv
      <4> QED
        BY <4>1, <4>2, <1>5
    <3> QED
      BY <3>1, <3>2
  <2> QED
    BY <2>1, <2>2, <2>3, <2>4, <2>5, <2>6 DEF PhaseInv, NeighborsToWaitFor
<1>10. MsgInv'
  <2> SUFFICES ASSUME NEW x \in Node, NEW y \in Node
               PROVE
    /\ Announce(x, y) \in msgs' =>
         /\ x \in seen' /\ y \in Nbr[x] /\ Parent'[x] # y /\ Parent'[y] # x
         /\ LoopBreak(y, x) \notin msgs' /\ RoundPrepare(y, x) \notin msgs'
    /\ LoopBreak(x, y) \in msgs' =>
         /\ x \in seen' /\ y \in seen' /\ x \in Nbr[y]
         /\ Parent'[x] # y /\ Parent'[y] # x
    /\ RoundPrepare(x, y) \in msgs' =>
         x \in prepared' /\ Parent'[x] = y /\ y \in seen'
    BY DEF MsgInv
  <2>1. CASE x = n /\ y \in Nbr[n] \ {p}
    <3>1. /\ Parent'[x] # y /\ Parent'[y] = Parent[y]
          /\ x # y /\ x \notin seen
      BY <2>1, <1>1, GraphAssumption DEF TypeOK
    <3>2. Parent[y] # x
      BY <3>1, <2>1, RootAssumption DEF PhaseInv, TypeOK
    <3>3. /\ LoopBreak(y, x) \notin msgs /\ RoundPrepare(y, x) \notin msgs
          /\ LoopBreak(x, y) \notin msgs /\ RoundPrepare(x, y) \notin msgs
      BY <3>1 DEF MsgInv, PhaseInv
    <3> QED
      BY <2>1, <3>1, <3>2, <3>3, <1>1, <1>5
  <2>2. CASE ~(x = n /\ y \in Nbr[n] \ {p})
    BY <2>2, <1>1, <1>5 DEF MsgInv, PhaseInv, TypeOK
  <2> QED
    BY <2>1, <2>2
<1>11. AnswersAddUp'
  <2> SUFFICES ASSUME NEW x \in seen'
               PROVE  nrPrepareCommit'[x] + Cardinality(Outstanding(x)')
                        = NeighborsToWaitFor(x)
    BY DEF AnswersAddUp, NeighborsToWaitFor
  <2>1. CASE x = n
    <3>1. Parent'[n] = p
      BY <1>1 DEF TypeOK
    <3>2. Outstanding(n)' = Nbr[n] \ {p}
      BY <1>5, <3>1 DEF Outstanding
    <3>3. nrPrepareCommit'[n] = 0
      BY <1>1 DEF PhaseInv
    <3>4. /\ Cardinality(Nbr[n] \ {p}) = NeighborsToWaitFor(n)
          /\ NeighborsToWaitFor(n) \in Nat
      BY <1>2, <1>3, WaitCount
    <3> QED
      BY <2>1, <3>2, <3>3, <3>4
  <2>2. CASE x # n
    <3>1. x \in seen /\ x \in Node /\ Parent'[x] = Parent[x] /\ Parent[x] # n
      BY <2>2, <1>1, <1>2, <1>3, RootAssumption DEF PhaseInv, TypeOK
    <3>2. ASSUME NEW q \in Nbr[x]
          PROVE  q \in Outstanding(x)' <=> q \in Outstanding(x)
      <4>1. CASE q = n
        <5>1. Announce(x, n) \in msgs
          BY <4>1, <3>1, <1>1 DEF PhaseInv
        <5>2. n \in Outstanding(x)
          BY <5>1, <4>1, <3>1 DEF Outstanding
        <5>3. Announce(x, n) \in msgs' \/ (Parent'[n] = x /\ n \notin prepared')
          BY <5>1, <1>1, <1>5 DEF PhaseInv, TypeOK
        <5> QED
          BY <5>2, <5>3, <4>1, <3>1 DEF Outstanding
      <4>2. CASE q # n
        <5>1. q \in Node /\ Parent'[q] = Parent[q]
          BY <4>2, <3>1, <1>1, GraphAssumption DEF TypeOK
        <5> QED
          BY <5>1, <4>2, <2>2, <3>1, <1>1, <1>5 DEF Outstanding
      <4> QED
        BY <4>1, <4>2
    <3>3. Outstanding(x)' = Outstanding(x)
      BY <3>2 DEF Outstanding
    <3> QED
      BY <3>1, <3>3, <1>1 DEF AnswersAddUp
  <2> QED
    BY <2>1, <2>2
<1>12. TreeAgreement'
  <2> SUFFICES ASSUME NEW x \in Node
               PROVE  dynamicChildren'[x] = {q \in prepared' :
                        Parent'[q] = x /\ RoundPrepare(q, x) \notin msgs'}
    BY DEF TreeAgreement
  <2>1. \A q \in prepared : Parent'[q] = Parent[q]
    BY <1>1 DEF PhaseInv, TypeOK
  <2> QED
    BY <2>1, <1>1, <1>5 DEF TreeAgreement
<1>13. NoCycle'
  <2> SUFFICES ASSUME NEW S \in SUBSET (seen' \ {Root}), S # {}
               PROVE  \E x \in S : Parent'[x] \notin S
    BY DEF NoCycle
  <2>1. CASE S \subseteq {n}
    BY <2>1, <1>1, <1>2, <1>3, RootAssumption DEF TypeOK
  <2>2. CASE ~(S \subseteq {n})
    <3>1. S \ {n} \in SUBSET (seen \ {Root}) /\ S \ {n} # {}
      BY <2>2, <1>1
    <3>2. PICK x \in S \ {n} : Parent[x] \notin S \ {n}
      BY <3>1 DEF NoCycle
    <3>3. x \in seen \ {Root} /\ x \in Node
      BY <3>1, <3>2 DEF TypeOK
    <3>4. Parent[x] # n /\ Parent'[x] = Parent[x]
      BY <3>2, <3>3, <1>1 DEF PhaseInv, TypeOK
    <3> QED
      BY <3>2, <3>4
  <2> QED
    BY <2>1, <2>2
<1> QED
  BY <1>8, <1>9, <1>10, <1>11, <1>12, <1>13

\* A LoopBreak that replaces the announcement it answers keeps the invariant.
LEMMA ReadAnnounceAgainInv ==
  ASSUME Inv, NEW n \in Node, NEW q \in Node, ReadAnnounceAgain(n, q)
  PROVE  Inv'
<1> USE DEF Inv
<1>1. /\ Announce(q, n) \in msgs /\ n \in seen
      /\ UNCHANGED <<seen, Parent, nrPrepareCommit, dynamicChildren, ready, prepared>>
  BY DEF ReadAnnounceAgain
<1>2. \A x, y : /\ Announce(x, y) \in msgs' <=>
                     Announce(x, y) \in msgs /\ ~(x = q /\ y = n)
                /\ LoopBreak(x, y) \in msgs' <=>
                     LoopBreak(x, y) \in msgs \/ (x = n /\ y = q)
                /\ RoundPrepare(x, y) \in msgs' <=> RoundPrepare(x, y) \in msgs
  BY MessagesDiffer DEF ReadAnnounceAgain
<1>3. /\ q \in seen /\ n \in Nbr[q] /\ Parent[q] # n /\ Parent[n] # q
      /\ LoopBreak(n, q) \notin msgs /\ RoundPrepare(n, q) \notin msgs
  BY <1>1 DEF MsgInv
<1>4. TypeOK'
  BY <1>1, MessagesTyped DEF TypeOK, ReadAnnounceAgain
<1>5. PhaseInv'
  BY <1>1, <1>2 DEF PhaseInv, NeighborsToWaitFor
<1>6. MsgInv'
  BY <1>1, <1>2, <1>3 DEF MsgInv
<1>7. AnswersAddUp'
  <2>1. ASSUME NEW x \in seen
        PROVE  Outstanding(x)' = Outstanding(x)
    BY <1>1, <1>2, <1>3 DEF Outstanding
  <2> QED
    BY <1>1, <2>1 DEF AnswersAddUp, NeighborsToWaitFor
<1>8. TreeAgreement'
  BY <1>1, <1>2 DEF TreeAgreement
<1>9. NoCycle'
  BY <1>1 DEF NoCycle
<1> QED
  BY <1>4, <1>5, <1>6, <1>7, <1>8, <1>9

\* Parents do not point at each other.
LEMMA NoTwoCycle ==
  ASSUME Inv, NEW n \in seen, NEW q \in seen, Parent[q] = n
  PROVE  Parent[n] # q /\ q # Root
<1> USE DEF Inv
<1>1. q # Root /\ n \in Node /\ q \in Node
  BY RootAssumption DEF PhaseInv, TypeOK
<1>2. CASE n = Root
  BY <1>1, <1>2, RootAssumption DEF PhaseInv
<1>3. CASE n # Root
  <2>1. {n, q} \in SUBSET (seen \ {Root}) /\ {n, q} # {}
    BY <1>1, <1>3
  <2>2. PICK x \in {n, q} : Parent[x] \notin {n, q}
    BY <2>1 DEF NoCycle
  <2> QED
    BY <1>1, <2>2
<1> QED
  BY <1>1, <1>2, <1>3

\* Counting one answer: the counter grows by one, the neighbour q is struck
\* off the outstanding ones, and the token appears when none is left.
LEMMA CountAnswer ==
  ASSUME Inv, NEW n \in seen, NEW q \in Outstanding(n),
         UpdateCommitPrepAndCompare(n),
         Outstanding(n)' = Outstanding(n) \ {q}
  PROVE  /\ nrPrepareCommit' \in [Node -> Nat]
         /\ \A x \in Node \ {n} : nrPrepareCommit'[x] = nrPrepareCommit[x]
         /\ nrPrepareCommit'[n] + Cardinality(Outstanding(n)')
              = NeighborsToWaitFor(n)
         /\ ready \subseteq ready' /\ ready' \subseteq ready \cup {n}
         /\ n \in ready' => nrPrepareCommit'[n] = NeighborsToWaitFor(n)
<1> USE DEF Inv
<1>1. n \in Node /\ nrPrepareCommit \in [Node -> Nat]
  BY DEF TypeOK
<1>2. nrPrepareCommit' = [nrPrepareCommit EXCEPT ![n] = nrPrepareCommit[n] + 1]
  BY DEF UpdateCommitPrepAndCompare
<1>3. /\ IsFiniteSet(Outstanding(n))
      /\ Cardinality(Outstanding(n)) \in Nat
  BY <1>1, FiniteNeighbours
<1>4. /\ Cardinality(Outstanding(n) \ {q}) = Cardinality(Outstanding(n)) - 1
      /\ Cardinality(Outstanding(n) \ {q}) \in Nat
  BY <1>3, FS_RemoveElement, FS_CardinalityType
<1>5. nrPrepareCommit[n] + Cardinality(Outstanding(n)) = NeighborsToWaitFor(n)
  BY DEF AnswersAddUp
<1>6. n \notin ready
  <2>1. n \in ready => nrPrepareCommit[n] = NeighborsToWaitFor(n)
    BY DEF PhaseInv
  <2>2. nrPrepareCommit[n] # NeighborsToWaitFor(n)
    BY <1>1, <1>3, <1>4, <1>5
  <2> QED
    BY <2>1, <2>2
<1>7. /\ nrPrepareCommit'[n] = nrPrepareCommit[n] + 1
      /\ \A x \in Node \ {n} : nrPrepareCommit'[x] = nrPrepareCommit[x]
      /\ nrPrepareCommit' \in [Node -> Nat]
  BY <1>1, <1>2
<1>8. nrPrepareCommit'[n] + Cardinality(Outstanding(n)') = NeighborsToWaitFor(n)
  BY <1>1, <1>3, <1>4, <1>5, <1>7
<1>9. /\ ready \subseteq ready' /\ ready' \subseteq ready \cup {n}
      /\ n \in ready' => nrPrepareCommit'[n] = NeighborsToWaitFor(n)
  BY <1>6, <1>7 DEF UpdateCommitPrepAndCompare
<1> QED
  BY <1>7, <1>8, <1>9

\* A LoopBreak that is read and counted keeps the invariant.
LEMMA ReadLoopBreakInv ==
  ASSUME Inv, NEW n \in Node, NEW q \in Node, ReadLoopBreak(n, q)
  PROVE  Inv'
<1> USE DEF Inv
<1>1. /\ LoopBreak(q, n) \in msgs /\ n \in seen /\ n \notin prepared
      /\ UpdateCommitPrepAndCompare(n)
      /\ UNCHANGED <<seen, Parent, dynamicChildren, prepared>>
  BY DEF ReadLoopBreak, ReadsCommitChan
<1>2. \A x, y : /\ Announce(x, y) \in msgs' <=> Announce(x, y) \in msgs
                /\ LoopBreak(x, y) \in msgs' <=>
                     LoopBreak(x, y) \in msgs /\ ~(x = q /\ y = n)
                /\ RoundPrepare(x, y) \in msgs' <=> RoundPrepare(x, y) \in msgs
  BY MessagesDiffer DEF ReadLoopBreak
<1>3. /\ q \in Nbr[n] /\ Parent[q] # n /\ Parent[n] # q
      /\ Announce(n, q) \notin msgs /\ RoundPrepare(q, n) \notin msgs
  BY <1>1 DEF MsgInv
<1>4. q \in Outstanding(n)
  BY <1>1, <1>3 DEF Outstanding
<1>5. Outstanding(n)' = Outstanding(n) \ {q}
  BY <1>1, <1>2, <1>3 DEF Outstanding
<1>6. /\ nrPrepareCommit' \in [Node -> Nat]
      /\ \A x \in Node \ {n} : nrPrepareCommit'[x] = nrPrepareCommit[x]
      /\ nrPrepareCommit'[n] + Cardinality(Outstanding(n)')
           = NeighborsToWaitFor(n)
      /\ ready \subseteq ready' /\ ready' \subseteq ready \cup {n}
      /\ n \in ready' => nrPrepareCommit'[n] = NeighborsToWaitFor(n)
  BY <1>1, <1>4, <1>5, CountAnswer
<1>7. TypeOK'
  BY <1>1, <1>6 DEF TypeOK, ReadLoopBreak
<1>8. PhaseInv'
  BY <1>1, <1>2, <1>6 DEF PhaseInv, TypeOK, NeighborsToWaitFor
<1>9. MsgInv'
  BY <1>1, <1>2 DEF MsgInv
<1>10. AnswersAddUp'
  <2>1. ASSUME NEW x \in seen, x # n
        PROVE  Outstanding(x)' = Outstanding(x)
    BY <1>1, <1>2, <2>1 DEF Outstanding
  <2> QED
    BY <1>1, <1>6, <2>1 DEF AnswersAddUp, TypeOK, NeighborsToWaitFor
<1>11. TreeAgreement'
  BY <1>1, <1>2 DEF TreeAgreement
<1>12. NoCycle'
  BY <1>1 DEF NoCycle
<1> QED
  BY <1>7, <1>8, <1>9, <1>10, <1>11, <1>12

\* A RoundPrepare commitment that is read, counted and whose sender becomes a
\* dynamic child keeps the invariant.
LEMMA ReadRoundPrepareInv ==
  ASSUME Inv, NEW n \in Node, NEW q \in Node, ReadRoundPrepare(n, q)
  PROVE  Inv'
<1> USE DEF Inv
<1>1. /\ RoundPrepare(q, n) \in msgs /\ n \in seen /\ n \notin prepared
      /\ UpdateCommitPrepAndCompare(n)
      /\ dynamicChildren' = [dynamicChildren EXCEPT ![n] = @ \cup {q}]
      /\ UNCHANGED <<seen, Parent, prepared>>
  BY DEF ReadRoundPrepare, ReadsCommitChan
<1>2. \A x, y : /\ Announce(x, y) \in msgs' <=> Announce(x, y) \in msgs
                /\ LoopBreak(x, y) \in msgs' <=> LoopBreak(x, y) \in msgs
                /\ RoundPrepare(x, y) \in msgs' <=>
                     RoundPrepare(x, y) \in msgs /\ ~(x = q /\ y = n)
  BY MessagesDiffer DEF ReadRoundPrepare
<1>3. q \in prepared /\ q \in seen /\ Parent[q] = n
  BY <1>1 DEF MsgInv, PhaseInv
<1>4. Parent[n] # q /\ q \in Nbr[n]
  <2>1. Parent[n] # q /\ q # Root
    BY <1>1, <1>3, NoTwoCycle
  <2> QED
    BY <2>1, <1>3, GraphAssumption DEF PhaseInv
<1>5. Announce(n, q) \notin msgs /\ LoopBreak(q, n) \notin msgs
  BY <1>3 DEF MsgInv
<1>6. q \in Outstanding(n)
  BY <1>1, <1>4 DEF Outstanding
<1>7. Outstanding(n)' = Outstanding(n) \ {q}
  <2>1. q \notin Outstanding(n)'
    BY <1>1, <1>2, <1>3, <1>5 DEF Outstanding
  <2>2. \A x : x # q => (x \in Outstanding(n)' <=> x \in Outstanding(n))
    BY <1>1, <1>2 DEF Outstanding
  <2> QED
    BY <2>1, <2>2
<1>8. /\ nrPrepareCommit' \in [Node -> Nat]
      /\ \A x \in Node \ {n} : nrPrepareCommit'[x] = nrPrepareCommit[x]
      /\ nrPrepareCommit'[n] + Cardinality(Outstanding(n)')
           = NeighborsToWaitFor(n)
      /\ ready \subseteq ready' /\ ready' \subseteq ready \cup {n}
      /\ n \in ready' => nrPrepareCommit'[n] = NeighborsToWaitFor(n)
  BY <1>1, <1>6, <1>7, CountAnswer
<1>9. TypeOK'
  <2>1. dynamicChildren' \in [Node -> SUBSET Node]
    BY <1>1 DEF TypeOK
  <2>2. msgs' \subseteq Message
    BY DEF TypeOK, ReadRoundPrepare
  <2>3. ready' \subseteq Node
    BY <1>8 DEF TypeOK
  <2> QED
    BY <1>1, <1>8, <2>1, <2>2, <2>3 DEF TypeOK
<1>10. PhaseInv'
  BY <1>1, <1>2, <1>8 DEF PhaseInv, TypeOK, NeighborsToWaitFor
<1>11. MsgInv'
  BY <1>1, <1>2 DEF MsgInv
<1>12. AnswersAddUp'
  <2>1. ASSUME NEW x \in seen, x # n
        PROVE  Outstanding(x)' = Outstanding(x)
    BY <1>1, <1>2, <2>1 DEF Outstanding
  <2> QED
    BY <1>1, <1>8, <2>1 DEF AnswersAddUp, TypeOK, NeighborsToWaitFor
<1>13. TreeAgreement'
  <2> SUFFICES ASSUME NEW x \in Node
               PROVE  dynamicChildren'[x] = {r \in prepared' :
                        Parent'[r] = x /\ RoundPrepare(r, x) \notin msgs'}
    BY DEF TreeAgreement
  <2>1. CASE x = n
    BY <2>1, <1>1, <1>2, <1>3 DEF TreeAgreement, TypeOK
  <2>2. CASE x # n
    BY <2>2, <1>1, <1>2 DEF TreeAgreement, TypeOK
  <2> QED
    BY <2>1, <2>2
<1>14. NoCycle'
  BY <1>1 DEF NoCycle
<1> QED
  BY <1>9, <1>10, <1>11, <1>12, <1>13, <1>14

\* A node that leaves handleCommitmentPrepare keeps the invariant: its parent
\* is owed its commitment instead of its preparation.
LEMMA FinishPrepareInv ==
  ASSUME Inv, NEW n \in Node, FinishPrepare(n)
  PROVE  Inv'
<1> USE DEF Inv
<1>1. /\ n \in seen /\ n \notin prepared /\ n \in ready
      /\ prepared' = prepared \cup {n}
      /\ UNCHANGED <<seen, Parent, nrPrepareCommit, dynamicChildren, ready>>
  BY DEF FinishPrepare, ReadsCommitChan
<1>2. \A x, y : /\ Announce(x, y) \in msgs' <=> Announce(x, y) \in msgs
                /\ LoopBreak(x, y) \in msgs' <=> LoopBreak(x, y) \in msgs
                /\ RoundPrepare(x, y) \in msgs' <=>
                     \/ RoundPrepare(x, y) \in msgs
                     \/ n # Root /\ x = n /\ y = Parent[n]
  BY MessagesDiffer DEF FinishPrepare
<1>3. n # Root => Parent[n] \in Node /\ Parent[n] \in seen
  BY <1>1 DEF PhaseInv, TypeOK
<1>4. TypeOK'
  <2>1. n # Root => RoundPrepare(n, Parent[n]) \in Message
    BY <1>3, MessagesTyped
  <2>2. msgs' \subseteq Message
    BY <2>1 DEF TypeOK, FinishPrepare
  <2> QED
    BY <1>1, <2>2 DEF TypeOK
<1>5. PhaseInv'
  BY <1>1, <1>2 DEF PhaseInv, NeighborsToWaitFor
<1>6. MsgInv'
  BY <1>1, <1>2, <1>3 DEF MsgInv
<1>7. AnswersAddUp'
  <2>1. ASSUME NEW x \in seen
        PROVE  Outstanding(x)' = Outstanding(x)
    <3>1. x \in Node
      BY DEF TypeOK
    <3>2. n = Root => Parent[n] # x
      BY <3>1, RootAssumption DEF PhaseInv
    <3> QED
      BY <1>1, <1>2, <3>1, <3>2 DEF Outstanding
  <2> QED
    BY <1>1, <2>1 DEF AnswersAddUp, NeighborsToWaitFor
<1>8. TreeAgreement'
  <2> SUFFICES ASSUME NEW x \in Node
               PROVE  dynamicChildren'[x] = {r \in prepared' :
                        Parent'[r] = x /\ RoundPrepare(r, x) \notin msgs'}
    BY DEF TreeAgreement
  <2>1. Parent[n] = x => n # Root
    BY RootAssumption DEF PhaseInv
  <2> QED
    BY <1>1, <1>2, <2>1 DEF TreeAgreement
<1>9. NoCycle'
  BY <1>1 DEF NoCycle
<1> QED
  BY <1>4, <1>5, <1>6, <1>7, <1>8, <1>9

-----------------------------------------------------------------------------
(* The theorems                                                            *)

\* Inv holds in every reachable state, on every finite undirected graph.
THEOREM Invariance == TreeSpec => []Inv
<1>1. Inv /\ [TreeNext]_treeVars => Inv'
  <2> SUFFICES ASSUME Inv, [TreeNext]_treeVars PROVE Inv'
    OBVIOUS
  <2>1. CASE UNCHANGED treeVars
    BY <2>1 DEF treeVars, Inv, TypeOK, PhaseInv, MsgInv, AnswersAddUp,
                Outstanding, TreeAgreement, NoCycle, NeighborsToWaitFor
  <2>2. ASSUME NEW n \in Node, TreeStep(n) PROVE Inv'
    <3>1. CASE n = Root /\ RootAnnounce
      BY <3>1, RootAssumption, FirstAnnounceInv DEF RootAnnounce
    <3>2. CASE \E q \in Node : ReadAnnounce(n, q)
      BY <3>2, FirstAnnounceInv DEF ReadAnnounce
    <3>3. CASE \E q \in Node : ReadAnnounceAgain(n, q)
      BY <3>3, ReadAnnounceAgainInv
    <3>4. CASE \E q \in Node : ReadLoopBreak(n, q)
      BY <3>4, ReadLoopBreakInv
    <3>5. CASE \E q \in Node : ReadRoundPrepare(n, q)
      BY <3>5, ReadRoundPrepareInv
    <3>6. CASE FinishPrepare(n)
      BY <3>6, FinishPrepareInv
    <3> QED
      BY <2>2, <3>1, <3>2, <3>3, <3>4, <3>5, <3>6 DEF TreeStep
  <2> QED
    BY <2>1, <2>2 DEF TreeNext
<1> QED
  BY <1>1, InitInv, PTL DEF TreeSpec

\* A prepared node is owed nothing.
LEMMA PreparedOwedNothing ==
  ASSUME Inv, NEW n \in prepared
  PROVE  Outstanding(n) = {}
<1> USE DEF Inv
<1>1. n \in seen /\ n \in Node /\ nrPrepareCommit[n] = NeighborsToWaitFor(n)
  BY DEF PhaseInv, TypeOK
<1>2. nrPrepareCommit[n] + Cardinality(Outstanding(n)) = NeighborsToWaitFor(n)
  BY <1>1 DEF AnswersAddUp
<1>3. /\ IsFiniteSet(Outstanding(n))
      /\ Cardinality(Outstanding(n)) \in Nat
      /\ nrPrepareCommit[n] \in Nat
  BY <1>1, FiniteNeighbours DEF TypeOK
<1>4. Cardinality(Outstanding(n)) = 0
  BY <1>1, <1>2, <1>3
<1> QED
  BY <1>3, <1>4, FS_EmptySet

\* A message in flight has an end that is not prepared yet.
LEMMA InFlightMeansUnprepared ==
  ASSUME Inv, NEW m \in Node, NEW n \in Node
  PROVE  /\ Announce(m, n) \in msgs => m \notin prepared
         /\ LoopBreak(m, n) \in msgs => n \notin prepared
         /\ RoundPrepare(m, n) \in msgs => n \notin prepared
<1> USE DEF Inv
<1>1. Announce(m, n) \in msgs => n \in Outstanding(m)
  BY DEF MsgInv, Outstanding
<1>2. LoopBreak(m, n) \in msgs => m \in Outstanding(n)
  BY DEF MsgInv, Outstanding
<1>3. ASSUME RoundPrepare(m, n) \in msgs PROVE m \in Outstanding(n)
  <2>1. m \in prepared /\ m \in seen /\ n \in seen /\ Parent[m] = n
    BY <1>3 DEF MsgInv, PhaseInv
  <2>2. Parent[n] # m /\ m # Root
    BY <2>1, NoTwoCycle
  <2>3. m \in Nbr[n]
    BY <2>1, <2>2, GraphAssumption DEF PhaseInv
  <2> QED
    BY <1>3, <2>2, <2>3 DEF Outstanding
<1> QED
  BY <1>1, <1>2, <1>3, PreparedOwedNothing

\* The root prepares last, whatever the graph and however messages overtake
\* each other. The nodes seen but not prepared would contain one whose parent
\* is prepared (NoCycle), and that parent would be owed an answer; a node not
\* seen would have a prepared neighbour that still has an announcement out.
LEMMA RootLast ==
  ASSUME Inv
  PROVE  RootIsLast
<1> USE DEF Inv
<1> SUFFICES ASSUME Root \in prepared
             PROVE  /\ prepared = Node
                    /\ msgs = {}
                    /\ \A p \in Node :
                         dynamicChildren[p] = {q \in Node : Parent[q] = p}
  BY DEF RootIsLast
<1>1. seen \subseteq prepared
  <2> DEFINE S == seen \ prepared
  <2> SUFFICES ASSUME S # {} PROVE FALSE
    OBVIOUS
  <2>1. S \in SUBSET (seen \ {Root})
    OBVIOUS
  <2>2. PICK n \in S : Parent[n] \notin S
    BY <2>1 DEF NoCycle
  <2>3. n \in seen \ {Root} /\ n \in Node
    BY <2>2 DEF TypeOK
  <2>4. Parent[n] \in seen /\ Parent[n] \in Nbr[n]
    BY <2>3 DEF PhaseInv
  <2>5. Parent[n] \in prepared /\ Parent[n] \in Node
    BY <2>2, <2>4 DEF TypeOK
  <2>6. Parent[Parent[n]] # n
    BY <2>3, <2>4, NoTwoCycle
  <2>7. n \in Outstanding(Parent[n])
    BY <2>2, <2>3, <2>4, <2>5, <2>6, GraphAssumption DEF Outstanding
  <2> QED
    BY <2>5, <2>7, PreparedOwedNothing
<1>2. seen = Node
  <2> SUFFICES ASSUME seen # Node PROVE FALSE
    OBVIOUS
  <2>1. Root \in seen /\ seen \in SUBSET Node
    BY DEF PhaseInv, TypeOK
  <2>2. PICK n \in seen : Nbr[n] \ seen # {}
    BY <2>1, ConnectedAssumption
  <2>3. PICK q \in Nbr[n] : q \notin seen
    BY <2>2
  <2>4. Announce(n, q) \in msgs /\ n \in Node /\ q \in Node
    BY <2>3, GraphAssumption DEF PhaseInv, TypeOK
  <2> QED
    BY <2>4, <1>1, InFlightMeansUnprepared
<1>3. prepared = Node
  BY <1>1, <1>2 DEF TypeOK
<1>4. msgs = {}
  <2> SUFFICES ASSUME NEW m \in msgs PROVE FALSE
    OBVIOUS
  <2>1. m \in Message
    BY DEF TypeOK
  <2>2. PICK x, y \in Node : \/ m = Announce(x, y)
                             \/ m = LoopBreak(x, y)
                             \/ m = RoundPrepare(x, y)
    BY <2>1, MessagesForm
  <2> QED
    BY <2>2, <1>3, InFlightMeansUnprepared
<1>5. \A p \in Node : dynamicChildren[p] = {q \in Node : Parent[q] = p}
  BY <1>3, <1>4 DEF TreeAgreement
<1> QED
  BY <1>3, <1>4, <1>5

\* The safety properties of the announcement phase hold in every reachable
\* state.
THEOREM RootIsLastThm == TreeSpec => []RootIsLast
  BY Invariance, RootLast, PTL

\* Counted and outstanding answers always add up.
THEOREM AnswersAddUpThm == TreeSpec => []AnswersAddUp
<1>1. Inv => AnswersAddUp
  BY DEF Inv
<1> QED
  BY <1>1, Invariance, PTL

\* Parent pointers and dynamic children agree.
THEOREM TreeAgreementThm == TreeSpec => []TreeAgreement
<1>1. Inv => TreeAgreement
  BY DEF Inv
<1> QED
  BY <1>1, Invariance, PTL

\* No answer of the prepare phase is left for a node that has finished it.
THEOREM NoLateAnswerThm == TreeSpec => []NoLateAnswer
<1>1. Inv => NoLateAnswer
  <2>1. Inv => prepared \subseteq Node
    BY DEF Inv, TypeOK
  <2> QED
    BY <2>1, InFlightMeansUnprepared DEF NoLateAnswer
<1> QED
  BY <1>1, Invariance, PTL

\* The announcement phase implements the abstract spanning tree.
THEOREM Refinement == TreeSpec => TreeRefinement
<1>1. TreeInit => Tree!Init
  BY DEF TreeInit, Tree!Init
<1>2. Inv /\ Inv' /\ RootIsLast' /\ [TreeNext]_treeVars => [Tree!Next]_Tree!vars
  <2> SUFFICES ASSUME Inv, Inv', RootIsLast', [TreeNext]_treeVars
               PROVE  Tree!Next \/ UNCHANGED Tree!vars
    BY DEF Tree!vars
  <2> USE DEF Inv
  <2>1. CASE UNCHANGED treeVars
    BY <2>1 DEF treeVars, Tree!vars
  <2>2. ASSUME NEW n \in Node, TreeStep(n)
        PROVE  Tree!Next \/ UNCHANGED Tree!vars
    <3>1. CASE n = Root /\ RootAnnounce
      <4>1. Parent' = Parent
        BY <3>1 DEF RootAnnounce, FirstAnnounce, PhaseInv, TypeOK
      <4> QED
        BY <3>1, <4>1 DEF RootAnnounce, FirstAnnounce, Tree!Next, Tree!Plant
    <3>2. ASSUME NEW q \in Node, ReadAnnounce(n, q)
          PROVE  Tree!Next
      <4>1. q \in seen /\ n \in Nbr[q] /\ n \notin seen
        BY <3>2 DEF ReadAnnounce, FirstAnnounce, MsgInv
      <4>2. n # Root
        BY <4>1, RootFirst
      <4>3. Tree!Join(n, q)
        BY <3>2, <4>1, <4>2 DEF ReadAnnounce, FirstAnnounce, Tree!Join
      <4> QED
        BY <4>3 DEF Tree!Next
    <3>3. CASE \E q \in Node : ReadAnnounceAgain(n, q)
      BY <3>3 DEF ReadAnnounceAgain, Tree!vars
    <3>4. CASE \E q \in Node : ReadLoopBreak(n, q)
      BY <3>4 DEF ReadLoopBreak, Tree!vars
    <3>5. CASE \E q \in Node : ReadRoundPrepare(n, q)
      BY <3>5 DEF ReadRoundPrepare, Tree!vars
    <3>6. CASE FinishPrepare(n) /\ n # Root
      BY <3>6 DEF FinishPrepare, Tree!vars
    <3>7. CASE FinishPrepare(n) /\ n = Root
      <4>1. Root \notin prepared /\ Root \in prepared' /\ UNCHANGED <<seen, Parent>>
        BY <3>7 DEF FinishPrepare, ReadsCommitChan
      <4>2. prepared' = Node
        BY <4>1 DEF RootIsLast
      <4>3. seen = Node
        BY <4>1, <4>2 DEF PhaseInv, TypeOK
      <4> QED
        BY <4>1, <4>3 DEF Tree!Next, Tree!Complete
    <3> QED
      BY <2>2, <3>1, <3>2, <3>3, <3>4, <3>5, <3>6, <3>7 DEF TreeStep
  <2> QED
    BY <2>1, <2>2 DEF TreeNext
<1> QED
  BY <1>1, <1>2, Invariance, RootIsLastThm, PTL DEF TreeSpec, TreeRefinement, Tree!Spec
=============================================================================
