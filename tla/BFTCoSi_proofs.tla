--------------------------- MODULE BFTCoSi_proofs ---------------------------
(***************************************************************************)
(* Proofs about the whole of Dispatch, on every finite connected locality  *)
(* graph. The later phases do not disturb the announcement phase, so that  *)
(* what DynamicTree_proofs establishes holds throughout the round          *)
(* (ImplementsTree). RoundInv is inductive (RoundInvariance): while the    *)
(* root is not prepared nothing of the later phases has happened, and from *)
(* then on the tree is fixed and the lists hold current aggregates of      *)
(* children only. The safety properties of BFTCoSi and the refinement of   *)
(* CollectiveSigning follow from it.                                       *)
(***************************************************************************)
EXTENDS BFTCoSi, DynamicTree_proofs

\* Every step of Dispatch is a step of the announcement phase or leaves its
\* state alone: the composition implements DynamicTree.
THEOREM ImplementsTree == Spec => TreeSpec
<1>1. Init => TreeInit
  BY DEF Init
<1>2. [Next]_vars => [TreeNext]_treeVars
  <2> SUFFICES ASSUME [Next]_vars PROVE TreeNext \/ UNCHANGED treeVars
    OBVIOUS
  <2>1. CASE UNCHANGED vars
    BY <2>1 DEF vars
  <2>2. ASSUME NEW n \in Node, Step(n) \/ Timeout(n)
        PROVE  TreeNext \/ UNCHANGED treeVars
    <3>1. CASE AnnouncePhase(n)
      BY <3>1 DEF AnnouncePhase, TreeNext, TreeStep
    <3>2. CASE HandleCommitmentPrepare(n)
      BY <3>2 DEF HandleCommitmentPrepare, TreeNext, TreeStep
    <3>3. CASE ReadAnnouncementCommit(n)
      BY <3>3 DEF ReadAnnouncementCommit
    <3>4. CASE ReadRoundCommit(n)
      BY <3>4 DEF ReadRoundCommit
    <3>5. CASE AppendRoundCommit(n)
      BY <3>5 DEF AppendRoundCommit
    <3>6. CASE HandleCommitmentCommit(n)
      BY <3>6 DEF HandleCommitmentCommit
    <3>7. CASE HandleChallengePrepare(n)
      BY <3>7 DEF HandleChallengePrepare
    <3>8. CASE ReadResponse(n)
      BY <3>8 DEF ReadResponse
    <3>9. CASE HandleResponsePrepare(n)
      BY <3>9 DEF HandleResponsePrepare
    <3>10. CASE HandleChallengeCommit(n)
      BY <3>10 DEF HandleChallengeCommit
    <3>11. CASE HandleResponseCommit(n)
      BY <3>11 DEF HandleResponseCommit
    <3>12. CASE Timeout(n)
      BY <3>12 DEF Timeout
    <3> QED
      BY <2>2, <3>1, <3>2, <3>3, <3>4, <3>5, <3>6, <3>7, <3>8, <3>9, <3>10,
         <3>11, <3>12 DEF Step
  <2> QED
    BY <2>1, <2>2 DEF Next
<1> QED
  BY <1>1, <1>2, PTL DEF Spec, TreeSpec

\* Throughout a round, with lost appends and timeouts, the root leaves
\* handleCommitmentPrepare only when the tree spans the ring and no message of
\* the announcement phase is left.
THEOREM RootIsLastInRound == Spec => []RootIsLast
  BY ImplementsTree, RootIsLastThm, PTL

-----------------------------------------------------------------------------
(* Lists of contributions, messages and the finished tree                  *)

\* A list with at most one entry for each member of a finite set, as the code
\* compares its length with the number of dynamic children: the lengths are
\* equal exactly if every member has its entry in the list.
LEMMA CompleteList ==
  ASSUME NEW C, IsFiniteSet(C), NEW f, NEW T,
         T \subseteq {<<q, f[q]>> : q \in C}
  PROVE  Cardinality(T) = Cardinality(C) <=> \A q \in C : <<q, f[q]>> \in T
<1> DEFINE g == [t \in T |-> t[1]]
<1>1. g \in Injection(T, C)
  BY DEF Injection, IsInjective
<1>2. Cardinality(T) = Cardinality(C) <=> g \in Surjection(T, C)
  BY <1>1, FS_Injection
<1>3. g \in Surjection(T, C) <=> \A q \in C : <<q, f[q]>> \in T
  <2>1. g \in [T -> C]
    OBVIOUS
  <2>2. (\A q \in C : \E t \in T : g[t] = q) <=> \A q \in C : <<q, f[q]>> \in T
    <3>1. ASSUME NEW q \in C, NEW t \in T, g[t] = q PROVE <<q, f[q]>> \in T
      BY <3>1
    <3>2. ASSUME NEW q \in C, <<q, f[q]>> \in T PROVE g[<<q, f[q]>>] = q
      BY <3>2
    <3> QED
      BY <3>1, <3>2
  <2> QED
    BY <2>1, <2>2 DEF Surjection
<1> QED
  BY <1>2, <1>3

LEMMA MsgFields ==
  ASSUME NEW t, NEW x, NEW y, NEW s
  PROVE  /\ Msg(t, x, y, s).type = t /\ Msg(t, x, y, s).from = x
         /\ Msg(t, x, y, s).to = y /\ Msg(t, x, y, s).signers = s
  BY DEF Msg

\* A message is determined by its fields.
LEMMA MsgDetermined ==
  ASSUME BFTTypeOK, NEW m \in net, NEW k \in net,
         m.type = k.type, m.from = k.from, m.to = k.to, m.signers = k.signers
  PROVE  m = k
  BY DEF BFTTypeOK

\* A step that takes messages away and sends others leaves the messages of
\* any other type alone.
LEMMA NetOther ==
  ASSUME NEW R, NEW A, net' = (net \ R) \cup A,
         NEW t, \A m \in R \cup A : m.type # t
  PROVE  NetOf(t)' = NetOf(t)
  BY DEF NetOf

\* Once the root is prepared the tree is complete.
LEMMA CompleteTree ==
  ASSUME Inv, PrepareInv, Root \in prepared
  PROVE  /\ prepared = Node /\ seen = Node /\ msgs = {}
         /\ Parent[Root] = None
         /\ \A p \in Node : /\ dynamicChildren[p] = {q \in Node : Parent[q] = p}
                            /\ dynamicChildren[p] \subseteq Node
                            /\ IsFiniteSet(dynamicChildren[p])
                            /\ Root \notin dynamicChildren[p]
         /\ \A n \in Node \ {Root} : Parent[n] \in Node /\ n \in dynamicChildren[Parent[n]]
<1>1. /\ prepared = Node /\ msgs = {}
      /\ \A p \in Node : dynamicChildren[p] = {q \in Node : Parent[q] = p}
  BY RootLast DEF RootIsLast
<1>2. seen = Node /\ Parent[Root] = None
  BY <1>1 DEF Inv, PhaseInv, TypeOK
<1>3. ASSUME NEW p \in Node
      PROVE  /\ dynamicChildren[p] \subseteq Node /\ IsFiniteSet(dynamicChildren[p])
             /\ Root \notin dynamicChildren[p]
  <2>1. dynamicChildren[p] \in SUBSET Node /\ Root \notin dynamicChildren[p]
    BY <1>1, <1>2, RootAssumption
  <2> QED
    BY <2>1, FiniteAssumption, FS_Subset
<1>4. ASSUME NEW n \in Node \ {Root}
      PROVE  Parent[n] \in Node /\ n \in dynamicChildren[Parent[n]]
  BY <1>1, <1>2 DEF Inv, PhaseInv, TypeOK
<1> QED
  BY <1>1, <1>2, <1>3, <1>4

\* What holds of the root and is passed on from a node to its dynamic children
\* holds of all nodes.
LEMMA DownTheTree ==
  ASSUME Inv, PrepareInv, Root \in prepared,
         NEW X, Root \in X, \A p \in X \cap Node : dynamicChildren[p] \subseteq X
  PROVE  Node \subseteq X
<1> DEFINE S == Node \ X
<1> SUFFICES ASSUME S # {} PROVE FALSE
  OBVIOUS
<1>1. S \in SUBSET (seen \ {Root})
  BY CompleteTree
<1>2. PICK n \in S : Parent[n] \notin S
  BY <1>1 DEF Inv, NoCycle
<1>3. Parent[n] \in Node /\ n \in dynamicChildren[Parent[n]]
  BY <1>1, CompleteTree
<1> QED
  BY <1>2, <1>3

\* What holds of some node and is passed on from a dynamic child to its parent
\* holds of the root.
LEMMA UpTheTree ==
  ASSUME Inv, PrepareInv, Root \in prepared,
         NEW Y, NEW n \in Y \cap Node,
         \A p \in Node : \A q \in dynamicChildren[p] : q \in Y => p \in Y
  PROVE  Root \in Y
<1> DEFINE S == Y \cap Node
<1> SUFFICES ASSUME Root \notin Y PROVE FALSE
  OBVIOUS
<1>1. S \in SUBSET (seen \ {Root}) /\ S # {}
  BY CompleteTree
<1>2. PICK x \in S : Parent[x] \notin S
  BY <1>1 DEF Inv, NoCycle
<1>3. Parent[x] \in Node /\ x \in dynamicChildren[Parent[x]]
  BY <1>1, CompleteTree
<1> QED
  BY <1>2, <1>3

\* An aggregate that the root has is that of the whole ring.
LEMMA RootCoversRing ==
  ASSUME Inv, PrepareInv, Root \in prepared,
         NEW S \in SUBSET Node, Root \in S, Closed(S)
  PROVE  S = Node
  BY DownTheTree DEF Closed

\* A root that is prepared has dynamic children: the ring is not the root alone.
LEMMA RootHasChildren ==
  ASSUME Inv, PrepareInv, Root \in prepared
  PROVE  dynamicChildren[Root] # {}
<1> SUFFICES ASSUME dynamicChildren[Root] = {} PROVE FALSE
  OBVIOUS
<1>1. Node \subseteq {Root}
  <2> DEFINE X == {Root}
  <2>1. \A p \in X \cap Node : dynamicChildren[p] \subseteq X
    OBVIOUS
  <2> HIDE DEF X
  <2>2. Root \in X
    BY DEF X
  <2> QED
    BY <2>1, <2>2, DownTheTree DEF X
<1>2. Nbr[Root] # {}
  BY DEF PrepareInv, Inv, PhaseInv
<1> QED
  BY <1>1, <1>2, RootAssumption, GraphAssumption

-----------------------------------------------------------------------------
(* What the invariant says of the whole ring                               *)

\* The stages of the root are those of the ring: what the root has passed,
\* all have passed on the way up, and all have begun on the way down.
LEMMA RingStages ==
  ASSUME Inv, RoundInv, Root \in prepared
  PROVE  /\ pc[Root] # "commitCommit" =>
              /\ commitCommit[Root] = Node
              /\ \A n \in Node : commitCommit[n] # {} /\ pc[n] # "commitCommit"
         /\ \A n \in Node : pc[n] \in PastChallengePrepare => pc[Root] \in PastChallengePrepare
         /\ pc[Root] \in AtOrAfterChallengeCommit =>
              \A n \in Node : pc[n] \in AtOrAfterChallengeCommit
         /\ \A n \in Node : pc[n] \in PastChallengeCommit => pc[Root] \in PastChallengeCommit
         /\ pc[Root] = "done" => \A n \in Node : pc[n] = "done"
<1> USE DEF RoundInv, LaterInv
<1>0. Root \in Node
  BY RootAssumption
<1>1. ASSUME pc[Root] # "commitCommit"
      PROVE  /\ commitCommit[Root] = Node
             /\ \A n \in Node : commitCommit[n] # {} /\ pc[n] # "commitCommit"
  <2>1. commitCommit[Root] # {}
    BY <1>0, <1>1, RootHasChildren DEF CommittedInv
  <2>2. commitCommit[Root] = Node
    BY <1>0, <2>1, RootCoversRing DEF CommittedInv, BFTTypeOK
  <2> DEFINE X == {n \in Node : commitCommit[n] # {}}
  <2>3. Root \in X /\ \A p \in X \cap Node : dynamicChildren[p] \subseteq X
    BY <1>0, <2>1, CompleteTree DEF CommittedInv
  <2> HIDE DEF X
  <2>4. Node \subseteq X
    BY <2>3, DownTheTree
  <2> QED
    BY <2>2, <2>4 DEF X, CommittedInv
<1>2. ASSUME NEW n \in Node, pc[n] \in PastChallengePrepare
      PROVE  pc[Root] \in PastChallengePrepare
  <2> DEFINE Y == {x \in Node : pc[x] \in PastChallengePrepare}
  <2>1. n \in Y \cap Node /\ \A p \in Node : \A q \in dynamicChildren[p] : q \in Y => p \in Y
    BY <1>2 DEF ChallengePrepareInv
  <2> HIDE DEF Y
  <2>2. Root \in Y
    BY <2>1, UpTheTree
  <2> QED
    BY <2>2 DEF Y
<1>3. ASSUME pc[Root] \in AtOrAfterChallengeCommit
      PROVE  \A n \in Node : pc[n] \in AtOrAfterChallengeCommit
  <2> DEFINE X == {n \in Node : pc[n] \in AtOrAfterChallengeCommit}
  <2>1. Root \in X /\ \A p \in X \cap Node : dynamicChildren[p] \subseteq X
    BY <1>0, <1>3, CompleteTree DEF ResponsePrepareInv, GotPrepare
  <2> HIDE DEF X
  <2>2. Node \subseteq X
    BY <2>1, DownTheTree
  <2> QED
    BY <2>2 DEF X
<1>4. ASSUME NEW n \in Node, pc[n] \in PastChallengeCommit
      PROVE  pc[Root] \in PastChallengeCommit
  <2> DEFINE Y == {x \in Node : pc[x] \in PastChallengeCommit}
  <2>1. n \in Y \cap Node /\ \A p \in Node : \A q \in dynamicChildren[p] : q \in Y => p \in Y
    BY <1>4 DEF ChallengeCommitInv
  <2> HIDE DEF Y
  <2>2. Root \in Y
    BY <2>1, UpTheTree
  <2> QED
    BY <2>2 DEF Y
<1>5. ASSUME pc[Root] = "done"
      PROVE  \A n \in Node : pc[n] = "done"
  <2> DEFINE X == {n \in Node : pc[n] = "done"}
  <2>1. Root \in X /\ \A p \in X \cap Node : dynamicChildren[p] \subseteq X
    BY <1>0, <1>5, CompleteTree DEF ResponseCommitInv, GotCommit
  <2> HIDE DEF X
  <2>2. Node \subseteq X
    BY <2>1, DownTheTree
  <2> QED
    BY <2>2 DEF X
<1> QED
  BY <1>1, <1>2, <1>3, <1>4, <1>5

\* The read loops of one round never meet a message of the other.
LEMMA RoundsApart ==
  ASSUME Inv, RoundInv
  PROVE  RoundsDoNotMix
<1> USE DEF RoundInv
<1>1. CASE Root \notin prepared
  BY <1>1, MsgFields DEF QuietInv, RoundsDoNotMix
<1>2. CASE Root \in prepared
  <2> USE <1>2 DEF LaterInv
  <2>0. \A m \in net : m \in NetOf(m.type) /\ m.from \in Node /\ m.to \in Node
    BY DEF NetOf, BFTTypeOK
  <2>1. ASSUME NEW m \in net, m.type = "RoundCommit" PROVE pc[m.to] = "commitCommit"
    <3>1. m.from \in dynamicChildren[m.to] /\ <<m.from, commitCommit[m.from]>> \notin tempCommitCommit[m.to]
      BY <2>0, <2>1 DEF AppendInv
    <3>2. m.to \notin readyCommit
      BY <2>0, <3>1 DEF AppendInv, CommitEntries
    <3> QED
      BY <2>0, <3>1, <3>2 DEF CommittedInv
  <2>2. ASSUME NEW m \in net, m.type = "ResponsePrepare" PROVE pc[m.to] = "responsePrepare"
    <3>1. /\ m.from \in dynamicChildren[m.to] /\ pc[m.from] \in AtOrAfterChallengeCommit
          /\ <<m.from, PrepareResponse(m.from)>> \notin tempPrepareResponse[m.to]
      BY <2>0, <2>2 DEF ResponsePrepareInv
    <3>2. pc[m.to] \in PastChallengePrepare
      BY <2>0, <3>1 DEF ChallengePrepareInv, PastChallengePrepare, GotPrepare
    <3>3. pc[m.to] \notin GotPrepare
      BY <2>0, <3>1 DEF ResponsePrepareInv
    <3> QED
      BY <3>2, <3>3 DEF PastChallengePrepare
  <2>3. ASSUME NEW m \in net, m.type = "ResponseCommit" PROVE pc[m.to] = "responseCommit"
    <3>1. /\ m.from \in dynamicChildren[m.to] /\ pc[m.from] = "done"
          /\ <<m.from, CommitResponse(m.from)>> \notin tempCommitResponse[m.to]
      BY <2>0, <2>3 DEF ResponseCommitInv
    <3>2. pc[m.to] \in PastChallengeCommit
      BY <2>0, <3>1 DEF ChallengeCommitInv, PastChallengeCommit, GotCommit
    <3>3. pc[m.to] \notin GotCommit
      BY <2>0, <3>1 DEF ResponseCommitInv
    <3> QED
      BY <3>2, <3>3 DEF PastChallengeCommit
  <2>4. ASSUME NEW g \in appending PROVE pc[g.at] = "commitCommit"
    <3>1. g.at \in Node /\ g.entry \in CommitEntries(g.at) /\ g.entry \notin tempCommitCommit[g.at]
      BY DEF AppendInv, BFTTypeOK
    <3>2. g.at \notin readyCommit /\ dynamicChildren[g.at] # {}
      BY <3>1 DEF AppendInv, CommitEntries
    <3> QED
      BY <3>1, <3>2 DEF CommittedInv
  <2> QED
    BY <2>1, <2>2, <2>3, <2>4 DEF RoundsDoNotMix
<1> QED
  BY <1>1, <1>2

-----------------------------------------------------------------------------
(* RoundInv is inductive: the announcement phase                           *)

LEMMA RoundInit == Init => RoundInv
<1> SUFFICES ASSUME Init PROVE RoundInv
  OBVIOUS
<1>1. BFTTypeOK
  BY RootAssumption DEF Init, BFTTypeOK, Msg, LaterType, Running
<1>2. PrepareInv
  BY RootAssumption DEF Init, TreeInit, PrepareInv
<1>3. Root \notin prepared /\ QuietInv
  BY DEF Init, TreeInit, QuietInv
<1> QED
  BY <1>1, <1>2, <1>3 DEF RoundInv

\* The steps of the announcement phase change dynamic children only of nodes
\* that are not prepared.
LEMMA AnnouncePhaseRound ==
  ASSUME Inv, RoundInv, NEW n \in Node, AnnouncePhase(n)
  PROVE  RoundInv'
<1> USE DEF RoundInv
<1>1. Root \notin prepared
  <2> SUFFICES ASSUME Root \in prepared PROVE FALSE
    OBVIOUS
  <2>1. seen = Node /\ msgs = {}
    BY CompleteTree
  <2> QED
    BY <2>1 DEF AnnouncePhase, RootAnnounce, FirstAnnounce, ReadAnnounce,
                ReadAnnounceAgain, ReadLoopBreak, ReadRoundPrepare
<1> DEFINE Same == /\ prepared' = prepared
                   /\ \A x \in prepared : dynamicChildren'[x] = dynamicChildren[x]
                   /\ (Root \in ready => Nbr[Root] # {})'
<1>2. UNCHANGED laterVars /\ Same
  <2>1. UNCHANGED laterVars
    BY DEF AnnouncePhase
  <2>2. ASSUME NEW p, FirstAnnounce(n, p), n = Root => p = None
        PROVE  /\ prepared' = prepared /\ dynamicChildren' = dynamicChildren
               /\ (Root \in ready => Nbr[Root] # {})'
    BY <2>2 DEF FirstAnnounce, IsLeafInRound, PrepareInv
  <2>3. CASE n = Root /\ RootAnnounce
    BY <2>1, <2>2, <2>3 DEF RootAnnounce
  <2>4. ASSUME NEW q \in Node, ReadAnnounce(n, q)
        PROVE  Same
    <3>1. n # Root
      BY <2>4, RootFirst DEF ReadAnnounce, FirstAnnounce, Inv, MsgInv
    <3> QED
      BY <2>2, <2>4, <3>1 DEF ReadAnnounce
  <2>5. ASSUME NEW q \in Node, ReadAnnounceAgain(n, q)
        PROVE  Same
    BY <2>5 DEF ReadAnnounceAgain, PrepareInv
  <2>6. ASSUME NEW q \in Node, ReadLoopBreak(n, q)
        PROVE  Same
    <3>1. q \in Nbr[n]
      BY <2>6 DEF ReadLoopBreak, Inv, MsgInv
    <3> QED
      BY <2>6, <3>1 DEF ReadLoopBreak, UpdateCommitPrepAndCompare, PrepareInv
  <2>7. ASSUME NEW q \in Node, ReadRoundPrepare(n, q)
        PROVE  Same
    <3>1. Parent[q] = n /\ q \in seen
      BY <2>7 DEF ReadRoundPrepare, Inv, MsgInv, PhaseInv
    <3>2. q # Root /\ n \in Nbr[q]
      BY <3>1, RootAssumption DEF Inv, PhaseInv
    <3>3. q \in Nbr[n]
      BY <3>2, GraphAssumption
    <3> QED
      BY <2>7, <3>3 DEF ReadRoundPrepare, ReadsCommitChan, UpdateCommitPrepAndCompare,
                        PrepareInv, Inv, TypeOK
  <2> QED
    BY <2>1, <2>3, <2>4, <2>5, <2>6, <2>7 DEF AnnouncePhase
<1>3. BFTTypeOK'
  BY <1>2 DEF laterVars, BFTTypeOK
<1>4. PrepareInv'
  BY <1>2 DEF laterVars, PrepareInv, Closed
<1>5. QuietInv'
  BY <1>1, <1>2 DEF laterVars, QuietInv, IsLocalityTreeLeaf
<1> QED
  BY <1>1, <1>2, <1>3, <1>4, <1>5

\* A node leaves handleCommitmentPrepare with the aggregate of its subtree;
\* when the root does, the later phases begin.
LEMMA HandleCommitmentPrepareRound ==
  ASSUME Inv, RootIsLast', RoundInv, NEW n \in Node, HandleCommitmentPrepare(n)
  PROVE  RoundInv'
<1> USE DEF RoundInv
<1>1. /\ pc[n] = "prepare" /\ n \notin prepared /\ prepared' = prepared \cup {n}
      /\ n \in ready /\ UNCHANGED <<Parent, dynamicChildren, ready>>
      /\ UNCHANGED <<panic, announcedCommit, appending, tempCommitCommit, readyCommit,
                     commitCommit, tempPrepareResponse, tempCommitResponse,
                     signRefusal, signature>>
      /\ prepareCommit' = [prepareCommit EXCEPT
           ![n] = {n} \cup UNION {prepareCommit[q] : q \in dynamicChildren[n]}]
      /\ pc' = [pc EXCEPT ![n] = IF IsLocalityTreeLeaf(n) THEN "challengePrepare"
                                                          ELSE "commitCommit"]
      /\ net' = IF n = Root THEN net \cup {Msg("ChallengePrepare", n, n, {})} ELSE net
  BY DEF HandleCommitmentPrepare, FinishPrepare, ReadsCommitChan, At
<1>2. Root \notin prepared /\ QuietInv
  BY <1>1, CompleteTree
<1>3. dynamicChildren[n] \subseteq prepared /\ dynamicChildren[n] \subseteq Node
  BY DEF Inv, TreeAgreement, TypeOK
<1>4. BFTTypeOK'
  <2>1. net' \subseteq [type : LaterType, from : Node, to : Node, signers : SUBSET Node]
    BY <1>1 DEF BFTTypeOK, Msg, LaterType
  <2>2. prepareCommit' \in [Node -> SUBSET Node]
    BY <1>1, <1>3 DEF BFTTypeOK
  <2>3. pc' \in [Node -> Running \cup {"done", "failed"}]
    BY <1>1 DEF BFTTypeOK, Running
  <2> QED
    BY <1>1, <2>1, <2>2, <2>3 DEF BFTTypeOK
<1>5. PrepareInv'
  <2>1. \A x \in Node : pc'[x] = "prepare" <=> x \notin prepared'
    BY <1>1 DEF PrepareInv, BFTTypeOK
  <2>2. ASSUME NEW x \in prepared'
        PROVE  /\ x \in prepareCommit'[x] /\ prepareCommit'[x] \subseteq prepared'
               /\ Closed(prepareCommit[x])'
    <3>1. CASE x = n
      <4>1. prepareCommit'[n] = {n} \cup UNION {prepareCommit[q] : q \in dynamicChildren[n]}
        BY <1>1 DEF BFTTypeOK
      <4>2. prepareCommit'[n] \subseteq prepared'
        BY <1>1, <1>3, <4>1 DEF PrepareInv
      <4>3. ASSUME NEW m \in prepareCommit'[n]
            PROVE  dynamicChildren[m] \subseteq prepareCommit'[n]
        BY <1>3, <4>1, <4>3 DEF PrepareInv, Closed
      <4> QED
        BY <1>1, <3>1, <4>1, <4>2, <4>3 DEF Closed
    <3>2. CASE x # n
      <4>1. x \in prepared /\ prepareCommit'[x] = prepareCommit[x]
        BY <1>1, <2>2, <3>2 DEF BFTTypeOK, Inv, TypeOK
      <4> QED
        BY <1>1, <4>1 DEF PrepareInv, Closed
    <3> QED
      BY <3>1, <3>2
  <2> QED
    BY <1>1, <2>1, <2>2 DEF PrepareInv
<1>6. \A x \in prepared' : pc'[x] = IF dynamicChildren[x] = {} THEN "challengePrepare"
                                                             ELSE "commitCommit"
  BY <1>1, <1>2 DEF QuietInv, IsLocalityTreeLeaf, BFTTypeOK, Inv, TypeOK
<1>7. CASE n # Root
  <2>1. Root \notin prepared' /\ QuietInv'
    BY <1>1, <1>2, <1>6, <1>7 DEF QuietInv, IsLocalityTreeLeaf
  <2> QED
    BY <1>4, <1>5, <2>1
<1>8. CASE n = Root
  <2>1. Root \in prepared' /\ Root \in Node
    BY <1>1, <1>8
  <2>2. prepared' = Node
    BY <2>1 DEF RootIsLast
  <2>3. \A x \in Node : pc'[x] \in {"challengePrepare", "commitCommit"}
                        /\ (pc'[x] = "commitCommit" <=> dynamicChildren[x] # {})
    BY <1>6, <2>2
  <2>4. /\ net' = {Msg("AnnounceCommit", Root, Root, {}), Msg("ChallengePrepare", Root, Root, {})}
        /\ NetOf("AnnounceCommit")' = {Msg("AnnounceCommit", Root, Root, {})}
        /\ NetOf("ChallengePrepare")' = {Msg("ChallengePrepare", Root, Root, {})}
        /\ NetOf("RoundCommit")' = {} /\ NetOf("ResponsePrepare")' = {}
        /\ NetOf("ChallengeCommit")' = {} /\ NetOf("ResponseCommit")' = {}
    BY <1>1, <1>2, <1>8, MsgFields DEF NetOf, QuietInv
  <2>5. AnnounceInv' /\ CommittedInv'
    BY <1>1, <1>2, <2>3, <2>4, MsgFields DEF AnnounceInv, CommittedInv, QuietInv
  <2>6. AppendInv'
    BY <1>1, <1>2, <2>4 DEF AppendInv, QuietInv
  <2>7. ChallengePrepareInv' /\ ChallengeCommitInv'
    <3>1. \A x \in Node : pc'[x] \notin PastChallengePrepare /\ pc'[x] \notin PastChallengeCommit
      BY <2>3 DEF PastChallengePrepare, PastChallengeCommit, GotPrepare, GotCommit,
                  AtOrAfterChallengeCommit
    <3>2. \A p \in Node : dynamicChildren[p] \subseteq Node
      BY DEF Inv, TypeOK
    <3> QED
      BY <1>1, <2>1, <2>3, <2>4, <3>1, <3>2, MsgFields DEF ChallengePrepareInv, ChallengeCommitInv
  <2>8. ResponsePrepareInv' /\ ResponseCommitInv'
    BY <1>1, <1>2, <2>3, <2>4 DEF ResponsePrepareInv, ResponseCommitInv, QuietInv, GotPrepare,
                                  GotCommit, AtOrAfterChallengeCommit
  <2>9. OutcomeInv'
    BY <1>1, <1>2, <2>3 DEF OutcomeInv, ChecksNeverFail, QuietInv
  <2> QED
    BY <1>4, <1>5, <2>1, <2>5, <2>6, <2>7, <2>8, <2>9 DEF LaterInv
<1> QED
  BY <1>7, <1>8

-----------------------------------------------------------------------------
(* What a step of a later phase leaves alone. Each lemma names the state   *)
(* that one part of LaterInv is about.                                     *)

\* The later phases do not touch the tree.
LEMMA FramePrepare ==
  ASSUME PrepareInv, UNCHANGED treeVars, UNCHANGED prepareCommit,
         \A n \in Node : pc'[n] = "prepare" <=> pc[n] = "prepare"
  PROVE  PrepareInv'
  BY DEF PrepareInv, Closed, treeVars

LEMMA FrameAnnounce ==
  ASSUME AnnounceInv, UNCHANGED <<dynamicChildren, announcedCommit>>,
         NetOf("AnnounceCommit")' = NetOf("AnnounceCommit")
  PROVE  AnnounceInv'
  BY DEF AnnounceInv

LEMMA FrameCommitted ==
  ASSUME CommittedInv, UNCHANGED <<dynamicChildren, announcedCommit, commitCommit, readyCommit>>,
         \A n \in Node : pc'[n] = "commitCommit" <=> pc[n] = "commitCommit"
  PROVE  CommittedInv'
  BY DEF CommittedInv, Closed

LEMMA FrameAppend ==
  ASSUME AppendInv, UNCHANGED <<dynamicChildren, commitCommit, tempCommitCommit,
                                appending, readyCommit>>,
         NetOf("RoundCommit")' = NetOf("RoundCommit")
  PROVE  AppendInv'
<1>1. \A n : CommitEntries(n)' = CommitEntries(n)
  BY DEF CommitEntries
<1> QED
  BY <1>1 DEF AppendInv

LEMMA FrameChallengePrepare ==
  ASSUME ChallengePrepareInv, BFTTypeOK, UNCHANGED dynamicChildren,
         \A n \in Node : dynamicChildren[n] \subseteq Node,
         NetOf("ChallengePrepare")' = NetOf("ChallengePrepare"),
         \A n \in Node :
           /\ pc'[n] \in PastChallengePrepare <=> pc[n] \in PastChallengePrepare
           /\ pc[n] \in {"commitCommit", "challengePrepare"} =>
                pc'[n] \in {"commitCommit", "challengePrepare"}
  PROVE  ChallengePrepareInv'
<1>1. \A m \in NetOf("ChallengePrepare") : m.from \in Node /\ m.to \in Node
  BY DEF NetOf, BFTTypeOK
<1> QED
  BY <1>1 DEF ChallengePrepareInv

LEMMA FrameResponsePrepare ==
  ASSUME ResponsePrepareInv, BFTTypeOK, UNCHANGED <<dynamicChildren, tempPrepareResponse>>,
         \A n \in Node : dynamicChildren[n] \subseteq Node,
         NetOf("ResponsePrepare")' = NetOf("ResponsePrepare"),
         \A n \in Node :
           /\ pc'[n] \in GotPrepare <=> pc[n] \in GotPrepare
           /\ pc'[n] \in AtOrAfterChallengeCommit <=> pc[n] \in AtOrAfterChallengeCommit
           /\ pc'[n] = "responsePrepare" => dynamicChildren[n] # {}
  PROVE  ResponsePrepareInv'
<1>1. \A m \in NetOf("ResponsePrepare") : m.from \in Node /\ m.to \in Node
  BY DEF NetOf, BFTTypeOK
<1>2. \A n : PrepareResponse(n)' = PrepareResponse(n)
  BY DEF PrepareResponse, Sum
<1>3. \A n \in Node : PrepareEntries(n)' = PrepareEntries(n)
  BY <1>2 DEF PrepareEntries
<1>4. \A n \in Node : Closed(PrepareResponse(n))' <=> Closed(PrepareResponse(n))
  BY <1>2 DEF Closed
<1> QED
  BY <1>1, <1>2, <1>3, <1>4 DEF ResponsePrepareInv

LEMMA FrameChallengeCommit ==
  ASSUME ChallengeCommitInv, BFTTypeOK, UNCHANGED dynamicChildren,
         \A n \in Node : dynamicChildren[n] \subseteq Node,
         NetOf("ChallengeCommit")' = NetOf("ChallengeCommit"),
         \A n \in Node :
           /\ pc'[n] \in PastChallengeCommit <=> pc[n] \in PastChallengeCommit
           /\ pc[n] = "challengeCommit" => pc'[n] = "challengeCommit"
  PROVE  ChallengeCommitInv'
<1>1. \A m \in NetOf("ChallengeCommit") : m.from \in Node /\ m.to \in Node
  BY DEF NetOf, BFTTypeOK
<1> QED
  BY <1>1 DEF ChallengeCommitInv

LEMMA FrameResponseCommit ==
  ASSUME ResponseCommitInv, BFTTypeOK, UNCHANGED <<dynamicChildren, tempCommitResponse>>,
         \A n \in Node : dynamicChildren[n] \subseteq Node,
         NetOf("ResponseCommit")' = NetOf("ResponseCommit"),
         \A n \in Node :
           /\ pc'[n] \in GotCommit <=> pc[n] \in GotCommit
           /\ pc'[n] = "done" <=> pc[n] = "done"
           /\ pc'[n] = "responseCommit" => dynamicChildren[n] # {}
  PROVE  ResponseCommitInv'
<1>1. \A m \in NetOf("ResponseCommit") : m.from \in Node /\ m.to \in Node
  BY DEF NetOf, BFTTypeOK
<1>2. \A n : CommitResponse(n)' = CommitResponse(n)
  BY DEF CommitResponse, Sum
<1>3. \A n \in Node : CommitResponseEntries(n)' = CommitResponseEntries(n)
  BY <1>2 DEF CommitResponseEntries
<1>4. \A n \in Node : Closed(CommitResponse(n))' <=> Closed(CommitResponse(n))
  BY <1>2 DEF Closed
<1> QED
  BY <1>1, <1>2, <1>3, <1>4 DEF ResponseCommitInv

LEMMA FrameOutcome ==
  ASSUME OutcomeInv, UNCHANGED <<panic, signRefusal, signature>>,
         \A n \in Node : /\ pc'[n] # "failed"
                         /\ pc[n] = "gotPrepare" /\ panic[n] = "refused" => pc'[n] = pc[n]
                         /\ pc[n] = "done" => pc'[n] = "done"
  PROVE  OutcomeInv'
  BY RootAssumption DEF OutcomeInv, ChecksNeverFail

\* Stuttering.
LEMMA RoundStutter ==
  ASSUME RoundInv, UNCHANGED vars
  PROVE  RoundInv'
<1> USE DEF vars, treeVars, laterVars
<1>1. BFTTypeOK' = BFTTypeOK
  BY DEF BFTTypeOK
<1>2. PrepareInv' = PrepareInv
  BY DEF PrepareInv, Closed
<1>3. QuietInv' = QuietInv
  BY DEF QuietInv, IsLocalityTreeLeaf
<1>4. \A t : NetOf(t)' = NetOf(t)
  BY DEF NetOf
<1>5. AnnounceInv' = AnnounceInv /\ CommittedInv' = CommittedInv
  BY <1>4 DEF AnnounceInv, CommittedInv, Closed
<1>6. AppendInv' = AppendInv
  BY <1>4 DEF AppendInv, CommitEntries
<1>7. ChallengePrepareInv' = ChallengePrepareInv /\ ChallengeCommitInv' = ChallengeCommitInv
  BY <1>4 DEF ChallengePrepareInv, ChallengeCommitInv
<1>8. ResponsePrepareInv' = ResponsePrepareInv
  BY <1>4 DEF ResponsePrepareInv, PrepareEntries, PrepareResponse, Closed
<1>9. ResponseCommitInv' = ResponseCommitInv
  BY <1>4 DEF ResponseCommitInv, CommitResponseEntries, CommitResponse, Closed
<1>10. OutcomeInv' = OutcomeInv
  BY DEF OutcomeInv, ChecksNeverFail
<1> QED
  BY <1>1, <1>2, <1>3, <1>5, <1>6, <1>7, <1>8, <1>9, <1>10 DEF RoundInv, LaterInv

-----------------------------------------------------------------------------
(* RoundInv is inductive: the commitments of the commit round              *)

\* In the finished tree a node has one parent, which is not the node itself.
LEMMA OneParent ==
  ASSUME Inv, PrepareInv, Root \in prepared
  PROVE  /\ \A p, r \in Node : \A q \in dynamicChildren[p] :
              q # p /\ (q \in dynamicChildren[r] => p = r)
         /\ \A p \in Node : \A q \in dynamicChildren[p] : q \in Node /\ q # Root /\ Parent[q] = p
<1>1. \A p \in Node : \A q \in dynamicChildren[p] : q \in Node /\ q # Root /\ Parent[q] = p
  BY CompleteTree
<1>2. \A q \in Node \ {Root} : Parent[q] \in Nbr[q]
  BY CompleteTree DEF Inv, PhaseInv
<1>3. \A q \in Node : q \notin Nbr[q]
  BY GraphAssumption
<1> QED
  BY <1>1, <1>2, <1>3

\* A message that goes down the tree is the only one of its kind to its node.
LEMMA OneSender ==
  ASSUME Inv, PrepareInv, BFTTypeOK, Root \in prepared, NEW m \in net, NEW k \in net,
         m.type = k.type, m.to = k.to, m.signers = k.signers,
         (m.from = Root /\ m.to = Root) \/ m.to \in dynamicChildren[m.from],
         (k.from = Root /\ k.to = Root) \/ k.to \in dynamicChildren[k.from]
  PROVE  m = k
<1>1. m.from \in Node /\ k.from \in Node
  BY DEF BFTTypeOK
<1>2. m.from = k.from
  <2>1. CASE m.to = Root
    BY <1>1, <2>1, OneParent
  <2>2. CASE m.to # Root
    BY <1>1, <2>2, OneParent
  <2> QED
    BY <2>1, <2>2
<1> QED
  BY <1>2, MsgDetermined

\* A step that leaves the tree alone keeps the invariant if it keeps the part
\* about the later phases.
LEMMA LaterStep ==
  ASSUME RoundInv, Root \in prepared, UNCHANGED treeVars, UNCHANGED prepareCommit,
         \A n \in Node : pc'[n] = "prepare" <=> pc[n] = "prepare",
         BFTTypeOK', LaterInv'
  PROVE  RoundInv'
<1>1. PrepareInv'
  BY FramePrepare DEF RoundInv
<1>2. Root \in prepared'
  BY DEF treeVars
<1> QED
  BY <1>1, <1>2 DEF RoundInv

\* No later phase begins before the root is prepared.
LEMMA QuietStep ==
  ASSUME Inv, RoundInv, Root \notin prepared
  PROVE  /\ \A m \in net : m.type = "AnnounceCommit" /\ m.to = Root
         /\ appending = {} /\ readyCommit = {}
         /\ \A n \in Node : pc[n] \in {"prepare", "challengePrepare", "commitCommit"}
<1>1. QuietInv
  BY DEF RoundInv
<1>2. \A m \in net : m.type = "AnnounceCommit" /\ m.to = Root
  BY <1>1, MsgFields DEF QuietInv
<1>3. ASSUME NEW n \in Node
      PROVE  pc[n] \in {"prepare", "challengePrepare", "commitCommit"}
  BY <1>1 DEF QuietInv, RoundInv, PrepareInv
<1> QED
  BY <1>1, <1>2, <1>3 DEF QuietInv

\* The commit round does not touch the challenges and the responses.
LEMMA FrameLate ==
  ASSUME Inv, RoundInv, Root \in prepared,
         UNCHANGED <<treeVars, panic, tempPrepareResponse, tempCommitResponse,
                     signRefusal, signature>>,
         \A n \in Node : \/ pc'[n] = pc[n]
                         \/ pc[n] = "commitCommit" /\ pc'[n] = "challengePrepare",
         \A t \in {"ChallengePrepare", "ResponsePrepare", "ChallengeCommit", "ResponseCommit"} :
           NetOf(t)' = NetOf(t)
  PROVE  /\ ChallengePrepareInv' /\ ResponsePrepareInv' /\ ChallengeCommitInv'
         /\ ResponseCommitInv' /\ OutcomeInv'
<1> USE DEF RoundInv, LaterInv
<1>0. UNCHANGED dynamicChildren /\ \A n \in Node : dynamicChildren[n] \subseteq Node
  BY CompleteTree DEF treeVars
<1> DEFINE Sets == {PastChallengePrepare, GotPrepare, AtOrAfterChallengeCommit,
                    PastChallengeCommit, GotCommit}
<1>1. \A S \in Sets : "commitCommit" \notin S /\ "challengePrepare" \notin S
  BY DEF PastChallengePrepare, GotPrepare, AtOrAfterChallengeCommit, PastChallengeCommit, GotCommit
<1>2. \A S \in Sets : \A n \in Node : pc'[n] \in S <=> pc[n] \in S
  BY <1>1
<1> HIDE DEF Sets
<1>3. ChallengePrepareInv'
  BY <1>0, <1>2, FrameChallengePrepare DEF Sets
<1>4. ResponsePrepareInv'
  <2>1. \A n \in Node : pc'[n] = "responsePrepare" => dynamicChildren[n] # {}
    BY DEF ResponsePrepareInv
  <2> QED
    BY <1>0, <1>2, <2>1, FrameResponsePrepare DEF Sets
<1>5. ChallengeCommitInv'
  BY <1>0, <1>2, FrameChallengeCommit DEF Sets
<1>6. ResponseCommitInv'
  <2>1. \A n \in Node : pc'[n] = "responseCommit" => dynamicChildren[n] # {}
    BY DEF ResponseCommitInv
  <2> QED
    BY <1>0, <1>2, <2>1, FrameResponseCommit DEF Sets
<1>7. OutcomeInv'
  BY FrameOutcome DEF OutcomeInv, ChecksNeverFail
<1> QED
  BY <1>3, <1>4, <1>5, <1>6, <1>7

\* A node that commits tells its parent, whose list does not have it yet.
LEMMA CommitSent ==
  ASSUME Inv, RoundInv, Root \in prepared, NEW n \in Node, commitCommit[n] = {},
         NEW S, S # {}, commitCommit' = [commitCommit EXCEPT ![n] = S],
         UNCHANGED <<dynamicChildren, tempCommitCommit, appending, readyCommit>>,
         NetOf("RoundCommit")' = NetOf("RoundCommit") \cup
           (IF n = Root THEN {} ELSE {Msg("RoundCommit", n, Parent[n], S)})
  PROVE  AppendInv'
<1> USE DEF RoundInv, LaterInv
<1>1. \A x \in Node : commitCommit'[x] = IF x = n THEN S ELSE commitCommit[x]
  BY DEF BFTTypeOK
<1>2. \A p \in Node : dynamicChildren[p] \subseteq Node
  BY CompleteTree
<1>3. ASSUME NEW p \in Node
      PROVE  /\ CommitEntries(p) \subseteq CommitEntries(p)'
             /\ n \notin dynamicChildren[p] => CommitEntries(p)' = CommitEntries(p)
             /\ \A s : <<n, s>> \notin CommitEntries(p)
  BY <1>1, <1>2 DEF CommitEntries
<1>4. \A m \in NetOf("RoundCommit") : m.from \in Node /\ m.to \in Node
  BY DEF NetOf, BFTTypeOK
<1>5. \A g \in appending : g.at \in Node
  BY DEF BFTTypeOK
<1> DEFINE Fine(m) ==
      /\ m.from \in dynamicChildren[m.to]
      /\ m.signers = commitCommit'[m.from] /\ m.signers # {}
      /\ <<m.from, m.signers>> \notin tempCommitCommit[m.to]
      /\ \A g \in appending : g.at = m.to => <<m.from, m.signers>> \notin g.slice \cup {g.entry}
<1>6. ASSUME NEW m \in NetOf("RoundCommit")
      PROVE  Fine(m)
  BY <1>1, <1>4 DEF AppendInv
<1>7. ASSUME n # Root
      PROVE  Fine(Msg("RoundCommit", n, Parent[n], S))
  <2>1. Parent[n] \in Node /\ n \in dynamicChildren[Parent[n]]
    BY <1>7, CompleteTree
  <2>2. <<n, S>> \notin tempCommitCommit[Parent[n]]
    BY <1>3, <2>1 DEF AppendInv
  <2>3. \A g \in appending : g.at = Parent[n] => <<n, S>> \notin g.slice \cup {g.entry}
    BY <1>3, <2>1 DEF AppendInv
  <2> QED
    BY <1>1, <2>1, <2>2, <2>3, MsgFields
<1>8. \A m \in NetOf("RoundCommit")' : Fine(m)
  BY <1>6, <1>7
<1>9. ASSUME NEW g \in appending
      PROVE  g.entry \in CommitEntries(g.at)' /\ g.slice \subseteq CommitEntries(g.at)'
  BY <1>3, <1>5 DEF AppendInv
<1>10. ASSUME NEW x \in Node
       PROVE  /\ tempCommitCommit[x] \subseteq CommitEntries(x)'
              /\ x \in readyCommit => CommitEntries(x)' \subseteq tempCommitCommit[x]
                                      /\ \A q \in dynamicChildren[x] : commitCommit'[q] # {}
  BY <1>1, <1>2, <1>3 DEF AppendInv
<1> QED
  BY <1>8, <1>9, <1>10 DEF AppendInv

\* A node reads one AnnounceCommit, and passes it on or commits.
LEMMA ReadAnnouncementCommitRound ==
  ASSUME Inv, RoundInv, NEW n \in Node, ReadAnnouncementCommit(n)
  PROVE  RoundInv'
<1> USE DEF RoundInv, LaterInv
<1> DEFINE leaf == dynamicChildren[n] = {}
           sent == IF leaf THEN {Msg("RoundCommit", n, Parent[n], {n})}
                           ELSE ToChildren("AnnounceCommit", n, {})
<1>1. PICK m \in net :
        /\ m.type = "AnnounceCommit" /\ m.to = n
        /\ n \in prepared /\ n \notin announcedCommit
        /\ announcedCommit' = announcedCommit \cup {n}
        /\ net' = (net \ {m}) \cup sent
        /\ commitCommit' = IF leaf THEN [commitCommit EXCEPT ![n] = {n}] ELSE commitCommit
        /\ UNCHANGED <<treeVars, pc, panic, prepareCommit, appending, tempCommitCommit,
                       readyCommit, tempPrepareResponse, tempCommitResponse,
                       signRefusal, signature>>
  BY DEF ReadAnnouncementCommit, IsLocalityTreeLeaf
<1>2. Root \in prepared
  BY <1>1, QuietStep
<1>3. UNCHANGED <<dynamicChildren, Parent>>
  BY <1>1 DEF treeVars
<1>4. leaf => n # Root /\ Parent[n] \in Node /\ n \in dynamicChildren[Parent[n]]
  BY <1>2, RootHasChildren, CompleteTree
<1>5. \A p \in Node : dynamicChildren[p] \subseteq Node
  BY <1>2, CompleteTree
<1>6. commitCommit[n] = {}
  BY <1>1, <1>2 DEF CommittedInv
<1>7. BFTTypeOK'
  <2>1. sent \subseteq [type : LaterType, from : Node, to : Node, signers : SUBSET Node]
    BY <1>4, <1>5 DEF ToChildren, Msg, LaterType
  <2>2. commitCommit' \in [Node -> SUBSET Node]
    BY <1>1 DEF BFTTypeOK
  <2> QED
    BY <1>1, <2>1, <2>2 DEF BFTTypeOK
<1>8. /\ NetOf("AnnounceCommit")' = (NetOf("AnnounceCommit") \ {m}) \cup (IF leaf THEN {} ELSE sent)
      /\ NetOf("RoundCommit")' = NetOf("RoundCommit") \cup (IF leaf THEN sent ELSE {})
      /\ \A t \in {"ChallengePrepare", "ResponsePrepare", "ChallengeCommit", "ResponseCommit"} :
           NetOf(t)' = NetOf(t)
  BY <1>1, MsgFields DEF NetOf, ToChildren
<1>9. AnnounceInv'
  <2>0. m \in NetOf("AnnounceCommit") /\ m.from \in Node
    BY <1>1 DEF NetOf, BFTTypeOK
  <2>1. ASSUME NEW k \in NetOf("AnnounceCommit"), k # m
        PROVE  k.to # n
    <3> SUFFICES ASSUME k.to = n PROVE FALSE
      OBVIOUS
    <3>1. k \in net /\ k.type = "AnnounceCommit"
      BY DEF NetOf
    <3>2. /\ k.signers = m.signers
          /\ (m.from = Root /\ m.to = Root) \/ m.to \in dynamicChildren[m.from]
          /\ (k.from = Root /\ k.to = Root) \/ k.to \in dynamicChildren[k.from]
      BY <1>2, <2>0 DEF AnnounceInv
    <3> QED
      BY <1>1, <1>2, <2>1, <3>1, <3>2, OneSender
  <2>2. ASSUME NEW k \in sent, ~leaf
        PROVE  /\ k.signers = {} /\ k.to \notin announcedCommit \cup {n}
               /\ k.from = n /\ k.to \in dynamicChildren[n]
    <3>1. PICK q \in dynamicChildren[n] : k = Msg("AnnounceCommit", n, q, {})
      BY <2>2 DEF ToChildren
    <3>2. q \notin announcedCommit /\ q # n
      BY <1>1, <1>2, OneParent DEF AnnounceInv
    <3> QED
      BY <3>1, <3>2, MsgFields
  <2>3. \A p \in Node : n \in dynamicChildren[p] => p \in announcedCommit
    BY <1>1, <1>2, <2>0, OneParent DEF AnnounceInv
  <2>4. ASSUME NEW k \in NetOf("AnnounceCommit")'
        PROVE  /\ k.signers = {} /\ k.to \notin announcedCommit'
               /\ \/ k.from = Root /\ k.to = Root
                  \/ k.to \in dynamicChildren[k.from] /\ k.from \in announcedCommit'
    <3>1. CASE k \in NetOf("AnnounceCommit") /\ k # m
      BY <1>1, <1>2, <2>1, <3>1 DEF AnnounceInv
    <3>2. CASE ~leaf /\ k \in sent
      BY <1>1, <2>2, <3>2
    <3> QED
      BY <1>8, <3>1, <3>2
  <2>5. \A p \in Node : \A q \in dynamicChildren[p] :
          q \in announcedCommit' => p \in announcedCommit'
    BY <1>1, <1>2, <2>3 DEF AnnounceInv
  <2> QED
    BY <1>3, <2>4, <2>5 DEF AnnounceInv
<1>10. CommittedInv'
  <2>1. CASE leaf
    <3>1. \A x \in Node : commitCommit'[x] = IF x = n THEN {n} ELSE commitCommit[x]
      BY <1>1, <2>1 DEF BFTTypeOK
    <3>2. pc[n] # "commitCommit"
      BY <1>2, <2>1 DEF CommittedInv
    <3>3. ASSUME NEW x \in Node, commitCommit'[x] # {}
          PROVE  /\ x \in announcedCommit' /\ x \in commitCommit'[x]
                 /\ \A y \in commitCommit'[x] : dynamicChildren[y] \subseteq commitCommit'[x]
                 /\ \A q \in dynamicChildren[x] : commitCommit'[q] # {}
      <4>1. CASE x = n
        BY <1>1, <2>1, <3>1, <4>1
      <4>2. CASE x # n
        BY <1>1, <1>2, <1>5, <3>1, <3>3, <4>2 DEF CommittedInv, Closed
      <4> QED
        BY <4>1, <4>2
    <3>4. \A x \in Node :
            /\ pc[x] = "commitCommit" => commitCommit'[x] = {} /\ dynamicChildren[x] # {}
            /\ dynamicChildren[x] # {} /\ pc[x] # "commitCommit" =>
                 commitCommit'[x] # {} /\ x \in readyCommit
      BY <1>2, <3>1, <3>2 DEF CommittedInv
    <3> QED
      BY <1>1, <1>3, <3>3, <3>4 DEF CommittedInv, Closed
  <2>2. CASE ~leaf
    BY <1>1, <1>2, <1>3, <2>2 DEF CommittedInv, Closed
  <2> QED
    BY <2>1, <2>2
<1>11. AppendInv'
  <2>1. CASE leaf
    BY <1>1, <1>2, <1>3, <1>4, <1>6, <1>8, <2>1, CommitSent
  <2>2. CASE ~leaf
    BY <1>1, <1>2, <1>3, <1>8, <2>2, FrameAppend
  <2> QED
    BY <2>1, <2>2
<1>12. /\ ChallengePrepareInv' /\ ResponsePrepareInv' /\ ChallengeCommitInv'
       /\ ResponseCommitInv' /\ OutcomeInv'
  BY <1>1, <1>2, <1>8, FrameLate
<1> QED
  BY <1>1, <1>2, <1>7, <1>9, <1>10, <1>11, <1>12, LaterStep

\* readCommitChan moves a commitment from the network to a goroutine, which
\* holds what was stored before it.
LEMMA ReadRoundCommitRound ==
  ASSUME Inv, RoundInv, NEW n \in Node, ReadRoundCommit(n)
  PROVE  RoundInv'
<1> USE DEF RoundInv, LaterInv
<1>1. PICK m \in net :
        /\ m.type = "RoundCommit" /\ m.to = n /\ Alive(n)
        /\ net' = net \ {m}
        /\ appending' = appending \cup
             {[at |-> n, loop |-> pc[n], entry |-> <<m.from, m.signers>>,
               slice |-> tempCommitCommit[n]]}
        /\ UNCHANGED <<treeVars, pc, panic, announcedCommit, prepareCommit,
                       tempCommitCommit, readyCommit, commitCommit,
                       tempPrepareResponse, tempCommitResponse, signRefusal,
                       signature>>
  BY DEF ReadRoundCommit
<1> DEFINE new == [at |-> n, loop |-> pc[n], entry |-> <<m.from, m.signers>>,
                   slice |-> tempCommitCommit[n]]
<1>2. Root \in prepared
  BY <1>1, QuietStep
<1>3. UNCHANGED <<dynamicChildren, Parent>>
  BY <1>1 DEF treeVars
<1>4. m.from \in Node /\ m \in NetOf("RoundCommit")
  BY <1>1 DEF NetOf, BFTTypeOK
<1>5. BFTTypeOK'
  <2>1. new \in [at : Node, loop : Running, entry : Node \X SUBSET Node,
                 slice : SUBSET (Node \X SUBSET Node)]
    BY <1>1, <1>4 DEF Alive, BFTTypeOK
  <2> QED
    BY <1>1, <2>1 DEF BFTTypeOK
<1>6. /\ NetOf("RoundCommit")' = NetOf("RoundCommit") \ {m}
      /\ \A t : t # "RoundCommit" => NetOf(t)' = NetOf(t)
  BY <1>1 DEF NetOf
<1>7. AnnounceInv' /\ CommittedInv'
  BY <1>1, <1>2, <1>3, <1>6, FrameAnnounce, FrameCommitted
<1>8. AppendInv'
  <2>0. \A x : CommitEntries(x)' = CommitEntries(x)
    BY <1>1, <1>3 DEF CommitEntries
  <2>1. /\ new.at = n /\ new.entry = <<m.from, m.signers>> /\ new.slice = tempCommitCommit[n]
        /\ appending' = appending \cup {new}
    BY <1>1
  <2> HIDE DEF new
  <2>2. /\ m.from \in dynamicChildren[n] /\ m.signers = commitCommit[m.from] /\ m.signers # {}
        /\ new.entry \notin tempCommitCommit[n]
        /\ \A g \in appending : g.at = n => new.entry \notin g.slice \cup {g.entry}
    BY <1>1, <1>2, <1>4, <2>1 DEF AppendInv
  <2>3. new.entry \in CommitEntries(n) /\ new.slice \subseteq CommitEntries(n)
    BY <1>2, <2>1, <2>2 DEF CommitEntries, AppendInv
  <2>4. ASSUME NEW k \in NetOf("RoundCommit")'
        PROVE  /\ k.from \in dynamicChildren[k.to]
               /\ k.signers = commitCommit[k.from] /\ k.signers # {}
               /\ <<k.from, k.signers>> \notin tempCommitCommit[k.to]
               /\ \A g \in appending' : g.at = k.to =>
                    <<k.from, k.signers>> \notin g.slice \cup {g.entry}
    <3>1. k \in NetOf("RoundCommit") /\ k # m
      BY <1>6
    <3>2. k \in net /\ k.type = "RoundCommit" /\ k.from \in Node
      BY <3>1 DEF NetOf, BFTTypeOK
    <3>3. k.to = n => <<k.from, k.signers>> # new.entry
      BY <1>1, <2>1, <3>1, <3>2, MsgDetermined
    <3>4. /\ k.from \in dynamicChildren[k.to]
          /\ k.signers = commitCommit[k.from] /\ k.signers # {}
          /\ <<k.from, k.signers>> \notin tempCommitCommit[k.to]
          /\ \A g \in appending : g.at = k.to =>
               <<k.from, k.signers>> \notin g.slice \cup {g.entry}
      BY <1>2, <3>1 DEF AppendInv
    <3> QED
      BY <2>1, <3>3, <3>4
  <2>5. ASSUME NEW g \in appending'
        PROVE  /\ g.entry \in CommitEntries(g.at) /\ g.slice \subseteq CommitEntries(g.at)
               /\ g.entry \notin tempCommitCommit[g.at]
               /\ \A h \in appending' : h.at = g.at =>
                    g.entry \notin h.slice /\ (g.entry = h.entry => g = h)
    <3>1. CASE g = new
      BY <2>1, <2>2, <2>3, <3>1
    <3>2. CASE g \in appending
      BY <1>2, <2>1, <2>2, <3>2 DEF AppendInv
    <3> QED
      BY <2>1, <3>1, <3>2
  <2> QED
    BY <1>1, <1>2, <1>3, <2>0, <2>4, <2>5 DEF AppendInv
<1>9. /\ ChallengePrepareInv' /\ ResponsePrepareInv' /\ ChallengeCommitInv'
      /\ ResponseCommitInv' /\ OutcomeInv'
  BY <1>1, <1>2, <1>6, FrameLate
<1> QED
  BY <1>1, <1>2, <1>5, <1>7, <1>8, <1>9, LaterStep

\* An append stores the entry of the goroutine and loses none that another
\* goroutine or message holds; a list of the right length is complete.
LEMMA AppendRoundCommitRound ==
  ASSUME Inv, RoundInv, NEW n \in Node, AppendRoundCommit(n)
  PROVE  RoundInv'
<1> USE DEF RoundInv, LaterInv
<1>1. PICK g \in appending :
        /\ g.at = n
        /\ tempCommitCommit' = [tempCommitCommit EXCEPT ![n] = g.slice \cup {g.entry}]
        /\ readyCommit' =
             IF /\ g.loop = "commitCommit"
                /\ Cardinality(g.slice \cup {g.entry}) = Cardinality(dynamicChildren[n])
             THEN readyCommit \cup {n} ELSE readyCommit
        /\ appending' = appending \ {g}
        /\ UNCHANGED <<treeVars, pc, panic, announcedCommit, net, prepareCommit,
                       commitCommit, tempPrepareResponse, tempCommitResponse,
                       signRefusal, signature>>
  BY DEF AppendRoundCommit
<1> DEFINE longer == g.slice \cup {g.entry}
<1>2. Root \in prepared
  BY <1>1, QuietStep
<1>3. UNCHANGED dynamicChildren /\ \A p \in Node : IsFiniteSet(dynamicChildren[p])
  BY <1>1, <1>2, CompleteTree DEF treeVars
<1>4. BFTTypeOK'
  <2>1. longer \in SUBSET (Node \X SUBSET Node)
    BY DEF BFTTypeOK
  <2>2. tempCommitCommit' \in [Node -> SUBSET (Node \X SUBSET Node)]
    BY <1>1, <2>1 DEF BFTTypeOK
  <2> QED
    BY <1>1, <2>2 DEF BFTTypeOK
<1>5. \A t : NetOf(t)' = NetOf(t)
  BY <1>1 DEF NetOf
<1>6. \A x : CommitEntries(x)' = CommitEntries(x)
  BY <1>1, <1>3 DEF CommitEntries
<1>7. AnnounceInv' /\ CommittedInv'
  <2>1. readyCommit \subseteq readyCommit'
    BY <1>1
  <2>2. CommittedInv'
    BY <1>1, <1>2, <1>3, <2>1 DEF CommittedInv, Closed
  <2> QED
    BY <1>1, <1>2, <1>3, <1>5, <2>2, FrameAnnounce
<1>8. AppendInv'
  <2>1. /\ longer \subseteq CommitEntries(n)
        /\ g.entry \in CommitEntries(n) /\ g.entry \notin tempCommitCommit[n]
    BY <1>1, <1>2 DEF AppendInv
  <2>2. n \notin readyCommit
    BY <1>2, <2>1 DEF AppendInv
  <2>3. ASSUME n \in readyCommit'
        PROVE  /\ CommitEntries(n) \subseteq longer
               /\ \A q \in dynamicChildren[n] : commitCommit[q] # {}
    <3>1. Cardinality(longer) = Cardinality(dynamicChildren[n])
      BY <1>1, <2>2, <2>3
    <3>2. longer \subseteq {<<q, commitCommit[q]>> : q \in dynamicChildren[n]}
      BY <2>1 DEF CommitEntries
    <3> HIDE DEF longer
    <3>3. \A q \in dynamicChildren[n] : <<q, commitCommit[q]>> \in longer
      BY <1>3, <3>1, <3>2, CompleteList
    <3> QED
      BY <2>1, <3>3 DEF CommitEntries
  <2>4. ASSUME NEW k \in NetOf("RoundCommit")
        PROVE  /\ k.from \in dynamicChildren[k.to]
               /\ k.signers = commitCommit[k.from] /\ k.signers # {}
               /\ <<k.from, k.signers>> \notin tempCommitCommit'[k.to]
               /\ \A h \in appending' : h.at = k.to =>
                    <<k.from, k.signers>> \notin h.slice \cup {h.entry}
    <3>1. k.to \in Node
      BY DEF NetOf, BFTTypeOK
    <3>2. k.to = n => <<k.from, k.signers>> \notin longer
      BY <1>1, <1>2 DEF AppendInv
    <3>3. <<k.from, k.signers>> \notin tempCommitCommit'[k.to]
      BY <1>1, <1>2, <3>1, <3>2 DEF AppendInv, BFTTypeOK
    <3> QED
      BY <1>1, <1>2, <3>3 DEF AppendInv
  <2>5. ASSUME NEW h \in appending'
        PROVE  /\ h.entry \in CommitEntries(h.at) /\ h.slice \subseteq CommitEntries(h.at)
               /\ h.entry \notin tempCommitCommit'[h.at]
               /\ \A i \in appending' : i.at = h.at =>
                    h.entry \notin i.slice /\ (h.entry = i.entry => h = i)
    <3>1. h \in appending /\ h # g /\ h.at \in Node
      BY <1>1 DEF BFTTypeOK
    <3>2. h.at = n => h.entry \notin longer
      BY <1>1, <1>2, <3>1 DEF AppendInv
    <3>3. h.entry \notin tempCommitCommit'[h.at]
      BY <1>1, <1>2, <3>1, <3>2 DEF AppendInv, BFTTypeOK
    <3> QED
      BY <1>1, <1>2, <3>1, <3>3 DEF AppendInv
  <2>6. ASSUME NEW x \in Node
        PROVE  /\ tempCommitCommit'[x] \subseteq CommitEntries(x)
               /\ x \in readyCommit' => CommitEntries(x) \subseteq tempCommitCommit'[x]
                                       /\ \A q \in dynamicChildren[x] : commitCommit[q] # {}
    <3>1. CASE x = n
      <4>1. tempCommitCommit'[n] = longer
        BY <1>1 DEF BFTTypeOK
      <4> QED
        BY <2>1, <2>3, <3>1, <4>1
    <3>2. CASE x # n
      <4>1. tempCommitCommit'[x] = tempCommitCommit[x] /\ (x \in readyCommit' => x \in readyCommit)
        BY <1>1, <3>2 DEF BFTTypeOK
      <4> QED
        BY <1>2, <4>1 DEF AppendInv
    <3> QED
      BY <3>1, <3>2
  <2> QED
    BY <1>1, <1>3, <1>5, <1>6, <2>4, <2>5, <2>6 DEF AppendInv
<1>9. /\ ChallengePrepareInv' /\ ResponsePrepareInv' /\ ChallengeCommitInv'
      /\ ResponseCommitInv' /\ OutcomeInv'
  BY <1>1, <1>2, <1>5, FrameLate
<1> QED
  BY <1>1, <1>2, <1>4, <1>7, <1>8, <1>9, LaterStep

\* A node's own contribution and a list with the aggregates of its children's
\* subtrees add up to the node's subtree.
LEMMA SumClosed ==
  ASSUME NEW n, NEW T, \A e \in T : Closed(e[2]),
         \A q \in dynamicChildren[n] : \E e \in T : q \in e[2]
  PROVE  Closed({n} \cup Sum(T))
  BY DEF Closed, Sum

\* A node adds up its list once it is complete and passes the aggregate on.
LEMMA HandleCommitmentCommitRound ==
  ASSUME Inv, RoundInv, NEW n \in Node, HandleCommitmentCommit(n)
  PROVE  RoundInv'
<1> USE DEF RoundInv, LaterInv
<1> DEFINE sum == {n} \cup Sum(tempCommitCommit[n])
           sent == IF n = Root THEN {} ELSE {Msg("RoundCommit", n, Parent[n], sum)}
<1>1. /\ pc[n] = "commitCommit" /\ n \in readyCommit
      /\ commitCommit' = [commitCommit EXCEPT ![n] = sum]
      /\ net' = net \cup sent
      /\ pc' = [pc EXCEPT ![n] = "challengePrepare"]
      /\ UNCHANGED <<treeVars, panic, announcedCommit, prepareCommit, appending,
                     tempCommitCommit, readyCommit, tempPrepareResponse,
                     tempCommitResponse, signRefusal, signature>>
  BY DEF HandleCommitmentCommit, At
<1>2. Root \in prepared
  BY <1>1, QuietStep
<1>3. UNCHANGED dynamicChildren /\ \A p \in Node : dynamicChildren[p] \subseteq Node
  BY <1>1, <1>2, CompleteTree DEF treeVars
<1>4. \A x \in Node : /\ pc'[x] = IF x = n THEN "challengePrepare" ELSE pc[x]
                      /\ commitCommit'[x] = IF x = n THEN sum ELSE commitCommit[x]
  BY <1>1 DEF BFTTypeOK
<1>5. /\ commitCommit[n] = {} /\ dynamicChildren[n] # {}
      /\ tempCommitCommit[n] \subseteq CommitEntries(n)
      /\ CommitEntries(n) \subseteq tempCommitCommit[n]
      /\ \A q \in dynamicChildren[n] : commitCommit[q] # {}
  BY <1>1, <1>2 DEF CommittedInv, AppendInv
<1>6. sum \in SUBSET Node /\ n \in sum
  <2>1. \A e \in tempCommitCommit[n] : e[2] \in SUBSET Node
    BY DEF BFTTypeOK
  <2> QED
    BY <2>1 DEF Sum
<1>7. Closed(sum)
  <2>1. ASSUME NEW e \in tempCommitCommit[n] PROVE Closed(e[2])
    BY <1>2, <1>3, <1>5 DEF CommitEntries, CommittedInv
  <2>2. ASSUME NEW q \in dynamicChildren[n] PROVE \E e \in tempCommitCommit[n] : q \in e[2]
    <3>1. <<q, commitCommit[q]>> \in tempCommitCommit[n] /\ q \in commitCommit[q]
      BY <1>2, <1>3, <1>5 DEF CommitEntries, CommittedInv
    <3> QED
      BY <3>1
  <2> QED
    BY <2>1, <2>2, SumClosed
<1> HIDE DEF sum
<1>8. BFTTypeOK'
  <2>1. sent \subseteq [type : LaterType, from : Node, to : Node, signers : SUBSET Node]
    BY <1>2, <1>6, CompleteTree DEF Msg, LaterType
  <2>2. commitCommit' \in [Node -> SUBSET Node]
    BY <1>1, <1>6 DEF BFTTypeOK
  <2>3. pc' \in [Node -> Running \cup {"done", "failed"}]
    BY <1>1 DEF BFTTypeOK, Running
  <2> QED
    BY <1>1, <2>1, <2>2, <2>3 DEF BFTTypeOK
<1>9. /\ NetOf("RoundCommit")' = NetOf("RoundCommit") \cup sent
      /\ \A t : t # "RoundCommit" => NetOf(t)' = NetOf(t)
  BY <1>1, MsgFields DEF NetOf
<1>10. AnnounceInv'
  BY <1>1, <1>2, <1>3, <1>9, FrameAnnounce
<1>11. CommittedInv'
  <2>1. n \in announcedCommit
    BY <1>2, <1>3, <1>5 DEF CommittedInv, AnnounceInv
  <2>2. ASSUME NEW x \in Node, commitCommit'[x] # {}
        PROVE  /\ x \in announcedCommit /\ x \in commitCommit'[x]
               /\ \A y \in commitCommit'[x] : dynamicChildren[y] \subseteq commitCommit'[x]
               /\ \A q \in dynamicChildren[x] : commitCommit'[q] # {}
    <3>1. CASE x = n
      BY <1>3, <1>4, <1>5, <1>6, <1>7, <2>1, <3>1 DEF Closed
    <3>2. CASE x # n
      BY <1>2, <1>3, <1>4, <1>6, <2>2, <3>2 DEF CommittedInv, Closed
    <3> QED
      BY <3>1, <3>2
  <2>3. \A x \in Node :
          /\ pc'[x] = "commitCommit" => commitCommit'[x] = {} /\ dynamicChildren[x] # {}
          /\ dynamicChildren[x] # {} /\ pc'[x] # "commitCommit" =>
               commitCommit'[x] # {} /\ x \in readyCommit
    BY <1>1, <1>2, <1>4, <1>6 DEF CommittedInv
  <2> QED
    BY <1>1, <1>3, <2>2, <2>3 DEF CommittedInv, Closed
<1>12. AppendInv'
  BY <1>1, <1>2, <1>3, <1>5, <1>6, <1>9, CommitSent
<1>13. /\ ChallengePrepareInv' /\ ResponsePrepareInv' /\ ChallengeCommitInv'
       /\ ResponseCommitInv' /\ OutcomeInv'
  BY <1>1, <1>2, <1>4, <1>9, FrameLate
<1> QED
  BY <1>1, <1>2, <1>4, <1>8, <1>10, <1>11, <1>12, <1>13, LaterStep

-----------------------------------------------------------------------------
(* RoundInv is inductive: the prepare challenge and its responses          *)

\* The sets of stages, one by one.
LEMMA Stages ==
  /\ PastChallengePrepare = {"responsePrepare", "gotPrepare", "challengeCommit",
                             "responseCommit", "gotCommit", "done"}
  /\ GotPrepare = {"gotPrepare", "challengeCommit", "responseCommit", "gotCommit", "done"}
  /\ AtOrAfterChallengeCommit = {"challengeCommit", "responseCommit", "gotCommit", "done"}
  /\ PastChallengeCommit = {"responseCommit", "gotCommit", "done"}
  /\ GotCommit = {"gotCommit", "done"}
  BY DEF PastChallengePrepare, GotPrepare, AtOrAfterChallengeCommit, PastChallengeCommit, GotCommit

\* Once the root is prepared, a node is in one of the later stages.
LEMMA LaterStages ==
  ASSUME Inv, RoundInv, Root \in prepared, NEW n \in Node
  PROVE  pc[n] \in {"commitCommit", "challengePrepare", "responsePrepare", "gotPrepare",
                    "challengeCommit", "responseCommit", "gotCommit", "done"}
<1>1. pc[n] \in Running \cup {"done", "failed"}
  BY DEF RoundInv, BFTTypeOK
<1>2. pc[n] # "prepare"
  BY CompleteTree DEF RoundInv, PrepareInv
<1>3. pc[n] # "failed"
  BY DEF RoundInv, LaterInv, OutcomeInv, ChecksNeverFail
<1> QED
  BY <1>1, <1>2, <1>3 DEF Running

\* A node passes the prepare challenge on; a leaf has all responses it will get.
LEMMA HandleChallengePrepareRound ==
  ASSUME Inv, RoundInv, NEW n \in Node, HandleChallengePrepare(n)
  PROVE  RoundInv'
<1> USE DEF RoundInv, LaterInv
<1>1. PICK m \in net :
        /\ m.type = "ChallengePrepare" /\ m.to = n /\ pc[n] = "challengePrepare"
        /\ net' = (net \ {m}) \cup ToChildren("ChallengePrepare", n, {})
        /\ pc' = [pc EXCEPT ![n] = IF dynamicChildren[n] = {} THEN "gotPrepare"
                                                              ELSE "responsePrepare"]
        /\ UNCHANGED <<treeVars, panic, announcedCommit, prepareCommit, appending,
                       tempCommitCommit, readyCommit, commitCommit,
                       tempPrepareResponse, tempCommitResponse, signRefusal,
                       signature>>
  BY DEF HandleChallengePrepare, At, IsLocalityTreeLeaf
<1>2. Root \in prepared
  BY <1>1, QuietStep
<1>3. UNCHANGED dynamicChildren /\ \A p \in Node : dynamicChildren[p] \subseteq Node
  BY <1>1, <1>2, CompleteTree DEF treeVars
<1>4. \A x \in Node : pc'[x] = IF x # n THEN pc[x] ELSE
                               IF dynamicChildren[n] = {} THEN "gotPrepare" ELSE "responsePrepare"
  BY <1>1 DEF BFTTypeOK
<1>5. BFTTypeOK'
  <2>1. ToChildren("ChallengePrepare", n, {})
          \subseteq [type : LaterType, from : Node, to : Node, signers : SUBSET Node]
    BY <1>3 DEF ToChildren, Msg, LaterType
  <2>2. pc' \in [Node -> Running \cup {"done", "failed"}]
    BY <1>1 DEF BFTTypeOK, Running
  <2> QED
    BY <1>1, <2>1, <2>2 DEF BFTTypeOK
<1>6. /\ NetOf("ChallengePrepare")' = (NetOf("ChallengePrepare") \ {m})
                                        \cup ToChildren("ChallengePrepare", n, {})
      /\ \A t : t # "ChallengePrepare" => NetOf(t)' = NetOf(t)
  BY <1>1, MsgFields DEF NetOf, ToChildren
<1>7. AnnounceInv' /\ CommittedInv' /\ AppendInv'
  BY <1>1, <1>2, <1>3, <1>4, <1>6, FrameAnnounce, FrameCommitted, FrameAppend
<1>8. ChallengePrepareInv'
  <2>0. m \in NetOf("ChallengePrepare") /\ m.from \in Node
    BY <1>1 DEF NetOf, BFTTypeOK
  <2>1. ASSUME NEW k \in NetOf("ChallengePrepare"), k # m
        PROVE  k.to # n
    <3> SUFFICES ASSUME k.to = n PROVE FALSE
      OBVIOUS
    <3>1. k \in net /\ k.type = "ChallengePrepare"
      BY DEF NetOf
    <3>2. /\ k.signers = m.signers
          /\ (m.from = Root /\ m.to = Root) \/ m.to \in dynamicChildren[m.from]
          /\ (k.from = Root /\ k.to = Root) \/ k.to \in dynamicChildren[k.from]
      BY <1>2, <2>0 DEF ChallengePrepareInv
    <3> QED
      BY <1>1, <1>2, <2>1, <3>1, <3>2, OneSender
  <2>2. pc'[n] \in PastChallengePrepare /\ pc[n] \notin PastChallengePrepare
    BY <1>1, <1>4, Stages
  <2>3. \A x \in Node : pc[x] \in PastChallengePrepare => pc'[x] \in PastChallengePrepare
    BY <1>4, <2>2
  <2>4. ASSUME NEW q \in dynamicChildren[n]
        PROVE  q # n /\ pc'[q] \in {"commitCommit", "challengePrepare"}
    <3>1. q \in Node /\ q # n /\ pc[q] \notin PastChallengePrepare
      BY <1>2, <1>3, <2>2, OneParent DEF ChallengePrepareInv
    <3> QED
      BY <1>2, <1>4, <3>1, LaterStages, Stages
  <2>5. ASSUME NEW k \in NetOf("ChallengePrepare")'
        PROVE  /\ k.signers = {} /\ pc'[k.to] \in {"commitCommit", "challengePrepare"}
               /\ \/ k.from = Root /\ k.to = Root
                  \/ /\ k.to \in dynamicChildren[k.from]
                     /\ pc'[k.from] \in PastChallengePrepare
    <3>1. CASE k \in NetOf("ChallengePrepare") /\ k # m
      <4>1. k.to \in Node /\ k.from \in Node
        BY <3>1 DEF NetOf, BFTTypeOK
      <4> QED
        BY <1>2, <1>4, <2>1, <2>3, <3>1, <4>1 DEF ChallengePrepareInv
    <3>2. CASE k \in ToChildren("ChallengePrepare", n, {})
      <4>1. PICK q \in dynamicChildren[n] : k = Msg("ChallengePrepare", n, q, {})
        BY <3>2 DEF ToChildren
      <4> QED
        BY <2>2, <2>4, <4>1, MsgFields
    <3> QED
      BY <1>6, <3>1, <3>2
  <2>6. ASSUME NEW p \in Node, NEW q \in dynamicChildren[p], pc'[q] \in PastChallengePrepare
        PROVE  pc'[p] \in PastChallengePrepare
    <3>1. CASE q = n
      <4>1. m.to \in dynamicChildren[m.from] /\ pc[m.from] \in PastChallengePrepare
        BY <1>1, <1>2, <2>0, <3>1, OneParent DEF ChallengePrepareInv
      <4>2. m.from = p
        BY <1>1, <1>2, <2>0, <3>1, <4>1, OneParent
      <4> QED
        BY <2>3, <4>1, <4>2
    <3>2. CASE q # n
      BY <1>2, <1>3, <1>4, <2>3, <2>6, <3>2 DEF ChallengePrepareInv
    <3> QED
      BY <3>1, <3>2
  <2> QED
    BY <1>3, <2>5, <2>6 DEF ChallengePrepareInv
<1>9. ResponsePrepareInv'
  <2>1. \A x : PrepareResponse(x)' = PrepareResponse(x)
    BY <1>1 DEF PrepareResponse, Sum
  <2>2. \A x \in Node : pc'[x] \in AtOrAfterChallengeCommit <=> pc[x] \in AtOrAfterChallengeCommit
    BY <1>1, <1>4, Stages
  <2>3. \A x \in Node : PrepareEntries(x)' = PrepareEntries(x)
    BY <1>3, <2>1, <2>2 DEF PrepareEntries
  <2>4. \A k \in NetOf("ResponsePrepare") : k.from \in Node /\ k.to \in Node
    BY DEF NetOf, BFTTypeOK
  <2>5. ASSUME NEW x \in Node, pc'[x] \in GotPrepare
        PROVE  /\ Closed(PrepareResponse(x))
               /\ \A q \in dynamicChildren[x] :
                    /\ pc[q] \in AtOrAfterChallengeCommit
                    /\ <<q, PrepareResponse(q)>> \in tempPrepareResponse[x]
    <3>1. CASE x = n
      <4>1. dynamicChildren[n] = {}
        BY <1>4, <2>5, <3>1, Stages
      <4>2. tempPrepareResponse[n] = {}
        BY <1>2, <4>1 DEF ResponsePrepareInv, PrepareEntries
      <4>3. PrepareResponse(n) = {n}
        BY <4>2 DEF PrepareResponse, Sum
      <4> QED
        BY <3>1, <4>1, <4>3 DEF Closed
    <3>2. CASE x # n
      BY <1>2, <1>4, <2>5, <3>2 DEF ResponsePrepareInv
    <3> QED
      BY <3>1, <3>2
  <2>6. \A x \in Node : Closed(PrepareResponse(x)) => Closed(PrepareResponse(x))'
    BY <1>3, <2>1 DEF Closed
  <2>7. \A x \in Node : pc'[x] = "responsePrepare" => dynamicChildren[x] # {}
    BY <1>2, <1>4 DEF ResponsePrepareInv
  <2>8. ASSUME NEW k \in NetOf("ResponsePrepare")'
        PROVE  /\ k.from \in dynamicChildren[k.to] /\ pc'[k.from] \in AtOrAfterChallengeCommit
               /\ k.signers = PrepareResponse(k.from)
               /\ <<k.from, k.signers>> \notin tempPrepareResponse[k.to]
    BY <1>2, <1>6, <2>2, <2>4 DEF ResponsePrepareInv
  <2>9. ASSUME NEW x \in Node
        PROVE  /\ tempPrepareResponse[x] \subseteq PrepareEntries(x)
               /\ pc'[x] \in GotPrepare =>
                    /\ Closed(PrepareResponse(x))'
                    /\ \A q \in dynamicChildren[x] :
                         /\ pc'[q] \in AtOrAfterChallengeCommit
                         /\ <<q, PrepareResponse(q)>> \in tempPrepareResponse[x]
    BY <1>2, <1>3, <2>2, <2>5, <2>6 DEF ResponsePrepareInv
  <2> QED
    BY <1>1, <1>3, <2>1, <2>3, <2>7, <2>8, <2>9 DEF ResponsePrepareInv
<1>10. ChallengeCommitInv' /\ ResponseCommitInv'
  <2>1. \A x \in Node : /\ pc'[x] \in PastChallengeCommit <=> pc[x] \in PastChallengeCommit
                        /\ pc'[x] \in GotCommit <=> pc[x] \in GotCommit
                        /\ pc'[x] = "done" <=> pc[x] = "done"
                        /\ pc[x] = "challengeCommit" => pc'[x] = "challengeCommit"
    BY <1>1, <1>4, Stages
  <2>2. \A x \in Node : pc'[x] = "responseCommit" => dynamicChildren[x] # {}
    BY <1>2, <1>4 DEF ResponseCommitInv
  <2>3. ChallengeCommitInv'
    BY <1>2, <1>3, <1>6, <2>1, FrameChallengeCommit
  <2>4. ResponseCommitInv'
    BY <1>1, <1>2, <1>3, <1>6, <2>1, <2>2, FrameResponseCommit
  <2> QED
    BY <2>3, <2>4
<1>11. OutcomeInv'
  <2>1. \A x \in Node : /\ pc'[x] # "failed"
                        /\ pc[x] = "gotPrepare" /\ panic[x] = "refused" => pc'[x] = pc[x]
                        /\ pc[x] = "done" => pc'[x] = "done"
    BY <1>1, <1>2, <1>4 DEF OutcomeInv, ChecksNeverFail
  <2> QED
    BY <1>1, <1>2, <2>1, FrameOutcome
<1> QED
  BY <1>1, <1>2, <1>4, <1>5, <1>7, <1>8, <1>9, <1>10, <1>11, LaterStep

\* A prepare response joins the list of the node that waits for it; a list of
\* the right length is complete.
LEMMA ReadResponsePrepareRound ==
  ASSUME Inv, RoundInv, NEW n \in Node, NEW m \in net,
         m.to = n, m.type = "ResponsePrepare",
         tempPrepareResponse' =
           [tempPrepareResponse EXCEPT ![n] = @ \cup {<<m.from, m.signers>>}],
         pc' = IF /\ pc[n] = "responsePrepare"
                  /\ Cardinality(tempPrepareResponse'[n]) = Cardinality(dynamicChildren[n])
               THEN [pc EXCEPT ![n] = "gotPrepare"] ELSE pc,
         net' = net \ {m},
         UNCHANGED <<treeVars, panic, announcedCommit, prepareCommit, appending,
                     tempCommitCommit, readyCommit, commitCommit,
                     tempCommitResponse, signRefusal, signature>>
  PROVE  RoundInv'
<1> USE DEF RoundInv, LaterInv
<1> DEFINE longer == tempPrepareResponse[n] \cup {<<m.from, m.signers>>}
           complete == Cardinality(longer) = Cardinality(dynamicChildren[n])
<1>1. Root \in prepared
  BY QuietStep
<1>2. pc[n] = "responsePrepare"
  BY RoundsApart DEF RoundsDoNotMix
<1>3. /\ UNCHANGED dynamicChildren
      /\ \A p \in Node : dynamicChildren[p] \subseteq Node /\ IsFiniteSet(dynamicChildren[p])
  BY <1>1, CompleteTree DEF treeVars
<1>4. m.from \in Node /\ m \in NetOf("ResponsePrepare")
  BY DEF NetOf, BFTTypeOK
<1>5. \A x \in Node :
        /\ pc'[x] = IF x = n /\ complete THEN "gotPrepare" ELSE pc[x]
        /\ tempPrepareResponse'[x] = IF x = n THEN longer ELSE tempPrepareResponse[x]
  BY <1>2 DEF BFTTypeOK
<1>6. BFTTypeOK'
  <2>1. longer \in SUBSET (Node \X SUBSET Node)
    BY <1>4 DEF BFTTypeOK
  <2>2. tempPrepareResponse' \in [Node -> SUBSET (Node \X SUBSET Node)]
    BY <2>1 DEF BFTTypeOK
  <2>3. pc' \in [Node -> Running \cup {"done", "failed"}]
    BY DEF BFTTypeOK, Running
  <2> QED
    BY <2>2, <2>3 DEF BFTTypeOK
<1>7. /\ NetOf("ResponsePrepare")' = NetOf("ResponsePrepare") \ {m}
      /\ \A t : t # "ResponsePrepare" => NetOf(t)' = NetOf(t)
  BY DEF NetOf
<1>8. \A x \in Node :
        /\ pc'[x] = "prepare" <=> pc[x] = "prepare"
        /\ pc'[x] = "commitCommit" <=> pc[x] = "commitCommit"
        /\ pc[x] \in {"commitCommit", "challengePrepare"} =>
             pc'[x] \in {"commitCommit", "challengePrepare"}
        /\ pc'[x] \in PastChallengePrepare <=> pc[x] \in PastChallengePrepare
        /\ pc'[x] \in AtOrAfterChallengeCommit <=> pc[x] \in AtOrAfterChallengeCommit
        /\ pc'[x] \in PastChallengeCommit <=> pc[x] \in PastChallengeCommit
        /\ pc'[x] \in GotCommit <=> pc[x] \in GotCommit
        /\ pc'[x] = "done" <=> pc[x] = "done"
        /\ pc[x] = "challengeCommit" => pc'[x] = "challengeCommit"
        /\ pc'[x] = "responseCommit" => pc[x] = "responseCommit"
        /\ pc'[x] = "responsePrepare" => pc[x] = "responsePrepare"
        /\ pc'[x] = "failed" => pc[x] = "failed"
        /\ pc[x] = "gotPrepare" => pc'[x] = pc[x]
  BY <1>2, <1>5, Stages
<1>9. AnnounceInv' /\ CommittedInv' /\ AppendInv'
  BY <1>1, <1>3, <1>7, <1>8, FrameAnnounce, FrameCommitted, FrameAppend
<1>10. ChallengePrepareInv' /\ ChallengeCommitInv'
  BY <1>1, <1>3, <1>7, <1>8, FrameChallengePrepare, FrameChallengeCommit
<1>11. ResponsePrepareInv'
  <2>1. \A x \in Node : x # n => PrepareResponse(x)' = PrepareResponse(x)
    BY <1>5 DEF PrepareResponse, Sum
  <2>2. pc[n] \notin AtOrAfterChallengeCommit
    BY <1>2, Stages
  <2>0. \A q \in Node : pc[q] \in AtOrAfterChallengeCommit => pc'[q] \in AtOrAfterChallengeCommit /\ PrepareResponse(q)' = PrepareResponse(q)
    BY <1>8, <2>1, <2>2
  <2>3. ASSUME NEW x \in Node PROVE PrepareEntries(x)' = PrepareEntries(x)
    <3>1. \A c \in dynamicChildren[x] : /\ pc'[c] \in AtOrAfterChallengeCommit <=> pc[c] \in AtOrAfterChallengeCommit
                                        /\ pc[c] \in AtOrAfterChallengeCommit => PrepareResponse(c)' = PrepareResponse(c)
      BY <1>3, <1>8, <2>0
    <3> QED
      BY <1>3, <3>1 DEF PrepareEntries
  <2>4. /\ m.from \in dynamicChildren[n] /\ pc[m.from] \in AtOrAfterChallengeCommit
        /\ m.signers = PrepareResponse(m.from)
    BY <1>1, <1>4 DEF ResponsePrepareInv
  <2>5. longer \subseteq PrepareEntries(n)
    BY <1>1, <2>4 DEF ResponsePrepareInv, PrepareEntries
  <2>6. ASSUME NEW k \in NetOf("ResponsePrepare")'
        PROVE  /\ k.from \in dynamicChildren[k.to] /\ pc'[k.from] \in AtOrAfterChallengeCommit
               /\ k.signers = PrepareResponse(k.from)'
               /\ <<k.from, k.signers>> \notin tempPrepareResponse'[k.to]
    <3>1. k \in NetOf("ResponsePrepare") /\ k # m
      BY <1>7
    <3>2. k \in net /\ k.type = "ResponsePrepare" /\ k.from \in Node /\ k.to \in Node
      BY <3>1 DEF NetOf, BFTTypeOK
    <3>3. /\ k.from \in dynamicChildren[k.to] /\ pc[k.from] \in AtOrAfterChallengeCommit
          /\ k.signers = PrepareResponse(k.from)
          /\ <<k.from, k.signers>> \notin tempPrepareResponse[k.to]
      BY <1>1, <3>1 DEF ResponsePrepareInv
    <3>4. k.to = n => <<k.from, k.signers>> # <<m.from, m.signers>>
      BY <3>1, <3>2, MsgDetermined
    <3>5. k.signers = PrepareResponse(k.from)'
      BY <2>1, <2>2, <3>2, <3>3
    <3> QED
      BY <1>5, <1>8, <3>2, <3>3, <3>4, <3>5
  <2>7. ASSUME complete
        PROVE  /\ Closed({n} \cup Sum(longer))
               /\ \A q \in dynamicChildren[n] : /\ pc[q] \in AtOrAfterChallengeCommit
                                                /\ <<q, PrepareResponse(q)>> \in longer
    <3> DEFINE f == [q \in Node |-> PrepareResponse(q)]
    <3>1. longer \subseteq {<<q, f[q]>> : q \in dynamicChildren[n]}
      BY <1>3, <2>5 DEF PrepareEntries
    <3>2. \A q \in dynamicChildren[n] : f[q] = PrepareResponse(q)
      BY <1>3
    <3> HIDE DEF f, longer
    <3>3. \A q \in dynamicChildren[n] : <<q, f[q]>> \in longer
      BY <1>3, <2>7, <3>1, CompleteList
    <3>4. \A q \in dynamicChildren[n] : /\ pc[q] \in AtOrAfterChallengeCommit
                                        /\ <<q, PrepareResponse(q)>> \in longer
      BY <2>5, <3>2, <3>3 DEF PrepareEntries
    <3>5. ASSUME NEW e \in longer PROVE Closed(e[2])
      <4>1. PICK q \in dynamicChildren[n] : e = <<q, PrepareResponse(q)>>
        BY <2>5 DEF PrepareEntries
      <4> QED
        BY <1>1, <1>3, <3>4, <4>1, Stages DEF ResponsePrepareInv
    <3>6. ASSUME NEW q \in dynamicChildren[n] PROVE \E e \in longer : q \in e[2]
      <4>1. q \in PrepareResponse(q)
        BY DEF PrepareResponse
      <4> QED
        BY <3>4, <4>1
    <3> QED
      BY <3>4, <3>5, <3>6, SumClosed
  <2>8. ASSUME NEW x \in Node, pc'[x] \in GotPrepare
        PROVE  /\ Closed(PrepareResponse(x))'
               /\ \A q \in dynamicChildren[x] :
                    /\ pc'[q] \in AtOrAfterChallengeCommit
                    /\ <<q, PrepareResponse(q)'>> \in tempPrepareResponse'[x]
    <3>1. CASE x = n
      <4>1. complete
        <5>1. pc'[n] # "responsePrepare"
          BY <2>8, <3>1, Stages
        <5> HIDE DEF longer, complete
        <5> QED
          BY <1>2, <1>5, <5>1
      <4>2. PrepareResponse(n)' = {n} \cup Sum(longer)
        BY <1>5 DEF PrepareResponse, Sum
      <4>3. Closed(PrepareResponse(n))'
        BY <1>3, <2>7, <4>1, <4>2 DEF Closed
      <4>4. tempPrepareResponse'[n] = longer
        BY <1>5
      <4>5. \A q \in dynamicChildren[n] : pc[q] \in AtOrAfterChallengeCommit => pc'[q] \in AtOrAfterChallengeCommit /\ PrepareResponse(q)' = PrepareResponse(q)
        BY <1>3, <2>0
      <4> HIDE DEF longer, complete
      <4> QED
        BY <2>7, <3>1, <4>1, <4>3, <4>4, <4>5
    <3>2. CASE x # n
      <4>1. pc[x] \in GotPrepare
        BY <1>5, <2>8, <3>2
      <4>2. /\ Closed(PrepareResponse(x))
            /\ \A q \in dynamicChildren[x] :
                 /\ pc[q] \in AtOrAfterChallengeCommit
                 /\ <<q, PrepareResponse(q)>> \in tempPrepareResponse[x]
        BY <1>1, <4>1 DEF ResponsePrepareInv
      <4>3. Closed(PrepareResponse(x))'
        BY <1>3, <2>1, <3>2, <4>2 DEF Closed
      <4>4. tempPrepareResponse'[x] = tempPrepareResponse[x]
        BY <1>5, <3>2
      <4>5. \A q \in dynamicChildren[x] : pc[q] \in AtOrAfterChallengeCommit => pc'[q] \in AtOrAfterChallengeCommit /\ PrepareResponse(q)' = PrepareResponse(q)
        BY <1>3, <2>0
      <4> QED
        BY <4>2, <4>3, <4>4, <4>5
    <3> QED
      BY <3>1, <3>2
  <2>9. ASSUME NEW x \in Node
        PROVE  /\ pc'[x] = "responsePrepare" => dynamicChildren[x] # {}
               /\ tempPrepareResponse'[x] \subseteq PrepareEntries(x)
    BY <1>1, <1>5, <1>8, <2>5 DEF ResponsePrepareInv
  <2> HIDE DEF longer, complete
  <2>10. \A x \in Node : tempPrepareResponse'[x] \subseteq PrepareEntries(x)'
    BY <2>3, <2>9
  <2> QED
    BY <1>3, <2>6, <2>8, <2>9, <2>10 DEF ResponsePrepareInv
<1>12. ResponseCommitInv'
  <2>1. \A x \in Node : pc'[x] = "responseCommit" => dynamicChildren[x] # {}
    BY <1>1, <1>8 DEF ResponseCommitInv
  <2> QED
    BY <1>1, <1>3, <1>7, <1>8, <2>1, FrameResponseCommit
<1>13. OutcomeInv'
  BY <1>1, <1>8, FrameOutcome DEF OutcomeInv, ChecksNeverFail
<1> QED
  BY <1>1, <1>6, <1>8, <1>9, <1>10, <1>11, <1>12, <1>13, LaterStep

\* A commit response joins the list of the node that waits for it. The length
\* it is compared with is that of the list of commitments, which is complete.
LEMMA ReadResponseCommitRound ==
  ASSUME Inv, RoundInv, NEW n \in Node, NEW m \in net,
         m.to = n, m.type = "ResponseCommit",
         tempCommitResponse' =
           [tempCommitResponse EXCEPT ![n] = @ \cup {<<m.from, m.signers>>}],
         pc' = IF /\ pc[n] = "responseCommit"
                  /\ Cardinality(tempCommitResponse'[n]) = Cardinality(tempCommitCommit[n])
               THEN [pc EXCEPT ![n] = "gotCommit"] ELSE pc,
         net' = net \ {m},
         UNCHANGED <<treeVars, panic, announcedCommit, prepareCommit, appending,
                     tempCommitCommit, readyCommit, commitCommit,
                     tempPrepareResponse, signRefusal, signature>>
  PROVE  RoundInv'
<1> USE DEF RoundInv, LaterInv
<1> DEFINE longer == tempCommitResponse[n] \cup {<<m.from, m.signers>>}
           complete == Cardinality(longer) = Cardinality(dynamicChildren[n])
<1>1. Root \in prepared
  BY QuietStep
<1>2. pc[n] = "responseCommit"
  BY RoundsApart DEF RoundsDoNotMix
<1>3. /\ UNCHANGED dynamicChildren
      /\ \A p \in Node : dynamicChildren[p] \subseteq Node /\ IsFiniteSet(dynamicChildren[p])
  BY <1>1, CompleteTree DEF treeVars
<1>4. m.from \in Node /\ m \in NetOf("ResponseCommit")
  BY DEF NetOf, BFTTypeOK
<1>0. Cardinality(tempCommitCommit[n]) = Cardinality(dynamicChildren[n])
  <2>1. n \in readyCommit
    BY <1>1, <1>2 DEF ResponseCommitInv, CommittedInv
  <2>2. /\ tempCommitCommit[n] \subseteq {<<q, commitCommit[q]>> : q \in dynamicChildren[n]}
        /\ \A q \in dynamicChildren[n] : <<q, commitCommit[q]>> \in tempCommitCommit[n]
    BY <1>1, <2>1 DEF AppendInv, CommitEntries
  <2> QED
    BY <1>3, <2>2, CompleteList
<1>5. \A x \in Node :
        /\ pc'[x] = IF x = n /\ complete THEN "gotCommit" ELSE pc[x]
        /\ tempCommitResponse'[x] = IF x = n THEN longer ELSE tempCommitResponse[x]
  BY <1>0, <1>2 DEF BFTTypeOK
<1>6. BFTTypeOK'
  <2>1. longer \in SUBSET (Node \X SUBSET Node)
    BY <1>4 DEF BFTTypeOK
  <2>2. tempCommitResponse' \in [Node -> SUBSET (Node \X SUBSET Node)]
    BY <2>1 DEF BFTTypeOK
  <2>3. pc' \in [Node -> Running \cup {"done", "failed"}]
    BY DEF BFTTypeOK, Running
  <2> QED
    BY <2>2, <2>3 DEF BFTTypeOK
<1>7. /\ NetOf("ResponseCommit")' = NetOf("ResponseCommit") \ {m}
      /\ \A t : t # "ResponseCommit" => NetOf(t)' = NetOf(t)
  BY DEF NetOf
<1>8. \A x \in Node :
        /\ pc'[x] = "prepare" <=> pc[x] = "prepare"
        /\ pc'[x] = "commitCommit" <=> pc[x] = "commitCommit"
        /\ pc[x] \in {"commitCommit", "challengePrepare"} =>
             pc'[x] \in {"commitCommit", "challengePrepare"}
        /\ pc'[x] \in PastChallengePrepare <=> pc[x] \in PastChallengePrepare
        /\ pc'[x] \in GotPrepare <=> pc[x] \in GotPrepare
        /\ pc'[x] \in AtOrAfterChallengeCommit <=> pc[x] \in AtOrAfterChallengeCommit
        /\ pc'[x] \in PastChallengeCommit <=> pc[x] \in PastChallengeCommit
        /\ pc'[x] = "done" <=> pc[x] = "done"
        /\ pc[x] = "challengeCommit" => pc'[x] = "challengeCommit"
        /\ pc'[x] = "responseCommit" => pc[x] = "responseCommit"
        /\ pc'[x] = "responsePrepare" => pc[x] = "responsePrepare"
        /\ pc'[x] = "failed" => pc[x] = "failed"
        /\ pc[x] = "gotPrepare" => pc'[x] = pc[x]
  BY <1>2, <1>5, Stages
<1>9. AnnounceInv' /\ CommittedInv' /\ AppendInv'
  BY <1>1, <1>3, <1>7, <1>8, FrameAnnounce, FrameCommitted, FrameAppend
<1>10. ChallengePrepareInv' /\ ChallengeCommitInv'
  BY <1>1, <1>3, <1>7, <1>8, FrameChallengePrepare, FrameChallengeCommit
<1>11. ResponseCommitInv'
  <2>1. \A x \in Node : x # n => CommitResponse(x)' = CommitResponse(x)
    BY <1>5 DEF CommitResponse, Sum
  <2>2. pc[n] # "done"
    BY <1>2
  <2>0. \A q \in Node : pc[q] = "done" => pc'[q] = "done" /\ CommitResponse(q)' = CommitResponse(q)
    BY <1>8, <2>1, <2>2
  <2>3. ASSUME NEW x \in Node PROVE CommitResponseEntries(x)' = CommitResponseEntries(x)
    <3>1. \A c \in dynamicChildren[x] : /\ pc'[c] = "done" <=> pc[c] = "done"
                                        /\ pc[c] = "done" => CommitResponse(c)' = CommitResponse(c)
      BY <1>3, <1>8, <2>0
    <3> QED
      BY <1>3, <3>1 DEF CommitResponseEntries
  <2>4. /\ m.from \in dynamicChildren[n] /\ pc[m.from] = "done"
        /\ m.signers = CommitResponse(m.from)
    BY <1>1, <1>4 DEF ResponseCommitInv
  <2>5. longer \subseteq CommitResponseEntries(n)
    BY <1>1, <2>4 DEF ResponseCommitInv, CommitResponseEntries
  <2>6. ASSUME NEW k \in NetOf("ResponseCommit")'
        PROVE  /\ k.from \in dynamicChildren[k.to] /\ pc'[k.from] = "done"
               /\ k.signers = CommitResponse(k.from)'
               /\ <<k.from, k.signers>> \notin tempCommitResponse'[k.to]
    <3>1. k \in NetOf("ResponseCommit") /\ k # m
      BY <1>7
    <3>2. k \in net /\ k.type = "ResponseCommit" /\ k.from \in Node /\ k.to \in Node
      BY <3>1 DEF NetOf, BFTTypeOK
    <3>3. /\ k.from \in dynamicChildren[k.to] /\ pc[k.from] = "done"
          /\ k.signers = CommitResponse(k.from)
          /\ <<k.from, k.signers>> \notin tempCommitResponse[k.to]
      BY <1>1, <3>1 DEF ResponseCommitInv
    <3>4. k.to = n => <<k.from, k.signers>> # <<m.from, m.signers>>
      BY <3>1, <3>2, MsgDetermined
    <3>5. k.signers = CommitResponse(k.from)'
      BY <2>1, <2>2, <3>2, <3>3
    <3> QED
      BY <1>5, <1>8, <3>2, <3>3, <3>4, <3>5
  <2>7. ASSUME complete
        PROVE  /\ Closed({n} \cup Sum(longer))
               /\ \A q \in dynamicChildren[n] : /\ pc[q] = "done"
                                                /\ <<q, CommitResponse(q)>> \in longer
    <3> DEFINE f == [q \in Node |-> CommitResponse(q)]
    <3>1. longer \subseteq {<<q, f[q]>> : q \in dynamicChildren[n]}
      BY <1>3, <2>5 DEF CommitResponseEntries
    <3>2. \A q \in dynamicChildren[n] : f[q] = CommitResponse(q)
      BY <1>3
    <3> HIDE DEF f, longer
    <3>3. \A q \in dynamicChildren[n] : <<q, f[q]>> \in longer
      BY <1>3, <2>7, <3>1, CompleteList
    <3>4. \A q \in dynamicChildren[n] : /\ pc[q] = "done"
                                        /\ <<q, CommitResponse(q)>> \in longer
      BY <2>5, <3>2, <3>3 DEF CommitResponseEntries
    <3>5. ASSUME NEW e \in longer PROVE Closed(e[2])
      <4>1. PICK q \in dynamicChildren[n] : e = <<q, CommitResponse(q)>>
        BY <2>5 DEF CommitResponseEntries
      <4> QED
        BY <1>1, <1>3, <3>4, <4>1, Stages DEF ResponseCommitInv
    <3>6. ASSUME NEW q \in dynamicChildren[n] PROVE \E e \in longer : q \in e[2]
      <4>1. q \in CommitResponse(q)
        BY DEF CommitResponse
      <4> QED
        BY <3>4, <4>1
    <3> QED
      BY <3>4, <3>5, <3>6, SumClosed
  <2>8. ASSUME NEW x \in Node, pc'[x] \in GotCommit
        PROVE  /\ Closed(CommitResponse(x))'
               /\ \A q \in dynamicChildren[x] :
                    /\ pc'[q] = "done"
                    /\ <<q, CommitResponse(q)'>> \in tempCommitResponse'[x]
    <3>1. CASE x = n
      <4>1. complete
        <5>1. pc'[n] # "responseCommit"
          BY <2>8, <3>1, Stages
        <5> HIDE DEF longer, complete
        <5> QED
          BY <1>2, <1>5, <5>1
      <4>2. CommitResponse(n)' = {n} \cup Sum(longer)
        BY <1>5 DEF CommitResponse, Sum
      <4>3. Closed(CommitResponse(n))'
        BY <1>3, <2>7, <4>1, <4>2 DEF Closed
      <4>4. tempCommitResponse'[n] = longer
        BY <1>5
      <4>5. \A q \in dynamicChildren[n] : pc[q] = "done" => pc'[q] = "done" /\ CommitResponse(q)' = CommitResponse(q)
        BY <1>3, <2>0
      <4> HIDE DEF longer, complete
      <4> QED
        BY <2>7, <3>1, <4>1, <4>3, <4>4, <4>5
    <3>2. CASE x # n
      <4>1. pc[x] \in GotCommit
        BY <1>5, <2>8, <3>2
      <4>2. /\ Closed(CommitResponse(x))
            /\ \A q \in dynamicChildren[x] :
                 /\ pc[q] = "done"
                 /\ <<q, CommitResponse(q)>> \in tempCommitResponse[x]
        BY <1>1, <4>1 DEF ResponseCommitInv
      <4>3. Closed(CommitResponse(x))'
        BY <1>3, <2>1, <3>2, <4>2 DEF Closed
      <4>4. tempCommitResponse'[x] = tempCommitResponse[x]
        BY <1>5, <3>2
      <4>5. \A q \in dynamicChildren[x] : pc[q] = "done" => pc'[q] = "done" /\ CommitResponse(q)' = CommitResponse(q)
        BY <1>3, <2>0
      <4> QED
        BY <4>2, <4>3, <4>4, <4>5
    <3> QED
      BY <3>1, <3>2
  <2>9. ASSUME NEW x \in Node
        PROVE  /\ pc'[x] = "responseCommit" => dynamicChildren[x] # {}
               /\ tempCommitResponse'[x] \subseteq CommitResponseEntries(x)
    BY <1>1, <1>5, <1>8, <2>5 DEF ResponseCommitInv
  <2> HIDE DEF longer, complete
  <2>10. \A x \in Node : tempCommitResponse'[x] \subseteq CommitResponseEntries(x)'
    BY <2>3, <2>9
  <2> QED
    BY <1>3, <2>6, <2>8, <2>9, <2>10 DEF ResponseCommitInv
<1>12. ResponsePrepareInv'
  <2>1. \A x \in Node : pc'[x] = "responsePrepare" => dynamicChildren[x] # {}
    BY <1>1, <1>8 DEF ResponsePrepareInv
  <2> QED
    BY <1>1, <1>3, <1>7, <1>8, <2>1, FrameResponsePrepare
<1>13. OutcomeInv'
  BY <1>1, <1>8, FrameOutcome DEF OutcomeInv, ChecksNeverFail
<1> QED
  BY <1>1, <1>6, <1>8, <1>9, <1>10, <1>11, <1>12, <1>13, LaterStep

LEMMA ReadResponseRound ==
  ASSUME Inv, RoundInv, NEW n \in Node, ReadResponse(n)
  PROVE  RoundInv'
<1>1. PICK m \in net :
        /\ m.to = n
        /\ net' = net \ {m}
        /\ UNCHANGED <<treeVars, panic, announcedCommit, prepareCommit, appending,
                       tempCommitCommit, readyCommit, commitCommit, signRefusal,
                       signature>>
        /\ \/ /\ m.type = "ResponsePrepare"
              /\ tempPrepareResponse' =
                   [tempPrepareResponse EXCEPT ![n] = @ \cup {<<m.from, m.signers>>}]
              /\ pc' = IF /\ pc[n] = "responsePrepare"
                          /\ Cardinality(tempPrepareResponse'[n])
                               = Cardinality(dynamicChildren[n])
                       THEN [pc EXCEPT ![n] = "gotPrepare"] ELSE pc
              /\ UNCHANGED tempCommitResponse
           \/ /\ m.type = "ResponseCommit"
              /\ tempCommitResponse' =
                   [tempCommitResponse EXCEPT ![n] = @ \cup {<<m.from, m.signers>>}]
              /\ pc' = IF /\ pc[n] = "responseCommit"
                          /\ Cardinality(tempCommitResponse'[n])
                               = Cardinality(tempCommitCommit[n])
                       THEN [pc EXCEPT ![n] = "gotCommit"] ELSE pc
              /\ UNCHANGED tempPrepareResponse
  BY DEF ReadResponse
<1>2. CASE m.type = "ResponsePrepare"
  BY <1>1, <1>2, ReadResponsePrepareRound
<1>3. CASE m.type = "ResponseCommit"
  BY <1>1, <1>3, ReadResponseCommitRound
<1> QED
  BY <1>1, <1>2, <1>3

\* A panic changes nothing but the outcome.
LEMMA PanicRound ==
  ASSUME Inv, RoundInv, Root \in prepared, NEW n \in Node,
         NEW why \in {"timeout", "refused"}, why = "refused" => pc[n] = "gotPrepare",
         panic' = [panic EXCEPT ![n] = why],
         UNCHANGED <<treeVars, pc, announcedCommit, net, prepareCommit, appending,
                     tempCommitCommit, readyCommit, commitCommit, tempPrepareResponse,
                     tempCommitResponse, signRefusal, signature>>
  PROVE  RoundInv'
<1> USE DEF RoundInv, LaterInv
<1>1. UNCHANGED dynamicChildren /\ \A p \in Node : dynamicChildren[p] \subseteq Node
  BY CompleteTree DEF treeVars
<1>2. \A t : NetOf(t)' = NetOf(t)
  BY DEF NetOf
<1>3. BFTTypeOK'
  <2>1. panic' \in [Node -> {"no", "timeout", "refused", "missingChild"}]
    BY DEF BFTTypeOK
  <2> QED
    BY <2>1 DEF BFTTypeOK
<1>4. AnnounceInv' /\ CommittedInv' /\ AppendInv'
  BY <1>1, <1>2, FrameAnnounce, FrameCommitted, FrameAppend
<1>5. ChallengePrepareInv' /\ ChallengeCommitInv'
  BY <1>1, <1>2, FrameChallengePrepare, FrameChallengeCommit
<1>6. ResponsePrepareInv' /\ ResponseCommitInv'
  <2>1. \A x \in Node : /\ pc'[x] = "responsePrepare" => dynamicChildren[x] # {}
                        /\ pc'[x] = "responseCommit" => dynamicChildren[x] # {}
    BY DEF ResponsePrepareInv, ResponseCommitInv
  <2> QED
    BY <1>1, <1>2, <2>1, FrameResponsePrepare, FrameResponseCommit
<1>7. OutcomeInv'
  <2>1. \A x \in Node : panic'[x] = IF x = n THEN why ELSE panic[x]
    BY DEF BFTTypeOK
  <2> QED
    BY <2>1 DEF OutcomeInv, ChecksNeverFail
<1> QED
  BY <1>3, <1>4, <1>5, <1>6, <1>7, LaterStep

\* A node that has all prepare responses refuses, or passes the response of
\* its subtree on; at the root that is the response of the ring, which the
\* commit challenge carries.
LEMMA HandleResponsePrepareRound ==
  ASSUME Inv, RoundInv, NEW n \in Node, HandleResponsePrepare(n)
  PROVE  RoundInv'
<1> USE DEF RoundInv, LaterInv
<1>0. pc[n] = "gotPrepare" /\ panic[n] = "no"
  BY DEF HandleResponsePrepare, At
<1>1. Root \in prepared
  BY <1>0, QuietStep
<1>2. /\ Closed(PrepareResponse(n))
      /\ dynamicChildren[n] \subseteq {e[1] : e \in tempPrepareResponse[n]}
  <2>1. /\ Closed(PrepareResponse(n))
        /\ \A q \in dynamicChildren[n] : <<q, PrepareResponse(q)>> \in tempPrepareResponse[n]
    BY <1>0, <1>1, Stages DEF ResponsePrepareInv
  <2>2. ASSUME NEW q \in dynamicChildren[n] PROVE \E e \in tempPrepareResponse[n] : q = e[1]
    BY <2>1
  <2> QED
    BY <2>1, <2>2
<1>3. PrepareResponse(n) \in SUBSET Node /\ n \in PrepareResponse(n)
  <2>1. \A e \in tempPrepareResponse[n] : e[2] \in SUBSET Node
    BY DEF BFTTypeOK
  <2> QED
    BY <2>1 DEF PrepareResponse, Sum
<1>4. n = Root => Verify(prepareCommit[n], PrepareResponse(n))
  <2> SUFFICES ASSUME n = Root PROVE prepareCommit[n] = Node /\ PrepareResponse(n) = Node
    BY DEF Verify
  <2>1. prepareCommit[n] \in SUBSET Node /\ n \in prepareCommit[n] /\ Closed(prepareCommit[n])
    BY <1>1 DEF PrepareInv, BFTTypeOK
  <2> QED
    BY <1>1, <1>2, <1>3, <2>1, RootCoversRing
<1> DEFINE sent == IF n = Root THEN {Msg("ChallengeCommit", n, n, PrepareResponse(n))}
                               ELSE {Msg("ResponsePrepare", n, Parent[n], PrepareResponse(n))}
<1>5. /\ UNCHANGED <<treeVars, announcedCommit, prepareCommit, appending,
                     tempCommitCommit, readyCommit, commitCommit,
                     tempPrepareResponse, tempCommitResponse, signature, signRefusal>>
      /\ \/ /\ panic' = [panic EXCEPT ![n] = "refused"]
            /\ UNCHANGED <<pc, net>>
         \/ /\ net' = net \cup sent
            /\ pc' = [pc EXCEPT ![n] = "challengeCommit"]
            /\ UNCHANGED panic
  <2>1. \A v \in BOOLEAN : VerificationPanic(n, v) = IF v THEN "none" ELSE "refused"
    BY <1>2 DEF VerificationPanic
  <2>2. Verified(n) \subseteq BOOLEAN
    BY DEF Verified
  <2>3. PrepareResponse(n) = {n} \cup Sum(tempPrepareResponse[n])
    BY DEF PrepareResponse
  <2>4. PICK v \in BOOLEAN :
       \/ /\ VerificationPanic(n, v) # "none"
          /\ panic' = [panic EXCEPT ![n] = VerificationPanic(n, v)]
          /\ UNCHANGED <<pc, net, signRefusal>>
       \/ /\ VerificationPanic(n, v) = "none" /\ n # Root
          /\ net' = net \cup {Msg("ResponsePrepare", n, Parent[n], PrepareResponse(n))}
          /\ pc' = [pc EXCEPT ![n] = "challengeCommit"]
          /\ UNCHANGED <<panic, signRefusal>>
       \/ /\ VerificationPanic(n, v) = "none" /\ n = Root
          /\ net' = net \cup {Msg("ChallengeCommit", n, n, PrepareResponse(n))}
          /\ pc' = [pc EXCEPT ![n] = "challengeCommit"]
          /\ UNCHANGED <<panic, signRefusal>>
    BY <1>4, <2>2, <2>3 DEF HandleResponsePrepare
  <2>5. UNCHANGED <<treeVars, announcedCommit, prepareCommit, appending,
                    tempCommitCommit, readyCommit, commitCommit,
                    tempPrepareResponse, tempCommitResponse, signature>>
    BY DEF HandleResponsePrepare
  <2> QED
    BY <2>1, <2>4, <2>5
<1>6. CASE panic' = [panic EXCEPT ![n] = "refused"] /\ UNCHANGED <<pc, net>>
  BY <1>0, <1>1, <1>5, <1>6, PanicRound
<1>7. CASE /\ net' = net \cup sent
           /\ pc' = [pc EXCEPT ![n] = "challengeCommit"]
           /\ UNCHANGED panic
  <2>1. UNCHANGED <<dynamicChildren, Parent>> /\ \A p \in Node : dynamicChildren[p] \subseteq Node
    BY <1>1, <1>5, CompleteTree DEF treeVars
  <2>2. \A x \in Node : pc'[x] = IF x = n THEN "challengeCommit" ELSE pc[x]
    BY <1>7 DEF BFTTypeOK
  <2>3. n # Root => Parent[n] \in Node /\ n \in dynamicChildren[Parent[n]]
    BY <1>1, CompleteTree
  <2>4. BFTTypeOK'
    <3>1. sent \subseteq [type : LaterType, from : Node, to : Node, signers : SUBSET Node]
      BY <1>3, <2>3 DEF Msg, LaterType
    <3>2. pc' \in [Node -> Running \cup {"done", "failed"}]
      BY <1>7 DEF BFTTypeOK, Running
    <3> QED
      BY <1>5, <1>7, <3>1, <3>2 DEF BFTTypeOK
  <2>5. /\ NetOf("ResponsePrepare")' = NetOf("ResponsePrepare") \cup (IF n = Root THEN {} ELSE sent)
        /\ NetOf("ChallengeCommit")' = NetOf("ChallengeCommit") \cup (IF n = Root THEN sent ELSE {})
        /\ \A t : t \notin {"ResponsePrepare", "ChallengeCommit"} => NetOf(t)' = NetOf(t)
    BY <1>7, MsgFields DEF NetOf
  <2>6. \A x \in Node :
          /\ pc'[x] = "prepare" <=> pc[x] = "prepare"
          /\ pc'[x] = "commitCommit" <=> pc[x] = "commitCommit"
          /\ pc[x] \in {"commitCommit", "challengePrepare"} =>
               pc'[x] \in {"commitCommit", "challengePrepare"}
          /\ pc'[x] \in PastChallengePrepare <=> pc[x] \in PastChallengePrepare
          /\ pc'[x] \in GotPrepare <=> pc[x] \in GotPrepare
          /\ pc[x] \in AtOrAfterChallengeCommit => pc'[x] \in AtOrAfterChallengeCommit
          /\ pc'[x] \in PastChallengeCommit <=> pc[x] \in PastChallengeCommit
          /\ pc'[x] \in GotCommit <=> pc[x] \in GotCommit
          /\ pc'[x] = "done" <=> pc[x] = "done"
          /\ pc[x] = "challengeCommit" => pc'[x] = "challengeCommit"
          /\ pc'[x] = "responseCommit" => pc[x] = "responseCommit"
          /\ pc'[x] = "responsePrepare" => pc[x] = "responsePrepare"
          /\ pc'[x] = "failed" => pc[x] = "failed"
    BY <1>0, <2>2, Stages
  <2>7. AnnounceInv' /\ CommittedInv' /\ AppendInv'
    BY <1>1, <1>5, <2>1, <2>5, <2>6, FrameAnnounce, FrameCommitted, FrameAppend
  <2>8. ChallengePrepareInv'
    BY <1>1, <2>1, <2>5, <2>6, FrameChallengePrepare
  <2>9. ResponsePrepareInv'
    <3>1. \A x : PrepareResponse(x)' = PrepareResponse(x)
      BY <1>5 DEF PrepareResponse, Sum
    <3>2. pc[n] \notin AtOrAfterChallengeCommit
      BY <1>0, Stages
    <3>3. ASSUME NEW x \in Node PROVE PrepareEntries(x) \subseteq PrepareEntries(x)'
      <4>1. \A c \in dynamicChildren[x] :
              pc[c] \in AtOrAfterChallengeCommit => pc'[c] \in AtOrAfterChallengeCommit
        BY <2>1, <2>6
      <4> QED
        BY <2>1, <3>1, <4>1 DEF PrepareEntries
    <3>4. ASSUME NEW k \in NetOf("ResponsePrepare")'
          PROVE  /\ k.from \in dynamicChildren[k.to] /\ pc'[k.from] \in AtOrAfterChallengeCommit
                 /\ k.signers = PrepareResponse(k.from)
                 /\ <<k.from, k.signers>> \notin tempPrepareResponse[k.to]
      <4>1. CASE k \in NetOf("ResponsePrepare")
        <5>1. k.from \in Node
          BY <4>1 DEF NetOf, BFTTypeOK
        <5> QED
          BY <1>1, <2>6, <4>1, <5>1 DEF ResponsePrepareInv
      <4>2. CASE n # Root /\ k = Msg("ResponsePrepare", n, Parent[n], PrepareResponse(n))
        <5>1. <<n, PrepareResponse(n)>> \notin tempPrepareResponse[Parent[n]]
          BY <1>1, <2>3, <3>2, <4>2 DEF ResponsePrepareInv, PrepareEntries
        <5>2. pc'[n] \in AtOrAfterChallengeCommit
          BY <2>2, Stages
        <5> QED
          BY <2>3, <4>2, <5>1, <5>2, MsgFields
      <4> QED
        BY <2>5, <4>1, <4>2
    <3>5. ASSUME NEW x \in Node
          PROVE  /\ pc'[x] = "responsePrepare" => dynamicChildren[x] # {}
                 /\ tempPrepareResponse[x] \subseteq PrepareEntries(x)'
      BY <1>1, <2>6, <3>3 DEF ResponsePrepareInv
    <3>6. ASSUME NEW x \in Node, pc'[x] \in GotPrepare
          PROVE  /\ Closed(PrepareResponse(x))'
                 /\ \A q \in dynamicChildren[x] :
                      /\ pc'[q] \in AtOrAfterChallengeCommit
                      /\ <<q, PrepareResponse(q)>> \in tempPrepareResponse[x]
      <4>1. /\ Closed(PrepareResponse(x))
            /\ \A q \in dynamicChildren[x] :
                 /\ pc[q] \in AtOrAfterChallengeCommit
                 /\ <<q, PrepareResponse(q)>> \in tempPrepareResponse[x]
        BY <1>1, <2>6, <3>6 DEF ResponsePrepareInv
      <4>2. Closed(PrepareResponse(x))'
        BY <2>1, <3>1, <4>1 DEF Closed
      <4> QED
        BY <2>1, <2>6, <4>1, <4>2
    <3> QED
      BY <1>5, <2>1, <3>1, <3>4, <3>5, <3>6 DEF ResponsePrepareInv
  <2>10. ChallengeCommitInv'
    <3>1. CASE n # Root
      BY <1>1, <2>1, <2>5, <2>6, <3>1, FrameChallengeCommit
    <3>2. CASE n = Root
      <4>1. PrepareResponse(n) = Node
        BY <1>4, <3>2 DEF Verify
      <4>2. ASSUME NEW k \in NetOf("ChallengeCommit")'
            PROVE  /\ k.signers = Node /\ pc'[k.to] = "challengeCommit"
                   /\ \/ k.from = Root /\ k.to = Root
                      \/ /\ k.to \in dynamicChildren[k.from]
                         /\ pc'[k.from] \in PastChallengeCommit
        <5>1. CASE k \in NetOf("ChallengeCommit")
          <6>1. k.from \in Node /\ k.to \in Node
            BY <5>1 DEF NetOf, BFTTypeOK
          <6> QED
            BY <1>1, <2>6, <5>1, <6>1 DEF ChallengeCommitInv
        <5>2. CASE k = Msg("ChallengeCommit", n, n, PrepareResponse(n))
          BY <2>2, <3>2, <4>1, <5>2, MsgFields
        <5> QED
          BY <2>5, <3>2, <5>1, <5>2
      <4>3. \A p \in Node : \A q \in dynamicChildren[p] :
              pc'[q] \in PastChallengeCommit => pc'[p] \in PastChallengeCommit
        BY <1>1, <2>1, <2>6 DEF ChallengeCommitInv
      <4> QED
        BY <2>1, <4>2, <4>3 DEF ChallengeCommitInv
    <3> QED
      BY <3>1, <3>2
  <2>11. ResponseCommitInv'
    <3>1. \A x \in Node : pc'[x] = "responseCommit" => dynamicChildren[x] # {}
      BY <1>1, <2>6 DEF ResponseCommitInv
    <3> QED
      BY <1>1, <1>5, <2>1, <2>5, <2>6, <3>1, FrameResponseCommit
  <2>12. OutcomeInv'
    <3>1. \A x \in Node : /\ pc'[x] # "failed"
                          /\ pc[x] = "gotPrepare" /\ panic[x] = "refused" => pc'[x] = pc[x]
                          /\ pc[x] = "done" => pc'[x] = "done"
      BY <1>0, <1>1, <2>2, <2>6 DEF OutcomeInv, ChecksNeverFail
    <3> QED
      BY <1>1, <1>5, <1>7, <3>1, FrameOutcome
  <2> QED
    BY <1>1, <1>5, <2>4, <2>6, <2>7, <2>8, <2>9, <2>10, <2>11, <2>12, LaterStep
<1> QED
  BY <1>5, <1>6, <1>7

-----------------------------------------------------------------------------
(* RoundInv is inductive: the commit challenge and its responses           *)

\* The commit challenge verifies at every node, which passes it on; a leaf has
\* all responses it will get.
LEMMA HandleChallengeCommitRound ==
  ASSUME Inv, RoundInv, NEW n \in Node, HandleChallengeCommit(n)
  PROVE  RoundInv'
<1> USE DEF RoundInv, LaterInv
<1>1. PICK m \in net :
        /\ m.type = "ChallengeCommit" /\ m.to = n /\ pc[n] = "challengeCommit"
        /\ signRefusal' = IF Verify(m.signers, m.signers) THEN signRefusal
                                                          ELSE signRefusal \cup {n}
        /\ net' = (net \ {m}) \cup ToChildren("ChallengeCommit", n, m.signers)
        /\ pc' = [pc EXCEPT ![n] = IF dynamicChildren[n] = {} THEN "gotCommit"
                                                              ELSE "responseCommit"]
        /\ UNCHANGED <<treeVars, panic, announcedCommit, prepareCommit, appending,
                       tempCommitCommit, readyCommit, commitCommit,
                       tempPrepareResponse, tempCommitResponse, signature>>
  BY DEF HandleChallengeCommit, At, IsLocalityTreeLeaf
<1>2. Root \in prepared
  BY <1>1, QuietStep
<1>3. UNCHANGED dynamicChildren /\ \A p \in Node : dynamicChildren[p] \subseteq Node
  BY <1>1, <1>2, CompleteTree DEF treeVars
<1>4. \A x \in Node : pc'[x] = IF x # n THEN pc[x] ELSE
                               IF dynamicChildren[n] = {} THEN "gotCommit" ELSE "responseCommit"
  BY <1>1 DEF BFTTypeOK
<1>0. m \in NetOf("ChallengeCommit") /\ m.from \in Node
  BY <1>1 DEF NetOf, BFTTypeOK
<1>5. m.signers = Node /\ UNCHANGED signRefusal
  BY <1>0, <1>1, <1>2 DEF ChallengeCommitInv, Verify
<1>6. BFTTypeOK'
  <2>1. ToChildren("ChallengeCommit", n, m.signers)
          \subseteq [type : LaterType, from : Node, to : Node, signers : SUBSET Node]
    BY <1>3, <1>5 DEF ToChildren, Msg, LaterType
  <2>2. pc' \in [Node -> Running \cup {"done", "failed"}]
    BY <1>1 DEF BFTTypeOK, Running
  <2> QED
    BY <1>1, <1>5, <2>1, <2>2 DEF BFTTypeOK
<1>7. /\ NetOf("ChallengeCommit")' = (NetOf("ChallengeCommit") \ {m})
                                       \cup ToChildren("ChallengeCommit", n, m.signers)
      /\ \A t : t # "ChallengeCommit" => NetOf(t)' = NetOf(t)
  BY <1>1, MsgFields DEF NetOf, ToChildren
<1>8. \A x \in Node :
        /\ pc'[x] = "prepare" <=> pc[x] = "prepare"
        /\ pc'[x] = "commitCommit" <=> pc[x] = "commitCommit"
        /\ pc[x] \in {"commitCommit", "challengePrepare"} =>
             pc'[x] \in {"commitCommit", "challengePrepare"}
        /\ pc'[x] \in PastChallengePrepare <=> pc[x] \in PastChallengePrepare
        /\ pc'[x] \in GotPrepare <=> pc[x] \in GotPrepare
        /\ pc'[x] \in AtOrAfterChallengeCommit <=> pc[x] \in AtOrAfterChallengeCommit
        /\ pc[x] \in PastChallengeCommit => pc'[x] \in PastChallengeCommit
        /\ pc'[x] = "done" <=> pc[x] = "done"
        /\ pc'[x] = "responsePrepare" => pc[x] = "responsePrepare"
        /\ pc'[x] = "failed" => pc[x] = "failed"
        /\ pc[x] = "gotPrepare" => pc'[x] = pc[x]
  BY <1>1, <1>4, Stages
<1>9. AnnounceInv' /\ CommittedInv' /\ AppendInv'
  BY <1>1, <1>2, <1>3, <1>7, <1>8, FrameAnnounce, FrameCommitted, FrameAppend
<1>10. ChallengePrepareInv'
  BY <1>2, <1>3, <1>7, <1>8, FrameChallengePrepare
<1>11. ResponsePrepareInv'
  <2>1. \A x \in Node : pc'[x] = "responsePrepare" => dynamicChildren[x] # {}
    BY <1>2, <1>8 DEF ResponsePrepareInv
  <2> QED
    BY <1>1, <1>2, <1>3, <1>7, <1>8, <2>1, FrameResponsePrepare
<1>12. ChallengeCommitInv'
  <2>1. ASSUME NEW k \in NetOf("ChallengeCommit"), k # m
        PROVE  k.to # n
    <3> SUFFICES ASSUME k.to = n PROVE FALSE
      OBVIOUS
    <3>1. k \in net /\ k.type = "ChallengeCommit"
      BY DEF NetOf
    <3>2. /\ k.signers = m.signers
          /\ (m.from = Root /\ m.to = Root) \/ m.to \in dynamicChildren[m.from]
          /\ (k.from = Root /\ k.to = Root) \/ k.to \in dynamicChildren[k.from]
      BY <1>0, <1>2 DEF ChallengeCommitInv
    <3> QED
      BY <1>1, <1>2, <2>1, <3>1, <3>2, OneSender
  <2>2. pc'[n] \in PastChallengeCommit /\ pc[n] \notin PastChallengeCommit /\ pc[n] \in GotPrepare
    BY <1>1, <1>4, Stages
  <2>3. ASSUME NEW q \in dynamicChildren[n]
        PROVE  pc'[q] = "challengeCommit"
    <3>1. q \in Node /\ q # n /\ pc[q] \notin PastChallengeCommit
      BY <1>2, <1>3, <2>2, OneParent DEF ChallengeCommitInv
    <3>2. pc[q] \in AtOrAfterChallengeCommit
      BY <1>2, <2>2 DEF ResponsePrepareInv
    <3> QED
      BY <1>4, <3>1, <3>2, Stages
  <2>4. ASSUME NEW k \in NetOf("ChallengeCommit")'
        PROVE  /\ k.signers = Node /\ pc'[k.to] = "challengeCommit"
               /\ \/ k.from = Root /\ k.to = Root
                  \/ /\ k.to \in dynamicChildren[k.from]
                     /\ pc'[k.from] \in PastChallengeCommit
    <3>1. CASE k \in NetOf("ChallengeCommit") /\ k # m
      <4>1. k.to \in Node /\ k.from \in Node
        BY <3>1 DEF NetOf, BFTTypeOK
      <4> QED
        BY <1>2, <1>4, <1>8, <2>1, <3>1, <4>1 DEF ChallengeCommitInv
    <3>2. CASE k \in ToChildren("ChallengeCommit", n, m.signers)
      <4>1. PICK q \in dynamicChildren[n] : k = Msg("ChallengeCommit", n, q, m.signers)
        BY <3>2 DEF ToChildren
      <4> QED
        BY <1>5, <2>2, <2>3, <4>1, MsgFields
    <3> QED
      BY <1>7, <3>1, <3>2
  <2>5. ASSUME NEW p \in Node, NEW q \in dynamicChildren[p], pc'[q] \in PastChallengeCommit
        PROVE  pc'[p] \in PastChallengeCommit
    <3>1. CASE q = n
      <4>1. m.to \in dynamicChildren[m.from] /\ pc[m.from] \in PastChallengeCommit
        BY <1>0, <1>1, <1>2, <3>1, OneParent DEF ChallengeCommitInv
      <4>2. m.from = p
        BY <1>0, <1>1, <1>2, <3>1, <4>1, OneParent
      <4> QED
        BY <1>8, <4>1, <4>2
    <3>2. CASE q # n
      BY <1>2, <1>3, <1>4, <1>8, <2>5, <3>2 DEF ChallengeCommitInv
    <3> QED
      BY <3>1, <3>2
  <2> QED
    BY <1>3, <2>4, <2>5 DEF ChallengeCommitInv
<1>13. ResponseCommitInv'
  <2>1. \A x : CommitResponse(x)' = CommitResponse(x)
    BY <1>1 DEF CommitResponse, Sum
  <2>2. ASSUME NEW x \in Node PROVE CommitResponseEntries(x)' = CommitResponseEntries(x)
    <3>1. \A c \in dynamicChildren[x] : pc'[c] = "done" <=> pc[c] = "done"
      BY <1>3, <1>8
    <3> QED
      BY <1>3, <2>1, <3>1 DEF CommitResponseEntries
  <2>3. ASSUME NEW k \in NetOf("ResponseCommit")'
        PROVE  /\ k.from \in dynamicChildren[k.to] /\ pc'[k.from] = "done"
               /\ k.signers = CommitResponse(k.from)
               /\ <<k.from, k.signers>> \notin tempCommitResponse[k.to]
    <3>1. k \in NetOf("ResponseCommit") /\ k.from \in Node
      BY <1>7 DEF NetOf, BFTTypeOK
    <3> QED
      BY <1>2, <1>8, <3>1 DEF ResponseCommitInv
  <2>4. ASSUME NEW x \in Node, pc'[x] \in GotCommit
        PROVE  /\ Closed(CommitResponse(x))
               /\ \A q \in dynamicChildren[x] :
                    /\ pc[q] = "done"
                    /\ <<q, CommitResponse(q)>> \in tempCommitResponse[x]
    <3>1. CASE x = n
      <4>1. dynamicChildren[n] = {}
        BY <1>4, <2>4, <3>1, Stages
      <4>2. tempCommitResponse[n] = {}
        BY <1>2, <4>1 DEF ResponseCommitInv, CommitResponseEntries
      <4>3. CommitResponse(n) = {n}
        BY <4>2 DEF CommitResponse, Sum
      <4> QED
        BY <3>1, <4>1, <4>3 DEF Closed
    <3>2. CASE x # n
      BY <1>2, <1>4, <2>4, <3>2 DEF ResponseCommitInv
    <3> QED
      BY <3>1, <3>2
  <2>5. \A x \in Node : Closed(CommitResponse(x)) => Closed(CommitResponse(x))'
    BY <1>3, <2>1 DEF Closed
  <2>6. ASSUME NEW x \in Node
        PROVE  /\ pc'[x] = "responseCommit" => dynamicChildren[x] # {}
               /\ tempCommitResponse[x] \subseteq CommitResponseEntries(x)
               /\ pc'[x] \in GotCommit =>
                    /\ Closed(CommitResponse(x))'
                    /\ \A q \in dynamicChildren[x] :
                         /\ pc'[q] = "done"
                         /\ <<q, CommitResponse(q)>> \in tempCommitResponse[x]
    BY <1>2, <1>3, <1>4, <1>8, <2>4, <2>5 DEF ResponseCommitInv
  <2> QED
    BY <1>1, <1>3, <2>1, <2>2, <2>3, <2>6 DEF ResponseCommitInv
<1>14. OutcomeInv'
  BY <1>1, <1>2, <1>5, <1>8, FrameOutcome DEF OutcomeInv, ChecksNeverFail
<1> QED
  BY <1>1, <1>2, <1>6, <1>8, <1>9, <1>10, <1>11, <1>12, <1>13, <1>14, LaterStep

\* A node that has all commit responses passes the response of its subtree on
\* and ends; the root releases a signature of the ring.
LEMMA HandleResponseCommitRound ==
  ASSUME Inv, RoundInv, NEW n \in Node, HandleResponseCommit(n)
  PROVE  RoundInv'
<1> USE DEF RoundInv, LaterInv
<1>0. pc[n] = "gotCommit" /\ panic[n] = "no"
  BY DEF HandleResponseCommit, At
<1>1. Root \in prepared
  BY <1>0, QuietStep
<1>2. signRefusal = {} /\ Closed(CommitResponse(n))
  BY <1>0, <1>1, Stages DEF OutcomeInv, ChecksNeverFail, ResponseCommitInv
<1>3. CommitResponse(n) \in SUBSET Node /\ n \in CommitResponse(n)
  <2>1. \A e \in tempCommitResponse[n] : e[2] \in SUBSET Node
    BY DEF BFTTypeOK
  <2> QED
    BY <2>1 DEF CommitResponse, Sum
<1> DEFINE sent == net' \ net
<1>4. /\ \A m \in sent : n # Root /\ m = Msg("ResponseCommit", n, Parent[n], CommitResponse(n))
      /\ net' = net \cup sent
      /\ signature' = IF n = Root THEN {[commit |-> commitCommit[n], response |-> CommitResponse(n)]}
                                  ELSE signature
      /\ pc' = [pc EXCEPT ![n] = "done"]
      /\ UNCHANGED <<treeVars, panic, announcedCommit, prepareCommit, appending,
                     tempCommitCommit, readyCommit, commitCommit,
                     tempPrepareResponse, tempCommitResponse, signRefusal>>
  <2>1. CASE n = Root
    BY <1>2, <2>1 DEF HandleResponseCommit, CommitResponse
  <2>2. CASE n # Root
    <3>1. \/ net' = net
          \/ net' = net \cup {Msg("ResponseCommit", n, Parent[n], CommitResponse(n))}
      BY <1>2, <2>2 DEF HandleResponseCommit, CommitResponse
    <3> QED
      BY <2>2, <3>1 DEF HandleResponseCommit
  <2> QED
    BY <2>1, <2>2
<1> HIDE DEF sent
<1>5. n = Root => commitCommit[n] = Node /\ CommitResponse(n) = Node
  BY <1>0, <1>1, <1>2, <1>3, RingStages, RootCoversRing
<1>6. UNCHANGED <<dynamicChildren, Parent>> /\ \A p \in Node : dynamicChildren[p] \subseteq Node
  BY <1>1, <1>4, CompleteTree DEF treeVars
<1>7. \A x \in Node : pc'[x] = IF x = n THEN "done" ELSE pc[x]
  BY <1>4 DEF BFTTypeOK
<1>8. n # Root => Parent[n] \in Node /\ n \in dynamicChildren[Parent[n]]
  BY <1>1, CompleteTree
<1>9. BFTTypeOK'
  <2>1. sent \subseteq [type : LaterType, from : Node, to : Node, signers : SUBSET Node]
    BY <1>3, <1>4, <1>8 DEF Msg, LaterType
  <2>2. pc' \in [Node -> Running \cup {"done", "failed"}]
    BY <1>4 DEF BFTTypeOK
  <2>3. signature' \subseteq [commit : SUBSET Node, response : SUBSET Node]
    BY <1>4, <1>5 DEF BFTTypeOK
  <2> QED
    BY <1>4, <2>1, <2>2, <2>3 DEF BFTTypeOK
<1>10. /\ NetOf("ResponseCommit")' = NetOf("ResponseCommit") \cup sent
       /\ \A t : t # "ResponseCommit" => NetOf(t)' = NetOf(t)
  BY <1>4, MsgFields DEF NetOf
<1>11. \A x \in Node :
         /\ pc'[x] = "prepare" <=> pc[x] = "prepare"
         /\ pc'[x] = "commitCommit" <=> pc[x] = "commitCommit"
         /\ pc[x] \in {"commitCommit", "challengePrepare"} =>
              pc'[x] \in {"commitCommit", "challengePrepare"}
         /\ pc'[x] \in PastChallengePrepare <=> pc[x] \in PastChallengePrepare
         /\ pc'[x] \in GotPrepare <=> pc[x] \in GotPrepare
         /\ pc'[x] \in AtOrAfterChallengeCommit <=> pc[x] \in AtOrAfterChallengeCommit
         /\ pc'[x] \in PastChallengeCommit <=> pc[x] \in PastChallengeCommit
         /\ pc'[x] \in GotCommit <=> pc[x] \in GotCommit
         /\ pc[x] = "done" => pc'[x] = "done"
         /\ pc[x] = "challengeCommit" => pc'[x] = "challengeCommit"
         /\ pc'[x] = "responseCommit" => pc[x] = "responseCommit"
         /\ pc'[x] = "responsePrepare" => pc[x] = "responsePrepare"
         /\ pc'[x] = "failed" => pc[x] = "failed"
         /\ pc[x] = "gotPrepare" => pc'[x] = pc[x]
  BY <1>0, <1>7, Stages
<1>12. AnnounceInv' /\ CommittedInv' /\ AppendInv'
  BY <1>1, <1>4, <1>6, <1>10, <1>11, FrameAnnounce, FrameCommitted, FrameAppend
<1>13. ChallengePrepareInv' /\ ChallengeCommitInv'
  BY <1>1, <1>6, <1>10, <1>11, FrameChallengePrepare, FrameChallengeCommit
<1>14. ResponsePrepareInv'
  <2>1. \A x \in Node : pc'[x] = "responsePrepare" => dynamicChildren[x] # {}
    BY <1>1, <1>11 DEF ResponsePrepareInv
  <2> QED
    BY <1>1, <1>4, <1>6, <1>10, <1>11, <2>1, FrameResponsePrepare
<1>15. ResponseCommitInv'
  <2>1. \A x : CommitResponse(x)' = CommitResponse(x)
    BY <1>4 DEF CommitResponse, Sum
  <2>2. ASSUME NEW x \in Node PROVE CommitResponseEntries(x) \subseteq CommitResponseEntries(x)'
    <3>1. \A c \in dynamicChildren[x] : pc[c] = "done" => pc'[c] = "done"
      BY <1>6, <1>11
    <3> QED
      BY <1>6, <2>1, <3>1 DEF CommitResponseEntries
  <2>3. ASSUME NEW k \in NetOf("ResponseCommit")'
        PROVE  /\ k.from \in dynamicChildren[k.to] /\ pc'[k.from] = "done"
               /\ k.signers = CommitResponse(k.from)
               /\ <<k.from, k.signers>> \notin tempCommitResponse[k.to]
    <3>1. CASE k \in NetOf("ResponseCommit")
      <4>1. k.from \in Node
        BY <3>1 DEF NetOf, BFTTypeOK
      <4> QED
        BY <1>1, <1>11, <3>1, <4>1 DEF ResponseCommitInv
    <3>2. CASE n # Root /\ k = Msg("ResponseCommit", n, Parent[n], CommitResponse(n))
      <4>1. <<n, CommitResponse(n)>> \notin tempCommitResponse[Parent[n]]
        BY <1>0, <1>1, <1>8, <3>2 DEF ResponseCommitInv, CommitResponseEntries
      <4> QED
        BY <1>7, <1>8, <3>2, <4>1, MsgFields
    <3> QED
      BY <1>4, <1>10, <3>1, <3>2
  <2>4. ASSUME NEW x \in Node
        PROVE  /\ pc'[x] = "responseCommit" => dynamicChildren[x] # {}
               /\ tempCommitResponse[x] \subseteq CommitResponseEntries(x)'
    BY <1>1, <1>11, <2>2 DEF ResponseCommitInv
  <2>5. ASSUME NEW x \in Node, pc'[x] \in GotCommit
        PROVE  /\ Closed(CommitResponse(x))'
               /\ \A q \in dynamicChildren[x] :
                    /\ pc'[q] = "done"
                    /\ <<q, CommitResponse(q)>> \in tempCommitResponse[x]
    <3>1. /\ Closed(CommitResponse(x))
          /\ \A q \in dynamicChildren[x] :
               /\ pc[q] = "done"
               /\ <<q, CommitResponse(q)>> \in tempCommitResponse[x]
      BY <1>1, <1>11, <2>5 DEF ResponseCommitInv
    <3>2. Closed(CommitResponse(x))'
      BY <1>6, <2>1, <3>1 DEF Closed
    <3> QED
      BY <1>6, <1>11, <3>1, <3>2
  <2> QED
    BY <1>4, <1>6, <2>1, <2>3, <2>4, <2>5 DEF ResponseCommitInv
<1>16. OutcomeInv'
  <2>1. ChecksNeverFail' /\ \A x \in Node : panic'[x] = "refused" => pc'[x] = "gotPrepare"
    BY <1>1, <1>4, <1>11 DEF OutcomeInv, ChecksNeverFail
  <2>2. ASSUME NEW s \in signature'
        PROVE  pc'[Root] = "done" /\ s.commit = Node /\ s.response = Node
    BY <1>1, <1>4, <1>5, <1>7, <1>11, RootAssumption DEF OutcomeInv
  <2> QED
    BY <2>1, <2>2 DEF OutcomeInv
<1> QED
  BY <1>1, <1>4, <1>9, <1>11, <1>12, <1>13, <1>14, <1>15, <1>16, LaterStep

\* A timer may fire in any phase.
LEMMA TimeoutRound ==
  ASSUME Inv, RoundInv, NEW n \in Node, Timeout(n)
  PROVE  RoundInv'
<1>1. /\ panic' = [panic EXCEPT ![n] = "timeout"]
      /\ UNCHANGED <<treeVars, pc, announcedCommit, net, prepareCommit, appending,
                     tempCommitCommit, readyCommit, commitCommit, tempPrepareResponse,
                     tempCommitResponse, signRefusal, signature>>
  BY DEF Timeout
<1>2. CASE Root \in prepared
  BY <1>1, <1>2, PanicRound
<1>3. CASE Root \notin prepared
  <2>1. PrepareInv'
    BY <1>1, FramePrepare DEF RoundInv
  <2>2. BFTTypeOK'
    <3>1. panic' \in [Node -> {"no", "timeout", "refused", "missingChild"}]
      BY <1>1 DEF RoundInv, BFTTypeOK
    <3> QED
      BY <1>1, <3>1 DEF RoundInv, BFTTypeOK
  <2>3. \A x \in Node : panic'[x] = IF x = n THEN "timeout" ELSE panic[x]
    BY <1>1 DEF RoundInv, BFTTypeOK
  <2>4. QuietInv' /\ Root \notin prepared'
    BY <1>1, <1>3, <2>3 DEF RoundInv, QuietInv, IsLocalityTreeLeaf, treeVars
  <2> QED
    BY <2>1, <2>2, <2>4 DEF RoundInv
<1> QED
  BY <1>2, <1>3

\* Throughout a round, RoundInv holds.
THEOREM RoundInvariance == Spec => []RoundInv
<1>1. Inv /\ RootIsLast' /\ RoundInv /\ [Next]_vars => RoundInv'
  <2> SUFFICES ASSUME Inv, RootIsLast', RoundInv, [Next]_vars PROVE RoundInv'
    OBVIOUS
  <2>1. CASE UNCHANGED vars
    BY <2>1, RoundStutter
  <2>2. ASSUME NEW n \in Node, Step(n) \/ Timeout(n)
        PROVE  RoundInv'
    <3>1. CASE Timeout(n)
      BY <3>1, TimeoutRound
    <3>2. CASE Step(n)
      BY <3>2, AnnouncePhaseRound, HandleCommitmentPrepareRound, ReadAnnouncementCommitRound,
         ReadRoundCommitRound, AppendRoundCommitRound, HandleCommitmentCommitRound,
         HandleChallengePrepareRound, ReadResponseRound, HandleResponsePrepareRound,
         HandleChallengeCommitRound, HandleResponseCommitRound DEF Step
    <3> QED
      BY <2>2, <3>1, <3>2
  <2> QED
    BY <2>1, <2>2 DEF Next
<1> QED
  BY <1>1, RoundInit, ImplementsTree, Invariance, RootIsLastThm, PTL DEF Spec

-----------------------------------------------------------------------------
(* The safety properties of a round, on every ring                         *)

\* The state of Dispatch has its type in every round.
THEOREM BFTTypeOKThm == Spec => []BFTTypeOK
<1>1. RoundInv => BFTTypeOK
  BY DEF RoundInv
<1> QED
  BY <1>1, RoundInvariance, PTL

\* The messages of the two rounds, which share channels, do not mix.
THEOREM RoundsDoNotMixThm == Spec => []RoundsDoNotMix
  BY ImplementsTree, Invariance, RoundInvariance, RoundsApart, PTL

\* The consistency checks of the code never fail.
THEOREM ChecksNeverFailThm == Spec => []ChecksNeverFail
<1>1. Inv /\ RoundInv => ChecksNeverFail
  <2> SUFFICES ASSUME Inv, RoundInv PROVE ChecksNeverFail
    OBVIOUS
  <2>1. CASE Root \in prepared
    BY <2>1 DEF RoundInv, LaterInv, OutcomeInv
  <2>2. CASE Root \notin prepared
    <3>1. ASSUME NEW n \in Node PROVE panic[n] # "missingChild" /\ pc[n] # "failed"
      <4>1. pc[n] # "failed"
        BY <2>2, QuietStep
      <4> QED
        BY <2>2, <4>1 DEF RoundInv, QuietInv
    <3> QED
      BY <2>2, <3>1 DEF RoundInv, QuietInv, ChecksNeverFail
  <2> QED
    BY <2>1, <2>2
<1> QED
  BY <1>1, ImplementsTree, Invariance, RoundInvariance, PTL

\* A signature the root releases is one of the whole ring.
THEOREM SignatureCoversRingThm == Spec => []SignatureCoversRing
<1>1. Inv /\ RoundInv => SignatureCoversRing
  <2> SUFFICES ASSUME Inv, RoundInv, NEW s \in signature
               PROVE  /\ s.commit = Node /\ s.response = Node
                      /\ \A n \in Node : panic[n] # "refused"
    BY DEF SignatureCoversRing
  <2>1. Root \in prepared
    BY DEF RoundInv, QuietInv
  <2>2. pc[Root] = "done" /\ s.commit = Node /\ s.response = Node
    BY <2>1 DEF RoundInv, LaterInv, OutcomeInv
  <2>3. \A n \in Node : pc[n] = "done"
    BY <2>1, <2>2, RingStages
  <2> QED
    BY <2>1, <2>2, <2>3 DEF RoundInv, LaterInv, OutcomeInv
<1> QED
  BY <1>1, ImplementsTree, Invariance, RoundInvariance, PTL

\* An instance that ends leaves nothing behind, below it or on its way to it.
THEOREM DoneIsFinalThm == Spec => []DoneIsFinal
<1>1. Inv /\ RoundInv => DoneIsFinal
  <2> SUFFICES ASSUME Inv, RoundInv, NEW n \in Node, pc[n] = "done"
               PROVE  /\ \A q \in dynamicChildren[n] : pc[q] = "done"
                      /\ \A m \in msgs \cup net : m.to # n
    BY DEF DoneIsFinal
  <2>1. Root \in prepared
    BY QuietStep
  <2>2. msgs = {}
    BY <2>1, CompleteTree DEF RoundInv
  <2>3. \A q \in dynamicChildren[n] : pc[q] = "done"
    BY <2>1, Stages DEF RoundInv, LaterInv, ResponseCommitInv
  <2>4. n \in announcedCommit
    <3>1. pc[Root] # "commitCommit"
      BY <2>1, RingStages, Stages
    <3> QED
      BY <2>1, <3>1, RingStages DEF RoundInv, LaterInv, CommittedInv
  <2>5. ASSUME NEW m \in net PROVE m.to # n
    <3>1. m.type \in LaterType /\ m \in NetOf(m.type)
      BY DEF RoundInv, BFTTypeOK, NetOf
    <3>2. CASE m.type \in {"RoundCommit", "ResponsePrepare", "ResponseCommit"}
      BY <3>2, RoundsApart DEF RoundsDoNotMix
    <3>3. CASE m.type = "AnnounceCommit"
      BY <2>1, <2>4, <3>1, <3>3 DEF RoundInv, LaterInv, AnnounceInv
    <3>4. CASE m.type \in {"ChallengePrepare", "ChallengeCommit"}
      BY <2>1, <3>1, <3>4 DEF RoundInv, LaterInv, ChallengePrepareInv, ChallengeCommitInv
    <3> QED
      BY <3>1, <3>2, <3>3, <3>4 DEF LaterType
  <2> QED
    BY <2>2, <2>3, <2>5
<1> QED
  BY <1>1, ImplementsTree, Invariance, RoundInvariance, PTL

-----------------------------------------------------------------------------
(* Dispatch implements collective signing                                  *)

\* The stage of the round as the steps of the root change it.
LEMMA StageValue ==
  /\ pc[Root] \in {"prepare", "commitCommit", "challengePrepare"} => Stage = "collect"
  /\ pc[Root] \in {"responsePrepare", "gotPrepare"} => Stage = "confirm"
  /\ pc[Root] \in {"challengeCommit", "responseCommit", "gotCommit"} => Stage = "respond"
  /\ pc[Root] = "done" => Stage = "signed"
  BY DEF Stage

\* The dynamic children of the root are the first to have what only the root
\* does not have yet; all below them have it.
LEMMA AllBelowRoot ==
  ASSUME Inv, PrepareInv, Root \in prepared,
         NEW X, dynamicChildren[Root] \subseteq X,
         \A p \in X \cap Node : dynamicChildren[p] \subseteq X
  PROVE  Node \ {Root} \subseteq X
<1> DEFINE Y == X \cup {Root}
<1>1. Root \in Y /\ \A p \in Y \cap Node : dynamicChildren[p] \subseteq Y
  OBVIOUS
<1> HIDE DEF Y
<1>2. Node \subseteq Y
  BY <1>1, DownTheTree
<1> QED
  BY <1>2 DEF Y

\* A step that changes no commit aggregate and does not take a node past the
\* end of handleResponsePrepare or of Dispatch is invisible, unless it takes
\* the root to the next stage.
LEMMA Invisible ==
  ASSUME UNCHANGED commitCommit, Stage' = Stage,
         \A n \in Node :
           /\ pc'[n] \in AtOrAfterChallengeCommit <=> pc[n] \in AtOrAfterChallengeCommit
           /\ pc'[n] = "done" <=> pc[n] = "done"
  PROVE  UNCHANGED Signing!vars
  BY DEF Signing!vars

\* Every step of Dispatch is a step of collective signing or invisible: a
\* commitment while the ring collects them, the challenges of the root when
\* all have committed or confirmed, the answers of the others, and last the
\* root's own, which is the signature.
THEOREM SigningRefinementThm == Spec => SigningRefinement
<1>1. Init => Signing!Init
  <2> SUFFICES ASSUME Init PROVE Signing!Init
    OBVIOUS
  <2>1. Root \in Node /\ pc[Root] = "prepare"
    BY RootAssumption DEF Init
  <2>2. Stage = "collect"
    BY <2>1, StageValue
  <2> QED
    BY <2>2 DEF Init, Signing!Init, AtOrAfterChallengeCommit
<1>2. Inv /\ RoundInv /\ RoundInv' /\ [Next]_vars => [Signing!Next]_Signing!vars
  <2> SUFFICES ASSUME Inv, RoundInv, RoundInv', [Next]_vars
               PROVE  Signing!Next \/ UNCHANGED Signing!vars
    BY DEF Signing!vars
  <2> DEFINE Collect == {"prepare", "commitCommit", "challengePrepare"}
             Confirm == {"responsePrepare", "gotPrepare"}
             Respond == {"challengeCommit", "responseCommit", "gotCommit"}
             committed == {x \in Node : commitCommit[x] # {}}
             confirmed == {x \in Node : pc[x] \in AtOrAfterChallengeCommit}
             responded == {x \in Node : pc[x] = "done"}
  <2>0. /\ Root \in Node /\ BFTTypeOK /\ PrepareInv
        /\ pc[Root] \in Collect => Stage = "collect"
        /\ pc[Root] \in Confirm => Stage = "confirm"
        /\ pc[Root] \in Respond => Stage = "respond"
        /\ pc'[Root] \in Collect => Stage' = "collect"
        /\ pc'[Root] \in Confirm => Stage' = "confirm"
        /\ pc'[Root] \in Respond => Stage' = "respond"
        /\ pc'[Root] = "done" => Stage' = "signed"
    <3>1. /\ pc'[Root] \in Collect => Stage' = "collect"
          /\ pc'[Root] \in Confirm => Stage' = "confirm"
          /\ pc'[Root] \in Respond => Stage' = "respond"
          /\ pc'[Root] = "done" => Stage' = "signed"
      BY DEF Stage
    <3> QED
      BY <3>1, StageValue, RootAssumption DEF RoundInv
  <2>1. ASSUME UNCHANGED <<pc, commitCommit>>
        PROVE  UNCHANGED Signing!vars
    BY <2>1 DEF Signing!vars, Stage
  <2>2. ASSUME NEW n \in Node, NEW S, S # {}, commitCommit[n] = {},
               pc[Root] \in Collect, pc'[Root] \in Collect,
               commitCommit' = [commitCommit EXCEPT ![n] = S],
               \A x \in Node :
                 /\ pc'[x] \in AtOrAfterChallengeCommit <=> pc[x] \in AtOrAfterChallengeCommit
                 /\ pc'[x] = "done" <=> pc[x] = "done"
        PROVE  Signing!Next
    <3>1. Stage = "collect" /\ Stage' = "collect"
      BY <2>0, <2>2
    <3>2. committed' = committed \cup {n} /\ n \notin committed
      BY <2>0, <2>2 DEF BFTTypeOK
    <3>3. confirmed' = confirmed /\ responded' = responded
      BY <2>2
    <3>4. Signing!Commit(n)
      BY <3>1, <3>2, <3>3 DEF Signing!Commit
    <3> QED
      BY <3>4 DEF Signing!Next
  <2>3. ASSUME NEW n \in Node, HandleCommitmentPrepare(n)
        PROVE  UNCHANGED Signing!vars
    <3>1. /\ pc[n] = "prepare" /\ UNCHANGED commitCommit
          /\ \A x \in Node : pc'[x] = IF x # n THEN pc[x] ELSE
                 IF IsLocalityTreeLeaf(n) THEN "challengePrepare" ELSE "commitCommit"
      BY <2>0, <2>3 DEF HandleCommitmentPrepare, At, BFTTypeOK
    <3>2. Stage' = Stage
      BY <2>0, <3>1 DEF Stage
    <3> QED
      BY <3>1, <3>2, Stages, Invisible
  <2>4. ASSUME NEW n \in Node, ReadAnnouncementCommit(n)
        PROVE  Signing!Next \/ UNCHANGED Signing!vars
    <3>1. n \in prepared /\ n \notin announcedCommit /\ UNCHANGED pc
      BY <2>4 DEF ReadAnnouncementCommit
    <3>2. Root \in prepared
      BY <2>4, <3>1, QuietStep DEF ReadAnnouncementCommit
    <3>3. commitCommit[n] = {}
      BY <3>1, <3>2 DEF RoundInv, LaterInv, CommittedInv
    <3>4. pc[Root] = "commitCommit"
      BY <3>2, <3>3, RingStages
    <3>5. commitCommit' = [commitCommit EXCEPT ![n] = {n}] \/ UNCHANGED commitCommit
      BY <2>4 DEF ReadAnnouncementCommit
    <3> QED
      BY <2>1, <2>2, <3>1, <3>3, <3>4, <3>5
  <2>5. ASSUME NEW n \in Node, HandleCommitmentCommit(n)
        PROVE  Signing!Next
    <3>1. /\ pc[n] = "commitCommit" /\ n \in readyCommit
          /\ \A x \in Node : pc'[x] = IF x = n THEN "challengePrepare" ELSE pc[x]
          /\ commitCommit' = [commitCommit EXCEPT ![n] = {n} \cup Sum(tempCommitCommit[n])]
      BY <2>0, <2>5 DEF HandleCommitmentCommit, At, BFTTypeOK
    <3>2. Root \in prepared
      BY <3>1, QuietStep
    <3>3. commitCommit[n] = {} /\ pc[Root] = "commitCommit"
      BY <3>1, <3>2, RingStages DEF RoundInv, LaterInv, CommittedInv
    <3>4. pc[Root] \in Collect /\ pc'[Root] \in Collect
      BY <2>0, <3>1, <3>3
    <3>5. \A x \in Node :
            /\ pc'[x] \in AtOrAfterChallengeCommit <=> pc[x] \in AtOrAfterChallengeCommit
            /\ pc'[x] = "done" <=> pc[x] = "done"
      BY <3>1, Stages
    <3> QED
      BY <2>2, <3>1, <3>3, <3>4, <3>5
  <2>6. ASSUME NEW n \in Node, HandleChallengePrepare(n)
        PROVE  Signing!Next \/ UNCHANGED Signing!vars
    <3>1. /\ pc[n] = "challengePrepare" /\ UNCHANGED commitCommit
          /\ \A x \in Node : pc'[x] = IF x # n THEN pc[x] ELSE
                 IF IsLocalityTreeLeaf(n) THEN "gotPrepare" ELSE "responsePrepare"
      BY <2>0, <2>6 DEF HandleChallengePrepare, At, BFTTypeOK
    <3>2. \A x \in Node :
            /\ pc'[x] \in AtOrAfterChallengeCommit <=> pc[x] \in AtOrAfterChallengeCommit
            /\ pc'[x] = "done" <=> pc[x] = "done"
      BY <3>1, Stages
    <3>3. CASE n # Root
      BY <2>0, <3>1, <3>2, <3>3, Invisible DEF Stage
    <3>4. CASE n = Root
      <4>1. Root \in prepared
        BY <2>6, QuietStep DEF HandleChallengePrepare
      <4>2. committed = Node
        BY <3>1, <3>4, <4>1, RingStages
      <4>3. Stage = "collect" /\ Stage' = "confirm"
        BY <2>0, <3>1, <3>4
      <4>4. committed' = committed /\ confirmed' = confirmed /\ responded' = responded
        BY <3>1, <3>2
      <4>5. Signing!Challenge
        BY <4>2, <4>3, <4>4 DEF Signing!Challenge
      <4> QED
        BY <4>5 DEF Signing!Next
    <3> QED
      BY <3>3, <3>4
  <2>7. ASSUME NEW n \in Node, ReadResponse(n)
        PROVE  UNCHANGED Signing!vars
    <3>1. /\ UNCHANGED commitCommit
          /\ \A x \in Node : \/ pc'[x] = pc[x]
                             \/ pc[x] = "responsePrepare" /\ pc'[x] = "gotPrepare"
                             \/ pc[x] = "responseCommit" /\ pc'[x] = "gotCommit"
      BY <2>0, <2>7 DEF ReadResponse, BFTTypeOK
    <3>2. \A x \in Node :
            /\ pc'[x] \in AtOrAfterChallengeCommit <=> pc[x] \in AtOrAfterChallengeCommit
            /\ pc'[x] = "done" <=> pc[x] = "done"
      BY <3>1, Stages
    <3>3. Stage' = Stage
      BY <2>0, <3>1 DEF Stage
    <3> QED
      BY <3>1, <3>2, <3>3, Invisible
  <2>8. ASSUME NEW n \in Node, HandleResponsePrepare(n)
        PROVE  Signing!Next \/ UNCHANGED Signing!vars
    <3>1. pc[n] = "gotPrepare" /\ UNCHANGED commitCommit
      BY <2>8 DEF HandleResponsePrepare, At
    <3>2. Root \in prepared /\ Root \in prepared'
      BY <2>8, <3>1, QuietStep DEF HandleResponsePrepare, treeVars
    <3>3. pc'[n] # "failed"
      BY <3>2 DEF RoundInv, LaterInv, OutcomeInv, ChecksNeverFail
    <3>4. UNCHANGED pc \/ pc' = [pc EXCEPT ![n] = "challengeCommit"]
      <4>1. \/ UNCHANGED pc \/ pc' = [pc EXCEPT ![n] = "challengeCommit"]
            \/ pc' = [pc EXCEPT ![n] = "failed"]
        BY <2>8 DEF HandleResponsePrepare
      <4> QED
        BY <2>0, <3>3, <4>1 DEF BFTTypeOK
    <3>5. CASE pc' = [pc EXCEPT ![n] = "challengeCommit"]
      <4>1. \A x \in Node : pc'[x] = IF x = n THEN "challengeCommit" ELSE pc[x]
        BY <2>0, <3>5 DEF BFTTypeOK
      <4>2. pc[Root] \in Confirm
        <5>1. pc[Root] \in PastChallengePrepare /\ pc[Root] \notin AtOrAfterChallengeCommit
          BY <3>1, <3>2, RingStages, Stages
        <5> QED
          BY <5>1, Stages
      <4>3. confirmed' = confirmed \cup {n} /\ n \notin confirmed
        BY <3>1, <4>1, Stages
      <4>4. committed' = committed /\ responded' = responded
        BY <3>1, <4>1
      <4>5. CASE n # Root
        <5>1. Stage = "confirm" /\ Stage' = "confirm"
          BY <2>0, <4>1, <4>2, <4>5
        <5>2. Signing!Confirm(n)
          BY <4>3, <4>4, <4>5, <5>1 DEF Signing!Confirm
        <5> QED
          BY <5>2 DEF Signing!Next
      <4>6. CASE n = Root
        <5>1. Stage = "confirm" /\ Stage' = "respond"
          BY <2>0, <4>1, <4>2, <4>6
        <5>2. /\ dynamicChildren[Root] \subseteq confirmed
              /\ \A p \in confirmed \cap Node : dynamicChildren[p] \subseteq confirmed
          BY <2>0, <3>1, <3>2, <4>6, CompleteTree, Stages DEF RoundInv, LaterInv, ResponsePrepareInv
        <5> HIDE DEF confirmed
        <5>3. Node \ {Root} \subseteq confirmed
          BY <2>0, <3>2, <5>2, AllBelowRoot
        <5> USE DEF confirmed
        <5>4. confirmed = Node \ {Root} /\ confirmed' = Node
          BY <4>3, <4>6, <5>3
        <5>5. Signing!ConfirmRoot
          BY <4>4, <5>1, <5>4 DEF Signing!ConfirmRoot
        <5> QED
          BY <5>5 DEF Signing!Next
      <4> QED
        BY <4>5, <4>6
    <3> QED
      BY <2>1, <3>1, <3>4, <3>5
  <2>9. ASSUME NEW n \in Node, HandleChallengeCommit(n)
        PROVE  UNCHANGED Signing!vars
    <3>1. /\ pc[n] = "challengeCommit" /\ UNCHANGED commitCommit
          /\ \A x \in Node : pc'[x] = IF x # n THEN pc[x] ELSE
                 IF IsLocalityTreeLeaf(n) THEN "gotCommit" ELSE "responseCommit"
      BY <2>0, <2>9 DEF HandleChallengeCommit, At, BFTTypeOK
    <3>2. \A x \in Node :
            /\ pc'[x] \in AtOrAfterChallengeCommit <=> pc[x] \in AtOrAfterChallengeCommit
            /\ pc'[x] = "done" <=> pc[x] = "done"
      BY <3>1, Stages
    <3>3. Stage' = Stage
      BY <2>0, <3>1 DEF Stage
    <3> QED
      BY <3>1, <3>2, <3>3, Invisible
  <2>10. ASSUME NEW n \in Node, HandleResponseCommit(n)
         PROVE  Signing!Next
    <3>1. /\ pc[n] = "gotCommit" /\ UNCHANGED commitCommit
          /\ \A x \in Node : pc'[x] = IF x = n THEN "done" ELSE pc[x]
      BY <2>0, <2>10 DEF HandleResponseCommit, At, BFTTypeOK
    <3>2. Root \in prepared
      BY <3>1, QuietStep
    <3>3. pc[Root] \in Respond
      <4>1. pc[Root] \in PastChallengeCommit /\ pc[Root] # "done"
        BY <3>1, <3>2, RingStages, Stages
      <4> QED
        BY <4>1, Stages
    <3>4. responded' = responded \cup {n} /\ n \notin responded
      BY <3>1
    <3>5. committed' = committed /\ confirmed' = confirmed
      BY <3>1, Stages
    <3>6. CASE n # Root
      <4>1. Stage = "respond" /\ Stage' = "respond"
        BY <2>0, <3>1, <3>3, <3>6
      <4>2. Signing!Respond(n)
        BY <3>4, <3>5, <3>6, <4>1 DEF Signing!Respond
      <4> QED
        BY <4>2 DEF Signing!Next
    <3>7. CASE n = Root
      <4>1. Stage = "respond" /\ Stage' = "signed"
        BY <2>0, <3>1, <3>3, <3>7
      <4>2. /\ dynamicChildren[Root] \subseteq responded
            /\ \A p \in responded \cap Node : dynamicChildren[p] \subseteq responded
        <5>1. \A p \in Node : pc[p] \in GotCommit =>
                 \A q \in dynamicChildren[p] : pc[q] = "done"
          BY <2>0, <3>2 DEF RoundInv, LaterInv, ResponseCommitInv
        <5>2. \A p \in Node : dynamicChildren[p] \subseteq Node
          BY <2>0, <3>2, CompleteTree
        <5>3. \A p \in Node : p = Root \/ pc[p] = "done" => pc[p] \in GotCommit
          BY <3>1, <3>7, Stages
        <5>4. \A p \in Node : p = Root \/ pc[p] = "done" =>
                 dynamicChildren[p] \subseteq {x \in Node : pc[x] = "done"}
          BY <5>1, <5>2, <5>3
        <5> QED
          BY <5>4, RootAssumption
      <4> HIDE DEF responded
      <4>3. Node \ {Root} \subseteq responded
        BY <2>0, <3>2, <4>2, AllBelowRoot
      <4> USE DEF responded
      <4>4. responded = Node \ {Root} /\ responded' = Node
        BY <3>4, <3>7, <4>3
      <4>5. Signing!Sign
        BY <3>5, <4>1, <4>4 DEF Signing!Sign
      <4> QED
        BY <4>5 DEF Signing!Next
    <3> QED
      BY <3>6, <3>7
  <2>11. ASSUME NEW n \in Node,
                AnnouncePhase(n) \/ ReadRoundCommit(n) \/ AppendRoundCommit(n) \/ Timeout(n)
         PROVE  UNCHANGED Signing!vars
    BY <2>1, <2>11 DEF AnnouncePhase, ReadRoundCommit, AppendRoundCommit, Timeout, laterVars
  <2>12. CASE UNCHANGED vars
    BY <2>1, <2>12 DEF vars, laterVars
  <2> QED
    BY <2>3, <2>4, <2>5, <2>6, <2>7, <2>8, <2>9, <2>10, <2>11, <2>12 DEF Next, Step
<1> QED
  BY <1>1, <1>2, ImplementsTree, Invariance, RoundInvariance, PTL
     DEF Spec, SigningRefinement, Signing!Spec
=============================================================================
