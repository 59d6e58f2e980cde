----------------------------- MODULE DynamicTree -----------------------------
(***************************************************************************)
(* The announcement phase of ProtocolBFTCoSi                               *)
(* (nyle/cosi_service/bftcosi.go), which every round of collective signing *)
(* starts with. The root floods an Announce over the locality graph of the *)
(* ring. A node takes the first sender as its parent and forwards the      *)
(* message to its other neighbours; to every later Announce it answers     *)
(* with a Commitment of type LoopBreak. A node that has heard back from    *)
(* all the neighbours it announced to sends its own RoundPrepare           *)
(* Commitment to its parent, which so becomes aware of a dynamic child.    *)
(* The result is a spanning tree that nobody computed in advance.          *)
(*                                                                         *)
(* Every send goes through DelayedSend, a goroutine that sleeps for the    *)
(* simulated distance: messages overtake each other freely, so those in    *)
(* flight are a set. Channels are buffered, so a message that has arrived  *)
(* and waits for its reader is in flight too.                              *)
(***************************************************************************)
EXTENDS Naturals, FiniteSets

CONSTANTS Node,    \* the servers of one ring
          Root,    \* the server whose Start began the round
          Nbr,     \* Nbr[n]: the Children of n in the rooted locality graph
          None     \* the nil TreeNode

ASSUME RootAssumption == Root \in Node /\ None \notin Node

ASSUME FiniteAssumption == IsFiniteSet(Node)

\* Bunches and clusters are symmetric, so the locality graph is undirected.
ASSUME GraphAssumption ==
  /\ Nbr \in [Node -> SUBSET Node]
  /\ \A n \in Node : n \notin Nbr[n]
  /\ \A m, n \in Node : m \in Nbr[n] => n \in Nbr[m]

\* The ring's graph is connected: an edge leaves every proper set of nodes
\* that holds the root.
ASSUME ConnectedAssumption ==
  \A S \in SUBSET Node :
     Root \in S /\ S # Node => \E n \in S : Nbr[n] \ S # {}

VARIABLES
  seen,             \* the nodes with the Announce in ReceivedMessages
  Parent,           \* Parent[n], None while nil
  nrPrepareCommit,  \* nrPrepareCommit[n]: the answers n has counted
  dynamicChildren,  \* dynamicChildren[n]: the nodes n got a RoundPrepare from
  ready,            \* the nodes with a token in the ready channel of
                    \* readCommitChan, or whose commitChan is closed
  prepared,         \* the nodes that are past handleCommitmentPrepare
  msgs              \* Announce and Commitment messages in flight

treeVars == <<seen, Parent, nrPrepareCommit, dynamicChildren, ready, prepared,
              msgs>>

Announce(m, n)     == [type |-> "Announce", from |-> m, to |-> n]
LoopBreak(m, n)    == [type |-> "LoopBreak", from |-> m, to |-> n]
RoundPrepare(m, n) == [type |-> "RoundPrepare", from |-> m, to |-> n]

Message == [type : {"Announce", "LoopBreak", "RoundPrepare"},
            from : Node, to : Node]

TreeInit ==
  /\ seen = {}
  /\ Parent = [n \in Node |-> None]
  /\ nrPrepareCommit = [n \in Node |-> 0]
  /\ dynamicChildren = [n \in Node |-> {}]
  /\ ready = {}
  /\ prepared = {}
  /\ msgs = {}

-----------------------------------------------------------------------------
(* readAnnouncement                                                        *)

\* isLeafInRound for a node whose parent is p: its parent is its only
\* neighbour. A root has no parent and is never a leaf.
IsLeafInRound(n, p) == p # None /\ Cardinality(Nbr[n]) = 1

\* Mutant: sendToNeighbors instead of sendToNeighborsExcParent.
SendToNeighborsAndParent(n, p) == {Announce(n, q) : q \in Nbr[n] \cup {p}}

\* DelayedSendToNeighborsExcParent.
SendToNeighborsExcParent(n, p) == {Announce(n, q) : q \in Nbr[n] \ {p}}

\* The branch of readAnnouncement for a message that isLoopAndSet has not
\* seen: the sender becomes the parent; a leaf closes its commitChan and
\* forwards nothing, any other node forwards the announcement.
FirstAnnounce(n, p) ==
  /\ n \notin seen
  /\ seen' = seen \cup {n}
  /\ Parent' = [Parent EXCEPT ![n] = p]
  /\ IF IsLeafInRound(n, p)
     THEN /\ ready' = ready \cup {n}
          /\ msgs' = msgs \ {Announce(p, n)}
     ELSE /\ msgs' = (msgs \ {Announce(p, n)}) \cup SendToNeighborsExcParent(n, p)
          /\ UNCHANGED ready
  /\ UNCHANGED <<nrPrepareCommit, dynamicChildren, prepared>>

\* The root reads the announcement that Start put on its own channel: the
\* message has no sender.
RootAnnounce == FirstAnnounce(Root, None)

\* Any other node hears of the round for the first time.
ReadAnnounce(n, p) == /\ Announce(p, n) \in msgs
                      /\ FirstAnnounce(n, p)

\* Mutant: isLoopAndSet without the early return, as if the map of received
\* messages were not consulted before Parent is set.
ReadAnnounceAgainNoCheck(n, q) ==
  /\ Announce(q, n) \in msgs
  /\ n \in seen
  /\ Parent' = [Parent EXCEPT ![n] = q]
  /\ msgs' = (msgs \ {Announce(q, n)}) \cup {LoopBreak(n, q)}
  /\ UNCHANGED <<seen, nrPrepareCommit, dynamicChildren, ready, prepared>>

\* Mutant: the loop is broken silently, without an answer to the sender.
ReadAnnounceAgainSilent(n, q) ==
  /\ Announce(q, n) \in msgs
  /\ n \in seen
  /\ msgs' = msgs \ {Announce(q, n)}
  /\ UNCHANGED <<seen, Parent, nrPrepareCommit, dynamicChildren, ready, prepared>>

\* A node that knows of the round answers a further announcement with a
\* LoopBreak, whichever thread reads it and however far the node has got.
ReadAnnounceAgain(n, q) ==
  /\ Announce(q, n) \in msgs
  /\ n \in seen
  /\ msgs' = (msgs \ {Announce(q, n)}) \cup {LoopBreak(n, q)}
  /\ UNCHANGED <<seen, Parent, nrPrepareCommit, dynamicChildren, ready, prepared>>

-----------------------------------------------------------------------------
(* handleCommitmentPrepare and readCommitChan(c, RoundPrepare)             *)

\* Mutant: the correction for the parent is applied to the root as well.
NeighborsToWaitForOffByOne(n) == Cardinality(Nbr[n]) - 1

\* nrNeighbors + neighborsToWaitForCorrection of updateCommitPrepAndCompare:
\* the root waits for all its neighbours, another node for all but its
\* parent. The code has a case for a parent in the ring's graph that is not
\* among the children, and waits for one more; on a symmetric graph there is
\* no such parent.
NeighborsToWaitFor(n) == IF n = Root THEN Cardinality(Nbr[n])
                                     ELSE Cardinality(Nbr[n]) - 1

\* updateCommitPrepAndCompare, under its mutex: one more answer. The ready
\* channel gets a token at the very answer that makes the counts equal.
UpdateCommitPrepAndCompare(n) ==
  /\ nrPrepareCommit' = [nrPrepareCommit EXCEPT ![n] = @ + 1]
  /\ ready' = IF nrPrepareCommit[n] + 1 = NeighborsToWaitFor(n)
              THEN ready \cup {n} ELSE ready

\* The node is in the loop of readCommitChan(c, RoundPrepare).
ReadsCommitChan(n) == n \in seen /\ n \notin prepared

ReadLoopBreak(n, q) ==
  /\ ReadsCommitChan(n)
  /\ LoopBreak(q, n) \in msgs
  /\ UpdateCommitPrepAndCompare(n)
  /\ msgs' = msgs \ {LoopBreak(q, n)}
  /\ UNCHANGED <<seen, Parent, dynamicChildren, prepared>>

\* Mutant: the sender is counted but not remembered as a child.
ReadRoundPrepareNoChild(n, q) ==
  /\ ReadsCommitChan(n)
  /\ RoundPrepare(q, n) \in msgs
  /\ UpdateCommitPrepAndCompare(n)
  /\ msgs' = msgs \ {RoundPrepare(q, n)}
  /\ UNCHANGED <<seen, Parent, dynamicChildren, prepared>>

\* A RoundPrepare commitment makes its sender a dynamic child.
ReadRoundPrepare(n, q) ==
  /\ ReadsCommitChan(n)
  /\ RoundPrepare(q, n) \in msgs
  /\ UpdateCommitPrepAndCompare(n)
  /\ dynamicChildren' = [dynamicChildren EXCEPT ![n] = @ \cup {q}]
  /\ msgs' = msgs \ {RoundPrepare(q, n)}
  /\ UNCHANGED <<seen, Parent, prepared>>

\* Mutant: the node does not wait for its neighbours' answers.
FinishPrepareEarly(n) ==
  /\ ReadsCommitChan(n)
  /\ prepared' = prepared \cup {n}
  /\ msgs' = IF n = Root THEN msgs
                         ELSE msgs \cup {RoundPrepare(n, Parent[n])}
  /\ UNCHANGED <<seen, Parent, nrPrepareCommit, dynamicChildren, ready>>

\* readCommitChan returns: the rest of handleCommitmentPrepare. The root
\* starts the challenge (no message of this phase), another node sends its
\* own RoundPrepare commitment to its parent.
FinishPrepare(n) ==
  /\ ReadsCommitChan(n)
  /\ n \in ready
  /\ prepared' = prepared \cup {n}
  /\ msgs' = IF n = Root THEN msgs
                         ELSE msgs \cup {RoundPrepare(n, Parent[n])}
  /\ UNCHANGED <<seen, Parent, nrPrepareCommit, dynamicChildren, ready>>

-----------------------------------------------------------------------------
TreeStep(n) ==
  \/ n = Root /\ RootAnnounce
  \/ \E q \in Node : \/ ReadAnnounce(n, q)
                     \/ ReadAnnounceAgain(n, q)
                     \/ ReadLoopBreak(n, q)
                     \/ ReadRoundPrepare(n, q)
  \/ FinishPrepare(n)

TreeNext == \E n \in Node : TreeStep(n)

TreeSpec == TreeInit /\ [][TreeNext]_treeVars

\* Every goroutine of a node that can run eventually runs, and every message
\* sleeps for a finite distance.
TreeFairness == \A n \in Node : WF_treeVars(TreeStep(n))

FairTreeSpec == TreeSpec /\ TreeFairness
-----------------------------------------------------------------------------
(* Properties                                                              *)

\* Type invariant of the state readAnnouncement, readCommitChan and
\* handleCommitmentPrepare keep.
TypeOK ==
  /\ seen \subseteq Node
  /\ Parent \in [Node -> Node \cup {None}]
  /\ nrPrepareCommit \in [Node -> Nat]
  /\ dynamicChildren \in [Node -> SUBSET Node]
  /\ ready \subseteq Node
  /\ prepared \subseteq Node
  /\ msgs \subseteq Message

\* The neighbours n announced to and has not counted an answer of: the
\* announcement, its LoopBreak or its RoundPrepare is on its way, or the
\* neighbour became a child and is still collecting answers itself.
Outstanding(n) ==
  {q \in Nbr[n] \ {Parent[n]} :
     \/ Announce(n, q) \in msgs
     \/ LoopBreak(q, n) \in msgs
     \/ RoundPrepare(q, n) \in msgs
     \/ Parent[q] = n /\ q \notin prepared}

\* The answers a node has counted and the ones it is still owed always add up
\* to what updateCommitPrepAndCompare waits for: no announcement crossing
\* another, and no early or late LoopBreak, makes it count too few answers
\* (the round hangs until the timeout panics) or too many (it goes on without
\* a subtree).
AnswersAddUp ==
  \A n \in seen :
    nrPrepareCommit[n] + Cardinality(Outstanding(n)) = NeighborsToWaitFor(n)

\* Parents and dynamicChildren, which different nodes keep, agree: p's
\* dynamic children are the nodes that took p as parent and whose commitment
\* p has read. So no node is the dynamic child of two others.
TreeAgreement ==
  \A p \in Node : dynamicChildren[p] =
     {q \in prepared : Parent[q] = p /\ RoundPrepare(q, p) \notin msgs}

\* No Commitment of this phase arrives at a node that has left
\* readCommitChan(c, RoundPrepare): it would be read, and counted, by the
\* commit round's loop on the same channel.
NoLateAnswer ==
  \A n \in prepared, q \in Node :
    LoopBreak(q, n) \notin msgs /\ RoundPrepare(q, n) \notin msgs

\* Parent pointers set by isLoopAndSet never close a cycle: every set of
\* nodes below the root has a member whose parent is outside it.
NoCycle ==
  \A S \in SUBSET (seen \ {Root}) :
    S # {} => \E n \in S : Parent[n] \notin S

\* When the root starts the challenge, every node of the ring has sent its
\* prepare commitment, every commitment has been read by the node's parent,
\* and no message of the phase is left that could reach a node later.
RootIsLast ==
  Root \in prepared =>
    /\ prepared = Node
    /\ msgs = {}
    /\ \A p \in Node : dynamicChildren[p] = {q \in Node : Parent[q] = p}

\* The announcement phase implements the abstract growing tree; its last
\* step is the root leaving handleCommitmentPrepare.
Tree == INSTANCE SpanningTree
          WITH tree <- seen, parent <- Parent, complete <- Root \in prepared

TreeRefinement == Tree!Spec

\* Every round reaches the challenge: the root eventually has the
\* commitments of its whole tree.
EventuallyPrepared == <>(Root \in prepared)

-----------------------------------------------------------------------------
(* The inductive invariant behind the safety properties                    *)

\* What is known of a node by how far it has got.
PhaseInv ==
  /\ prepared \subseteq ready /\ ready \subseteq seen
  /\ Parent[Root] = None
  /\ \A n \in Node \ seen : Parent[n] = None /\ nrPrepareCommit[n] = 0
  /\ \A n \in seen \ {Root} : Parent[n] \in Nbr[n] /\ Parent[n] \in seen
  /\ \A n \in ready : nrPrepareCommit[n] = NeighborsToWaitFor(n)
  /\ \A n \in seen : \A q \in Nbr[n] \ seen : Announce(n, q) \in msgs

\* What is known of the two ends of a message in flight.
MsgInv ==
  \A m, n \in Node :
    /\ Announce(m, n) \in msgs =>
         /\ m \in seen /\ n \in Nbr[m] /\ Parent[m] # n /\ Parent[n] # m
         /\ LoopBreak(n, m) \notin msgs /\ RoundPrepare(n, m) \notin msgs
    /\ LoopBreak(m, n) \in msgs =>
         /\ m \in seen /\ n \in seen /\ m \in Nbr[n]
         /\ Parent[m] # n /\ Parent[n] # m
    /\ RoundPrepare(m, n) \in msgs =>
         m \in prepared /\ Parent[m] = n /\ n \in seen

Inv == /\ TypeOK /\ PhaseInv /\ MsgInv
       /\ AnswersAddUp /\ TreeAgreement /\ NoCycle
=============================================================================
