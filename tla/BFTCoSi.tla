------------------------------- MODULE BFTCoSi -------------------------------
(***************************************************************************)
(* One instance of ProtocolBFTCoSi (nyle/cosi_service/bftcosi.go) per node *)
(* of a ring: Dispatch from the announcement (DynamicTree) to the final    *)
(* signature. Points and scalars that CoSi adds up are modelled by the set *)
(* of nodes whose contribution is in the sum, so that a signature verifies *)
(* exactly when both its commitment and its response stand for the whole   *)
(* roster.                                                                 *)
(*                                                                         *)
(* The main thread of a node is at pc[n]. Two more threads change state:   *)
(* the goroutine of handleAnnouncementCommit, and one goroutine for every  *)
(* Commitment that readCommitChan takes from its channel. The latter       *)
(* append to tempCommitCommit without a lock: reading the slice and        *)
(* storing the longer one are separate steps.                              *)
(***************************************************************************)
EXTENDS DynamicTree

CONSTANTS Refuser,     \* the nodes whose VerificationFunction may return false
          MayTimeout   \* whether the timers of the two read loops may fire

ASSUME BFTAssumption == Refuser \subseteq Node /\ MayTimeout \in BOOLEAN

VARIABLES
  pc,                  \* how far Dispatch has got
  panic,               \* panic[n]: why the instance stopped, "no" if it did not
  announcedCommit,     \* nodes that have read their AnnounceCommit
  net,                 \* messages of the later phases in flight
  prepareCommit,       \* prepareCommit[n]: n's aggregate of the prepare round
  appending,           \* goroutines between reading and storing the slice
  tempCommitCommit,    \* tempCommitCommit[n]: set of <<child, aggregate>>
  readyCommit,         \* token in the ready channel of the commit round
  commitCommit,        \* commitCommit[n]: n's aggregate of the commit round
  tempPrepareResponse, \* set of <<child, aggregate>>
  tempCommitResponse,  \* set of <<child, aggregate>>
  signRefusal,         \* the nodes with signRefusal set
  signature            \* the signatures the root passed to onSignatureDone

laterVars == <<pc, panic, announcedCommit, net, prepareCommit, appending,
               tempCommitCommit, readyCommit, commitCommit,
               tempPrepareResponse, tempCommitResponse, signRefusal, signature>>

vars == <<treeVars, laterVars>>

\* Where Dispatch waits or stands. The read loops of the response phases end
\* in a state of their own, gotPrepare and gotCommit; Dispatch returns with
\* nil (done) or with an error (failed).
Running == {"prepare", "commitCommit", "challengePrepare", "responsePrepare",
            "gotPrepare", "challengeCommit", "responseCommit", "gotCommit"}

\* A panic ends every thread of the instance.
Alive(n) == panic[n] = "no" /\ pc[n] \in Running

\* The main thread stands at p.
At(n, p) == panic[n] = "no" /\ pc[n] = p

Msg(t, m, n, s) == [type |-> t, from |-> m, to |-> n, signers |-> s]

\* Mutant: sendToDynamicChildren does not leave out the parent.
ToChildrenAndParent(t, n, s) ==
  {Msg(t, n, q, s) : q \in dynamicChildren[n] \cup {Parent[n]}}

\* DelayedSendToChildren.
ToChildren(t, n, s) == {Msg(t, n, q, s) : q \in dynamicChildren[n]}

IsLocalityTreeLeaf(n) == dynamicChildren[n] = {}

\* What a list of <<child, aggregate>> adds up to.
Sum(list) == UNION {e[2] : e \in list}

\* Start has put both announcements on the root's own channels.
Init ==
  /\ TreeInit
  /\ pc = [n \in Node |-> "prepare"]
  /\ panic = [n \in Node |-> "no"]
  /\ announcedCommit = {}
  /\ net = {Msg("AnnounceCommit", Root, Root, {})}
  /\ prepareCommit = [n \in Node |-> {}]
  /\ appending = {}
  /\ tempCommitCommit = [n \in Node |-> {}]
  /\ readyCommit = {}
  /\ commitCommit = [n \in Node |-> {}]
  /\ tempPrepareResponse = [n \in Node |-> {}]
  /\ tempCommitResponse = [n \in Node |-> {}]
  /\ signRefusal = {}
  /\ signature = {}

-----------------------------------------------------------------------------
(* The announcement phase, seen from Dispatch                              *)

\* The steps of the phase other than the return of readCommitChan. A
\* background goroutine reads announcements until the instance ends.
AnnouncePhase(n) ==
  /\ Alive(n)
  /\ \/ n = Root /\ RootAnnounce
     \/ \E q \in Node : \/ ReadAnnounce(n, q)
                        \/ ReadAnnounceAgain(n, q)
                        \/ ReadLoopBreak(n, q)
                        \/ ReadRoundPrepare(n, q)
  /\ UNCHANGED laterVars

\* Mutant: every node, and not only one with dynamic children, skips
\* handleCommitmentCommit.
HandleCommitmentPrepareSkip(n) ==
  /\ At(n, "prepare")
  /\ FinishPrepare(n)
  /\ prepareCommit' = [prepareCommit EXCEPT
       ![n] = {n} \cup UNION {prepareCommit[q] : q \in dynamicChildren[n]}]
  /\ pc' = [pc EXCEPT ![n] = "challengePrepare"]
  /\ net' = IF n = Root THEN net \cup {Msg("ChallengePrepare", n, n, {})} ELSE net
  /\ UNCHANGED <<panic, announcedCommit, appending, tempCommitCommit, readyCommit,
                 commitCommit, tempPrepareResponse, tempCommitResponse,
                 signRefusal, signature>>

\* The end of handleCommitmentPrepare: prepare.Commit adds the node's own
\* commitment to its children's, and the root puts the prepare challenge on
\* its own channel, to be read when Dispatch gets there. Dispatch goes on to
\* handleCommitmentCommit, which a leaf of the dynamic tree skips.
HandleCommitmentPrepare(n) ==
  /\ At(n, "prepare")
  /\ FinishPrepare(n)
  /\ prepareCommit' = [prepareCommit EXCEPT
       ![n] = {n} \cup UNION {prepareCommit[q] : q \in dynamicChildren[n]}]
  /\ pc' = [pc EXCEPT ![n] = IF IsLocalityTreeLeaf(n) THEN "challengePrepare"
                                                      ELSE "commitCommit"]
  /\ net' = IF n = Root THEN net \cup {Msg("ChallengePrepare", n, n, {})} ELSE net
  /\ UNCHANGED <<panic, announcedCommit, appending, tempCommitCommit, readyCommit,
                 commitCommit, tempPrepareResponse, tempCommitResponse,
                 signRefusal, signature>>

-----------------------------------------------------------------------------
(* The commitments of the commit round                                     *)

\* Mutant: a node below the root does not pass the announcement on.
ReadAnnouncementCommitSilent(n) ==
  \E m \in net :
    /\ m.type = "AnnounceCommit" /\ m.to = n
    /\ n \in prepared /\ n \notin announcedCommit /\ Alive(n)
    /\ announcedCommit' = announcedCommit \cup {n}
    /\ IF IsLocalityTreeLeaf(n)
       THEN /\ commitCommit' = [commitCommit EXCEPT ![n] = {n}]
            /\ net' = (net \ {m}) \cup {Msg("RoundCommit", n, Parent[n], {n})}
       ELSE /\ net' = net \ {m}
            /\ UNCHANGED commitCommit
    /\ UNCHANGED <<treeVars, pc, panic, prepareCommit, appending, tempCommitCommit,
                   readyCommit, tempPrepareResponse, tempCommitResponse,
                   signRefusal, signature>>

\* The goroutine of handleAnnouncementCommit, which starts once the node is
\* prepared and reads one message. A leaf commits and tells its parent.
ReadAnnouncementCommit(n) ==
  \E m \in net :
    /\ m.type = "AnnounceCommit" /\ m.to = n
    /\ n \in prepared /\ n \notin announcedCommit /\ Alive(n)
    /\ announcedCommit' = announcedCommit \cup {n}
    /\ IF IsLocalityTreeLeaf(n)
       THEN /\ commitCommit' = [commitCommit EXCEPT ![n] = {n}]
            /\ net' = (net \ {m}) \cup {Msg("RoundCommit", n, Parent[n], {n})}
       ELSE /\ net' = (net \ {m}) \cup ToChildren("AnnounceCommit", n, {})
            /\ UNCHANGED commitCommit
    /\ UNCHANGED <<treeVars, pc, panic, prepareCommit, appending, tempCommitCommit,
                   readyCommit, tempPrepareResponse, tempCommitResponse,
                   signRefusal, signature>>

\* readCommitChan takes a RoundCommit commitment and starts a goroutine,
\* which reads the slice it is about to append to.
ReadRoundCommit(n) ==
  \E m \in net :
    /\ m.type = "RoundCommit" /\ m.to = n
    /\ ReadsCommitChan(n) \/ pc[n] = "commitCommit"
    /\ Alive(n)
    /\ net' = net \ {m}
    /\ appending' = appending \cup
         {[at |-> n, loop |-> pc[n], entry |-> <<m.from, m.signers>>,
           slice |-> tempCommitCommit[n]]}
    /\ UNCHANGED <<treeVars, pc, panic, announcedCommit, prepareCommit,
                   tempCommitCommit, readyCommit, commitCommit,
                   tempPrepareResponse, tempCommitResponse, signRefusal,
                   signature>>

\* Mutant: the comparison that ends the loop is off by one.
AppendRoundCommitOffByOne(n) ==
  \E g \in appending :
    /\ g.at = n /\ Alive(n)
    /\ LET longer == g.slice \cup {g.entry} IN
         /\ tempCommitCommit' = [tempCommitCommit EXCEPT ![n] = longer]
         /\ readyCommit' =
              IF g.loop = "commitCommit"
                 /\ Cardinality(longer) + 1 >= Cardinality(dynamicChildren[n])
              THEN readyCommit \cup {n} ELSE readyCommit
    /\ appending' = appending \ {g}
    /\ UNCHANGED <<treeVars, pc, panic, announcedCommit, net, prepareCommit,
                   commitCommit, tempPrepareResponse, tempCommitResponse,
                   signRefusal, signature>>

\* The goroutine stores the longer slice, and with it whatever the slice held
\* when it was read; an append stored in between is lost. In the loop of the
\* commit round it then compares the lengths of the two commitment lists.
AppendRoundCommit(n) ==
  \E g \in appending :
    /\ g.at = n /\ Alive(n)
    /\ LET longer == g.slice \cup {g.entry} IN
         /\ tempCommitCommit' = [tempCommitCommit EXCEPT ![n] = longer]
         /\ readyCommit' =
              IF g.loop = "commitCommit"
                 /\ Cardinality(longer) = Cardinality(dynamicChildren[n])
              THEN readyCommit \cup {n} ELSE readyCommit
    /\ appending' = appending \ {g}
    /\ UNCHANGED <<treeVars, pc, panic, announcedCommit, net, prepareCommit,
                   commitCommit, tempPrepareResponse, tempCommitResponse,
                   signRefusal, signature>>

\* Mutant: the node does not wait for its children's commitments.
HandleCommitmentCommitEarly(n) ==
  /\ At(n, "commitCommit")
  /\ LET sum == {n} \cup Sum(tempCommitCommit[n]) IN
       /\ commitCommit' = [commitCommit EXCEPT ![n] = sum]
       /\ net' = IF n = Root THEN net
                 ELSE net \cup {Msg("RoundCommit", n, Parent[n], sum)}
  /\ pc' = [pc EXCEPT ![n] = "challengePrepare"]
  /\ UNCHANGED <<treeVars, panic, announcedCommit, prepareCommit, appending,
                 tempCommitCommit, readyCommit, tempPrepareResponse,
                 tempCommitResponse, signRefusal, signature>>

\* readCommitChan(c, RoundCommit) returns: commit.Commit adds up the list,
\* and a node other than the root passes the aggregate on.
HandleCommitmentCommit(n) ==
  /\ At(n, "commitCommit") /\ n \in readyCommit
  /\ LET sum == {n} \cup Sum(tempCommitCommit[n]) IN
       /\ commitCommit' = [commitCommit EXCEPT ![n] = sum]
       /\ net' = IF n = Root THEN net
                 ELSE net \cup {Msg("RoundCommit", n, Parent[n], sum)}
  /\ pc' = [pc EXCEPT ![n] = "challengePrepare"]
  /\ UNCHANGED <<treeVars, panic, announcedCommit, prepareCommit, appending,
                 tempCommitCommit, readyCommit, tempPrepareResponse,
                 tempCommitResponse, signRefusal, signature>>

-----------------------------------------------------------------------------
(* The prepare challenge and its responses                                 *)

\* A leaf has nothing to read on its closed response channel. Another node
\* passes the challenge on to its dynamic children and reads their responses.
HandleChallengePrepare(n) ==
  \E m \in net :
    /\ m.type = "ChallengePrepare" /\ m.to = n
    /\ At(n, "challengePrepare")
    /\ net' = (net \ {m}) \cup ToChildren("ChallengePrepare", n, {})
    /\ pc' = [pc EXCEPT ![n] = IF IsLocalityTreeLeaf(n) THEN "gotPrepare"
                                                        ELSE "responsePrepare"]
    /\ UNCHANGED <<treeVars, panic, announcedCommit, prepareCommit, appending,
                   tempCommitCommit, readyCommit, commitCommit,
                   tempPrepareResponse, tempCommitResponse, signRefusal,
                   signature>>

\* The busy wait of Dispatch before handleResponsePrepare.
SpinOver(n) == /\ Cardinality(tempCommitCommit[n]) = Cardinality(dynamicChildren[n])
               /\ dynamicChildren[n] # {}

\* readResponseChan takes a response of either round. It returns when the
\* message is of the round it reads for and completes that round's list.
ReadResponse(n) ==
  \E m \in net :
    /\ m.to = n
    /\ (At(n, "responsePrepare") /\ SpinOver(n)) \/ At(n, "responseCommit")
    /\ \/ /\ m.type = "ResponsePrepare"
          /\ tempPrepareResponse' =
               [tempPrepareResponse EXCEPT ![n] = @ \cup {<<m.from, m.signers>>}]
          /\ pc' = IF /\ pc[n] = "responsePrepare"
                      /\ Cardinality(tempPrepareResponse'[n])
                           = Cardinality(dynamicChildren[n])
                   THEN [pc EXCEPT ![n] = "gotPrepare"] ELSE pc
          /\ UNCHANGED tempCommitResponse
       \/ /\ m.type = "ResponseCommit"
          /\ tempCommitResponse' =
               [tempCommitResponse EXCEPT ![n] = @ \cup {<<m.from, m.signers>>}]
          /\ pc' = IF /\ pc[n] = "responseCommit"
                      /\ Cardinality(tempCommitResponse'[n])
                           = Cardinality(tempCommitCommit[n])
                   THEN [pc EXCEPT ![n] = "gotCommit"] ELSE pc
          /\ UNCHANGED tempPrepareResponse
    /\ net' = net \ {m}
    /\ UNCHANGED <<treeVars, panic, announcedCommit, prepareCommit, appending,
                   tempCommitCommit, readyCommit, commitCommit, signRefusal,
                   signature>>

\* waitResponseVerification panics for a node that does not want to sign, and
\* for a dynamic child without a response.
VerificationPanic(n, verified) ==
  IF ~verified THEN "refused"
  ELSE IF dynamicChildren[n] \subseteq {e[1] : e \in tempPrepareResponse[n]}
       THEN "none" ELSE "missingChild"

\* What the VerificationFunction may have put in verifyChan.
Verified(n) == IF n \in Refuser THEN BOOLEAN ELSE {TRUE}

\* BFTSignature.Verify with no exceptions: the aggregates of both phases stand
\* for the whole roster.
Verify(commit, response) == commit = Node /\ response = Node

\* The rest of handleResponsePrepare: the node's own response is added, sent
\* to the parent, or verified by the root, which starts the commit challenge.
HandleResponsePrepare(n) ==
  LET response == {n} \cup Sum(tempPrepareResponse[n]) IN
    /\ At(n, "gotPrepare")
    /\ \E verified \in Verified(n) :
       \/ /\ VerificationPanic(n, verified) # "none"
          /\ panic' = [panic EXCEPT ![n] = VerificationPanic(n, verified)]
          /\ UNCHANGED <<pc, net, signRefusal>>
       \/ /\ VerificationPanic(n, verified) = "none" /\ n # Root
          /\ net' = net \cup {Msg("ResponsePrepare", n, Parent[n], response)}
          /\ pc' = [pc EXCEPT ![n] = "challengeCommit"]
          /\ UNCHANGED <<panic, signRefusal>>
       \/ /\ VerificationPanic(n, verified) = "none" /\ n = Root
          /\ IF Verify(prepareCommit[n], response)
             THEN /\ net' = net \cup {Msg("ChallengeCommit", n, n, response)}
                  /\ pc' = [pc EXCEPT ![n] = "challengeCommit"]
                  /\ UNCHANGED signRefusal
             ELSE /\ pc' = [pc EXCEPT ![n] = "failed"]
                  /\ signRefusal' = signRefusal \cup {n}
                  /\ UNCHANGED net
          /\ UNCHANGED panic
    /\ UNCHANGED <<treeVars, announcedCommit, prepareCommit, appending,
                   tempCommitCommit, readyCommit, commitCommit,
                   tempPrepareResponse, tempCommitResponse, signature>>

-----------------------------------------------------------------------------
(* The commit challenge and its responses                                  *)

\* Mutant: every node goes on as a leaf does, without reading responses.
HandleChallengeCommitNoWait(n) ==
  \E m \in net :
    /\ m.type = "ChallengeCommit" /\ m.to = n
    /\ At(n, "challengeCommit")
    /\ signRefusal' = IF Verify(m.signers, m.signers) THEN signRefusal
                                                      ELSE signRefusal \cup {n}
    /\ net' = (net \ {m}) \cup ToChildren("ChallengeCommit", n, m.signers)
    /\ pc' = [pc EXCEPT ![n] = "gotCommit"]
    /\ UNCHANGED <<treeVars, panic, announcedCommit, prepareCommit, appending,
                   tempCommitCommit, readyCommit, commitCommit,
                   tempPrepareResponse, tempCommitResponse, signature>>

\* A node refuses to sign the commit round if the signature of the prepare
\* round does not verify.
HandleChallengeCommit(n) ==
  \E m \in net :
    /\ m.type = "ChallengeCommit" /\ m.to = n
    /\ At(n, "challengeCommit")
    /\ signRefusal' = IF Verify(m.signers, m.signers) THEN signRefusal
                                                      ELSE signRefusal \cup {n}
    /\ net' = (net \ {m}) \cup ToChildren("ChallengeCommit", n, m.signers)
    /\ pc' = [pc EXCEPT ![n] = IF IsLocalityTreeLeaf(n) THEN "gotCommit"
                                                        ELSE "responseCommit"]
    /\ UNCHANGED <<treeVars, panic, announcedCommit, prepareCommit, appending,
                   tempCommitCommit, readyCommit, commitCommit,
                   tempPrepareResponse, tempCommitResponse, signature>>

\* The rest of handleResponseCommit, and Done, which Dispatch has deferred. A
\* refusing node leaves its own response out; the root releases the signature
\* (a nil one if it refuses). Another node's response is sent by a goroutine
\* that sleeps first and that nobody waits for: by then Done may have closed
\* the instance, and onet refuses to send for it.
HandleResponseCommit(n) ==
  LET own      == IF n \in signRefusal THEN {} ELSE {n}
      response == own \cup Sum(tempCommitResponse[n])
  IN
    /\ At(n, "gotCommit")
    /\ pc' = [pc EXCEPT ![n] = "done"]
    /\ IF n = Root
       THEN /\ signature' = {IF n \in signRefusal
                             THEN [commit |-> {}, response |-> {}]
                             ELSE [commit |-> commitCommit[n], response |-> response]}
            /\ UNCHANGED net
       ELSE /\ \/ net' = net \cup {Msg("ResponseCommit", n, Parent[n], response)}
               \/ UNCHANGED net
            /\ UNCHANGED signature
    /\ UNCHANGED <<treeVars, panic, announcedCommit, prepareCommit, appending,
                   tempCommitCommit, readyCommit, commitCommit,
                   tempPrepareResponse, tempCommitResponse, signRefusal>>

-----------------------------------------------------------------------------
\* Mutant: the loop that reads the commitments has no timer.
TimeoutResponsesOnly(n) ==
  /\ MayTimeout
  /\ \/ At(n, "responsePrepare") /\ SpinOver(n)
     \/ At(n, "responseCommit")
  /\ panic' = [panic EXCEPT ![n] = "timeout"]
  /\ UNCHANGED <<treeVars, pc, announcedCommit, net, prepareCommit, appending,
                 tempCommitCommit, readyCommit, commitCommit,
                 tempPrepareResponse, tempCommitResponse, signRefusal,
                 signature>>

\* The timer of readCommitChan or readResponseChan fires and the instance
\* panics. A leaf, whose channels are closed, does not wait for its timer.
Timeout(n) ==
  /\ MayTimeout
  /\ \/ At(n, "prepare") /\ ReadsCommitChan(n)
     \/ At(n, "responsePrepare") /\ SpinOver(n)
     \/ At(n, "commitCommit") \/ At(n, "responseCommit")
  /\ panic' = [panic EXCEPT ![n] = "timeout"]
  /\ UNCHANGED <<treeVars, pc, announcedCommit, net, prepareCommit, appending,
                 tempCommitCommit, readyCommit, commitCommit,
                 tempPrepareResponse, tempCommitResponse, signRefusal,
                 signature>>

Step(n) ==
  \/ AnnouncePhase(n)
  \/ HandleCommitmentPrepare(n)
  \/ ReadAnnouncementCommit(n)
  \/ ReadRoundCommit(n)
  \/ AppendRoundCommit(n)
  \/ HandleCommitmentCommit(n)
  \/ HandleChallengePrepare(n)
  \/ ReadResponse(n)
  \/ HandleResponsePrepare(n)
  \/ HandleChallengeCommit(n)
  \/ HandleResponseCommit(n)

Next == \E n \in Node : Step(n) \/ Timeout(n)

Spec == Init /\ [][Next]_vars

\* Threads of a node that can run eventually do; timers owe nothing.
FairSpec == Spec /\ \A n \in Node : WF_vars(Step(n))
-----------------------------------------------------------------------------
(* Properties                                                              *)

LaterType == {"AnnounceCommit", "RoundCommit", "ChallengePrepare",
              "ResponsePrepare", "ChallengeCommit", "ResponseCommit"}

\* Type invariant of the state Dispatch keeps after the announcement phase.
BFTTypeOK ==
  /\ pc \in [Node -> Running \cup {"done", "failed"}]
  /\ panic \in [Node -> {"no", "timeout", "refused", "missingChild"}]
  /\ announcedCommit \subseteq Node /\ readyCommit \subseteq Node
  /\ signRefusal \subseteq Node
  /\ net \subseteq [type : LaterType, from : Node, to : Node, signers : SUBSET Node]
  /\ prepareCommit \in [Node -> SUBSET Node]
  /\ commitCommit \in [Node -> SUBSET Node]
  /\ \A list \in {tempCommitCommit, tempPrepareResponse, tempCommitResponse} :
       list \in [Node -> SUBSET (Node \X SUBSET Node)]
  /\ signature \subseteq [commit : SUBSET Node, response : SUBSET Node]
  /\ appending \subseteq [at : Node, loop : Running, entry : Node \X SUBSET Node,
                          slice : SUBSET (Node \X SUBSET Node)]

\* The round as its caller sees it. A node has committed to both rounds once
\* its commit aggregate exists, confirmed once it is past
\* handleResponsePrepare, and responded once its Dispatch has returned.
Stage == CASE pc[Root] \in {"prepare", "commitCommit", "challengePrepare"} -> "collect"
           [] pc[Root] \in {"responsePrepare", "gotPrepare", "failed"} -> "confirm"
           [] pc[Root] \in {"challengeCommit", "responseCommit", "gotCommit"} -> "respond"
           [] pc[Root] = "done" -> "signed"

AtOrAfterChallengeCommit ==
  {"challengeCommit", "responseCommit", "gotCommit", "done"}

Signing == INSTANCE CollectiveSigning WITH
  stage     <- Stage,
  committed <- {n \in Node : commitCommit[n] # {}},
  confirmed <- {n \in Node : pc[n] \in AtOrAfterChallengeCommit},
  responded <- {n \in Node : pc[n] = "done"}

\* Dispatch implements the two collective signatures: with messages that
\* overtake each other, lost appends and timeouts anywhere, no challenge is
\* answered before every node of the ring has committed, no node answers the
\* commit challenge before every node has signed the prepare round, and the
\* root signs last.
SigningRefinement == Signing!Spec

\* A signature the root releases stands for every node of the ring in both
\* its halves, and no node refused: no subtree is left out or replaced by a
\* stale aggregate.
SignatureCoversRing ==
  \A s \in signature :
    /\ s.commit = Node /\ s.response = Node
    /\ \A n \in Node : panic[n] # "refused"

\* commitChan and responseChan carry the messages of both rounds; the read
\* loops of one round never meet a message of the other, which they would
\* store without noticing that their list is complete.
RoundsDoNotMix ==
  /\ \A m \in net :
       /\ m.type = "RoundCommit"     => pc[m.to] = "commitCommit"
       /\ m.type = "ResponsePrepare" => pc[m.to] = "responsePrepare"
       /\ m.type = "ResponseCommit"  => pc[m.to] = "responseCommit"
  /\ \A g \in appending : pc[g.at] = "commitCommit"

\* An instance ends after its whole subtree has, and nothing is in flight to
\* it: onet drops what arrives for an instance that called Done.
DoneIsFinal ==
  \A n \in Node : pc[n] = "done" =>
    /\ \A q \in dynamicChildren[n] : pc[q] = "done"
    /\ \A m \in msgs \cup net : m.to # n

\* The panic "Exceptions 1" of waitResponseVerification, the error return of
\* the root and the refusal of the commit round never happen: a round that
\* fails does so by a timeout or by a node's own refusal.
ChecksNeverFail ==
  /\ \A n \in Node : panic[n] # "missingChild" /\ pc[n] # "failed"
  /\ signRefusal = {}

\* All commit commitments of n's children have been read and stored, and the
\* list is short: an append was lost.
LostCommitment(n) ==
  /\ At(n, "commitCommit") /\ n \notin readyCommit
  /\ \A q \in dynamicChildren[n] : commitCommit[q] # {}
  /\ \A m \in net : ~(m.type = "RoundCommit" /\ m.to = n)
  /\ \A g \in appending : g.at # n

\* n has returned from Dispatch and its last response is neither on its way nor
\* at its parent: onet refused to send it.
LostResponse(n) ==
  /\ n # Root /\ pc[n] = "done"
  /\ \A m \in net : ~(m.type = "ResponseCommit" /\ m.from = n)
  /\ \A e \in tempCommitResponse[Parent[n]] : e[1] # n

\* A round ends with a signature, whatever the order of its messages, unless an
\* instance panics (a timer, a refusal), the unguarded append of readCommitChan
\* loses a commitment, or an instance that called Done can not send its last
\* response any more. There is no other way to hang.
EventuallySigned ==
  <>(\/ pc[Root] = "done"
     \/ \E n \in Node : panic[n] # "no" \/ LostCommitment(n) \/ LostResponse(n))

\* Nodes below the root wait for the challenges without a timer and may wait
\* for ever when another instance has stopped or its last response was refused.
\* The root does not: if its timers expire it releases a signature or panics,
\* since it is in a loop with a timer wherever it depends on others.
RootEnds ==
  WF_vars(Timeout(Root)) => <>(pc[Root] = "done" \/ panic[Root] # "no")

\* The comment of readCommitChan: it reads until all commit messages are
\* received or a timeout.
ReadsUntilAllReceived == \A n \in Node : ~LostCommitment(n)

-----------------------------------------------------------------------------
(* The inductive invariant behind the safety properties                    *)

NetOf(t) == {m \in net : m.type = t}

\* A set of nodes that holds the dynamic children of its members. One that
\* holds a node holds the node's whole subtree.
Closed(S) == \A m \in S : dynamicChildren[m] \subseteq S

\* How far Dispatch has got, as sets of values of pc.
GotPrepare == {"gotPrepare"} \cup AtOrAfterChallengeCommit
PastChallengePrepare == {"responsePrepare"} \cup GotPrepare
GotCommit == {"gotCommit", "done"}
PastChallengeCommit == {"responseCommit"} \cup GotCommit

\* What a node sends to its parent in the prepare and the commit response,
\* once it has the responses of its children.
PrepareResponse(n) == {n} \cup Sum(tempPrepareResponse[n])
CommitResponse(n) == {n} \cup Sum(tempCommitResponse[n])

\* The end of handleCommitmentPrepare: the aggregate is that of the subtree.
PrepareInv ==
  /\ Root \in ready => Nbr[Root] # {}
  /\ \A n \in Node : pc[n] = "prepare" <=> n \notin prepared
  /\ \A n \in prepared : /\ n \in prepareCommit[n]
                          /\ prepareCommit[n] \subseteq prepared
                          /\ Closed(prepareCommit[n])

\* Until the root has left handleCommitmentPrepare no later phase begins.
QuietInv ==
  /\ net = {Msg("AnnounceCommit", Root, Root, {})}
  /\ announcedCommit = {} /\ appending = {} /\ readyCommit = {}
  /\ signRefusal = {} /\ signature = {}
  /\ \A n \in Node :
       /\ panic[n] \in {"no", "timeout"}
       /\ commitCommit[n] = {} /\ tempCommitCommit[n] = {}
       /\ tempPrepareResponse[n] = {} /\ tempCommitResponse[n] = {}
       /\ n \in prepared => pc[n] = IF IsLocalityTreeLeaf(n) THEN "challengePrepare"
                                                             ELSE "commitCommit"

\* The second announcement goes down the tree, once to every node.
AnnounceInv ==
  /\ \A m \in NetOf("AnnounceCommit") :
       /\ m.signers = {} /\ m.to \notin announcedCommit
       /\ \/ m.from = Root /\ m.to = Root
          \/ m.to \in dynamicChildren[m.from] /\ m.from \in announcedCommit
  /\ \A p \in Node : \A q \in dynamicChildren[p] :
       q \in announcedCommit => p \in announcedCommit

\* The commitments of n's children that may be in a list at n.
CommitEntries(n) ==
  {<<q, commitCommit[q]>> : q \in {c \in dynamicChildren[n] : commitCommit[c] # {}}}

\* Who has committed has done so for its subtree.
CommittedInv ==
  \A n \in Node :
    /\ commitCommit[n] # {} =>
         /\ n \in announcedCommit /\ n \in commitCommit[n]
         /\ Closed(commitCommit[n])
         /\ \A q \in dynamicChildren[n] : commitCommit[q] # {}
    /\ pc[n] = "commitCommit" => commitCommit[n] = {} /\ dynamicChildren[n] # {}
    /\ dynamicChildren[n] # {} /\ pc[n] # "commitCommit" =>
         commitCommit[n] # {} /\ n \in readyCommit

\* A commitment is in one place: on its way, in one goroutine that appends, or
\* stored. No slice read by a goroutine holds one that is not stored yet, so
\* a complete list is not overwritten any more.
AppendInv ==
  /\ \A m \in NetOf("RoundCommit") :
       /\ m.from \in dynamicChildren[m.to]
       /\ m.signers = commitCommit[m.from] /\ m.signers # {}
       /\ <<m.from, m.signers>> \notin tempCommitCommit[m.to]
       /\ \A g \in appending : g.at = m.to =>
            <<m.from, m.signers>> \notin g.slice \cup {g.entry}
  /\ \A g \in appending :
       /\ g.entry \in CommitEntries(g.at)
       /\ g.slice \subseteq CommitEntries(g.at)
       /\ g.entry \notin tempCommitCommit[g.at]
       /\ \A h \in appending : h.at = g.at =>
            g.entry \notin h.slice /\ (g.entry = h.entry => g = h)
  /\ \A n \in Node :
       /\ tempCommitCommit[n] \subseteq CommitEntries(n)
       /\ n \in readyCommit => CommitEntries(n) \subseteq tempCommitCommit[n]
                               /\ \A q \in dynamicChildren[n] : commitCommit[q] # {}

\* The prepare challenge goes down the tree, once to every node.
ChallengePrepareInv ==
  /\ \A m \in NetOf("ChallengePrepare") :
       /\ m.signers = {} /\ pc[m.to] \in {"commitCommit", "challengePrepare"}
       /\ \/ m.from = Root /\ m.to = Root
          \/ /\ m.to \in dynamicChildren[m.from]
             /\ pc[m.from] \in PastChallengePrepare
  /\ \A p \in Node : \A q \in dynamicChildren[p] :
       pc[q] \in PastChallengePrepare => pc[p] \in PastChallengePrepare

\* The responses of n's children that may be in the list at n.
PrepareEntries(n) ==
  {<<q, PrepareResponse(q)>> :
     q \in {c \in dynamicChildren[n] : pc[c] \in AtOrAfterChallengeCommit}}

\* The prepare responses come up the tree.
ResponsePrepareInv ==
  /\ \A m \in NetOf("ResponsePrepare") :
       /\ m.from \in dynamicChildren[m.to] /\ pc[m.from] \in AtOrAfterChallengeCommit
       /\ m.signers = PrepareResponse(m.from)
       /\ <<m.from, m.signers>> \notin tempPrepareResponse[m.to]
  /\ \A n \in Node :
       /\ pc[n] = "responsePrepare" => dynamicChildren[n] # {}
       /\ tempPrepareResponse[n] \subseteq PrepareEntries(n)
       /\ pc[n] \in GotPrepare =>
            /\ Closed(PrepareResponse(n))
            /\ \A q \in dynamicChildren[n] :
                 /\ pc[q] \in AtOrAfterChallengeCommit
                 /\ <<q, PrepareResponse(q)>> \in tempPrepareResponse[n]

\* The commit challenge goes down the tree, with a signature of the whole ring.
ChallengeCommitInv ==
  /\ \A m \in NetOf("ChallengeCommit") :
       /\ m.signers = Node /\ pc[m.to] = "challengeCommit"
       /\ \/ m.from = Root /\ m.to = Root
          \/ /\ m.to \in dynamicChildren[m.from]
             /\ pc[m.from] \in PastChallengeCommit
  /\ \A p \in Node : \A q \in dynamicChildren[p] :
       pc[q] \in PastChallengeCommit => pc[p] \in PastChallengeCommit

CommitResponseEntries(n) ==
  {<<q, CommitResponse(q)>> : q \in {c \in dynamicChildren[n] : pc[c] = "done"}}

\* The commit responses come up the tree.
ResponseCommitInv ==
  /\ \A m \in NetOf("ResponseCommit") :
       /\ m.from \in dynamicChildren[m.to] /\ pc[m.from] = "done"
       /\ m.signers = CommitResponse(m.from)
       /\ <<m.from, m.signers>> \notin tempCommitResponse[m.to]
  /\ \A n \in Node :
       /\ pc[n] = "responseCommit" => dynamicChildren[n] # {}
       /\ tempCommitResponse[n] \subseteq CommitResponseEntries(n)
       /\ pc[n] \in GotCommit =>
            /\ Closed(CommitResponse(n))
            /\ \A q \in dynamicChildren[n] :
                 /\ pc[q] = "done"
                 /\ <<q, CommitResponse(q)>> \in tempCommitResponse[n]

\* How a round can fail, and what is released when it does not.
OutcomeInv ==
  /\ ChecksNeverFail
  /\ \A n \in Node : panic[n] = "refused" => pc[n] = "gotPrepare"
  /\ \A s \in signature : pc[Root] = "done" /\ s.commit = Node /\ s.response = Node

LaterInv == /\ AnnounceInv /\ CommittedInv /\ AppendInv
            /\ ChallengePrepareInv /\ ResponsePrepareInv
            /\ ChallengeCommitInv /\ ResponseCommitInv /\ OutcomeInv

\* What the round keeps from the first announcement to the signature: the
\* tree carries the second announcement and the challenges down and the
\* commitments and responses up, every list holds the current aggregates of
\* children only, and every aggregate covers a subtree.
RoundInv == /\ BFTTypeOK /\ PrepareInv
            /\ Root \notin prepared => QuietInv
            /\ Root \in prepared => LaterInv
=============================================================================
