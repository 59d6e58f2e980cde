----------------------------- MODULE NyleService -----------------------------
(***************************************************************************)
(* The Nyle service (nyle/cosi_service/service.go): what happens between a *)
(* client's BFTCoSiSimul request and its reply. The node that receives the *)
(* request runs BFTCoSi on its own rings, asks every node of its bunch to  *)
(* do the same on the rings they share, and waits on a WaitGroup for all   *)
(* of them.                                                                *)
(*                                                                         *)
(* A piece of work <<c, m>> is what node m does for call c: the own        *)
(* goroutine of BFTCoSiSimul if m received the call, otherwise             *)
(* RunCosiOnOwnTreesWithParticipant at a bunch node. One run of BFTCoSi on *)
(* a ring is a single step here: the instance calls Done (RingDone), or it *)
(* never does.                                                             *)
(***************************************************************************)
EXTENDS Integers, Sequences, FiniteSets

CONSTANTS
  Node,      \* the conodes
  Bunch,     \* Bunch[n]: the bunch CreateLocalityGraph gives n
  Rings,     \* Rings[n]: the rosters of the trees rooted at n, by index
  Call,      \* the requests clients send
  CallNode,  \* CallNode[c]: the conode that receives c
  ReqId,     \* ReqId[c]: the ReqId field of c
  None       \* no WaitGroup is registered

\* A node is not in its own bunch (CreateLocalityGraph), and the driver gives
\* the requests it sends to one conode different identifiers.
ASSUME ServiceAssumption ==
  /\ IsFiniteSet(Node)
  /\ Bunch \in [Node -> SUBSET Node] /\ \A n \in Node : n \notin Bunch[n]
  /\ Rings \in [Node -> Seq(SUBSET Node)]
  /\ CallNode \in [Call -> Node] /\ ReqId \in [Call -> Nat]
  /\ \A c, d \in Call : CallNode[c] = CallNode[d] /\ ReqId[c] = ReqId[d] => c = d
  /\ None \notin Call

VARIABLES
  ready,     \* conodes on which Setup has run
  callPC,    \* callPC[c]: how far BFTCoSiSimul has got with c
  callErr,   \* callErr[c]: the err that BFTCoSiSimul returns is not nil
  CosiWg,    \* CosiWg[n][r]: the call whose WaitGroup is registered under r
  wg,        \* wg[c]: the counter of c's WaitGroup
  toSend,    \* goroutines of sendReqToBunch that have not sent yet
  net,       \* StartBFTCosiReq and ReplyBFTCosiReq in flight
  workPC,    \* workPC[w]: how far the work w has got
  running,   \* running[w]: rings with an instance of BFTCoSi under way
  doneChan,  \* doneChan[w]: the ring numbers in the channel doneChan
  received,  \* received[w]: the ring numbers read from doneChan
  crashed    \* crashed[n]: why the process of n died, "no" if it did not

vars == <<ready, callPC, callErr, CosiWg, wg, toSend, net, workPC, running,
          doneChan, received, crashed>>

callVars == <<callPC, callErr, CosiWg, wg>>
ringVars == <<running, doneChan, received>>

Id == {ReqId[c] : c \in Call}

\* Everybody with a part in call c, and all pieces of work.
Parts(c) == {CallNode[c]} \cup Bunch[CallNode[c]]
WorkOf(c) == {<<c, m>> : m \in Parts(c)}
Work == UNION {WorkOf(c) : c \in Call}
Own(w) == w[2] = CallNode[w[1]]

Up(n) == crashed[n] = "no"
Crash(n, why) == crashed' = [crashed EXCEPT ![n] = why]

Req(w) == [type |-> "StartBFTCosiReq", work |-> w]
Reply(w) == [type |-> "ReplyBFTCosiReq", work |-> w]

Init ==
  /\ ready = {}
  /\ callPC = [c \in Call |-> "idle"]
  /\ callErr = [c \in Call |-> FALSE]
  /\ CosiWg = [n \in Node |-> [r \in Id |-> None]]
  /\ wg = [c \in Call |-> 0]
  /\ toSend = {}
  /\ net = {}
  /\ workPC = [w \in Work |-> "idle"]
  /\ running = [w \in Work |-> {}]
  /\ doneChan = [w \in Work |-> {}]
  /\ received = [w \in Work |-> {}]
  /\ crashed = [n \in Node |-> "no"]

\* InitRequest: Setup makes an empty CosiWg and the trees of the node. The
\* driver sends one InitRequest to a conode.
Setup(n) ==
  /\ n \notin ready /\ Up(n)
  /\ ready' = ready \cup {n}
  /\ CosiWg' = [CosiWg EXCEPT ![n] = [r \in Id |-> None]]
  /\ UNCHANGED <<callPC, callErr, wg, toSend, net, workPC, ringVars, crashed>>

-----------------------------------------------------------------------------
(* BFTCoSiSimul                                                            *)

\* A request is handled in a goroutine of its own. Before Setup the node does
\* not know its own name and GetByName panics, which ends the request only.
BFTCoSiSimul(c) ==
  /\ callPC[c] = "idle" /\ Up(CallNode[c])
  /\ callPC' = [callPC EXCEPT ![c] =
                  IF CallNode[c] \in ready THEN "registering" ELSE "panicked"]
  /\ UNCHANGED <<ready, callErr, CosiWg, wg, toSend, net, workPC, ringVars, crashed>>

\* Mutant: the bunch is not counted (OWN_ONLY with the requests still sent).
RegisterOwnOnly(c) ==
  LET n == CallNode[c]
  IN  /\ callPC[c] = "registering" /\ Up(n)
      /\ CosiWg' = [CosiWg EXCEPT ![n][ReqId[c]] = c]
      /\ wg' = [wg EXCEPT ![c] = 1]
      /\ callPC' = [callPC EXCEPT ![c] = "waiting"]
      /\ workPC' = [workPC EXCEPT ![<<c, n>>] = "start"]
      /\ toSend' = toSend \cup {<<c, m>> : m \in Bunch[n]}
      /\ UNCHANGED <<ready, callErr, net, ringVars, crashed>>

\* Mutant: sendReqToBunch does not leave the node itself out.
RegisterSelf(c) ==
  LET n == CallNode[c]
  IN  /\ callPC[c] = "registering" /\ Up(n)
      /\ CosiWg' = [CosiWg EXCEPT ![n][ReqId[c]] = c]
      /\ wg' = [wg EXCEPT ![c] = 1 + Cardinality(Bunch[n])]
      /\ callPC' = [callPC EXCEPT ![c] = "waiting"]
      /\ workPC' = [workPC EXCEPT ![<<c, n>>] = "start"]
      /\ toSend' = toSend \cup WorkOf(c)
      /\ UNCHANGED <<ready, callErr, net, ringVars, crashed>>

\* The WaitGroup is stored in CosiWg and counts the node itself and its
\* bunch; the own goroutine and sendReqToBunch start.
Register(c) ==
  LET n == CallNode[c]
  IN  /\ callPC[c] = "registering" /\ Up(n)
      /\ CosiWg' = [CosiWg EXCEPT ![n][ReqId[c]] = c]
      /\ wg' = [wg EXCEPT ![c] = 1 + Cardinality(Bunch[n])]
      /\ callPC' = [callPC EXCEPT ![c] = "waiting"]
      /\ workPC' = [workPC EXCEPT ![<<c, n>>] = "start"]
      /\ toSend' = toSend \cup {<<c, m>> : m \in Bunch[n]}
      /\ UNCHANGED <<ready, callErr, net, ringVars, crashed>>

\* Wait returns and the client gets its reply.
Return(c) ==
  /\ callPC[c] = "waiting" /\ Up(CallNode[c])
  /\ wg[c] = 0
  /\ callPC' = [callPC EXCEPT ![c] = "returned"]
  /\ UNCHANGED <<ready, callErr, CosiWg, wg, toSend, net, workPC, ringVars, crashed>>

\* CosiWg[r].Done() at n: no WaitGroup under r is a nil pointer, and a counter
\* below zero panics; both end the process.
WgDone(n, r) ==
  LET c == CosiWg[n][r]
  IN  IF c = None
      THEN Crash(n, "waitgroup") /\ UNCHANGED wg
      ELSE IF wg[c] = 0
      THEN Crash(n, "waitgroup") /\ UNCHANGED wg
      ELSE wg' = [wg EXCEPT ![c] = @ - 1] /\ UNCHANGED crashed

-----------------------------------------------------------------------------
(* A piece of work: runCosiOnOwnTreesWithRestriction                       *)

\* The trees m has once Setup has run, the least one that has n in its
\* ring, and the ones that run for w.
TreesOf(m) == IF m \in ready THEN DOMAIN Rings[m] ELSE {}
Shared(w) == {i \in TreesOf(w[2]) : CallNode[w[1]] \in Rings[w[2]][i]}
MinTreeIndex(w) == IF Own(w) THEN 1 ELSE CHOOSE i \in Shared(w) : \A j \in Shared(w) : i <= j
Todo(w) == {i \in TreesOf(w[2]) : i >= MinTreeIndex(w)}
Complete(w) == workPC[w] = "collect" /\ received[w] = Todo(w)

\* A goroutine of sendReqToBunch: a failing SendRaw panics.
SendReqToBunch(w) ==
  /\ w \in toSend /\ Up(CallNode[w[1]])
  /\ toSend' = toSend \ {w}
  /\ IF Up(w[2])
     THEN net' = net \cup {Req(w)} /\ UNCHANGED crashed
     ELSE Crash(CallNode[w[1]], "send") /\ UNCHANGED net
  /\ UNCHANGED <<ready, callVars, workPC, ringVars>>

\* The request starts a goroutine at the bunch node.
RecvCosiReqFromNode(w) ==
  /\ Req(w) \in net /\ Up(w[2])
  /\ net' = net \ {Req(w)}
  /\ workPC' = [workPC EXCEPT ![w] = "start"]
  /\ UNCHANGED <<ready, callVars, toSend, ringVars, crashed>>

\* A bunch node that finds the sender in none of its rings logs that and does
\* not answer. Otherwise a ring of one node is done at once, the others get a
\* goroutine each. A goroutine whose startBftCosi fails waits for ever on the
\* channel that only OnDone writes, like one whose instance never finishes.
StartCosi(w) ==
  /\ workPC[w] = "start" /\ Up(w[2])
  /\ IF ~Own(w) /\ Shared(w) = {}
     THEN workPC' = [workPC EXCEPT ![w] = "ignored"] /\ UNCHANGED ringVars
     ELSE LET single == {i \in Todo(w) : Cardinality(Rings[w[2]][i]) = 1}
          IN  /\ workPC' = [workPC EXCEPT ![w] = "collect"]
              /\ doneChan' = [doneChan EXCEPT ![w] = single]
              /\ running' = [running EXCEPT ![w] = Todo(w) \ single]
              /\ UNCHANGED received
  /\ UNCHANGED <<ready, callVars, toSend, net, crashed>>

\* The instance of BFTCoSi on ring i calls Done; its goroutine passes the ring
\* number on.
RingDone(w, i) ==
  /\ i \in running[w] /\ Up(w[2])
  /\ running' = [running EXCEPT ![w] = @ \ {i}]
  /\ doneChan' = [doneChan EXCEPT ![w] = @ \cup {i}]
  /\ UNCHANGED <<ready, callVars, toSend, net, workPC, received, crashed>>

Collect(w, i) ==
  /\ workPC[w] = "collect" /\ Up(w[2])
  /\ i \in doneChan[w]
  /\ doneChan' = [doneChan EXCEPT ![w] = @ \ {i}]
  /\ received' = [received EXCEPT ![w] = @ \cup {i}]
  /\ UNCHANGED <<ready, callVars, toSend, net, workPC, running, crashed>>

\* Ten minutes pass without a ring number. The own goroutine reports the error
\* to the client; a bunch node panics with it.
TimeOut(w) ==
  /\ workPC[w] = "collect" /\ ~Complete(w) /\ Up(w[2])
  /\ IF Own(w)
     THEN workPC' = [workPC EXCEPT ![w] = "error"] /\ UNCHANGED crashed
     ELSE Crash(w[2], "timeout") /\ UNCHANGED workPC
  /\ UNCHANGED <<ready, callVars, toSend, net, ringVars>>

\* Mutant: an error of the own trees is returned before Done is called.
OwnDoneNotOnError(w) ==
  /\ Own(w) /\ Up(w[2])
  /\ Complete(w) \/ workPC[w] = "error"
  /\ callErr' = [callErr EXCEPT ![w[1]] = workPC[w] = "error"]
  /\ workPC' = [workPC EXCEPT ![w] = "answered"]
  /\ IF workPC[w] = "error" THEN UNCHANGED <<wg, crashed>>
                             ELSE WgDone(w[2], ReqId[w[1]])
  /\ UNCHANGED <<ready, callPC, CosiWg, toSend, net, ringVars>>

\* RunCosiOnOwnTrees returns to the own goroutine, with an error or without,
\* which counts itself out.
OwnDone(w) ==
  /\ Own(w) /\ Up(w[2])
  /\ Complete(w) \/ workPC[w] = "error"
  /\ callErr' = [callErr EXCEPT ![w[1]] = workPC[w] = "error"]
  /\ workPC' = [workPC EXCEPT ![w] = "answered"]
  /\ WgDone(w[2], ReqId[w[1]])
  /\ UNCHANGED <<ready, callPC, CosiWg, toSend, net, ringVars>>

\* A bunch node is through with its rings and tells the sender; a failing
\* SendRaw panics.
SendReply(w) ==
  /\ ~Own(w) /\ Complete(w) /\ Up(w[2])
  /\ workPC' = [workPC EXCEPT ![w] = "answered"]
  /\ IF Up(CallNode[w[1]])
     THEN net' = net \cup {Reply(w)} /\ UNCHANGED crashed
     ELSE Crash(w[2], "send") /\ UNCHANGED net
  /\ UNCHANGED <<ready, callVars, toSend, ringVars>>

RecvProtoRespFromBunchNode(w) ==
  /\ Reply(w) \in net /\ Up(CallNode[w[1]])
  /\ net' = net \ {Reply(w)}
  /\ WgDone(CallNode[w[1]], ReqId[w[1]])
  /\ UNCHANGED <<ready, callPC, callErr, CosiWg, toSend, workPC, ringVars>>

\* CosiWg is a map that no lock protects. While one call stores its WaitGroup
\* another goroutine of the same node may access the map: another call that
\* registers, one whose own goroutine is about to call Done, or the handler
\* of a reply. The Go runtime may end the process when that happens.
AccessesMap(d) ==
  \/ callPC[d] = "registering"
  \/ \E w \in WorkOf(d) :
       \/ Own(w) /\ (Complete(w) \/ workPC[w] = "error")
       \/ Reply(w) \in net

ConcurrentMapAccess(n) ==
  /\ Up(n)
  /\ \E c, d \in Call :
       /\ c # d /\ CallNode[c] = n /\ CallNode[d] = n
       /\ callPC[c] = "registering" /\ AccessesMap(d)
  /\ Crash(n, "map")
  /\ UNCHANGED <<ready, callVars, toSend, net, workPC, ringVars>>

-----------------------------------------------------------------------------
CallStep(c) == Register(c) \/ Return(c)

WorkStep(w) ==
  \/ SendReqToBunch(w)
  \/ RecvCosiReqFromNode(w)
  \/ StartCosi(w)
  \/ \E i \in doneChan[w] : Collect(w, i)
  \/ TimeOut(w)
  \/ OwnDone(w)
  \/ SendReply(w)
  \/ RecvProtoRespFromBunchNode(w)

Next ==
  \/ \E n \in Node : Setup(n) \/ ConcurrentMapAccess(n)
  \/ \E c \in Call : BFTCoSiSimul(c) \/ CallStep(c)
  \/ \E w \in Work : WorkStep(w) \/ \E i \in running[w] : RingDone(w, i)

Spec == Init /\ [][Next]_vars

\* Goroutines run and timers expire; an instance of BFTCoSi may never finish.
FairSpec ==
  /\ Spec
  /\ \A c \in Call : WF_vars(CallStep(c))
  /\ \A w \in Work : WF_vars(WorkStep(w))
-----------------------------------------------------------------------------
(* Properties                                                              *)

BunchWork == {w \in Work : ~Own(w)}

\* Type invariant of the service's state. Requests and replies travel only
\* between a node and its bunch.
ServiceTypeOK ==
  /\ ready \subseteq Node
  /\ callPC \in [Call -> {"idle", "panicked", "registering", "waiting", "returned"}]
  /\ callErr \in [Call -> BOOLEAN]
  /\ CosiWg \in [Node -> [Id -> Call \cup {None}]]
  /\ wg \in [Call -> Nat]
  /\ toSend \subseteq BunchWork
  /\ net \subseteq {Req(w) : w \in BunchWork} \cup {Reply(w) : w \in BunchWork}
  /\ workPC \in [Work -> {"idle", "start", "ignored", "collect", "error", "answered"}]
  /\ \A f \in {running, doneChan, received} : f \in [Work -> SUBSET Nat]
  /\ crashed \in [Node -> {"no", "timeout", "send", "map", "waitgroup"}]

\* The client's reply without an error means that every ring it is about has
\* been through BFTCoSi: all rings of the node, and at each bunch node all
\* rings from the smallest one they share. It holds although processes die,
\* timers fire and several calls are under way at one node.
SuccessMeansAllRings ==
  \A c \in Call :
    callPC[c] = "returned" /\ ~callErr[c] =>
      \A w \in WorkOf(c) : received[w] = Todo(w) /\ w[2] \in ready

\* Call c has a WaitGroup.
Registered(c) == callPC[c] \in {"waiting", "returned"}

\* The nodes whose work for c has not been counted out of c's WaitGroup.
Outstanding(c) ==
  {m \in Parts(c) : workPC[<<c, m>>] # "answered" \/ Reply(<<c, m>>) \in net}

\* While a call waits, its WaitGroup counts exactly the work still to be
\* reported: a reply is never counted twice, for another call, or left out.
WaitGroupCounts ==
  \A c \in Call :
    Registered(c) /\ Up(CallNode[c]) =>
      wg[c] = Cardinality(Outstanding(c))

\* No reply finds its WaitGroup missing or at zero: Done never panics.
DoneNeverPanics == \A n \in Node : crashed[n] # "waitgroup"

\* A WaitGroup is found under the identifier of its call, and no work is done
\* for a call that has none.
RegistrationInv ==
  \A c \in Call :
    /\ callPC[c] \in {"registering", "waiting", "returned"} => CallNode[c] \in ready
    /\ Registered(c) => CosiWg[CallNode[c]][ReqId[c]] = c
    /\ ~Registered(c) =>
         \A w \in WorkOf(c) :
           workPC[w] = "idle" /\ w \notin toSend /\ Req(w) \notin net /\ Reply(w) \notin net

\* A request or a reply is in one place at a time, and what was collected or
\* answered was complete or, at the node itself, ended with an error.
WorkInv ==
  \A w \in Work :
    /\ w \in toSend => workPC[w] = "idle" /\ Req(w) \notin net
    /\ Req(w) \in net => workPC[w] = "idle"
    /\ Reply(w) \in net => workPC[w] = "answered"
    /\ workPC[w] = "collect" => w[2] \in ready
    /\ workPC[w] = "answered" =>
         /\ w[2] \in ready
         /\ received[w] = Todo(w) \/ (Own(w) /\ callErr[w[1]])

ReturnInv ==
  \A c \in Call :
    callPC[c] = "returned" => \A w \in WorkOf(c) : workPC[w] = "answered"

\* The inductive invariant of the service: registered wait groups, requests
\* and replies in one place, counters that agree with what is outstanding.
ServiceInv ==
  /\ ServiceTypeOK
  /\ RegistrationInv
  /\ WorkInv
  /\ ReturnInv
  /\ WaitGroupCounts
  /\ DoneNeverPanics

\* A call that has started returns, unless a process it depends on dies or a
\* bunch node does not know the sender: the timers cover rings that never
\* finish, and nothing else can keep the client waiting.
EveryCallEnds ==
  \A c \in Call :
    callPC[c] \in {"registering", "waiting"} ~>
      \/ callPC[c] = "returned"
      \/ \E w \in WorkOf(c) : ~Up(w[2]) \/ workPC[w] = "ignored"
=============================================================================
