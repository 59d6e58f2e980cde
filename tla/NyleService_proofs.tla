-------------------------- MODULE NyleService_proofs --------------------------
(***************************************************************************)
(* Proofs about NyleService for any conodes, bunches, rings and requests.  *)
(* ServiceInv is inductive: one lemma per action, one step per conjunct.   *)
(* The counting argument is in OutstandingShrinks and DoneCounts: whoever  *)
(* calls Done is still outstanding, so the counter is positive and goes    *)
(* down together with the set it counts.                                   *)
(***************************************************************************)
EXTENDS NyleService, FiniteSetTheorems, TLAPS

\* A piece of work is a pair of a call and a node with a part in it.
LEMMA WorkFacts ==
  /\ \A c \in Call : CallNode[c] \in Node /\ Parts(c) \subseteq Node
                     /\ CallNode[c] \in Parts(c)
  /\ \A c \in Call : \A m \in Parts(c) : <<c, m>> \in Work /\ <<c, m>> \in WorkOf(c)
  /\ \A w \in Work : /\ w[1] \in Call /\ w[2] \in Parts(w[1]) /\ w[2] \in Node
                     /\ w = <<w[1], w[2]>> /\ w \in WorkOf(w[1])
  /\ \A c \in Call : \A w \in WorkOf(c) : w \in Work /\ w[1] = c
  BY ServiceAssumption DEF Work, WorkOf, Parts

\* Requests and replies identify the work they are about.
LEMMA MessageFacts ==
  \A v, w : /\ Req(v) # Reply(w)
            /\ Req(v) = Req(w) <=> v = w
            /\ Reply(v) = Reply(w) <=> v = w
  BY DEF Req, Reply

\* The set a WaitGroup counts is finite.
LEMMA OutstandingFinite ==
  ASSUME NEW c \in Call
  PROVE  /\ IsFiniteSet(Outstanding(c)) /\ Cardinality(Outstanding(c)) \in Nat
         /\ IsFiniteSet(Parts(c))
         /\ Cardinality(Parts(c)) = 1 + Cardinality(Bunch[CallNode[c]])
<1>1. CallNode[c] \in Node /\ Bunch[CallNode[c]] \subseteq Node
      /\ CallNode[c] \notin Bunch[CallNode[c]]
  BY ServiceAssumption
<1>2. IsFiniteSet(Bunch[CallNode[c]])
  BY <1>1, ServiceAssumption, FS_Subset
<1>3. /\ IsFiniteSet(Parts(c))
      /\ Cardinality(Parts(c)) = Cardinality(Bunch[CallNode[c]]) + 1
  <2>1. Parts(c) = Bunch[CallNode[c]] \cup {CallNode[c]}
    BY DEF Parts
  <2>2. \A B, n : IsFiniteSet(B) /\ n \notin B =>
          IsFiniteSet(B \cup {n}) /\ Cardinality(B \cup {n}) = Cardinality(B) + 1
    BY FS_AddElement
  <2> QED BY <2>1, <2>2, <1>1, <1>2
<1>4. Cardinality(Bunch[CallNode[c]]) \in Nat
  BY <1>2, FS_CardinalityType
<1>5. Outstanding(c) \subseteq Parts(c)
  BY DEF Outstanding
<1>6. IsFiniteSet(Outstanding(c))
  BY <1>3, <1>5, FS_Subset
<1> QED BY <1>3, <1>4, <1>6, FS_CardinalityType

\* A set that loses a member counts one less, and was not empty.
LEMMA OutstandingShrinks ==
  ASSUME NEW S, IsFiniteSet(S), NEW m \in S
  PROVE  /\ Cardinality(S) \in Nat \ {0}
         /\ Cardinality(S \ {m}) = Cardinality(S) - 1
<1>1. /\ IsFiniteSet(S \ {m})
      /\ Cardinality(S \ {m}) = Cardinality(S) - 1
  BY FS_RemoveElement
<1>2. Cardinality(S) \in Nat /\ Cardinality(S \ {m}) \in Nat
  BY <1>1, FS_CardinalityType
<1> QED BY <1>1, <1>2

\* The rings a piece of work is about do not change once Setup has run.
LEMMA TodoStable ==
  ASSUME ready \subseteq ready', NEW w, w[2] \in ready
  PROVE  Todo(w)' = Todo(w)
<1>1. TreesOf(w[2])' = TreesOf(w[2])
  BY DEF TreesOf
<1>2. Shared(w)' = Shared(w)
  BY <1>1 DEF Shared
<1>3. MinTreeIndex(w)' = MinTreeIndex(w)
  BY <1>2 DEF MinTreeIndex, Own
<1> QED BY <1>1, <1>3 DEF Todo

\* Done called for a piece of work that is outstanding finds its WaitGroup,
\* with a positive counter.
LEMMA DoneCounts ==
  ASSUME ServiceInv, NEW w \in Work, Registered(w[1]), Up(CallNode[w[1]]),
         w[2] \in Outstanding(w[1]), WgDone(CallNode[w[1]], ReqId[w[1]])
  PROVE  /\ crashed' = crashed
         /\ wg' = [wg EXCEPT ![w[1]] = @ - 1]
         /\ wg[w[1]] = Cardinality(Outstanding(w[1]))
         /\ wg[w[1]] \in Nat \ {0}
<1>1. w[1] \in Call
  BY WorkFacts
<1>2. CosiWg[CallNode[w[1]]][ReqId[w[1]]] = w[1] /\ w[1] # None
  BY <1>1, ServiceAssumption DEF ServiceInv, RegistrationInv
<1>3. wg[w[1]] = Cardinality(Outstanding(w[1]))
  BY <1>1 DEF ServiceInv, WaitGroupCounts
<1>4. wg[w[1]] \in Nat \ {0}
  BY <1>1, <1>3, OutstandingFinite, OutstandingShrinks
<1> QED BY <1>2, <1>3, <1>4 DEF WgDone

-----------------------------------------------------------------------------
LEMMA InitInv == Init => ServiceInv
<1> SUFFICES ASSUME Init PROVE ServiceInv
  OBVIOUS
<1> USE DEF Init
<1>1. ServiceTypeOK
  <2>1. CosiWg \in [Node -> [Id -> Call \cup {None}]]
    OBVIOUS
  <2> QED BY <2>1 DEF ServiceTypeOK
<1>2. RegistrationInv
  BY WorkFacts DEF RegistrationInv, Registered
<1>3. WorkInv
  BY DEF WorkInv
<1>4. ReturnInv
  BY DEF ReturnInv
<1>5. WaitGroupCounts
  BY DEF WaitGroupCounts, Registered
<1>6. DoneNeverPanics
  BY DEF DoneNeverPanics
<1> QED BY <1>1, <1>2, <1>3, <1>4, <1>5, <1>6 DEF ServiceInv

-----------------------------------------------------------------------------
(* Steps that leave the work alone: Setup and BFTCoSiSimul up to its Wait  *)

LEMMA SetupInv ==
  ASSUME ServiceInv, NEW n \in Node, Setup(n)
  PROVE  ServiceInv'
<1> USE DEF ServiceInv, Setup, ringVars
<1>1. ServiceTypeOK'
  <2>1. CosiWg' \in [Node -> [Id -> Call \cup {None}]]
    BY DEF ServiceTypeOK
  <2> QED BY <2>1 DEF ServiceTypeOK
<1>2. RegistrationInv'
  <2>1. \A c \in Call : Registered(c)' => Registered(c) /\ CallNode[c] # n
    BY DEF Registered, RegistrationInv
  <2> QED BY <2>1, WorkFacts DEF RegistrationInv, Registered, ServiceTypeOK
<1>3. WorkInv'
  <2> SUFFICES ASSUME NEW w \in Work PROVE WorkInv!(w)'
    BY DEF WorkInv
  <2>1. w[2] \in ready => Todo(w)' = Todo(w)
    BY TodoStable
  <2> QED BY <2>1 DEF WorkInv, Own
<1>4. ReturnInv'
  BY DEF ReturnInv
<1>5. WaitGroupCounts'
  <2>1. \A c \in Call : Outstanding(c)' = Outstanding(c)
    BY DEF Outstanding
  <2> QED BY <2>1 DEF WaitGroupCounts, Registered, Up
<1>6. DoneNeverPanics'
  BY DEF DoneNeverPanics
<1> QED BY <1>1, <1>2, <1>3, <1>4, <1>5, <1>6

LEMMA BFTCoSiSimulInv ==
  ASSUME ServiceInv, NEW c \in Call, BFTCoSiSimul(c)
  PROVE  ServiceInv'
<1> USE DEF ServiceInv, BFTCoSiSimul, ringVars
<1>1. ServiceTypeOK'
  BY DEF ServiceTypeOK
<1>2. \A d \in Call : Registered(d)' <=> Registered(d)
  BY DEF Registered, ServiceTypeOK
<1>3. RegistrationInv'
  BY <1>2, WorkFacts DEF RegistrationInv, ServiceTypeOK
<1>4. WorkInv'
  BY TodoStable DEF WorkInv, Own
<1>5. ReturnInv'
  BY DEF ReturnInv, ServiceTypeOK
<1>6. WaitGroupCounts'
  <2>1. \A d \in Call : Outstanding(d)' = Outstanding(d)
    BY DEF Outstanding
  <2> QED BY <1>2, <2>1 DEF WaitGroupCounts, Up
<1>7. DoneNeverPanics'
  BY DEF DoneNeverPanics
<1> QED BY <1>1, <1>3, <1>4, <1>5, <1>6, <1>7

LEMMA RegisterInv ==
  ASSUME ServiceInv, NEW c \in Call, Register(c)
  PROVE  ServiceInv'
<1> USE DEF ServiceInv, ringVars
<1> DEFINE n == CallNode[c]
<1>0. /\ n \in Node /\ ReqId[c] \in Id /\ <<c, n>> \in Work
      /\ n \in Parts(c) /\ Bunch[n] \subseteq Parts(c)
      /\ Cardinality(Bunch[n]) \in Nat
  <2>1. IsFiniteSet(Bunch[n]) /\ n \in Node
    BY ServiceAssumption, FS_Subset
  <2> QED BY <2>1, WorkFacts, FS_CardinalityType DEF Id, Parts
<1>1. /\ callPC[c] = "registering" /\ Up(n)
      /\ CosiWg' = [CosiWg EXCEPT ![n][ReqId[c]] = c]
      /\ wg' = [wg EXCEPT ![c] = 1 + Cardinality(Bunch[n])]
      /\ callPC' = [callPC EXCEPT ![c] = "waiting"]
      /\ workPC' = [workPC EXCEPT ![<<c, n>>] = "start"]
      /\ toSend' = toSend \cup {<<c, m>> : m \in Bunch[n]}
      /\ UNCHANGED <<ready, callErr, net, running, doneChan, received, crashed>>
  BY DEF Register
<1> HIDE DEF n
<1>2. \A m \in Bunch[n] : <<c, m>> \in BunchWork
  BY <1>0, WorkFacts, ServiceAssumption DEF BunchWork, Own, n
<1>3. ServiceTypeOK'
  BY <1>0, <1>1, <1>2 DEF ServiceTypeOK
<1>4. \A w \in WorkOf(c) :
        workPC[w] = "idle" /\ w \notin toSend /\ Req(w) \notin net /\ Reply(w) \notin net
  BY <1>1 DEF RegistrationInv, Registered
<1>5. \A d \in Call : /\ Registered(d)' <=> Registered(d) \/ d = c
                      /\ d # c => \A w \in WorkOf(d) :
                                   workPC'[w] = workPC[w] /\ (w \in toSend' <=> w \in toSend)
  BY <1>0, <1>1, WorkFacts DEF Registered, ServiceTypeOK
<1>6. RegistrationInv'
  <2> SUFFICES ASSUME NEW d \in Call PROVE RegistrationInv!(d)'
    BY DEF RegistrationInv
  <2>1. callPC'[d] \in {"registering", "waiting", "returned"} => CallNode[d] \in ready'
    BY <1>1 DEF RegistrationInv, ServiceTypeOK, n
  <2>2. Registered(d)' => CosiWg'[CallNode[d]][ReqId[d]] = d
    <3>1. CASE d = c
      BY <3>1, <1>0, <1>1 DEF ServiceTypeOK, n
    <3>2. CASE d # c
      <4>1. CallNode[d] # n \/ ReqId[d] # ReqId[c]
        BY <3>2, ServiceAssumption DEF n
      <4>2. CallNode[d] \in Node /\ ReqId[d] \in Id
        BY WorkFacts DEF Id
      <4>3. CosiWg'[CallNode[d]][ReqId[d]] = CosiWg[CallNode[d]][ReqId[d]]
        BY <4>1, <4>2, <1>0, <1>1 DEF ServiceTypeOK
      <4> QED BY <4>3, <3>2, <1>5 DEF RegistrationInv
    <3> QED BY <3>1, <3>2
  <2>3. ~Registered(d)' =>
          \A w \in WorkOf(d) : workPC'[w] = "idle" /\ w \notin toSend'
                              /\ Req(w) \notin net' /\ Reply(w) \notin net'
    BY <1>1, <1>5 DEF RegistrationInv
  <2> QED BY <2>1, <2>2, <2>3
<1>7. WorkInv'
  <2> SUFFICES ASSUME NEW w \in Work PROVE WorkInv!(w)'
    BY DEF WorkInv
  <2>1. Todo(w)' = Todo(w)
    BY <1>1 DEF Todo, MinTreeIndex, Shared, TreesOf, Own
  <2>2. CASE w[1] = c
    <3>1. w \in WorkOf(c)
      BY <2>2, WorkFacts
    <3>2. workPC[w] = "idle" /\ w \notin toSend /\ Req(w) \notin net /\ Reply(w) \notin net
      BY <3>1, <1>4
    <3>3. workPC'[w] \in {"idle", "start"} /\ (w \in toSend' => workPC'[w] = "idle")
      <4>1. \A m \in Bunch[n] : <<c, m>> # <<c, n>>
        BY ServiceAssumption, <1>0
      <4> QED BY <3>2, <1>0, <1>1, <4>1 DEF ServiceTypeOK
    <3> QED BY <3>2, <3>3, <1>1
  <2>3. CASE w[1] # c
    BY <2>1, <2>3, <1>1, <1>5, WorkFacts DEF WorkInv, Own
  <2> QED BY <2>2, <2>3
<1>8. ReturnInv'
  BY <1>1, <1>5 DEF ReturnInv, ServiceTypeOK
<1>9. WaitGroupCounts'
  <2> SUFFICES ASSUME NEW d \in Call, Registered(d)', Up(CallNode[d])'
               PROVE  wg'[d] = Cardinality(Outstanding(d))'
    BY DEF WaitGroupCounts
  <2>1. CASE d = c
    <3>1. \A m \in Parts(c) : workPC'[<<c, m>>] # "answered"
      BY <1>0, <1>1, <1>4, WorkFacts DEF ServiceTypeOK
    <3>2. Outstanding(c)' = Parts(c)
      BY <3>1 DEF Outstanding
    <3> QED BY <2>1, <3>2, <1>0, <1>1, OutstandingFinite DEF ServiceTypeOK, n
  <2>2. CASE d # c
    <3>1. Outstanding(d)' = Outstanding(d)
      BY <2>2, <1>1, <1>5, WorkFacts DEF Outstanding
    <3> QED BY <2>2, <3>1, <1>1, <1>5 DEF WaitGroupCounts, Up, ServiceTypeOK
  <2> QED BY <2>1, <2>2
<1>10. DoneNeverPanics'
  BY <1>1 DEF DoneNeverPanics
<1> QED BY <1>3, <1>6, <1>7, <1>8, <1>9, <1>10

LEMMA ReturnStepInv ==
  ASSUME ServiceInv, NEW c \in Call, Return(c)
  PROVE  ServiceInv'
<1> USE DEF ServiceInv, Return, ringVars
<1>1. ServiceTypeOK'
  BY DEF ServiceTypeOK
<1>2. \A d \in Call : Registered(d)' <=> Registered(d)
  BY DEF Registered, ServiceTypeOK
<1>3. RegistrationInv'
  BY <1>2, WorkFacts DEF RegistrationInv, ServiceTypeOK
<1>4. WorkInv'
  BY TodoStable DEF WorkInv, Own
<1>5. ReturnInv'
  <2>1. Cardinality(Outstanding(c)) = 0
    BY DEF WaitGroupCounts, Registered
  <2>2. Outstanding(c) = {}
    BY <2>1, OutstandingFinite, FS_EmptySet
  <2>3. \A w \in WorkOf(c) : workPC[w] = "answered"
    BY <2>2 DEF Outstanding, WorkOf
  <2> QED BY <2>3 DEF ReturnInv, ServiceTypeOK
<1>6. WaitGroupCounts'
  <2>1. \A d \in Call : Outstanding(d)' = Outstanding(d)
    BY DEF Outstanding
  <2> QED BY <1>2, <2>1 DEF WaitGroupCounts, Up
<1>7. DoneNeverPanics'
  BY DEF DoneNeverPanics
<1> QED BY <1>1, <1>3, <1>4, <1>5, <1>6, <1>7

-----------------------------------------------------------------------------
(* The steps of a piece of work                                            *)

\* The work of a bunch node that is under way belongs to a registered call.
LEMMA WorkIsRegistered ==
  ASSUME ServiceInv, NEW w \in Work,
         workPC[w] # "idle" \/ w \in toSend \/ Req(w) \in net \/ Reply(w) \in net
  PROVE  Registered(w[1]) /\ CallNode[w[1]] \in ready
  BY WorkFacts DEF ServiceInv, RegistrationInv, Registered

LEMMA SendReqToBunchInv ==
  ASSUME ServiceInv, NEW w \in Work, SendReqToBunch(w)
  PROVE  ServiceInv'
<1> USE DEF ServiceInv, SendReqToBunch, callVars, ringVars, Crash
<1>1. Registered(w[1]) /\ CallNode[w[1]] \in Node
  BY WorkIsRegistered, WorkFacts
<1>2. net' = net \/ net' = net \cup {Req(w)}
  OBVIOUS
<1>3. ServiceTypeOK'
  BY <1>1 DEF ServiceTypeOK
<1>4. RegistrationInv'
  BY <1>1, <1>2, WorkFacts, MessageFacts DEF RegistrationInv, Registered
<1>5. WorkInv'
  <2>1. \A v \in Work : Todo(v)' = Todo(v)
    BY DEF Todo, MinTreeIndex, Shared, TreesOf, Own
  <2> QED BY <1>2, <2>1, MessageFacts DEF WorkInv, Own
<1>6. ReturnInv'
  BY DEF ReturnInv
<1>7. WaitGroupCounts'
  <2>1. \A d \in Call : Outstanding(d)' = Outstanding(d)
    BY <1>2, MessageFacts DEF Outstanding
  <2>2. \A n \in Node : Up(n)' => Up(n)
    BY <1>1 DEF Up, ServiceTypeOK
  <2> QED BY <2>1, <2>2, WorkFacts DEF WaitGroupCounts, Registered
<1>8. DoneNeverPanics'
  BY <1>1 DEF DoneNeverPanics, ServiceTypeOK
<1> QED BY <1>3, <1>4, <1>5, <1>6, <1>7, <1>8

LEMMA RecvCosiReqFromNodeInv ==
  ASSUME ServiceInv, NEW w \in Work, RecvCosiReqFromNode(w)
  PROVE  ServiceInv'
<1> USE DEF ServiceInv, RecvCosiReqFromNode, callVars, ringVars
<1>1. Registered(w[1]) /\ workPC[w] = "idle"
  BY WorkIsRegistered DEF WorkInv
<1>2. \A v \in Work : v # w => workPC'[v] = workPC[v]
  BY DEF ServiceTypeOK
<1>3. workPC'[w] = "start"
  BY DEF ServiceTypeOK
<1>4. ServiceTypeOK'
  BY DEF ServiceTypeOK
<1>5. RegistrationInv'
  BY <1>1, <1>2, WorkFacts DEF RegistrationInv, Registered
<1>6. WorkInv'
  <2>1. \A v \in Work : Todo(v)' = Todo(v)
    BY DEF Todo, MinTreeIndex, Shared, TreesOf, Own
  <2> QED BY <1>1, <1>2, <1>3, <2>1, MessageFacts DEF WorkInv, Own
<1>7. ReturnInv'
  BY <1>1, <1>2, <1>3, WorkFacts DEF ReturnInv
<1>8. WaitGroupCounts'
  <2>1. \A d \in Call : Outstanding(d)' = Outstanding(d)
    BY <1>1, <1>2, <1>3, WorkFacts, MessageFacts DEF Outstanding
  <2> QED BY <2>1 DEF WaitGroupCounts, Registered, Up
<1>9. DoneNeverPanics'
  BY DEF DoneNeverPanics
<1> QED BY <1>4, <1>5, <1>6, <1>7, <1>8, <1>9

LEMMA StartCosiInv ==
  ASSUME ServiceInv, NEW w \in Work, StartCosi(w)
  PROVE  ServiceInv'
<1> USE DEF ServiceInv, callVars, ringVars
<1>1. Registered(w[1]) /\ workPC[w] = "start" /\ CallNode[w[1]] \in ready
  BY WorkIsRegistered DEF StartCosi
<1>2. /\ UNCHANGED <<ready, callPC, callErr, CosiWg, wg, toSend, net, received, crashed>>
      /\ workPC' \in {[workPC EXCEPT ![w] = "ignored"], [workPC EXCEPT ![w] = "collect"]}
      /\ workPC' = [workPC EXCEPT ![w] = "collect"] => Own(w) \/ Shared(w) # {}
      /\ Todo(w) \subseteq Nat => running' \in [Work -> SUBSET Nat] /\ doneChan' \in [Work -> SUBSET Nat]
  <2>1. Todo(w) \subseteq Nat =>
          running' \in [Work -> SUBSET Nat] /\ doneChan' \in [Work -> SUBSET Nat]
    BY DEF StartCosi, ServiceTypeOK
  <2>2. [workPC EXCEPT ![w] = "ignored"] # [workPC EXCEPT ![w] = "collect"]
    BY DEF ServiceTypeOK
  <2> QED BY <2>1, <2>2 DEF StartCosi
<1>3. Todo(w) \subseteq Nat
  <2>1. w[2] \in Node
    BY WorkFacts
  <2>2. Rings[w[2]] \in Seq(SUBSET Node)
    BY <2>1, ServiceAssumption
  <2>3. DOMAIN Rings[w[2]] \subseteq Nat
    BY <2>2
  <2> QED BY <2>3 DEF Todo, TreesOf
<1>4. \A v \in Work : v # w => workPC'[v] = workPC[v]
  BY <1>2 DEF ServiceTypeOK
<1>5. workPC'[w] \in {"ignored", "collect"}
  BY <1>2 DEF ServiceTypeOK
<1>6. ServiceTypeOK'
  BY <1>2, <1>3 DEF ServiceTypeOK
<1>7. RegistrationInv'
  BY <1>1, <1>2, <1>4, WorkFacts DEF RegistrationInv, Registered
<1>8. WorkInv'
  <2>1. \A v \in Work : Todo(v)' = Todo(v)
    BY <1>2 DEF Todo, MinTreeIndex, Shared, TreesOf, Own
  <2>2. workPC'[w] = "collect" => w[2] \in ready
    <3>1. workPC'[w] = "collect" => Own(w) \/ Shared(w) # {}
      BY <1>2 DEF ServiceTypeOK
    <3> QED BY <3>1, <1>1 DEF Own, Shared, TreesOf
  <2> QED BY <1>1, <1>2, <1>4, <1>5, <2>1, <2>2 DEF WorkInv, Own
<1>9. ReturnInv'
  BY <1>1, <1>2, <1>4, WorkFacts DEF ReturnInv
<1>10. WaitGroupCounts'
  <2>1. \A d \in Call : Outstanding(d)' = Outstanding(d)
    BY <1>1, <1>2, <1>4, <1>5, WorkFacts DEF Outstanding
  <2> QED BY <2>1, <1>2 DEF WaitGroupCounts, Registered, Up
<1>11. DoneNeverPanics'
  BY <1>2 DEF DoneNeverPanics
<1> QED BY <1>6, <1>7, <1>8, <1>9, <1>10, <1>11

\* RingDone and Collect move a ring number, which only answered work refers to.
LEMMA RingStepInv ==
  ASSUME ServiceInv, NEW w \in Work, NEW i,
         RingDone(w, i) \/ Collect(w, i)
  PROVE  ServiceInv'
<1> USE DEF ServiceInv, RingDone, Collect, callVars
<1>1. /\ UNCHANGED <<ready, callPC, callErr, CosiWg, wg, toSend, net, workPC, crashed>>
      /\ \A v \in Work : workPC[v] = "answered" => received'[v] = received[v]
  BY DEF ServiceTypeOK
<1>2. ServiceTypeOK'
  <2>1. i \in Nat
    BY DEF ServiceTypeOK
  <2>2. CASE RingDone(w, i)
    BY <2>1, <2>2 DEF ServiceTypeOK
  <2>3. CASE Collect(w, i)
    BY <2>1, <2>3 DEF ServiceTypeOK
  <2> QED BY <2>2, <2>3
<1> HIDE DEF RingDone, Collect
<1>3. RegistrationInv'
  BY <1>1 DEF RegistrationInv, Registered
<1>4. WorkInv'
  <2>1. \A v \in Work : Todo(v)' = Todo(v)
    BY <1>1 DEF Todo, MinTreeIndex, Shared, TreesOf, Own
  <2> QED BY <1>1, <2>1 DEF WorkInv, Own
<1>5. ReturnInv'
  BY <1>1 DEF ReturnInv
<1>6. WaitGroupCounts'
  <2>1. \A d \in Call : Outstanding(d)' = Outstanding(d)
    BY <1>1 DEF Outstanding
  <2> QED BY <2>1, <1>1 DEF WaitGroupCounts, Registered, Up
<1>7. DoneNeverPanics'
  BY <1>1 DEF DoneNeverPanics
<1> QED BY <1>2, <1>3, <1>4, <1>5, <1>6, <1>7

LEMMA TimeOutInv ==
  ASSUME ServiceInv, NEW w \in Work, TimeOut(w)
  PROVE  ServiceInv'
<1> USE DEF ServiceInv, TimeOut, callVars, ringVars, Crash
<1>1. Registered(w[1]) /\ workPC[w] = "collect" /\ w[2] \in Node
  BY WorkIsRegistered, WorkFacts
<1>2. \A v \in Work : \/ workPC'[v] = workPC[v]
                      \/ v = w /\ workPC'[v] = "error"
  BY DEF ServiceTypeOK
<1>3. ServiceTypeOK'
  BY <1>1 DEF ServiceTypeOK
<1>4. RegistrationInv'
  BY <1>1, <1>2, WorkFacts DEF RegistrationInv, Registered
<1>5. WorkInv'
  <2>1. \A v \in Work : Todo(v)' = Todo(v)
    BY DEF Todo, MinTreeIndex, Shared, TreesOf, Own
  <2> QED BY <1>1, <1>2, <2>1 DEF WorkInv, Own
<1>6. ReturnInv'
  BY <1>1, <1>2, WorkFacts DEF ReturnInv
<1>7. WaitGroupCounts'
  <2>1. \A d \in Call : Outstanding(d)' = Outstanding(d)
    BY <1>1, <1>2, WorkFacts DEF Outstanding
  <2>2. \A n \in Node : Up(n)' => Up(n)
    BY <1>1 DEF Up, ServiceTypeOK
  <2> QED BY <2>1, <2>2, WorkFacts DEF WaitGroupCounts, Registered
<1>8. DoneNeverPanics'
  BY <1>1 DEF DoneNeverPanics, ServiceTypeOK
<1> QED BY <1>3, <1>4, <1>5, <1>6, <1>7, <1>8

LEMMA OwnDoneInv ==
  ASSUME ServiceInv, NEW w \in Work, OwnDone(w)
  PROVE  ServiceInv'
<1> USE DEF ServiceInv, ringVars
<1>1. /\ Own(w) /\ Up(w[2]) /\ workPC[w] \in {"collect", "error"}
      /\ workPC[w] = "collect" => received[w] = Todo(w)
      /\ callErr' = [callErr EXCEPT ![w[1]] = workPC[w] = "error"]
      /\ workPC' = [workPC EXCEPT ![w] = "answered"]
      /\ WgDone(CallNode[w[1]], ReqId[w[1]])
      /\ UNCHANGED <<ready, callPC, CosiWg, toSend, net, running, doneChan, received>>
  BY DEF OwnDone, Complete, Own
<1>2. Registered(w[1]) /\ CallNode[w[1]] \in ready /\ w[1] \in Call
      /\ w[2] = CallNode[w[1]] /\ w = <<w[1], w[2]>> /\ w[2] \in Parts(w[1])
  BY <1>1, WorkIsRegistered, WorkFacts DEF Own
<1>3. Reply(w) \notin net
  BY <1>1 DEF WorkInv
<1>4. w[2] \in Outstanding(w[1])
  BY <1>1, <1>2 DEF Outstanding
<1>5. /\ crashed' = crashed
      /\ wg' = [wg EXCEPT ![w[1]] = @ - 1]
      /\ wg[w[1]] = Cardinality(Outstanding(w[1]))
      /\ wg[w[1]] \in Nat \ {0}
  BY <1>1, <1>2, <1>4, DoneCounts DEF Own
<1>6. \A v \in Work : v # w => workPC'[v] = workPC[v]
  BY <1>1 DEF ServiceTypeOK
<1>7. workPC'[w] = "answered"
  BY <1>1 DEF ServiceTypeOK
<1>8. ServiceTypeOK'
  <2>1. wg' \in [Call -> Nat]
    <3>1. wg[w[1]] - 1 \in Nat
      BY <1>5
    <3>2. wg \in [Call -> Nat]
      BY DEF ServiceTypeOK
    <3> HIDE DEF ServiceInv
    <3> QED BY <3>1, <3>2, <1>2, <1>5
  <2>2. callErr' \in [Call -> BOOLEAN]
    <3>1. (workPC[w] = "error") \in BOOLEAN
      OBVIOUS
    <3>2. callErr \in [Call -> BOOLEAN]
      BY DEF ServiceTypeOK
    <3>3. callErr' = [callErr EXCEPT ![w[1]] = workPC[w] = "error"]
      BY <1>1
    <3> HIDE DEF ServiceInv
    <3> QED BY <3>1, <3>2, <3>3
  <2>3. workPC' \in [Work -> {"idle", "start", "ignored", "collect", "error", "answered"}]
    BY <1>1 DEF ServiceTypeOK
  <2> QED BY <1>1, <1>5, <2>1, <2>2, <2>3 DEF ServiceTypeOK
<1>9. RegistrationInv'
  BY <1>1, <1>2, <1>6, WorkFacts DEF RegistrationInv, Registered
<1>10. WorkInv'
  <2> SUFFICES ASSUME NEW v \in Work PROVE WorkInv!(v)'
    BY DEF WorkInv
  <2>1. Todo(v)' = Todo(v)
    BY <1>1 DEF Todo, MinTreeIndex, Shared, TreesOf, Own
  <2>2. CASE v = w
    <3>1. callErr'[w[1]] = (workPC[w] = "error")
      BY <1>1, <1>2 DEF ServiceTypeOK
    <3>2. received'[w] = Todo(w)' \/ (Own(w) /\ callErr'[w[1]])
      BY <1>1, <2>1, <2>2, <3>1
    <3>3. w \notin toSend /\ Req(w) \notin net
      BY <1>1 DEF WorkInv
    <3> QED BY <2>2, <3>2, <3>3, <1>1, <1>2, <1>3, <1>7 DEF WorkInv, Own
  <2>3. CASE v # w
    <3>1. Own(v) => v[1] # w[1]
      BY <2>3, <1>2, WorkFacts DEF Own
    <3>2. Own(v) => callErr'[v[1]] = callErr[v[1]]
      BY <3>1, <1>1, WorkFacts DEF ServiceTypeOK
    <3> QED BY <2>1, <2>3, <3>2, <1>1, <1>6 DEF WorkInv, Own
  <2> QED BY <2>2, <2>3
<1>11. ReturnInv'
  BY <1>1, <1>6, <1>7, WorkFacts DEF ReturnInv
<1>12. WaitGroupCounts'
  <2> SUFFICES ASSUME NEW d \in Call, Registered(d)', Up(CallNode[d])'
               PROVE  wg'[d] = Cardinality(Outstanding(d))'
    BY DEF WaitGroupCounts
  <2>1. CASE d = w[1]
    <3>1. Outstanding(d)' = Outstanding(d) \ {w[2]}
      BY <2>1, <1>1, <1>2, <1>3, <1>6, <1>7, WorkFacts DEF Outstanding
    <3> QED BY <2>1, <3>1, <1>4, <1>5, OutstandingFinite, OutstandingShrinks DEF ServiceTypeOK
  <2>2. CASE d # w[1]
    <3>1. Outstanding(d)' = Outstanding(d)
      BY <2>2, <1>1, <1>6, WorkFacts DEF Outstanding
    <3> QED BY <2>2, <3>1, <1>1, <1>5 DEF WaitGroupCounts, Registered, Up, ServiceTypeOK
  <2> QED BY <2>1, <2>2
<1>13. DoneNeverPanics'
  BY <1>5 DEF DoneNeverPanics
<1> QED BY <1>8, <1>9, <1>10, <1>11, <1>12, <1>13

LEMMA SendReplyInv ==
  ASSUME ServiceInv, NEW w \in Work, SendReply(w)
  PROVE  ServiceInv'
<1> USE DEF ServiceInv, callVars, ringVars
<1>1. /\ ~Own(w) /\ workPC[w] = "collect" /\ received[w] = Todo(w)
      /\ workPC' = [workPC EXCEPT ![w] = "answered"]
      /\ UNCHANGED <<ready, callPC, callErr, CosiWg, wg, toSend, running, doneChan, received>>
      /\ \/ net' = net \cup {Reply(w)} /\ UNCHANGED crashed
         \/ ~Up(CallNode[w[1]]) /\ crashed' = [crashed EXCEPT ![w[2]] = "send"] /\ net' = net
  BY DEF SendReply, Complete, Crash
<1>2. Registered(w[1]) /\ w[1] \in Call /\ w[2] \in Node /\ w \in BunchWork
      /\ w = <<w[1], w[2]>> /\ CallNode[w[1]] \in Node
  BY <1>1, WorkIsRegistered, WorkFacts DEF BunchWork
<1>3. \A v \in Work : v # w => workPC'[v] = workPC[v]
  BY <1>1 DEF ServiceTypeOK
<1>4. workPC'[w] = "answered"
  BY <1>1 DEF ServiceTypeOK
<1>5. ServiceTypeOK'
  BY <1>1, <1>2 DEF ServiceTypeOK
<1>6. RegistrationInv'
  BY <1>1, <1>2, <1>3, WorkFacts, MessageFacts DEF RegistrationInv, Registered
<1>7. WorkInv'
  <2> SUFFICES ASSUME NEW v \in Work PROVE WorkInv!(v)'
    BY DEF WorkInv
  <2>1. Todo(v)' = Todo(v)
    BY <1>1 DEF Todo, MinTreeIndex, Shared, TreesOf, Own
  <2> QED BY <2>1, <1>1, <1>3, <1>4, MessageFacts DEF WorkInv, Own
<1>8. ReturnInv'
  BY <1>1, <1>3, <1>4, WorkFacts DEF ReturnInv
<1>9. WaitGroupCounts'
  <2> SUFFICES ASSUME NEW d \in Call, Registered(d)', Up(CallNode[d])'
               PROVE  wg'[d] = Cardinality(Outstanding(d))'
    BY DEF WaitGroupCounts
  <2>1. Up(CallNode[d]) /\ Registered(d)
    BY <1>1, <1>2, WorkFacts DEF Up, Registered, ServiceTypeOK
  <2>2. CASE d # w[1] \/ net' = net \cup {Reply(w)}
    <3>1. Outstanding(d)' = Outstanding(d)
      BY <2>2, <1>1, <1>2, <1>3, <1>4, WorkFacts, MessageFacts DEF Outstanding
    <3> QED BY <2>1, <3>1, <1>1 DEF WaitGroupCounts
  <2>3. CASE d = w[1] /\ ~Up(CallNode[w[1]])
    BY <2>1, <2>3
  <2> QED BY <2>2, <2>3, <1>1
<1>10. DoneNeverPanics'
  BY <1>1, <1>2 DEF DoneNeverPanics, ServiceTypeOK
<1> QED BY <1>5, <1>6, <1>7, <1>8, <1>9, <1>10

LEMMA RecvProtoRespInv ==
  ASSUME ServiceInv, NEW w \in Work, RecvProtoRespFromBunchNode(w)
  PROVE  ServiceInv'
<1> USE DEF ServiceInv, ringVars
<1>1. /\ Reply(w) \in net /\ Up(CallNode[w[1]]) /\ net' = net \ {Reply(w)}
      /\ WgDone(CallNode[w[1]], ReqId[w[1]])
      /\ UNCHANGED <<ready, callPC, callErr, CosiWg, toSend, workPC, running, doneChan, received>>
  BY DEF RecvProtoRespFromBunchNode
<1>2. Registered(w[1]) /\ w[1] \in Call /\ w = <<w[1], w[2]>> /\ w[2] \in Parts(w[1])
      /\ workPC[w] = "answered"
  BY <1>1, WorkIsRegistered, WorkFacts DEF WorkInv
<1>3. w[2] \in Outstanding(w[1])
  BY <1>1, <1>2 DEF Outstanding
<1>4. /\ crashed' = crashed
      /\ wg' = [wg EXCEPT ![w[1]] = @ - 1]
      /\ wg[w[1]] = Cardinality(Outstanding(w[1]))
      /\ wg[w[1]] \in Nat \ {0}
  BY <1>1, <1>2, <1>3, DoneCounts
<1>5. ServiceTypeOK'
  <2>1. wg' \in [Call -> Nat]
    <3>1. wg[w[1]] - 1 \in Nat
      BY <1>4
    <3>2. wg \in [Call -> Nat]
      BY DEF ServiceTypeOK
    <3> HIDE DEF ServiceInv
    <3> QED BY <3>1, <3>2, <1>2, <1>4
  <2> QED BY <1>1, <1>4, <2>1 DEF ServiceTypeOK
<1>6. RegistrationInv'
  BY <1>1 DEF RegistrationInv, Registered
<1>7. WorkInv'
  <2>1. \A v \in Work : Todo(v)' = Todo(v)
    BY <1>1 DEF Todo, MinTreeIndex, Shared, TreesOf, Own
  <2> QED BY <2>1, <1>1 DEF WorkInv, Own
<1>8. ReturnInv'
  BY <1>1 DEF ReturnInv
<1>9. WaitGroupCounts'
  <2> SUFFICES ASSUME NEW d \in Call, Registered(d)', Up(CallNode[d])'
               PROVE  wg'[d] = Cardinality(Outstanding(d))'
    BY DEF WaitGroupCounts
  <2>1. CASE d = w[1]
    <3>1. Outstanding(d)' = Outstanding(d) \ {w[2]}
      BY <2>1, <1>1, <1>2, WorkFacts, MessageFacts DEF Outstanding
    <3> QED BY <2>1, <3>1, <1>3, <1>4, OutstandingFinite, OutstandingShrinks DEF ServiceTypeOK
  <2>2. CASE d # w[1]
    <3>1. Outstanding(d)' = Outstanding(d)
      BY <2>2, <1>1, <1>2, WorkFacts, MessageFacts DEF Outstanding
    <3> QED BY <2>2, <3>1, <1>1, <1>4 DEF WaitGroupCounts, Registered, Up, ServiceTypeOK
  <2> QED BY <2>1, <2>2
<1>10. DoneNeverPanics'
  BY <1>4 DEF DoneNeverPanics
<1> QED BY <1>5, <1>6, <1>7, <1>8, <1>9, <1>10

LEMMA ConcurrentMapAccessInv ==
  ASSUME ServiceInv, NEW n \in Node, ConcurrentMapAccess(n)
  PROVE  ServiceInv'
<1> USE DEF ServiceInv, callVars, ringVars
<1>1. /\ crashed' = [crashed EXCEPT ![n] = "map"]
      /\ UNCHANGED <<ready, callPC, callErr, CosiWg, wg, toSend, net, workPC,
                     running, doneChan, received>>
  BY DEF ConcurrentMapAccess, Crash
<1>2. ServiceTypeOK'
  BY <1>1 DEF ServiceTypeOK
<1>3. RegistrationInv'
  BY <1>1 DEF RegistrationInv, Registered
<1>4. WorkInv'
  <2>1. \A v \in Work : Todo(v)' = Todo(v)
    BY <1>1 DEF Todo, MinTreeIndex, Shared, TreesOf, Own
  <2> QED BY <2>1, <1>1 DEF WorkInv, Own
<1>5. ReturnInv'
  BY <1>1 DEF ReturnInv
<1>6. WaitGroupCounts'
  <2>1. \A d \in Call : Outstanding(d)' = Outstanding(d)
    BY <1>1 DEF Outstanding
  <2>2. \A m \in Node : Up(m)' => Up(m)
    BY <1>1 DEF Up, ServiceTypeOK
  <2> QED BY <2>1, <2>2, <1>1, WorkFacts DEF WaitGroupCounts, Registered
<1>7. DoneNeverPanics'
  BY <1>1 DEF DoneNeverPanics, ServiceTypeOK
<1> QED BY <1>2, <1>3, <1>4, <1>5, <1>6, <1>7

LEMMA StutterInv ==
  ASSUME ServiceInv, UNCHANGED vars
  PROVE  ServiceInv'
<1> USE DEF vars
<1>1. ServiceTypeOK' = ServiceTypeOK
  BY DEF ServiceTypeOK
<1>2. RegistrationInv' = RegistrationInv
  BY DEF RegistrationInv, Registered
<1>3. WorkInv' = WorkInv
  BY DEF WorkInv, Todo, MinTreeIndex, Shared, TreesOf, Own
<1>4. ReturnInv' = ReturnInv
  BY DEF ReturnInv
<1>5. WaitGroupCounts' = WaitGroupCounts
  BY DEF WaitGroupCounts, Registered, Outstanding, Up
<1>6. DoneNeverPanics' = DoneNeverPanics
  BY DEF DoneNeverPanics
<1> QED BY <1>1, <1>2, <1>3, <1>4, <1>5, <1>6 DEF ServiceInv

\* The inductive invariant holds in every behaviour of the service, whatever
\* the conodes, bunches, rings and requests are.
THEOREM ServiceInvariance == Spec => []ServiceInv
<1>1. Init => ServiceInv
  BY InitInv
<1>2. ServiceInv /\ [Next]_vars => ServiceInv'
  <2> SUFFICES ASSUME ServiceInv, [Next]_vars PROVE ServiceInv'
    OBVIOUS
  <2>1. CASE UNCHANGED vars
    BY <2>1, StutterInv
  <2>2. ASSUME NEW n \in Node, Setup(n) \/ ConcurrentMapAccess(n) PROVE ServiceInv'
    BY <2>2, SetupInv, ConcurrentMapAccessInv
  <2>3. ASSUME NEW c \in Call, BFTCoSiSimul(c) \/ CallStep(c) PROVE ServiceInv'
    BY <2>3, BFTCoSiSimulInv, RegisterInv, ReturnStepInv DEF CallStep
  <2>4. ASSUME NEW w \in Work, WorkStep(w) PROVE ServiceInv'
    BY <2>4, SendReqToBunchInv, RecvCosiReqFromNodeInv, StartCosiInv, RingStepInv,
       TimeOutInv, OwnDoneInv, SendReplyInv, RecvProtoRespInv DEF WorkStep
  <2>5. ASSUME NEW w \in Work, NEW i \in running[w], RingDone(w, i) PROVE ServiceInv'
    BY <2>5, RingStepInv
  <2> QED BY <2>1, <2>2, <2>3, <2>4, <2>5 DEF Next
<1> QED BY <1>1, <1>2, PTL DEF Spec

\* The WaitGroup of a waiting call counts exactly the work that has not been
\* reported (BFTCoSiSimul, recvProtoRespFromBunchNode).
THEOREM WaitGroupCountsThm == Spec => []WaitGroupCounts
<1>1. ServiceInv => WaitGroupCounts
  BY DEF ServiceInv
<1> QED BY <1>1, ServiceInvariance, PTL

\* CosiWg[reqId].Done() never meets a nil pointer or a zero counter.
THEOREM DoneNeverPanicsThm == Spec => []DoneNeverPanics
<1>1. ServiceInv => DoneNeverPanics
  BY DEF ServiceInv
<1> QED BY <1>1, ServiceInvariance, PTL

\* A reply without an error reaches the client only when every ring of the
\* node and every shared ring of its bunch has been through BFTCoSi.
THEOREM SuccessMeansAllRingsThm == Spec => []SuccessMeansAllRings
<1>1. ServiceInv => SuccessMeansAllRings
  BY WorkFacts DEF ServiceInv, SuccessMeansAllRings, ReturnInv, WorkInv
<1> QED BY <1>1, ServiceInvariance, PTL
=============================================================================
