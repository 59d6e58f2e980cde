------------------------- MODULE LocalityPres_proofs -------------------------
(***************************************************************************)
(* Proofs about the multicast of LocalityPresProtocol, on every finite     *)
(* locality graph and for every set of alive nodes.                        *)
(***************************************************************************)
EXTENDS LocalityPres, FiniteSetTheorems, TLAPS

-----------------------------------------------------------------------------
(* Messages and the replies in flight                                      *)

LEMMA Fields ==
  ASSUME NEW m, NEW n
  PROVE  /\ Announce(m, n).type = "Announce" /\ Announce(m, n).from = m /\ Announce(m, n).to = n
         /\ Reply(m, n).type = "Reply" /\ Reply(m, n).from = m /\ Reply(m, n).to = n
  BY DEF Announce, Reply

\* The goroutines that DelayedSend starts carry its messages.
LEMMA DelayedSendFlight ==
  ASSUME NEW M, DelayedSend(M)
  PROVE  /\ {s.msg : s \in sending'} = {s.msg : s \in sending} \cup M
         /\ \A s \in sending' : s \in sending \/ (s.msg \in M /\ s.added = FALSE)
         /\ \A s, t \in sending' \ sending : s.msg = t.msg => s = t
         /\ sending \subseteq [msg : Message, added : BOOLEAN] /\ M \subseteq Message =>
              sending' \subseteq [msg : Message, added : BOOLEAN]
<1> DEFINE G == {[msg |-> m, added |-> FALSE] : m \in M}
<1>1. sending' = sending \cup G
  BY DEF DelayedSend
<1>2. ASSUME NEW s \in G
      PROVE  \E m \in M : s = [msg |-> m, added |-> FALSE]
  OBVIOUS
<1>3. ASSUME NEW m \in M
      PROVE  [msg |-> m, added |-> FALSE] \in G
  OBVIOUS
<1> HIDE DEF G
<1>4. ASSUME NEW s \in G
      PROVE  s.msg \in M /\ s.added = FALSE /\ s = [msg |-> s.msg, added |-> FALSE]
  BY <1>2
<1>5. ASSUME NEW m \in M
      PROVE  \E s \in G : s.msg = m
  BY <1>3
<1>6. {s.msg : s \in sending'} = {s.msg : s \in sending} \cup M
  BY <1>1, <1>4, <1>5
<1>7. ASSUME M \subseteq Message
      PROVE  G \subseteq [msg : Message, added : BOOLEAN]
  <2> SUFFICES ASSUME NEW s \in G PROVE s \in [msg : Message, added : BOOLEAN]
    OBVIOUS
  <2>1. PICK m \in M : s = [msg |-> m, added |-> FALSE]
    BY <1>2
  <2> QED
    BY <1>7, <2>1
<1>8. ASSUME NEW s \in G, NEW t \in G, s.msg = t.msg
      PROVE  s = t
  <2>1. PICK m \in M : s = [msg |-> m, added |-> FALSE]
    BY <1>2
  <2>2. PICK k \in M : t = [msg |-> k, added |-> FALSE]
    BY <1>2
  <2> QED
    BY <1>8, <2>1, <2>2
<1>9. \A s, t \in sending' \ sending : s.msg = t.msg => s = t
  BY <1>1, <1>8
<1> QED
  BY <1>1, <1>4, <1>6, <1>7, <1>9

LEMMA FlightTyped ==
  ASSUME LocalityTypeOK
  PROVE  InFlight \subseteq Message
  BY DEF LocalityTypeOK, InFlight

LEMMA Pending == PendingReplies = {m \in InFlight : m.type = "Reply"}
  BY DEF PendingReplies, InFlight

\* A reply is known by its sender, so there are finitely many.
LEMMA FiniteReplies ==
  ASSUME LocalityTypeOK, FlightInv
  PROVE  /\ IsFiniteSet(PendingReplies) /\ Cardinality(PendingReplies) \in Nat
         /\ IsFiniteSet(MsgReceived) /\ Cardinality(MsgReceived) \in Nat
         /\ Cardinality(MsgReceived) <= Cardinality(Node) /\ Cardinality(Node) \in Nat
         /\ Cardinality(MsgReceived) = Cardinality(Node) => MsgReceived = Node
<1> DEFINE g == [m \in PendingReplies |-> m.from]
<1>1. g \in Injection(PendingReplies, Node)
  <2>1. \A m \in PendingReplies : m \in Message /\ m.type = "Reply" /\ m.to = Root
    BY FlightTyped, Pending DEF FlightInv
  <2>2. \A m, k \in PendingReplies : m.from = k.from => m = k
    BY <2>1 DEF Message
  <2> QED
    BY <2>1, <2>2 DEF Injection, IsInjective, Message
<1>2. IsFiniteSet(PendingReplies)
  BY <1>1, FS_Injection, LocalityAssumption
<1>3. MsgReceived \in SUBSET Node /\ IsFiniteSet(Node)
  BY LocalityAssumption DEF LocalityTypeOK
<1> QED
  BY <1>2, <1>3, FS_Subset, FS_CardinalityType

\* The count is at most the size of the roster, and reaches it only when every
\* node was reached and no reply is left.
LEMMA CountBound ==
  ASSUME LocalityTypeOK, FlightInv, RepliesAddUp, started
  PROVE  /\ Count <= Cardinality(Node)
         /\ Count = Cardinality(Node) => MsgReceived = Node /\ PendingReplies = {}
<1>1. Count + Cardinality(PendingReplies) = Cardinality(MsgReceived) /\ Count \in Nat
  BY DEF RepliesAddUp, LocalityTypeOK
<1>2. Count <= Cardinality(Node)
  BY <1>1, FiniteReplies
<1>3. ASSUME Count = Cardinality(Node)
      PROVE  MsgReceived = Node /\ PendingReplies = {}
  <2>1. Cardinality(MsgReceived) = Cardinality(Node) /\ Cardinality(PendingReplies) = 0
    BY <1>1, <1>3, FiniteReplies
  <2> QED
    BY <2>1, FiniteReplies, FS_EmptySet
<1> QED
  BY <1>2, <1>3

\* Before Start nothing is in flight.
LEMMA NotStarted ==
  ASSUME FlightInv, ~started
  PROVE  InFlight = {} /\ net = {} /\ refused = {} /\ sending = {}
<1>1. InFlight = {}
  BY DEF FlightInv
<1> QED
  BY <1>1 DEF InFlight

-----------------------------------------------------------------------------
(* LocalityInv is inductive                                                *)

LEMMA LocalityInit == Init => LocalityInv
<1> SUFFICES ASSUME Init PROVE LocalityInv
  OBVIOUS
<1>1. 1 \in 1 .. Cardinality(Node)
  <2>1. IsFiniteSet(Node) /\ Node # {}
    BY LocalityAssumption
  <2>2. Cardinality(Node) \in Nat /\ Cardinality(Node) # 0
    BY <2>1, FS_CardinalityType, FS_EmptySet
  <2> QED
    BY <2>2
<1>2. InFlight = {}
  BY DEF Init, InFlight
<1> QED
  BY <1>1, <1>2 DEF Init, LocalityInv, LocalityTypeOK, RepliesAddUp, ReachedThroughAlive,
                    FlightInv, OneReply, CountInv

\* What only depends on which messages are in flight.
LEMMA SameFlight ==
  ASSUME LocalityInv, InFlight' = InFlight,
         UNCHANGED <<started, MsgReceived, Count, TotalCount, printed>>
  PROVE  RepliesAddUp' /\ ReachedThroughAlive' /\ FlightInv' /\ CountInv'
<1>1. PendingReplies' = PendingReplies
  <2>1. PendingReplies' = {m \in InFlight' : m.type = "Reply"}
    BY DEF PendingReplies, InFlight
  <2> QED
    BY <2>1, Pending
<1> QED
  BY <1>1 DEF LocalityInv, RepliesAddUp, ReachedThroughAlive, FlightInv, CountInv

LEMMA StartInv ==
  ASSUME LocalityInv, Start
  PROVE  LocalityInv'
<1> USE DEF LocalityInv
<1>1. /\ ~started /\ started' = TRUE /\ MsgReceived' = {Root}
      /\ Count = 1 /\ TotalCount = 0 /\ printed = 0 /\ MsgReceived = {} /\ done = {}
      /\ UNCHANGED <<Count, printed, waiting, net, refused>>
      /\ TotalCount' = IF Children[Root] = {} THEN 1 ELSE 0
      /\ done' = IF Children[Root] = {} THEN {Root} ELSE {}
      /\ DelayedSend({Announce(Root, n) : n \in Children[Root]})
  BY DEF Start, CountInv, LocalityTypeOK
<1>2. net = {} /\ refused = {} /\ sending = {}
  BY <1>1, NotStarted
<1>3. Root \in Node /\ Children[Root] \subseteq Node
  BY LocalityAssumption
<1> DEFINE new == {Announce(Root, n) : n \in Children[Root]}
<1>4. /\ new \subseteq Message
      /\ \A m \in new : m.type = "Announce" /\ m.from = Root /\ m.to \in Children[Root]
      /\ Children[Root] = {} => new = {}
  BY <1>3, Fields DEF Message, Announce
<1> HIDE DEF new
<1>11. InFlight' = new /\ \A s \in sending' : s.msg \in new
  <2>1. DelayedSend(new)
    BY <1>1 DEF new
  <2>2. {s.msg : s \in sending'} = {s.msg : s \in sending} \cup new
    BY <2>1, DelayedSendFlight
  <2> QED
    BY <1>1, <1>2, <2>2 DEF InFlight
<1>5. LocalityTypeOK'
  <2>1. sending' \subseteq [msg : Message, added : BOOLEAN]
    BY <1>1, <1>2, <1>4, DelayedSendFlight DEF new
  <2>2. Count' \in 1 .. Cardinality(Node) /\ TotalCount' \in {0, Count'} /\ printed' \in Nat
    BY <1>1 DEF LocalityTypeOK
  <2> QED
    BY <1>1, <1>2, <1>3, <2>1, <2>2 DEF LocalityTypeOK
<1>6. FlightInv'
  BY <1>1, <1>4, <1>11 DEF FlightInv
<1>7. RepliesAddUp'
  <2>1. PendingReplies' = {}
    <3>1. PendingReplies' = {m \in InFlight' : m.type = "Reply"}
      BY DEF PendingReplies, InFlight
    <3> QED
      BY <1>4, <1>11, <3>1
  <2>2. Cardinality(MsgReceived') = 1 /\ Cardinality(PendingReplies') = 0
    BY <1>1, <2>1, FS_EmptySet, FS_Singleton
  <2> QED
    BY <1>1, <2>2 DEF RepliesAddUp
<1>8. OneReply'
  BY <1>1, <1>2, <1>4, <1>11 DEF OneReply
<1>9. CountInv' /\ ReachedThroughAlive'
  BY <1>1, <1>4, <1>11 DEF CountInv, ReachedThroughAlive
<1>10. \A n \in Node : waiting'[n] # "no" => n \in MsgReceived'
  BY <1>1
<1> QED
  BY <1>5, <1>6, <1>7, <1>8, <1>9, <1>10

LEMMA AddToWaitGroupInv ==
  ASSUME LocalityInv, NEW s \in sending, AddToWaitGroup(s)
  PROVE  LocalityInv'
<1> USE DEF LocalityInv
<1> DEFINE t == [s EXCEPT !.added = TRUE]
<1>1. /\ sending' = (sending \ {s}) \cup {t}
      /\ UNCHANGED <<started, MsgReceived, Count, TotalCount, printed, waiting, done,
                     net, refused>>
  BY DEF AddToWaitGroup
<1>2. s \in [msg : Message, added : BOOLEAN]
  BY DEF LocalityTypeOK
<1>3. t \in [msg : Message, added : BOOLEAN] /\ t.msg = s.msg
  BY <1>2
<1> HIDE DEF t
<1>4. InFlight' = InFlight
  BY <1>1, <1>3 DEF InFlight
<1>5. LocalityTypeOK'
  BY <1>1, <1>3 DEF LocalityTypeOK
<1>6. OneReply'
  BY <1>1, <1>3 DEF OneReply
<1> QED
  BY <1>1, <1>4, <1>5, <1>6, SameFlight

LEMMA SendToInv ==
  ASSUME LocalityInv, NEW s \in sending, SendTo(s)
  PROVE  LocalityInv'
<1> USE DEF LocalityInv
<1>1. /\ sending' = sending \ {s}
      /\ \/ net' = net \cup {s.msg} /\ UNCHANGED refused
         \/ refused' = refused \cup {s.msg} /\ UNCHANGED net
      /\ UNCHANGED <<started, MsgReceived, Count, TotalCount, printed, waiting, done>>
  BY DEF SendTo
<1>2. s.msg \in Message
  BY DEF LocalityTypeOK
<1>3. InFlight' = InFlight
  <2>1. net' \cup refused' = net \cup refused \cup {s.msg}
    BY <1>1
  <2> QED
    BY <1>1, <2>1 DEF InFlight
<1>4. LocalityTypeOK'
  BY <1>1, <1>2 DEF LocalityTypeOK
<1>5. OneReply'
  BY <1>1 DEF OneReply
<1> QED
  BY <1>1, <1>3, <1>4, <1>5, SameFlight

\* The first announcement makes a node reply, once.
LEMMA HandleAnnounceInv ==
  ASSUME LocalityInv, NEW n \in Node, HandleAnnounce(n)
  PROVE  LocalityInv'
<1> USE DEF LocalityInv
<1> DEFINE new == (IF n \in Alive THEN {Announce(n, q) : q \in Children[n]} ELSE {})
                    \cup {Reply(n, Root)}
<1>1. PICK m \in net :
        /\ m.type = "Announce" /\ m.to = n
        /\ net' = net \ {m}
        /\ UNCHANGED <<started, Count, TotalCount, printed, done, refused>>
        /\ \/ n \in MsgReceived /\ UNCHANGED <<MsgReceived, waiting, sending>>
           \/ /\ n \notin MsgReceived /\ MsgReceived' = MsgReceived \cup {n}
              /\ waiting' = [waiting EXCEPT ![n] = "announce"] \/ UNCHANGED waiting
              /\ DelayedSend(new)
  BY DEF HandleAnnounce, Handles
<1>2. m \in InFlight /\ started
  BY DEF InFlight, FlightInv
<1>3. m.from \in MsgReceived \cap (Alive \cup {Root}) /\ n \in Children[m.from]
  BY <1>1, <1>2 DEF FlightInv
<1>4. Children[Root] # {}
  BY <1>2 DEF CountInv
<1>5. CASE n \in MsgReceived /\ UNCHANGED <<MsgReceived, waiting, sending>>
  <2>1. InFlight' \subseteq InFlight /\ PendingReplies' = PendingReplies
    BY <1>1, <1>5 DEF InFlight, PendingReplies
  <2>2. LocalityTypeOK' /\ OneReply'
    BY <1>1, <1>5 DEF LocalityTypeOK, OneReply
  <2>3. FlightInv' /\ RepliesAddUp' /\ ReachedThroughAlive'
    BY <1>1, <1>5, <2>1 DEF FlightInv, RepliesAddUp, ReachedThroughAlive
  <2>4. CountInv'
    BY <1>1, <1>4, <1>5 DEF CountInv
  <2> QED
    BY <1>5, <2>2, <2>3, <2>4
<1>6. CASE /\ n \notin MsgReceived /\ MsgReceived' = MsgReceived \cup {n}
           /\ waiting' = [waiting EXCEPT ![n] = "announce"] \/ UNCHANGED waiting
           /\ DelayedSend(new)
  <2>1. n # Root /\ Root \in Node
    BY <1>2, <1>6, LocalityAssumption DEF CountInv
  <2>2. new \subseteq Message
    BY <2>1, LocalityAssumption DEF Message, Announce, Reply
  <2>3. /\ \A k \in new : k.from = n
        /\ \A k \in new : k.type = "Announce" => n \in Alive /\ k.to \in Children[n]
        /\ \A k \in new : k.type = "Reply" => k = Reply(n, Root) /\ k.to = Root
        /\ Reply(n, Root) \in new /\ Reply(n, Root).type = "Reply"
    BY Fields
  <2> HIDE DEF new
  <2>4. LocalityTypeOK'
    <3>1. sending' \subseteq [msg : Message, added : BOOLEAN]
      BY <1>6, <2>2, DelayedSendFlight DEF LocalityTypeOK
    <3>2. waiting' \in [Node -> {"no", "announce", "reply"}]
      BY <1>6 DEF LocalityTypeOK
    <3> QED
      BY <1>1, <1>6, <3>1, <3>2 DEF LocalityTypeOK
  <2>5. InFlight' = (net \ {m}) \cup refused \cup {s.msg : s \in sending} \cup new
    <3>1. {s.msg : s \in sending'} = {s.msg : s \in sending} \cup new
      BY <1>6, DelayedSendFlight
    <3> QED
      BY <1>1, <3>1 DEF InFlight
  <2>6. \A k \in InFlight : k.from \in MsgReceived /\ k.from # n
    <3>1. \A k \in InFlight : k.type \in {"Announce", "Reply"}
      BY FlightTyped DEF Message
    <3> QED
      BY <1>6, <3>1 DEF FlightInv
  <2>7. PendingReplies' = PendingReplies \cup {Reply(n, Root)} /\ Reply(n, Root) \notin PendingReplies
    <3>1. PendingReplies' = {k \in InFlight' : k.type = "Reply"}
      BY DEF PendingReplies, InFlight
    <3>2. {k \in InFlight' : k.type = "Reply"} = {k \in InFlight : k.type = "Reply"} \cup {Reply(n, Root)}
      BY <1>1, <2>3, <2>5 DEF InFlight
    <3>3. Reply(n, Root) \notin InFlight
      BY <2>3, <2>6
    <3> QED
      BY <3>1, <3>2, <3>3, Pending
  <2>8. RepliesAddUp'
    <3>1. Cardinality(PendingReplies') = Cardinality(PendingReplies) + 1
      BY <2>7, FiniteReplies, FS_AddElement
    <3>2. Cardinality(MsgReceived') = Cardinality(MsgReceived) + 1
      BY <1>6, FiniteReplies, FS_AddElement
    <3>3. Count \in Nat /\ Count' = Count
      BY <1>1 DEF LocalityTypeOK
    <3> QED
      BY <1>2, <3>1, <3>2, <3>3, FiniteReplies DEF RepliesAddUp
  <2>9. FlightInv'
    <3>1. ASSUME NEW k \in InFlight'
          PROVE  /\ k.type = "Announce" =>
                      k.from \in MsgReceived' \cap (Alive \cup {Root}) /\ k.to \in Children[k.from]
                 /\ k.type = "Reply" => k.from \in MsgReceived' \ {Root} /\ k.to = Root
      <4>1. CASE k \in InFlight
        BY <1>6, <4>1 DEF FlightInv
      <4>2. CASE k \in new
        BY <1>6, <2>1, <2>3, <4>2
      <4> QED
        BY <2>5, <4>1, <4>2 DEF InFlight
    <3> QED
      BY <1>1, <1>2, <3>1 DEF FlightInv
  <2>10. OneReply'
    <3>1. \A k \in new : k \notin InFlight
      BY <2>3, <2>6
    <3>2. ASSUME NEW s \in sending', s.msg.type = "Reply"
          PROVE  /\ s.msg \notin net' \cup refused'
                 /\ \A t \in sending' : s.msg = t.msg => s = t
      <4>0. /\ \A t \in sending' \ sending : t.msg \in new
            /\ \A t, u \in sending' \ sending : t.msg = u.msg => t = u
            /\ \A t \in sending : t.msg \notin new
            /\ \A k \in net \cup refused : k \notin new
        <5>1. DelayedSend(new)
          BY <1>6
        <5>2. /\ \A t \in sending' \ sending : t.msg \in new
              /\ \A t, u \in sending' \ sending : t.msg = u.msg => t = u
          BY <5>1, DelayedSendFlight
        <5> QED
          BY <3>1, <5>2 DEF InFlight
      <4>1. CASE s \in sending
        BY <1>1, <3>2, <4>0, <4>1 DEF OneReply
      <4>2. CASE s \notin sending
        BY <1>1, <4>0, <4>2
      <4> QED
        BY <4>1, <4>2
    <3> QED
      BY <1>1, <3>2 DEF OneReply
  <2>11. CountInv'
    BY <1>1, <1>2, <1>4, <1>6 DEF CountInv
  <2>12. ReachedThroughAlive'
    BY <1>3, <1>6 DEF ReachedThroughAlive
  <2>13. \A x \in Node : waiting'[x] # "no" => x \in MsgReceived'
    BY <1>6 DEF LocalityTypeOK
  <2> QED
    BY <2>4, <2>8, <2>9, <2>10, <2>11, <2>12, <2>13
<1> QED
  BY <1>1, <1>5, <1>6

\* The root counts a reply, which is then nowhere any more.
LEMMA HandleReplyInv ==
  ASSUME LocalityInv, NEW n \in Node, HandleReply(n)
  PROVE  LocalityInv'
<1> USE DEF LocalityInv
<1>1. PICK m \in net :
        /\ m.type = "Reply" /\ m.to = n /\ net' = net \ {m}
        /\ UNCHANGED <<started, MsgReceived, printed, done, refused>>
        /\ (n = Root) => /\ Count' = Count + 1
                         /\ IF Count + 1 = Cardinality(Node)
                            THEN /\ TotalCount' = Count + 1
                                 /\ waiting' = [waiting EXCEPT ![n] = "reply"]
                            ELSE UNCHANGED <<TotalCount, waiting>>
                         /\ UNCHANGED sending
  BY DEF HandleReply, Handles
<1>2. m \in InFlight /\ started /\ n = Root /\ Root \in MsgReceived
  BY <1>1 DEF InFlight, FlightInv, CountInv
<1>3. Children[Root] # {}
  BY <1>2 DEF CountInv
<1>4. InFlight' = InFlight \ {m}
  BY <1>1, <1>2 DEF InFlight, OneReply
<1>5. PendingReplies' = PendingReplies \ {m} /\ m \in PendingReplies
  <2>1. PendingReplies' = {k \in InFlight' : k.type = "Reply"}
    BY DEF PendingReplies, InFlight
  <2> QED
    BY <1>1, <1>2, <1>4, <2>1, Pending
<1>6. Count # Cardinality(Node) /\ Count \in Nat /\ Count <= Cardinality(Node)
  BY <1>2, <1>5, CountBound DEF LocalityTypeOK
<1>7. TotalCount = 0 /\ printed = 0
  BY <1>3, <1>6 DEF CountInv, LocalityTypeOK
<1>8. RepliesAddUp'
  <2>1. Cardinality(PendingReplies') = Cardinality(PendingReplies) - 1
    BY <1>5, FiniteReplies, FS_RemoveElement
  <2> QED
    BY <1>1, <1>2, <1>6, <2>1, FiniteReplies DEF RepliesAddUp
<1>9. LocalityTypeOK'
  <2>1. Count' \in 1 .. Cardinality(Node)
    BY <1>1, <1>2, <1>6, FiniteReplies DEF LocalityTypeOK
  <2>2. waiting' \in [Node -> {"no", "announce", "reply"}]
    BY <1>1, <1>2 DEF LocalityTypeOK
  <2>3. TotalCount' \in {0, Count'}
    BY <1>1, <1>2, <1>7
  <2> QED
    BY <1>1, <1>2, <2>1, <2>2, <2>3 DEF LocalityTypeOK
<1>10. FlightInv' /\ ReachedThroughAlive'
  BY <1>1, <1>4 DEF FlightInv, ReachedThroughAlive
<1>11. OneReply'
  BY <1>1, <1>2 DEF OneReply
<1>12. CountInv'
  BY <1>1, <1>2, <1>3, <1>7 DEF CountInv
<1>13. \A x \in Node : waiting'[x] # "no" => x \in MsgReceived'
  BY <1>1, <1>2 DEF LocalityTypeOK
<1> QED
  BY <1>8, <1>9, <1>10, <1>11, <1>12, <1>13

LEMMA FinishInv ==
  ASSUME LocalityInv, NEW n \in Node, Finish(n)
  PROVE  LocalityInv'
<1> USE DEF LocalityInv
<1>1. /\ waiting[n] # "no" /\ waiting' = [waiting EXCEPT ![n] = "no"] /\ done' = done \cup {n}
      /\ UNCHANGED <<started, MsgReceived, Count, TotalCount, printed, sending, net, refused>>
  BY DEF Finish
<1>2. LocalityTypeOK' /\ OneReply'
  BY <1>1 DEF LocalityTypeOK, OneReply
<1>3. \A x \in Node : waiting'[x] # "no" => x \in MsgReceived'
  BY <1>1 DEF LocalityTypeOK
<1>4. InFlight' = InFlight
  BY <1>1 DEF InFlight
<1> QED
  BY <1>1, <1>2, <1>3, <1>4, SameFlight

LEMMA RunPrintsInv ==
  ASSUME LocalityInv, RunPrints
  PROVE  LocalityInv'
<1> USE DEF LocalityInv
<1>1. /\ TotalCount # 0 /\ printed' = TotalCount /\ TotalCount' = 0
      /\ UNCHANGED <<started, MsgReceived, Count, waiting, done, sending, net, refused>>
  BY DEF RunPrints
<1>2. InFlight' = InFlight /\ PendingReplies' = PendingReplies
  BY <1>1 DEF InFlight, PendingReplies
<1>3. LocalityTypeOK' /\ OneReply'
  BY <1>1 DEF LocalityTypeOK, OneReply
<1>4. CountInv'
  BY <1>1, <1>2 DEF CountInv, LocalityTypeOK
<1>5. RepliesAddUp' /\ ReachedThroughAlive' /\ FlightInv'
  BY <1>1, <1>2 DEF RepliesAddUp, ReachedThroughAlive, FlightInv
<1> QED
  BY <1>1, <1>3, <1>4, <1>5

\* From Start to the end of Run, LocalityInv holds.
THEOREM LocalityInvariance == Spec => []LocalityInv
<1>1. LocalityInv /\ [Next]_vars => LocalityInv'
  <2> SUFFICES ASSUME LocalityInv, [Next]_vars PROVE LocalityInv'
    OBVIOUS
  <2>1. CASE UNCHANGED vars
    <3>1. InFlight' = InFlight /\ LocalityTypeOK' /\ OneReply'
      BY <2>1 DEF vars, InFlight, LocalityInv, LocalityTypeOK, OneReply
    <3> QED
      BY <2>1, <3>1, SameFlight DEF vars, LocalityInv
  <2>2. CASE Next
    BY <2>2, StartInv, RunPrintsInv, AddToWaitGroupInv, SendToInv, HandleAnnounceInv,
       HandleReplyInv, FinishInv DEF Next, NodeStep
  <2> QED
    BY <2>1, <2>2
<1> QED
  BY <1>1, LocalityInit, PTL DEF Spec

-----------------------------------------------------------------------------
(* The safety properties of the multicast                                  *)

\* The state of the protocol and of the root's count has its type.
THEOREM LocalityTypeOKThm == Spec => []LocalityTypeOK
<1>1. LocalityInv => LocalityTypeOK
  BY DEF LocalityInv
<1> QED
  BY <1>1, LocalityInvariance, PTL

\* Counted and outstanding replies are the nodes that were reached.
THEOREM RepliesAddUpThm == Spec => []RepliesAddUp
<1>1. LocalityInv => RepliesAddUp
  BY DEF LocalityInv
<1> QED
  BY <1>1, LocalityInvariance, PTL

\* Run prints only once every node was reached and every reply counted.
THEOREM PrintedMeansReachedThm == Spec => []PrintedMeansReached
<1>1. LocalityInv => PrintedMeansReached
  <2> SUFFICES ASSUME LocalityInv, printed # 0, Children[Root] # {}
               PROVE  MsgReceived = Node /\ PendingReplies = {}
    BY DEF PrintedMeansReached
  <2>1. Count = Cardinality(Node) /\ started
    BY DEF LocalityInv, CountInv
  <2> QED
    BY <2>1, CountBound DEF LocalityInv
<1> QED
  BY <1>1, LocalityInvariance, PTL

\* The flood passes only through the root and alive nodes.
THEOREM ReachedThroughAliveThm == Spec => []ReachedThroughAlive
<1>1. LocalityInv => ReachedThroughAlive
  BY DEF LocalityInv
<1> QED
  BY <1>1, LocalityInvariance, PTL
=============================================================================
