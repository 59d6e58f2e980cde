----------------------------- MODULE LocalityPres -----------------------------
(***************************************************************************)
(* LocalityPresProtocol (tree_experiment/service/protocol.go): a multicast *)
(* flooded over the locality graph, with a reply of every node it reaches  *)
(* to the root, and the part of the service that waits for the count. One  *)
(* instance runs on one tree of the root.                                  *)
(*                                                                         *)
(* Every message is sent by a goroutine of DelayedSend. It adds itself to  *)
(* the WaitGroup only once it runs, so Wait sees the goroutines that have  *)
(* been scheduled and not the ones that have only been started.            *)
(***************************************************************************)
EXTENDS Naturals, FiniteSets

CONSTANTS
  Node,        \* the roster
  Root,        \* the node whose service runs the protocol
  Children,    \* Children[n]: n's neighbours in the graph
  GraphParent, \* GraphParent[n]: the Parent field of n's graph node
  Alive        \* the nodes whose service has alive set

ASSUME LocalityAssumption ==
  /\ IsFiniteSet(Node) /\ Root \in Node /\ Alive \subseteq Node
  /\ Children \in [Node -> SUBSET Node]
  /\ \A m, n \in Node : m \in Children[n] => n \in Children[m] /\ m # n
  /\ GraphParent \in [Node -> Node]

VARIABLES
  started,     \* Run has called Start
  MsgReceived, \* the nodes with MsgReceived set
  Count,       \* the root's Count
  TotalCount,  \* what is in the root's channel, 0 if it is empty
  printed,     \* the count that Run took from the channel, 0 before
  waiting,     \* waiting[n]: the handler that is in wg.Wait
  done,        \* the nodes whose instance has called Done
  sending,     \* goroutines of DelayedSend
  net,         \* messages in flight
  refused      \* messages that SendTo did not send any more

vars == <<started, MsgReceived, Count, TotalCount, printed, waiting, done,
          sending, net, refused>>

Announce(m, n) == [type |-> "Announce", from |-> m, to |-> n]
Reply(m, n) == [type |-> "Reply", from |-> m, to |-> n]

\* DelayedSend of a set of messages: goroutines that have not run yet.
DelayedSend(msgs) == sending' = sending \cup {[msg |-> m, added |-> FALSE] : m \in msgs}

Init ==
  /\ started = FALSE
  /\ MsgReceived = {}
  /\ Count = 1
  /\ TotalCount = 0
  /\ printed = 0
  /\ waiting = [n \in Node |-> "no"]
  /\ done = {}
  /\ sending = {}
  /\ net = {}
  /\ refused = {}

\* A root without neighbours is through at once.
Start ==
  /\ ~started
  /\ started' = TRUE
  /\ MsgReceived' = {Root}
  /\ IF Children[Root] = {}
     THEN TotalCount' = Count /\ done' = {Root}
     ELSE UNCHANGED <<TotalCount, done>>
  /\ DelayedSend({Announce(Root, n) : n \in Children[Root]})
  /\ UNCHANGED <<Count, printed, waiting, net, refused>>

-----------------------------------------------------------------------------
(* The goroutines of DelayedSend                                           *)

\* The goroutine runs and counts itself.
AddToWaitGroup(s) ==
  /\ s \in sending /\ ~s.added
  /\ sending' = (sending \ {s}) \cup {[s EXCEPT !.added = TRUE]}
  /\ UNCHANGED <<started, MsgReceived, Count, TotalCount, printed, waiting, done,
                 net, refused>>

\* After its delay it sends, and counts itself out. An instance that has called
\* Done may find that it can not send any more.
SendTo(s) ==
  /\ s \in sending /\ s.added
  /\ sending' = sending \ {s}
  /\ \/ net' = net \cup {s.msg} /\ UNCHANGED refused
     \/ s.msg.from \in done /\ refused' = refused \cup {s.msg} /\ UNCHANGED net
  /\ UNCHANGED <<started, MsgReceived, Count, TotalCount, printed, waiting, done>>

\* What wg.Wait waits for.
WaitReturns(n) == ~\E s \in sending : s.added /\ s.msg.from = n

-----------------------------------------------------------------------------
(* The handlers. An instance handles one message at a time.                *)

Handles(n, m) == m \in net /\ m.to = n /\ waiting[n] = "no" /\ n \notin done

\* Mutant: a dead node passes the message on like any other.
HandleAnnounceDeadForwards(n) ==
  \E m \in net :
    /\ m.type = "Announce" /\ Handles(n, m)
    /\ net' = net \ {m}
    /\ IF n \in MsgReceived
       THEN UNCHANGED <<MsgReceived, waiting, sending>>
       ELSE /\ MsgReceived' = MsgReceived \cup {n}
            /\ waiting' = [waiting EXCEPT ![n] = "announce"]
            /\ DelayedSend({Announce(n, q) : q \in Children[n]} \cup {Reply(n, Root)})
    /\ UNCHANGED <<started, Count, TotalCount, printed, done, refused>>

\* Mutant: a node answers every announcement, not only the first.
HandleAnnounceAlways(n) ==
  \E m \in net :
    /\ m.type = "Announce" /\ Handles(n, m)
    /\ net' = net \ {m}
    /\ MsgReceived' = MsgReceived \cup {n}
    /\ DelayedSend({Reply(n, Root)} \cup
                   IF n \in Alive \ MsgReceived THEN {Announce(n, q) : q \in Children[n]} ELSE {})
    /\ UNCHANGED <<started, Count, TotalCount, printed, waiting, done, refused>>

\* Mutant: a dead node does not answer.
HandleAnnounceDeadSilent(n) ==
  \E m \in net :
    /\ m.type = "Announce" /\ Handles(n, m)
    /\ net' = net \ {m}
    /\ IF n \in MsgReceived
       THEN UNCHANGED <<MsgReceived, waiting, sending>>
       ELSE /\ MsgReceived' = MsgReceived \cup {n}
            /\ IF n \in Alive
               THEN /\ waiting' = [waiting EXCEPT ![n] = "announce"]
                    /\ DelayedSend({Announce(n, q) : q \in Children[n]} \cup {Reply(n, Root)})
               ELSE UNCHANGED <<waiting, sending>>
    /\ UNCHANGED <<started, Count, TotalCount, printed, done, refused>>

\* Only the first announcement counts. A dead node answers and does not pass
\* it on; an alive one sends it to all neighbours, answers, and waits for its
\* goroutines before it calls Done.
HandleAnnounce(n) ==
  \E m \in net :
    /\ m.type = "Announce" /\ Handles(n, m)
    /\ net' = net \ {m}
    /\ IF n \in MsgReceived
       THEN UNCHANGED <<MsgReceived, waiting, sending>>
       ELSE /\ MsgReceived' = MsgReceived \cup {n}
            /\ IF n \in Alive
               THEN /\ waiting' = [waiting EXCEPT ![n] = "announce"]
                    /\ DelayedSend({Announce(n, q) : q \in Children[n]} \cup {Reply(n, Root)})
               ELSE DelayedSend({Reply(n, Root)}) /\ UNCHANGED waiting
    /\ UNCHANGED <<started, Count, TotalCount, printed, done, refused>>

\* Mutant: the root writes the channel one reply early and goes on counting.
HandleReplyEarly(n) ==
  \E m \in net :
    /\ m.type = "Reply" /\ Handles(n, m)
    /\ net' = net \ {m}
    /\ Count' = Count + 1
    /\ TotalCount' = IF Count + 2 = Cardinality(Node) THEN Count + 1 ELSE TotalCount
    /\ UNCHANGED <<started, MsgReceived, printed, waiting, done, sending, refused>>

\* The root counts the replies and writes the channel when the whole roster
\* has answered; any other node would pass a reply to its parent.
HandleReply(n) ==
  \E m \in net :
    /\ m.type = "Reply" /\ Handles(n, m)
    /\ net' = net \ {m}
    /\ IF n = Root
       THEN /\ Count' = Count + 1
            /\ IF Count + 1 = Cardinality(Node)
               THEN TotalCount' = Count + 1 /\ waiting' = [waiting EXCEPT ![n] = "reply"]
               ELSE UNCHANGED <<TotalCount, waiting>>
            /\ UNCHANGED sending
       ELSE DelayedSend({Reply(n, GraphParent[n])}) /\ UNCHANGED <<Count, TotalCount, waiting>>
    /\ UNCHANGED <<started, MsgReceived, printed, done, refused>>

\* wg.Wait returns in the handler, which calls Done.
Finish(n) ==
  /\ waiting[n] # "no" /\ WaitReturns(n)
  /\ waiting' = [waiting EXCEPT ![n] = "no"]
  /\ done' = done \cup {n}
  /\ UNCHANGED <<started, MsgReceived, Count, TotalCount, printed, sending, net, refused>>

\* Run takes the count from the channel and prints it.
RunPrints ==
  /\ TotalCount # 0
  /\ printed' = TotalCount /\ TotalCount' = 0
  /\ UNCHANGED <<started, MsgReceived, Count, waiting, done, sending, net, refused>>

-----------------------------------------------------------------------------
NodeStep(n) == HandleAnnounce(n) \/ HandleReply(n) \/ Finish(n)

Next ==
  \/ Start
  \/ RunPrints
  \/ \E s \in sending : AddToWaitGroup(s) \/ SendTo(s)
  \/ \E n \in Node : NodeStep(n)

Spec == Init /\ [][Next]_vars

\* Run, goroutines and handlers that can go on do.
FairSpec == Spec /\ WF_vars(Next)
-----------------------------------------------------------------------------
(* Properties                                                              *)

Message == [type : {"Announce", "Reply"}, from : Node, to : Node]

\* Type invariant of the protocol's state.
LocalityTypeOK ==
  /\ started \in BOOLEAN
  /\ MsgReceived \subseteq Node
  /\ Count \in 1 .. Cardinality(Node) /\ TotalCount \in {0, Count} /\ printed \in Nat
  /\ waiting \in [Node -> {"no", "announce", "reply"}]
  /\ done \subseteq MsgReceived
  /\ sending \subseteq [msg : Message, added : BOOLEAN]
  /\ net \subseteq Message /\ refused \subseteq Message

\* The replies that have not been counted, wherever they are.
PendingReplies ==
  {m \in net \cup refused \cup {s.msg : s \in sending} : m.type = "Reply"}

\* The count never runs ahead of the flood: the root, the replies it has
\* counted and the ones on their way are exactly the nodes that were reached.
RepliesAddUp ==
  started => Count + Cardinality(PendingReplies) = Cardinality(MsgReceived)

\* Run prints only when the flood is over: every node has received the message
\* and no reply is waiting, on its way or refused, unless the root is alone.
PrintedMeansReached ==
  printed # 0 /\ Children[Root] # {} => MsgReceived = Node /\ PendingReplies = {}

\* The flood passes only through the root and alive nodes: whoever was reached
\* has a neighbour that was reached before and passed the message on.
ReachedThroughAlive ==
  \A n \in MsgReceived \ {Root} :
    \E q \in MsgReceived \cap (Alive \cup {Root}) : n \in Children[q]

\* The nodes the flood can reach: the root, and neighbours of reachable nodes
\* that pass it on.
Closed(S) ==
  Root \in S /\ \A q \in S \cap (Alive \cup {Root}) : Children[q] \subseteq S
Connected == \A S \in SUBSET Node : Closed(S) => S = Node

\* If alive nodes connect the graph, Run prints, unless an instance has called
\* Done before its goroutines had sent.
PrintsUnlessRefused == Connected => <>(printed # 0 \/ refused # {})

\* The comment in Run: "When running it will print how many of the alive
\* nodes have received the message". That it prints:
WillPrint == Connected => <>(printed # 0)

\* and what the printed number is:
PrintsAliveCount == printed # 0 => printed = Cardinality(MsgReceived \cap Alive)

-----------------------------------------------------------------------------
(* The inductive invariant behind the safety properties                    *)

InFlight == net \cup refused \cup {s.msg : s \in sending}

\* An announcement comes from a node that was reached and passes it on, a reply
\* from a node that was reached, and goes to the root.
FlightInv ==
  \A m \in InFlight :
    /\ started
    /\ m.type = "Announce" =>
         m.from \in MsgReceived \cap (Alive \cup {Root}) /\ m.to \in Children[m.from]
    /\ m.type = "Reply" => m.from \in MsgReceived \ {Root} /\ m.to = Root

\* A reply is in one place.
OneReply ==
  /\ \A m \in net \cap refused : m.type # "Reply"
  /\ \A s \in sending : s.msg.type = "Reply" =>
       /\ s.msg \notin net \cup refused
       /\ \A t \in sending : s.msg = t.msg => s = t

\* The channel is written with the final count, which a root that is alone has
\* from the start and any other root once the roster has answered.
CountInv ==
  /\ started => Root \in MsgReceived
  /\ ~started => MsgReceived = {} /\ Count = 1 /\ TotalCount = 0 /\ printed = 0
  /\ printed \in {0, Count}
  /\ Children[Root] = {} => Count = 1 /\ InFlight = {}
  /\ Children[Root] # {} /\ (TotalCount # 0 \/ printed # 0) => Count = Cardinality(Node)

\* What the protocol keeps from Start to the end of Run.
LocalityInv ==
  /\ LocalityTypeOK /\ RepliesAddUp /\ ReachedThroughAlive
  /\ FlightInv /\ OneReply /\ CountInv
  /\ \A n \in Node : waiting[n] # "no" => n \in MsgReceived
=============================================================================
