# A verification of the Nyle block chain simulation

TLA+ specifications of the repository's protocols and algorithms, TLC runs that
check them on small instances, and TLAPS proofs for all instances. Line numbers
are those of the source at the commit the models were written from;
`PROJECT.json` maps every definition to its lines.

## 1. The system

A set of *conodes* (servers of the onet framework) simulates a block chain in
which a transaction costs time proportional to the distance between its parties.

| part | state it keeps | operations | talks to |
|---|---|---|---|
| `gentree` (`gentree.go`, `Save.go`) | per node: level, `PDist`, `ADist`, bunch, cluster, rings; per pair: `ClusterBunchDistances` | `CreateLocalityGraph`, `AproximateDistanceOracle`, `OptimizeGraph`, `GenerateRings`, `CreateOnetRings` | called by both services, sequentially |
| Nyle service (`nyle/cosi_service/service.go`) | trees, `CosiWg` (wait groups by request) | `Setup`, `BFTCoSiSimul`, requests to the bunch, replies, loop over the rings with a timer | clients; other conodes by `StartBFTCosiReq` / `ReplyBFTCosiReq`; BFTCoSi instances through a channel |
| BFTCoSi (`nyle/cosi_service/bftcosi.go`, `packets.go`) | per instance: parent, dynamic children, counters, commitments, responses, refusals | `Start`, `Dispatch` and its handlers, `readCommitChan`, `readResponseChan` | the instances of a ring, over the locality graph, through `DelayedSend` |
| Locality multicast (`tree_experiment/service`) | `MsgReceived`, `Count`, `TotalCount`, a wait group | `Start`, `HandleAnnounce`, `HandleReply`, `Run` | the instances of a tree, through `DelayedSend` |
| Simplechain (`nyle/simplechain`) | transactions by hash, votes by ring and hash | `StoreTx`, `StoreVote`, `GetTx`, `GetVote` | nobody (`AddTx` of the service starts nothing) |
| drivers, clients, plots | none that the protocols read | experiment set-up | the services |

A client sends `BFTCoSiSimul` to a conode. That node runs BFTCoSi on all its
rings and asks every node of its bunch to run it on the rings they share. A run
floods an announcement over the ring's locality graph, which builds a spanning
tree on the way, and then makes two collective signatures (prepare, commit) on
that tree.

What is hard in it:

* *Concurrency.* Every message sleeps in a goroutine of its own and overtakes
  others; one instance runs several goroutines over the same fields, some
  without a lock; one service handles several requests.
* *Ordering.* The tree is decided by races between announcements; the prepare
  and the commit round share channels; `Done` may come before the last send.
* *Failure.* A timer in a read loop panics; a goroutine's panic ends the whole
  process; a ring may never finish.
* *Counting.* Loops end when a counter equals a number exactly: one answer too
  many or too few and the round hangs.

What makes the parts correct:

* announcement: answers add up, the parents form a tree that spans the ring, the
  root is last, nothing is left in flight for the next phase;
* signing: a released signature stands for the whole ring, and nobody answers a
  challenge before everybody has committed (or confirmed);
* service: a reply without error means that all rings are done, the wait group
  counts what is missing, a call ends unless a process dies;
* multicast: replies are counted once, and nothing is printed before the flood is
  over;
* oracle: it always finds a common bunch node, and its answer is within a
  constant factor of the distance;
* optimisation: what is taken out of the graph leaves it connected, keeps the
  nearest nodes and leaves no wrong distance behind;
* graph of the multicast: it reaches the whole roster, and neighbours agree that
  they are neighbours;
* rings: every tree spans its ring, rings are nested, and the second tree of a
  ring survives the failures that the first does not.

## 2. The modules

```
SpanningTree  <--implements--  DynamicTree  <--extends--  BFTCoSi  --implements-->  CollectiveSigning
                                    |                        |
                          DynamicTree_proofs            BFTCoSi_proofs
NyleService   --  NyleService_proofs          (a BFTCoSi run is one step of it)
LocalityPres  --  LocalityPres_proofs         (any symmetric graph)
LocalityGraph <--extends--  DistanceOracle  --  DistanceOracle_proofs
      |       <--extends--  RingTrees       --  RingTrees_proofs
      |       <--extends--  OptimizeGraph  <--extends--  LocalityTree  --  LocalityTree_proofs
LocalityGraph_proofs                          (lemmas that all three use)
```

Operators named `...Silent`, `...Early`, `...OffByOne` and so on, introduced by a
comment that starts with "Mutant", are wrong variants of the definition that
follows them. No specification uses them; they show that a property can fail.

### DynamicTree: the announcement phase

State: `seen` is the set of nodes with the announcement in `ReceivedMessages`;
`Parent`, `nrPrepareCommit`, `dynamicChildren` are the fields of that name;
`ready` stands for the token of `readCommitChan` or a leaf's closed channel;
`prepared` for having returned from `handleCommitmentPrepare`; `msgs` for what
`DelayedSend` has accepted and nobody has read. Messages are a set, because each
sleeps in its own goroutine; no node sends the same message twice.

| action | code |
|---|---|
| `RootAnnounce`, `ReadAnnounce` | `readAnnouncement` for a message `isLoopAndSet` has not seen |
| `ReadAnnounceAgain` | the same for one it has seen: the `LoopBreak` answer |
| `ReadLoopBreak`, `ReadRoundPrepare` | the goroutines of `readCommitChan`, with `updateCommitPrepAndCompare` under its mutex |
| `FinishPrepare` | the rest of `handleCommitmentPrepare` |

`SpanningTree` is what the phase promises: a tree that grows along edges, in
which nobody moves, and that is declared complete only when it spans the ring.

### BFTCoSi: all of Dispatch

It extends DynamicTree by the main thread's position `pc`, the second goroutine
of `handleAnnouncementCommit`, one goroutine per commitment read, and the lists
of commitments and responses. Points and scalars are abstracted to the set of
nodes that have contributed to them: a signature verifies exactly if both halves
stand for the whole roster. `tempCommitCommit` is appended to without a lock, so
reading the slice (`ReadRoundCommit`) and storing the longer one
(`AppendRoundCommit`) are separate steps. Timeouts (`Timeout`) and panics stop an
instance; `Refuser` is the set of nodes whose verification function *may* say no
(`Verified`); it is asked once, before the prepare response. A refusal is
a panic of the node in `waitResponseVerification` (`VerificationPanic`), so the
exception lists that the messages carry stay empty, and `allowedExceptions`
(`bftcosi.go` 73, "how much exception is allowed in the signature") is never
reached: a ring with a refusing node ends without a signature.
`CollectiveSigning` is what a round promises to its caller.

The last response of a node below the root is sent by a goroutine that sleeps
first and that nobody waits for (`DelayedSendToParent`, line 1039), while Dispatch
returns and the deferred `Done` (line 250) closes the instance. As in LocalityPres
the message is then sent or refused, which onet decides (`HandleResponseCommit`);
`LostResponse` tells that it was refused. No other delayed message can be asleep
when its sender calls `Done`: the prepare response is sent directly, and all
earlier ones have been read by then, because a node ends only after the root has
started the commit challenge.

### NyleService: from a request to its reply

A piece of work `<<c, m>>` is what node `m` does for call `c`. The actions are
`Setup`, `BFTCoSiSimul`, `Register`, `Return`, `SendReqToBunch`,
`RecvCosiReqFromNode`, `StartCosi`, `RingDone`, `Collect`, `TimeOut`, `OwnDone`,
`SendReply`, `RecvProtoRespFromBunchNode`, and `ConcurrentMapAccess` for the
runtime's reaction to two goroutines on the unprotected map `CosiWg`. A run of
BFTCoSi is one step that may never come. A panic in a goroutine ends the process
of the node (`crashed`); a panic in a websocket request ends the request.

* The trees of a node are a parameter. `genTrees` computes them, but the block
  that stores them is commented out at this commit; taken literally every bunch
  node would ignore every request and no call would return.
* Requests to one conode have different identifiers, as in the driver
  (`nyle/simulation/service.go`, 166-225), and each conode gets one `Setup`. A
  call may come before it.
* The bandwidth statistics are left out.

### LocalityPres: the flooding multicast

One instance on one tree, with the service's `Run` waiting for the count.
`sending` holds the goroutines of `DelayedSend`; `added` tells whether one has
run far enough to be in the wait group, since `wg.Add` is called inside the
goroutine. After `Done`, `SendTo` may send or may be refused: which, onet
decides, so both are possible. `Alive` is the field the tests set
(`localityservice_test.go` 199 and 229).

### LocalityGraph and DistanceOracle: the locality graph and its oracle

In LocalityGraph `PDist`, `ADist`, `Bunch`, `Cluster` and
`ClusterBunchDistances` are operators on the levels and the distances, because
`CreateLocalityGraph` is a function of
them. The state machine of DistanceOracle is the loop of `approxDistance`, one action per turn:
`Found` and `Advance`. Ties go to the first node in `all.All`, as in the scan of
the code. A behaviour answers one pair; the oracle's double loop over the pairs
writes nothing that another pair reads. Distances are natural numbers and satisfy
the triangle inequality: rounding of `float64` is not modelled. The graph is the
one before `OptimizeGraph` (the ring service has `OPTIMIZED = false`).

### OptimizeGraph: taking links out of the graph

`RemoveLinks` treats the nodes one after the other; the state is what it keeps
(`OptimalBunch`, `OptimalCluster`, the distances `cbd`, `Links`, the bridges it
knows) and its position. `StartNode` begins a node's turn, `RemoveFromCluster` and
`NextClusterPriority` are the cluster loop, `BunchStep` and `BunchAgain` the bunch
loop, `StartUpdate`, `VisitNext` and `EndUpdate` are `UpdateDistance`. Each
removal computes the bridges again. `GetBridges` is the set of all results that
the depth-first search can have, since Go ranges over a map in any order; a
bridge is recognised by its definition in place of `tin` and `fup`, and the map
of bridges is emptied by every recursive call, as in the code. `OptType` is
chosen at the start. `Links` is the table of detours that `CreateAndSetChildren`
can build paths from.

### LocalityTree: the graph the multicast runs on

FTtest of the tree experiment optimises the graph, or not (`Optimized`), and
`CreateOnetLPTree` walks over what is left. `LocalityTree` composes the two: the
steps of `OptimizeGraph` come first, then `ProcessRoot`, `ProcessChild` and
`ProcessNext` call `CreateAndSetChildren` for one node each, and `EndRange` is
the test of `nrProcessedNodes`. The inner loop ranges over a map to which it
adds, so whether a new entry is visited in the same range is open
(`ProcessNext`). The detours over `Links` are not followed: FTtest has a filter
that admits every node, and every neighbour is reached over its own link.
`NeighborsAgree` is the assumption under which `LocalityPres` and `DynamicTree`
take a symmetric graph.

### RingTrees: the rings of one root

`CreateOnetRings` for one root, on the graph that is not optimised (the service
has `OPTIMIZED = false`). `Init` computes what the calls before it leave: the
bunches, the oracle's answers (`ApproxDistance`) and the neighbours in the graph
rooted at `HighRoot`. `tree` is the first tree of the radius before, `copy` the
maps that the current call of `dijkstra` works on.

| action | code |
|---|---|
| `VisitNearest`, `VisitRootAgain` | a turn of `dijkstra`: the nearest node that is not visited, and its neighbours; the root is visited again in every call |
| `AcceptFirst`, `CallRelaxed`, `TryFirstAgain` | the ways out of the first tree's loop: copied back, called again in relaxed mode on what the failed call has left, repeated |
| `StartSecond`, `PickAgain` | the random draw of the second tree's root |
| `AcceptSecond`, `GiveUpSecond`, `TrySecondAgain` | the ways out of the second tree's loop |

The order of a range over a map is a choice: between nodes of equal distance, and
between neighbours when a node has not room for all. `getRingIDFromDistance` and
the ring names of `GenerateRings` are left out: nothing of the trees depends on
them.

## 3. The runs

| run | instance | what it shows |
|---|---|---|
| `tree` | 5 nodes: two triangles on an edge and a tail | the inductive invariant `Inv` and its parts; `RootIsLast`; the refinement of `SpanningTree`; the root gets there (`EventuallyPrepared`) |
| `bft` | the same graph, timeouts and refused last responses anywhere, one node that may refuse to sign | `SignatureCoversRing`, `RoundsDoNotMix`, `DoneIsFinal`, `ChecksNeverFail`, the inductive `RoundInv`, the refinement of `CollectiveSigning`; a round ends with a signature unless an instance panics, an append is lost or a last response is refused (`EventuallySigned`); whatever happens, the root ends (`RootEnds`) |
| `bft_race` | complete graph on 4 nodes, no timeouts | *violation*: `ReadsUntilAllReceived` |
| `service` | 2 conodes, 2 calls at one of them, 2 rings each | `SuccessMeansAllRings`, `WaitGroupCounts`, `DoneNeverPanics`, the inductive `ServiceInv`, `EveryCallEnds` |
| `locality` | a diamond with a dead node | `RepliesAddUp`, `PrintedMeansReached`, `ReachedThroughAlive`, the inductive `LocalityInv`, `PrintsUnlessRefused` |
| `locality_print` | the same | *violation*: `WillPrint` |
| `locality_alive` | the same | *violation*: `PrintsAliveCount` |
| `oracle` | 4 nodes on a line or a rectangle, all levels, all pairs | `LoopInv`, `NeverGetsHere`, `StretchBound` |
| `optimize` | 5 nodes on a line in two orders, all levels, at most 2 links, both values of `OptType`, then the walk, with and without optimisation | `NearestKept`, `DistancesSound`, `BunchBound` of the optimised graph; `WalkReaches`, `NeighborsAgree` of the walk over it; the inductive `TreeInv` |
| `optimize_distances` | the same, `OptType` 1 | *violation*: `NoBadDistances` |
| `optimize_bridges` | the same | *violation*: `StaysConnected` |
| `rings` | 5 nodes in the plane, placed in two ways, all levels, all roots, 3 radii, at most 2 children | `AlwaysATree`, `OneFailureTolerated`, `RingsNested`, the inductive `RingInv`, and the loops end (`RingsBuilt`) |

The type invariants are conjuncts of the inductive invariants and are checked with
them.

The five violations are the findings of `PROJECT.json`:

* `bft_race`: two goroutines of `readCommitChan` append to `tempCommitCommit`
  at once, one commitment is lost, and the loop that should end when all are
  received waits for its timer and panics.
* `locality_print`: `wg.Add` inside the goroutine lets `Wait` return early; the
  instance may be closed before it has sent, and `Run` never prints.
* `locality_alive`: the comment at `localityservice.go` 270 says that the number
  printed is how many of the alive nodes have received the message. A dead node
  answers as well and the root waits for the whole roster, so the number is the
  size of the roster: with one of four nodes dead, 4 is printed.
* `optimize_distances`: `UpdateDistance` counts the node itself among the known
  distances and skips its work when exactly one link was removed; a distance the
  oracle reads is then still `MaxFloat64`.
* `optimize_bridges`: every call of `recursive` empties the map of bridges that
  all calls share, so `GetBridges` forgets bridges of other branches although its
  comment (`Save.go` 383) says that it returns all of them; `RemoveLinks` then
  removes one and cuts the graph in two.

Other things one would like to say and cannot; the models show why, and no run is
about them:

* that every call returns: a bunch node that finds the sender in none of its rings,
  for instance before its `Setup`, does not answer, and the call waits for ever
  (the escape clause of `EveryCallEnds`);
* that `UpdateDistance` finds a next node: after a cut, and sometimes in a
  connected graph, it logs `nil!` and dereferences the nil pointer;
* that `max` bounds the bunches also with `OptType` 1, which the tests use (the
  comment at `gentree.go` 600 has no exception; `BunchBound` is about `OptType` 2):
  a neighbour in both cluster and bunch is counted once, and leaving the cluster is
  subtracted although it stays in the bunch;
* that `RemoveLinks` ends: when every link left is to a nearest node, is a bridge,
  or is in the cluster only, the bunch loop repeats for ever (`BunchAgain`);
* that the walk of `CreateOnetLPTree` reaches an optimised graph of any diameter:
  its count of processed nodes counts repetitions, so only three links from the
  root are certain (`WalkReaches`); and that neighbours agree on an optimised graph:
  a node further away may be met and not processed, and then lists no neighbours
  (`NeighborsAgree` is about the graph that is not optimised);
* that `CreateOnetRings` ends whatever the levels: the graph is the one that
  `node_19` sees, and if that node is not of the highest level (the code has a
  TODO there), or does not have every node within its largest radius, the graph
  may lack nodes of a ring, which no attempt at a first tree then reaches
  (`GraphComplete`);
* that it ends when a node has more links than it may have children: one that is
  linked to full nodes only is left out by every attempt, the relaxed ones
  included (`RoomForAll`);
* that a ring never moves a node of the smaller one: the last visit of the root in
  a call of `dijkstra` takes nodes that are themselves not visited any more, and the
  next radius may give such a leaf another parent (`Settled`);
* that every ring has two trees: the second one may be given up.

**Bounds.** The two counters of attempts in RingTrees stop one above the last
number they are compared with (`Bump`), the mutants aside; no other counter needs
a cap, and the instances are small graphs. The graph of `tree` and `bft` has crossing
announcements (b-c), a node with two possible parents (d), a leaf in the graph
(e) and, depending on the order, leaves of the dynamic tree that are none of the
graph. The complete graph on four nodes gives one node up to three children, of
which two lose an append. Two calls at one node are the least that can meet in
`CosiWg`. In the diamond with c dead, d still hears from b. The oracle needs four
nodes for a pair whose loop goes to the last level; places may coincide, levels
may be empty. RemoveLinks needs nodes with more than two links, two of them
in one another's bunch, and a node that hangs on one link; five nodes on a line
have all of these. `MaxFloat` is larger than any sum of distances.
In `rings` the limits are as small as they can be and still bind: with two
children per node some trees need depth three, so that the strict mode fails,
`CallRelaxed` succeeds on a half-built tree, second trees fail, start in relaxed
mode and are given up; with one placement a leaf below the root moves at the next
radius; there are first trees that never succeed, and rings of four nodes with
room for all, in which `RingsBuilt` says that they do. The numbers 10 and 20 of the code only repeat the same
attempts.

**Fairness.** DynamicTree and BFTCoSi: weak fairness of the steps of each node
(goroutines run, a message sleeps for a finite distance); timers and refusals owe
nothing. A last response that was refused is not delivered by any fairness. In
`RootEnds` alone the timers of the root are assumed to expire, as the premise of
the property: they are plain `time.After` channels. NyleService: weak fairness of
each call and each piece of work (the timer of the loop over the rings included:
it does expire); `RingDone`, `Setup` and crashes
owe nothing, so a ring may hang for ever. LocalityPres: weak fairness of `Next`;
all behaviours are finite, so this says that the system stops only when nothing
is left to do. RingTrees is a sequential program: weak fairness of `Next` says
that it runs. A draw of a root that does not fit is repeated (`PickAgain`); the
model allows that only until the counter has passed its last bound, which is the
assumption that a random draw does not miss for ever.

**Deadlock** is not checked: all these systems stop when they are through, or when
a process has died. That they do not stop too early is what the liveness
properties say.

## 4. The proofs

TLAPS checks every theorem for every instance that satisfies the named
assumptions of the module.

**DynamicTree_proofs** (every finite, connected, undirected graph). `Inv` is
inductive. `AnswersAddUp` alone is not: that a count is right after an
announcement is read needs to know what the two ends of every message look like
(`MsgInv`) and what follows from how far a node has got (`PhaseInv`).
`RootIsLastThm`: suppose the root is prepared and some seen nodes are not. By
`NoCycle` one of these has its parent outside the set; the parent is prepared and
yet still owed an answer, against `AnswersAddUp`. So all seen nodes are prepared;
by connectedness an unseen one would have an announcement in flight from a
prepared node, so there is none. `NoLateAnswerThm`, `TreeAgreementThm` and the refinement of `SpanningTree`
(`Refinement`) follow from the same invariant.

**BFTCoSi_proofs**. Every step of Dispatch is a step of DynamicTree or leaves its
variables alone (`ImplementsTree`), so the theorems above hold through a whole
round with lost appends, timeouts, refusals and refused sends
(`RootIsLastInRound`).

`RoundInv` is inductive (`RoundInvariance`). Before the root is prepared nothing
of the later phases has happened beyond nodes that wait (`QuietInv`); when it is,
`RootIsLast` says that the tree spans the ring and does not change any more, and
`LaterInv` takes over. Each of its parts is about one phase. The second
announcement and the challenges go down the tree: a node is past a phase only if
its parent is (`DownTheTree`: what holds at a node holds at the root, by
`NoCycle`). Commitments and responses come up: a list at a node holds nothing but
the current aggregates of its children, so it is complete exactly if it has as many
entries as there are children (`CompleteList`, by cardinality), and what is in a
complete list is closed under children, hence contains the subtree (`UpTheTree`).
The unguarded append is why `AppendInv` speaks of every goroutine's slice: an
append may lose an entry, but only of an incomplete list. `SignatureCoversRingThm`,
`RoundsDoNotMixThm`, `DoneIsFinalThm` and `ChecksNeverFailThm` follow, and
`SigningRefinementThm`: every step of Dispatch is a step of `CollectiveSigning`
under the mapping of BFTCoSi, or a stutter. Nothing is assumed beyond the
connected graph of DynamicTree; `Refuser` and `MayTimeout` are arbitrary.

**LocalityPres_proofs** (every finite symmetric graph, any set of dead nodes).
`LocalityInv` is inductive: each reached node other than the root has one reply,
and it is in one place, waiting in its goroutine, on its way, refused or counted.
The count is therefore the size of a set of nodes, and equals the size of the
roster only if that set is the roster and no reply is missing
(`PrintedMeansReachedThm`).
`ReachedThroughAliveThm` and `RepliesAddUpThm` are parts of the same invariant.

**NyleService_proofs** (any finite set of conodes, any bunches, rings and calls
with different identifiers at a node). `ServiceInv` is inductive: the counter of
a wait group equals the number of outstanding parts, which needs that a request or
reply is in one place at a time (`WorkInv`) and that the wait group is found under
the identifier of its call (`RegistrationInv`). `WaitGroupCountsThm`,
`DoneNeverPanicsThm` and `SuccessMeansAllRingsThm` follow.

**DistanceOracle_proofs** (any set of nodes, any number of levels from two up, any
levels and any metric). `LoopInv`: the candidate w is of level i or above, as near to U
as any of them, is not V, and is at most i times the asked distance away. A turn
without success means that w is further from V than V's nearest node of level
i+1 (`NearIsInBunch`), which bounds the next candidate by the triangle inequality
and shows that it exists; it cannot be U, for then w would be at distance zero
from U and in V's bunch. On the last level every node is in every bunch, so the
loop ends there at the latest: `NeverGetsHereThm`, and `StretchBoundThm` with the
factor 2K-1. With one level every bunch is empty and the theorem fails, which is
why `K >= 2` is assumed.

The step from one candidate to the next and the facts about `PDist`, `ADist` and
`Bunch` are in **LocalityGraph_proofs**, because the proofs of RingTrees and
LocalityTree need them too.

**RingTrees_proofs** (any finite set of nodes, any metric, levels, root and
`HighRoot`; radii that grow, and distances of which three stay below `Unreached`,
the code's `math.MaxFloat64`). `RingInv` is inductive. A tree stays
one because only nodes that are not visited move, only visited nodes have
children, and the root is visited first (`GoodTree`). That the distances are
numbers at all rests on the oracle: `OracleFinds` repeats the argument of
DistanceOracle for the candidate of a given turn, by the least counterexample
(`LeastNat`) in place of an induction. `OneFailureToleratedThm`: the second call
never visits an inner node of the first tree, so what is inner in the second is a
leaf in the first. `RingsNestedThm`: what a call leaves unvisited was taken by the
last visit of the root and is a leaf right below it; all else is visited and stays.
The attempt to prove that *no* node of a ring moves failed at this point, and TLC
then found the leaf that does; `RingsBuilt` lost its too general form in the same way.

**LocalityTree_proofs** (any finite set of nodes, any number of levels from two up,
any levels, metric, root and bound from two up, both values of `OptType`). Which
bridges `GetBridges` finds plays no part in any of these theorems, so its
depth-first search is never expanded. Every step of RemoveLinks leaves the links
alone or removes one (`OneLinkAtMost`), and then not one to a nearest node:
`NearestKeptThm`. A detour is as long as two entries that are each no shorter than
the distance, so by the triangle inequality it is none too short:
`DistancesSoundThm`. A bunch is made small in its own node's turn, in which
`nredges` counts it exactly, and grows in nobody's (`BunchInv`): `BunchBoundThm`.
For the walk, the count of processed nodes after the children of the root is one
more than their number, which is at most the size of the roster, so a further
range follows and processes all their children (`WalkInv`): `WalkReachesThm`. On
the graph that is not optimised a node of the highest level there is belongs to
every bunch (`Hub`), so two links from the root is everybody: `NeighborsAgreeThm`,
which is the symmetric graph that LocalityPres and DynamicTree assume.

**Only model-checked.** Liveness (`EventuallyPrepared`, `EventuallySigned`, `RootEnds`,
`EveryCallEnds`, `PrintsUnlessRefused`, `RingsBuilt`), which is beyond this prover.
Every other property that a passing run checks is a theorem. The five violations
are counterexamples, for which an instance is enough.

## 5. What is not modelled

* Simplechain: a locked map of transactions and one of votes. No code of the
  repository calls it, so there is no protocol around it whose steps could
  interleave. (`GetVote` and `StoreVote` index `votes` with a ring number that
  may equal its length, `database.go` 44 and 70.)
* The simulation drivers: they read files, fill name tables and measure. What
  the services depend on is used: how requests are numbered, and that a conode
  gets at most one `InitRequest`. The part of `Run` that starts the versatile
  simulation is commented out.
* `genTrees` beyond `CreateOnetRings`: the block that would store the trees is
  commented out, the rest prints. The sage output and the ring names of
  `GenerateRings` are text that nothing reads back; `getRingIDFromDistance`
  returns the last ring for every distance, since the list of radii is
  overwritten (`gentree.go` 342).
* Shutdown of a BFTCoSi instance by onet in the middle of a round, a second
  `Setup`, equal request identifiers, statistics, plots.
* The multicast stub of `nyle/cosi_service/protocol.go` and the client APIs, which keep no state.
* `MultipleRadiusesTreesTest` of `tree_experiment/service`: it calls
  `CreateOnetRings` with three arguments and three results (`localityservice.go`
  216), while `gentree` has four and two at this commit (`gentree.go` 1250), so that
  the package does not compile as it stands. LocalityPres models its protocol on
  any symmetric graph, LocalityTree the graph that `FTtest` would build.
* A parent in the ring's graph that is not among a node's children, for which
  `updateCommitPrepAndCompare` would wait for one more answer (`bftcosi.go`
  1057-1069): the graphs are symmetric.
* onet itself: channels, delivery and `Done` are modelled from their use.

## 6. Plan

1. *Done*: the announcement phase, Dispatch, the service, the multicast, the
   oracle, the optimisation of its graph, the walk that makes the multicast's
   graph, and the ring trees, with the proofs above.
2. *Done*: all safety properties and both refinements as theorems.
3. Next: what a larger radius keeps of the second trees of RingTrees, and which
   links RemoveLinks certainly keeps besides the nearest ones (that `GetBridges`
   knows the bridges at the root would give a weaker form of `StaysConnected`).
