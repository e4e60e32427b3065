# A TLA+ model of rmw_cyclonedds_c

`rmw_cyclonedds_c` is a C implementation of the ROS 2 middleware interface
(RMW) on top of Cyclone DDS: nodes, publishers, subscriptions, wait sets, guard
conditions and a bounded copy of the ROS graph. This directory holds TLA+
models of its stateful parts, TLC runs over small instances, and TLAPS proofs.
All the code modelled is in `rmw_cyclonedds_c/src/rmw_cyclonedds_c.c`; line
numbers below refer to that file.

## 1. Inventory

| Part | State | Operations | Correct when |
| --- | --- | --- | --- |
| Local graph (outbound), 578-774 | slots `graph_nodes`, `graph_readers/writers`, `graph_node_owners`, `graph_node_count`; `graph_index` in each node handle; `graph_lock` | add/remove node, add/remove endpoint, each publishing a whole snapshot | handles keep pointing at their own slot, every existing endpoint is listed once, what is published is the table |
| Graph cache (inbound), 214-576 | `cached_participants`, `cached_nodes`, `cached_endpoints`, `graph_cache_lock` | add/remove participant, apply snapshot, upsert/remove endpoint, four listeners | limits hold, snapshots are whole and never go back, the dead are forgotten, every change triggers the graph guard |
| Context, 1179-1315 | `impl`, DDS domain and participant, readers, `shutdown` | `rmw_init`, `rmw_shutdown`, `rmw_context_fini` | nothing leaks whatever fails |
| Nodes, 1317-1404 | handle, names, slot | create, destroy | no leak; not destroyed while endpoints use them |
| Publishers and subscriptions, 1801-2144 | handle, `endpoint_data_t`, DDS topic/entity/condition, graph and cache entries | create, destroy | no leak, no double release, graph entries are backed by entities |
| Wait sets and guard conditions, 1752-1799, 2233-2436 | `attached`, `attached_count`, `triggered` | create, destroy, trigger, wait | no trigger lost, honest outputs, failed calls leave the wait set usable |
| Data path, 865-936, 1976-2000, 2175-2231 | one DDS sample buffer per endpoint, `sample_lock` | publish, take | messages of different threads do not mix, takes are in order, the lock is always released |
| QoS, 938-1017 | none | validate, map | DDS keeps and delivers what the accepted profile promises |
| Graph queries, 1406-1750 | read the cache | node names, counts, topic names and types | answers are exact, output arrays are neither overrun nor left with holes, a settled graph is answered correctly |
| Init options, domain id, 1055-1177 | options copy | init, copy, fini, parse | nothing leaks whatever fails |
| Type support and generator | generated callbacks | convert | out of scope: build-time, stateless |
| `rmw_unsupported.c` | none | stubs | out of scope |

How they interact. A create or destroy function of a publisher or subscription
calls into the DDS library, then into the local graph (under `graph_lock`),
which writes a snapshot to the wire and, still under `graph_lock`, applies it to
the graph cache (under `graph_cache_lock`); then it updates the endpoint's own
cache entry. Four DDS listener threads update the same cache from discovery.
Queries read it under `graph_cache_lock`. Data goes another way: threads that
publish or take convert through the endpoint's one sample under its
`sample_lock`, and `dds_write` may block inside.
Every accepted change triggers the graph guard condition, which wait sets of any
thread may be waiting on.

What is hard: the three locks and five kinds of threads; samples that wait in
readers while the world moves on; operations that fail half way and are rolled
back by hand; fixed-size arrays shared by local and remote entities; entities
destroyed while a wait set remembers them. `PROJECT.json` lists these hazards at
the lines where they bite, with the properties aimed at them.

## 2. Modules

`LocalGraph` models the outbound graph. An operation is two steps: lock, early
returns, change of the table and `dds_write`; then the cache's answer, rollback
and unlock. `dds_write` may fail. The cache is abstracted to the nodes it holds
for this participant and the number of foreign ones; `RemoteNodesChange` lets
the listeners change that number between the two steps. Early returns are the
negations of the guards: they change nothing. The name of a node is its handle,
since no operation compares names. The two counters that shrink and grow, slots
and sequences, keep the code's layout, so that compaction and rollback by
position are the real ones.

`GraphTable` is what that table promises: a set of nodes that own sets of GIDs,
one membership per step. `LocalGraph` implements it (`ImplementsGraphTable`).

`GraphCache` models the inbound graph. DDS is the environment: participants and
endpoints appear and are lost, snapshots are written, each with the sample it
puts into a reader. A listener takes a batch and handles it sample by sample;
each cache operation is one atomic step, because the code does it under
`graph_cache_lock`; the signal after the unlock is a separate step. Local calls
are reduced to what they do to the cache: write then apply; create, upsert, and
on refusal delete; remove then delete; notify. Participants and nodes are sets
(the order of those arrays never matters), endpoints a sequence, because an
entry is found by search and overwritten in place. What Cyclone DDS does is
marked external in the map and modelled from how the listeners use it: built-in
readers keep the last sample of an instance, and a loss arrives as an invalid
sample, or, with `CoalesceLoss`, only as the instance state of a data sample
that was not taken yet.

`WaitSet` models `rmw_wait` as detach, attach, block, collect, with triggers,
takes, destruction and re-creation between any two of them. Subscriptions and
guards form one request sequence in attachment order. As the RMW contract says,
a wait set is used by one thread at a time and nothing is destroyed that a wait
in progress was given. `dds_waitset_wait` itself is assumed not to fail.

`Lifecycle` models creation and destruction as a ledger: tables of acquisitions,
clean-up lists and destruction lists, read off the functions in order. Every
acquisition may fail, groups that the code checks together may fail in part, and
objects interleave step by step. Contexts with their copied init options, nodes,
endpoints, guard conditions and wait sets are rows of the same tables. As the
RMW contract says, a context is finalized after everything made from it.

`GraphQueries` holds the queries as operators over a cache: association of
endpoints with nodes, demangling, counting, and the three passes of
`rmw_get_topic_names_and_types`, next to a reference definition of its answer. A
DDS name is the sequence of the parts that demangling looks at.

`RosGraph` composes the whole way of the graph. A remote participant runs
`GraphTable`, which `LocalGraph` implements, and publishes after each of its
steps; around that it creates and deletes DDS entities in the order of the
create and destroy functions. The samples go through `GraphCache`'s readers and
listeners. The application waits for the graph guard condition, asks one
question, and waits again. A query is several steps with `graph_cache_lock`
held (`CacheIsUnlocked`), and its allocations may fail. The remote participant
is a reliable one: its own cache never refuses, and its first node and endpoints
are there from the start, as when the application starts second.

`DataPath` models messages between one publisher and one subscription, each
used by several threads. A call is: start, lock and `memset`, conversion, write
or take, unlock; an early return unlocks too. Profiles are validated and mapped
to DDS policies, with the depth's width as a constant. DDS in between is
external: keep-last histories, matching, losses of best effort, retained samples,
samples without data, and a `dds_write` that is only sure to return once nothing
written earlier is unacknowledged.

`MCLocalGraph`, `MCGraphCache`, `MCWaitSet`, `MCLifecycle`, `MCRosGraph` and
`MCDataPath` hold model values, bounds and symmetry sets. `Compaction` is the
loop with which the code removes entries from an array in place, as a recursive
function; `GraphCache` uses it, and so does `Lifecycle`, where the clean-up code
skips what is not held. The proofs are in `LocalGraphProofs`,
`LocalGraphEndpoints`, `GraphCacheProofs`, `WaitSetProofs`, `LifecycleProofs`,
`DataPathProofs` and `RosGraphProofs`, and what they share
about sequences in `SequenceLemmas` (section 5). Definitions whose
comment begins with "Mutant" are plausible bugs used to confirm that each
property can fail; no specification uses them.

## 3. Runs

| Run | Configuration | What it shows |
| --- | --- | --- |
| `local_graph` | 2 threads, 3 nodes, 2 slots, 3 GIDs, 2 endpoints per node and kind, cache of 3 nodes, writes may fail, symmetry | the table survives compaction, rollback and failing publications; created endpoints stay visible; it implements `GraphTable` |
| `local_graph_ghost` | same, writes never fail | violated: see finding 1 |
| `graph_cache_limits` | 2 remote participants, 1 of them lost and rediscovered, snapshots that fill the cache or break a limit, 2 participant and 2 node entries | limits, whole snapshots in order, nodes always with their participant, local part untouched |
| `graph_cache_endpoints` | 1 local and 2 remote endpoints, one of which comes back, 2 entries, batch of 2, coalesced losses | limits, one entry per endpoint, no lost wake-up, local part untouched |
| `graph_cache_liveness` | 1 remote participant with 2 snapshots and an endpoint, a local endpoint the cache refuses, fair listeners | the living are cached, dead endpoints are forgotten |
| `graph_cache_ghost_node` | 1 remote participant, 1 snapshot, fair listeners | violated: finding 2 |
| `graph_cache_ghost_endpoint` | 1 remote endpoint, coalesced loss, fair listeners | violated: finding 3 |
| `wait_set` | 2 wait sets of capacity 2, 1 subscription, 2 guards; requests that fit, exceed the capacity, repeat an entity or hold NULL; destruction | no trigger lost, honest outputs, recovery after refused calls |
| `wait_set_destroyed` | 1 wait set, destruction | violated: finding 4 |
| `lifecycle` | context, node, publisher, subscription, guard condition, wait set, two calls at once, all failures | no leak, no double release, graph entries backed |
| `ros_graph` | 1 remote participant, 2 nodes, 4 endpoints of which some exist throughout, coalesced losses, types that repeat and differ on one topic, every kind of query, 1 failing allocation | count and fill passes agree, answers are exact, and whenever things settle the application has the right answer |
| `data_path` | 2 publishing and 2 taking threads, 3 messages, 1 fault, reliable/best-effort, volatile/transient-local and refused profiles | no mixed or repeated message, order, depth guarantees, lock released, data consumed |

Bounds. Three nodes on two slots is the least with which a node is refused, a
node in the middle of a history is removed, another slides into its slot and a
third takes the freed one; two GIDs in one sequence is the least for which a
rollback or removal by position can take the wrong entry. The cache of three
nodes lets foreign nodes refuse a creation. Two entries for three participants
or endpoints make every limit bite. A batch of two separates "taken" from
"handled". Two wait sets are enough to compete for a guard. `MaxSnapshots` and
`MaxAppearances` bound the environment only. Runs of `GraphCache` turn deadlock
checking off: when the environment has used up its bounds and the listeners have
drained their readers, nothing is left to do; the same holds of `RosGraph` and
`DataPath`. Three messages at depth two make a history overflow; `INT32_MAX` is
3 there, so that a depth of 9 wraps to 1. Two calls at once are what
`Lifecycle` needs for one create or destroy to run inside another; with three
the same properties hold on 3.2 million states. `RosGraph` keeps
the remote participant alive, since finding 2 would otherwise reach the answers.
It coalesces losses: the dead endpoints of finding 3 stay cached, and the answers
are right all the same. Two snapshots after the first are enough to
announce an endpoint and retract it, or to add a node and an endpoint on it.

`SettledAnswerIsRight` is an invariant, not a liveness property: it says that no
final state has a wrong answer. That the listeners do drain their readers is
`graph_cache_liveness`'s question.

Fairness. `GraphCache!FairSpec`: each listener (DDS keeps calling a listener
while its reader holds samples), each local call in progress and each pending
signal runs on. `graph_cache_lock` is held for short sections only and never
across a blocking call, so weak fairness of the sections is what a fair thread
scheduler gives. The environment and new local calls have no fairness.
`WaitSet!FairSpec`: a thread inside `rmw_wait` runs on and a wait set with a
triggered entity wakes. No timeout is assumed. `DataPath!FairSpec`: a thread
inside the critical section runs on, except that a `dds_write` behind
unacknowledged samples need not return; DDS delivers in the end (a keep-last
reader always has room); and some thread of the application takes when
`rmw_wait` reports the subscription. A publishing thread that spins for the lock
has no fairness: a spin lock is not fair, and no property says that a particular
one gets it.

## 4. Findings

1. *A refused node is announced.* `graph_publish_locked` (599-602) writes the
   snapshot and then asks the cache. When the cache is full, `graph_add_node`
   rolls the table back but not the wire: the retained sample names a node that
   does not exist until a later operation publishes again.
2. *A dead participant comes back.* `graph_cache_apply_snapshot` adds the
   sender to the cache. When the graph listener handles a snapshot after the
   participant listener handled the loss, the participant and its nodes stay.
3. *A dead endpoint stays.* The endpoint listener tests `valid_data` before the
   instance state (553). A loss that DDS reports on an unread data sample is
   handled as an announcement. This assumes DDS adds no separate invalid sample
   in that case; `CoalesceLoss = FALSE` is the other assumption, under which the
   property holds (`graph_cache_liveness`). No query reports such an entry while
   its participant lives: the participant retracts an endpoint before it deletes
   it, and the queries skip endpoints that no node lists (`ros_graph`, and proved
   in general as `SettledAnswersAreRight`). What it costs is a place in the
   bounded array.
4. *A wait set stops working.* The detach loop (2368-2373) returns on error and
   keeps `attached_count`. Destroying an entity that the previous call attached
   makes every later `rmw_wait` on that wait set fail. `GoodWaitsRecover` shows
   that this is the only way a proper wait fails.

Not findings of a run: a participant that is lost and regained with the same
GUID can lose its nodes to the late handling of its loss (a hazard; no document
promises otherwise). And `rmw_take_with_info` (2224-2227) fills the publisher GID
with the DDS publication handle, while `rmw_get_gid_for_publisher` returns the
endpoint's GUID and `docs/graph-outbound.md` says that publisher GIDs are the
16-byte DDS GUID: the two do not compare equal. This is one assignment and needs
no model.

## 5. Proofs

Every theorem holds for all values of the constants that satisfy the named
assumptions: any numbers of threads, nodes, participants, endpoints, wait sets
and messages, and any positive limits. The runs check the same definitions on
small instances, and each inductive invariant was model-checked before it was
proved.

| Module | Theorem | States |
| --- | --- | --- |
| `LocalGraphProofs` | `TypeCorrect` | `TypeOK`: the count and every `graph_index` stay in range |
| | `MutualExclusion` | `LockProtectsTable` |
| | `HandlesAreStable` | `HandlesOwnTheirSlots`, the bijection of handles and slots |
| | `OnlyCreationRefused` | `OnlyNodeCreationIsRefused` |
| | `PublicationIsCurrent` | `PublishedIsCurrent` |
| `LocalGraphEndpoints` | `EndpointsListedOnce` | `EndpointsAreListedOnce` |
| | `ListedGidsAlwaysExist` | `ListedGidsExist` |
| | `CreatedStaysVisible` | `CreatedIsVisible` |
| | `RemovalAnnouncedFirst` | `RemovalIsAnnouncedFirst` (action property) |
| | `TableIsImplemented` | `ImplementsGraphTable` (refinement) |
| `GraphCacheProofs` | `TypeCorrect` | `TypeOK` |
| | `CacheStaysWithinLimits` | `WithinLimits` |
| | `NodesAlwaysHaveParticipant` | `NodesHaveParticipant` |
| | `EndpointsHaveOneEntry` | `OneEntryPerEndpoint` |
| | `ChangesAreSignalled` | `ChangeIsSignalled` |
| | `LocalPartIsOwn` | `ListenersLeaveLocalPartAlone` (action property) |
| | `SnapshotsAreWhole` | `WholeSnapshots` |
| | `SnapshotsOnlyAdvance` | `SnapshotsAdvance` (action property) |
| `WaitSetProofs` | `TypeCorrect` | `TypeOK` |
| | `AttachmentsAlwaysRecorded` | `AttachmentsAreRecorded` |
| | `TriggersAreNeverLost` | `TriggerIsNotLost` |
| | `OutcomesAreHonest` | `OutcomeIsHonest` |
| | `GoodWaitsAlwaysRecover` | `GoodWaitsRecover` |
| `LifecycleProofs` | `NothingEverLeaks` | `NothingLeaks` |
| | `NothingEverReleasedTwice` | `NothingIsReleasedTwice` |
| | `GraphEntriesAlwaysBacked` | `GraphEntriesAreBacked` |
| `DataPathProofs` | `MessagesArePublishedOnce` | `PublishedExactlyOnce` |
| | `TakesAlwaysOrdered` | `TakesAreOrdered` |
| | `ReliableAlwaysKeepsLast` | `ReliableKeepsLast` |
| `RosGraphProofs` | `FillNeverOverruns` | `FillMatchesCount` |
| | `FinishedAnswersAreExact` | `AnswersAreExact` (action property) |
| | `RosInvAlways` | `RosInv`, the inductive invariant |
| | `SettledAnswersAreRight` | `SettledAnswerIsRight`, end to end |

Assumptions, all in the modules that declare the constants and evaluated by TLC
on every run: limits, batch size and capacity are positive (the build rejects
other values); `NULL` is no handle, endpoint, entity or thread; the kinds of
objects, of threads and of keys are disjoint; functions on constants have their
domains. No set of threads, nodes, endpoints or objects is assumed finite, except
through the limits of the code. `RosGraph` has one more, `TheGraphFits`: the
remote participant's node limit is not above the cache's (8 and 16 by default),
the cache has room for two participants and for all the endpoints there are, and
no name is too long; what happens beyond the limits is `GraphCache`'s subject,
and there a refused entry is missing from the answers by design. Whether DDS
coalesces losses is left open: every theorem holds for both values of
`CoalesceLoss`. That the remote participant stays is part of the model, which has
no action that loses it.

*Local graph.* The bijection of handles and slots is not inductive alone.
`OwnershipInv` adds what a thread between its two steps relies on (`CallKnows`):
the node being added owns the last slot, which is the one the rollback resets; a
call on an endpoint holds one that exists; no two calls hold the same endpoint.
One lemma per action shows that it keeps `OwnershipInv`; the lemma `Compaction`
is the shared fact about sliding the slots down and renumbering their owners.
`PublicationInv` builds on it: the cached nodes of all participants are within
the limit and this participant's share covers every slot, except that of a node
being added, so that no other operation can be refused (`CacheHasRoom`); and the
holder of the lock that wrote, wrote the table as it is now
(`HolderWroteTable`). Slots move, so the invariant about endpoints,
`EndpointInv`, is stated of nodes: the two GID sequences of a node wherever they
are kept. Seen that way compaction changes nothing, an addition appends and a
removal takes out one position; `RollbackInv` says that the position a rollback
drops is the caller's own GID. `VisibilityInv` then follows the GIDs through the
retained sample and the cache. The refinement maps the table to sets of nodes
and owned GIDs; `MappingInv` states that mapping in terms of handles instead of
slots, and one lemma per action shows which step of `GraphTable`, or stutter, it
is.

*Graph cache.* Three layers. `TypeInv` says which samples a reader can hold; a
sample is of the reader of its key. `NextOnCache` then shows that each of the
many steps leaves the cache alone or is one of five operations, by a listener for
somebody else's entries or by the local call for its own, so that `CacheInv`
(limits, nodes with their participants, one entry per endpoint, the wake-up) is
proved once per operation. `OrderInv` relates the snapshots that wait in the
graph reader and in the listener's batch to the cached one: batch before reader,
they are genuine and in the order written, and none is older than what is cached.

*Wait sets.* `IInv` ties the four views of a wait set together: what DDS has
attached, what `data->attached` records, the request of the call in progress and
the list it will report. The hard case is the detach loop that stops in the
middle: recorded and attached entities then differ, but only when something
recorded was destroyed, which is what `GoodWaitsRecover` needs.

*Lifecycle.* `TableOK` states what a create function, its clean-up code and its
destroy function must have in common: the clean-up releases whatever any step
but the last acquires, by itself or with a parent acquired earlier; the destroy
function releases what a live object has and nothing else; nothing is released
after its parent, and graph entries go before what backs them. It is proved of
the six tables by cases; everything else is proved from `TableOK` alone, so a new
resource needs only its table checked again. `LifeInv` says that an object being
created holds exactly what its steps so far acquired, that an object being
released holds exactly what its remaining list covers, and that no object
outlives its parent.

*Data path.* `DataInv` is the conjunction of types, mutual exclusion through
`sample_lock`, an account of every message accepted (refused, written once, or in
the hands of exactly one thread), histories in written order, and for each taken
message its place in that order. `ReliableKeepsLast` is inductive with these: `LastOfKeeps` is
the fact about keep-last histories that each delivery needs.

*From the remote participant to the answer.* Every step of `RosGraph` is a step
of `GraphCache` or leaves it alone (`RosStep`), so the invariants of the graph
cache carry over. `RemoteInv` adds the remote table and what each snapshot
lists. `QueryInv` says that a query between two passes has the topics, types and
counts of the cache as it still is: listeners change the cache only while
`CacheIsUnlocked`. With what the passes compute (`DistinctCollects`,
`FillCounts`, `FinishedAnswer`: an induction over the array) this gives the
first two theorems. For the third, `SeenInv` says that the application's last
answer is of the cache as it is, or a change waits to be looked at; `NodesInv`,
that the cached nodes are the last announcement or that announcement is the last
sample on its way; `EndpointsInv`, that an endpoint that exists is announced by
the last waiting sample about it, or else cached; `ListedInv`, that the last
announcement lists only endpoints that exist, because the remote participant
creates an endpoint before it announces it and retracts it before it deletes it.
Nothing is said of the cache entry of a dead endpoint: when its loss was
coalesced with its announcement it stays. `EndpointsInv` is the delicate one: news
of an endpoint replaces what its reader still holds of it (`WithoutFollows`), a
loss marks the samples that wait, and may be no more than that (`LossInQueues`),
a batch already taken is
handled later than news that followed it, and each sample handled has to find its
room in the cache (`RoomForEndpoint`). When things settle nothing waits, so the
cache has the nodes of the last announcement; the endpoints these list exist, so
they are cached. Cache and reality may differ in the order of the endpoints and
in endpoints that no node lists; `SameCounts` and `SameTopics` show that no
answer depends on either. `RosInv` was
model-checked on the instance of `ros_graph` before it was proved.

*Sequences.* What the compaction loop computes is an induction over an array of
any length. The library's induction theorems take an operator as a parameter,
which the provers cannot instantiate; `SequenceLemmas` proves induction in the
form of a set that holds 0 and each successor up to a bound (`UpTo`, from the
least element of a set of naturals), and derives with it what `Kept` returns turn
by turn (`Selects`), that compaction keeps order, drops exactly what it should,
commutes with append and with itself.

Only model-checked:

- `LiveParticipantsAreCached`, `DeadEndpointsAreForgotten`, `TriggerEndsAWait`,
  `SampleLockIsReleased` and `DataIsConsumed`: liveness under fairness is out of
  reach of the prover.
- The four violations of section 4.

## 6. Plan

Order: what can corrupt or lose state first, then what only reads it.

1. Done: local graph, graph cache, wait sets, lifecycle of every object, graph
   queries and their composition with discovery, data path and QoS.
2. Done: proofs of every invariant and action property that the passing runs
   check, and of the refinement of `GraphTable`.
3. Left: the liveness properties, which need a prover for fairness; and a run of
   its own for a participant that is lost and regained with the same GUID.

Not modelled and not planned: type support conversion and its generator
(stateless, generated), the unsupported stubs, argument checks that return before
any state is touched, the fields of the message info, the type hash in the user
data, `rmw_compare_gids_equal`, logging and error strings, the tests, scripts and
container. The conversion of a wait's timeout to nanoseconds is a library call
that saturates; `WaitSet` lets a wait time out at any moment or never. That
`LocalGraph`'s cache of foreign nodes is the real `GraphCache` under nested locks
is not composed: `LocalGraph` lets the listeners change it at any moment between
its two steps, which includes everything they can do.
