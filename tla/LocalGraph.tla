----------------------------- MODULE LocalGraph -----------------------------
(***************************************************************************)
(* The outbound half of the ROS graph: the fixed-size table of local nodes *)
(* and endpoint GIDs that rmw_context_impl_s keeps, the four operations    *)
(* that change it under graph_lock, and the participant snapshot each of   *)
(* them publishes.                                                         *)
(*                                                                         *)
(* An operation is two steps.  The first takes graph_lock, passes the      *)
(* early returns, changes the table and calls dds_write; the second is the *)
(* rest of graph_publish_locked (graph_cache_apply_snapshot, which takes   *)
(* graph_cache_lock and so interleaves with the discovery listeners), the  *)
(* rollback and the unlock.  An early return changes nothing: it is the    *)
(* negation of the first step's guard.                                     *)
(*                                                                         *)
(* The graph cache is abstracted to what decides whether it accepts the    *)
(* snapshot: the nodes it holds for this participant and the number it     *)
(* holds for all others.  Its own module is GraphCache.                    *)
(***************************************************************************)
EXTENDS Naturals, Sequences, SequencesExt

CONSTANTS
    Threads,                        \* application threads
    Nodes,                          \* node_data_t handles; also the node's name
    Guids,                          \* DDS GUIDs of local writers and readers
    NULL,
    GRAPH_MAX_NODES,
    GRAPH_MAX_ENDPOINTS_PER_NODE,
    GRAPH_CACHE_MAX_NODES,
    WriteMayFail                    \* whether dds_write can return an error

\* The CMake build rejects limits that are not positive integers.
ASSUME LimitsArePositive ==
    /\ GRAPH_MAX_NODES \in Nat \ {0}
    /\ GRAPH_MAX_ENDPOINTS_PER_NODE \in Nat \ {0}
    /\ GRAPH_CACHE_MAX_NODES \in Nat \ {0}

ASSUME NullIsNoHandle == NULL \notin Threads \cup Nodes \cup Guids

ASSUME WriteMayFailIsBoolean == WriteMayFail \in BOOLEAN

VARIABLES
    graph_lock,         \* the thread inside lock_graph .. unlock_graph, or NULL
    graph_nodes,        \* slot -> node name
    graph_gids,         \* slot -> kind -> graph_readers / graph_writers
    graph_node_owners,  \* slot -> node_data_t *
    graph_node_count,
    node_context,       \* node -> node->context == context
    graph_index,        \* node -> node->graph_index
    endpoint,           \* guid -> the endpoint_data_t that owns it, or NULL
    announced,          \* the sample the transient-local graph writer retains
    cached_self,        \* this participant's nodes in the graph cache
    cached_foreign,     \* number of cached nodes of other participants
    published,          \* what the last graph_publish_locked returned
    op                  \* thread -> the call it is executing

table == <<graph_nodes, graph_gids, graph_node_owners, graph_node_count,
           node_context, graph_index>>
vars == <<table, graph_lock, endpoint, announced, cached_self, cached_foreign,
          published, op>>

-----------------------------------------------------------------------------
Slots == 0 .. GRAPH_MAX_NODES - 1
Kinds == {"reader", "writer"}

\* The DDS entity behind a GID: the node it was created on and its kind.
Endpoint == [node : Nodes, kind : Kinds]

ASSUME NullIsNoEndpoint == NULL \notin Endpoint

NoGids == [kind \in Kinds |-> <<>>]

GraphNode == [name : Nodes, gids : [Kinds -> Seq(Guids)]]

\* A call in progress.  It holds graph_lock exactly while pc names one of the
\* four graph_* operations; the two other phases are rmw_create_publisher's
\* and rmw_create_subscription's.
LockedPhases == {"add_node", "remove_node", "add_endpoint", "remove_endpoint"}
Phases == LockedPhases \cup {"idle", "upsert", "unwind"}

Call == [pc : Phases, node : Nodes \cup {NULL}, guid : Guids \cup {NULL},
         wrote : BOOLEAN]

Idle == [pc |-> "idle", node |-> NULL, guid |-> NULL, wrote |-> FALSE]

Init ==
    /\ graph_lock = NULL
    /\ graph_nodes = [i \in Slots |-> NULL]
    /\ graph_gids = [i \in Slots |-> NoGids]
    /\ graph_node_owners = [i \in Slots |-> NULL]
    /\ graph_node_count = 0
    /\ node_context = [n \in Nodes |-> FALSE]
    /\ graph_index = [n \in Nodes |-> 0]
    /\ endpoint = [g \in Guids |-> NULL]
    /\ announced = <<>>
    /\ cached_self = <<>>
    /\ cached_foreign = 0
    /\ published = TRUE
    /\ op = [t \in Threads |-> Idle]

-----------------------------------------------------------------------------
(* Publication *)

\* The sample built from the table: its first graph_node_count slots.
Snapshot ==
    [i \in 1 .. graph_node_count |->
        [name |-> graph_nodes[i - 1], gids |-> graph_gids[i - 1]]]

\* Mutant: the sample is built before the table changes.
dds_write_too_early(t, pc, n, g) ==
    \E ok \in IF WriteMayFail THEN BOOLEAN ELSE {TRUE} :
        /\ announced' = IF ok THEN Snapshot ELSE announced
        /\ op' = [op EXCEPT ![t] =
                    [pc |-> pc, node |-> n, guid |-> g, wrote |-> ok]]

\* The first half of graph_publish_locked: dds_write of the changed table.
\* A failed write leaves the retained sample alone.
dds_write(t, pc, n, g) ==
    \E ok \in IF WriteMayFail THEN BOOLEAN ELSE {TRUE} :
        /\ announced' = IF ok THEN Snapshot' ELSE announced
        /\ op' = [op EXCEPT ![t] =
                    [pc |-> pc, node |-> n, guid |-> g, wrote |-> ok]]

\* Mutant: the nodes that the snapshot replaces count against the limit.
CacheAcceptsOnTop ==
    cached_foreign + Len(cached_self) + graph_node_count
        <= GRAPH_CACHE_MAX_NODES

\* graph_cache_apply_snapshot's two node limits.  The participant limit never
\* bites: rmw_init cached this participant before any node existed.
CacheAccepts ==
    /\ graph_node_count <= GRAPH_CACHE_MAX_NODES
    /\ cached_foreign + graph_node_count <= GRAPH_CACHE_MAX_NODES

\* Mutant: the result of dds_write is dropped.
PublishResultOfCache(t) == CacheAccepts

\* What graph_publish_locked returns to the thread that holds the lock.
PublishResult(t) == op[t].wrote /\ CacheAccepts

\* The second half of graph_publish_locked, and unlock_graph.
graph_cache_apply_snapshot(t) ==
    /\ cached_self' = IF PublishResult(t) THEN Snapshot ELSE cached_self
    /\ published' = PublishResult(t)
    /\ graph_lock' = NULL

\* Mutant: the loop does not wait for the flag to be clear.
lock_graph_barging(t) == graph_lock' = t

lock_graph(t) ==
    /\ graph_lock = NULL
    /\ graph_lock' = t

graph_node_is_valid_locked(n) ==
    /\ node_context[n]
    /\ graph_index[n] < graph_node_count
    /\ graph_node_owners[graph_index[n]] = n

-----------------------------------------------------------------------------
(* Nodes *)

\* graph_add_node, for the node_data_t rmw_create_node just allocated.
graph_add_node(t, n) ==
    /\ op[t].pc = "idle"
    /\ ~node_context[n]
    /\ lock_graph(t)
    /\ graph_node_count < GRAPH_MAX_NODES
    /\ graph_nodes' = [graph_nodes EXCEPT ![graph_node_count] = n]
    /\ graph_gids' = [graph_gids EXCEPT ![graph_node_count] = NoGids]
    /\ graph_node_owners' = [graph_node_owners EXCEPT ![graph_node_count] = n]
    /\ node_context' = [node_context EXCEPT ![n] = TRUE]
    /\ graph_index' = [graph_index EXCEPT ![n] = graph_node_count]
    /\ graph_node_count' = graph_node_count + 1
    /\ dds_write(t, "add_node", n, NULL)
    /\ UNCHANGED <<endpoint, cached_self, cached_foreign, published>>

\* graph_reset_node of the last slot, and the count that excludes it.
DropLastSlot ==
    /\ graph_node_count' = graph_node_count - 1
    /\ graph_nodes' = [graph_nodes EXCEPT ![graph_node_count - 1] = NULL]
    /\ graph_gids' = [graph_gids EXCEPT ![graph_node_count - 1] = NoGids]
    /\ graph_node_owners' =
            [graph_node_owners EXCEPT ![graph_node_count - 1] = NULL]

\* The rollback and return of graph_add_node; rmw_create_node frees the
\* handle when it failed.
graph_add_node_end(t) ==
    /\ op[t].pc = "add_node"
    /\ graph_cache_apply_snapshot(t)
    /\ \/ /\ PublishResult(t)
          /\ UNCHANGED table
       \/ /\ ~PublishResult(t)
          /\ DropLastSlot
          /\ node_context' = [node_context EXCEPT ![op[t].node] = FALSE]
          /\ UNCHANGED graph_index
    /\ op' = [op EXCEPT ![t] = Idle]
    /\ UNCHANGED <<endpoint, announced, cached_foreign>>

\* Mutant: the last slot is reset, but nothing moves down.
CompactedWithoutCopy(slots, removed, reset) ==
    [slots EXCEPT ![graph_node_count - 1] = reset]

\* graph_copy_node(index, index + 1) for every slot above the removed one,
\* then graph_reset_node of the slot this frees: the content of a slot array.
Compacted(slots, removed, reset) ==
    [i \in Slots |->
        IF i < removed THEN slots[i]
        ELSE IF i + 1 < graph_node_count THEN slots[i + 1]
        ELSE IF i < graph_node_count THEN reset
        ELSE slots[i]]

\* Mutants: moved handles keep their index; they move one slot too far.
CompactedIndexStale(removed) == graph_index
CompactedIndexOffByOne(removed) ==
    [n \in Nodes |-> IF \E i \in removed + 1 .. graph_node_count - 1 :
                            graph_node_owners[i] = n
                     THEN graph_index[n] - 2 ELSE graph_index[n]]

\* owner->graph_index = destination, for the owner of every copied slot.
CompactedIndex(removed) ==
    [n \in Nodes |->
        IF \E i \in removed + 1 .. graph_node_count - 1 :
                graph_node_owners[i] = n
        THEN (CHOOSE i \in removed + 1 .. graph_node_count - 1 :
                graph_node_owners[i] = n) - 1
        ELSE graph_index[n]]

\* graph_remove_node, called by rmw_destroy_node.
graph_remove_node(t, n) ==
    /\ op[t].pc = "idle"
    /\ lock_graph(t)
    /\ graph_node_is_valid_locked(n)
    /\ graph_gids[graph_index[n]] = NoGids
    /\ graph_nodes' = Compacted(graph_nodes, graph_index[n], NULL)
    /\ graph_gids' = Compacted(graph_gids, graph_index[n], NoGids)
    /\ graph_node_owners' = Compacted(graph_node_owners, graph_index[n], NULL)
    /\ graph_index' = CompactedIndex(graph_index[n])
    /\ graph_node_count' = graph_node_count - 1
    /\ node_context' = [node_context EXCEPT ![n] = FALSE]
    /\ dds_write(t, "remove_node", n, NULL)
    /\ UNCHANGED <<endpoint, cached_self, cached_foreign, published>>

\* A failed publication is reported but not rolled back.
graph_remove_node_end(t) ==
    /\ op[t].pc = "remove_node"
    /\ graph_cache_apply_snapshot(t)
    /\ op' = [op EXCEPT ![t] = Idle]
    /\ UNCHANGED <<table, endpoint, announced, cached_foreign>>

-----------------------------------------------------------------------------
(* Endpoints *)

\* The GID sequence that endpoint g belongs to.
Sequence(g) == graph_gids[graph_index[endpoint[g].node]][endpoint[g].kind]

\* graph_add_endpoint, for the DDS writer or reader that
\* rmw_create_publisher / rmw_create_subscription just created.
graph_add_endpoint(t, n, g, kind) ==
    /\ op[t].pc = "idle"
    /\ endpoint[g] = NULL
    /\ lock_graph(t)
    /\ graph_node_is_valid_locked(n)
    /\ Len(graph_gids[graph_index[n]][kind]) < GRAPH_MAX_ENDPOINTS_PER_NODE
    /\ graph_gids' = [graph_gids EXCEPT ![graph_index[n]][kind] = Append(@, g)]
    /\ endpoint' = [endpoint EXCEPT ![g] = [node |-> n, kind |-> kind]]
    /\ UNCHANGED <<graph_nodes, graph_node_owners, graph_node_count,
                   node_context, graph_index>>
    /\ dds_write(t, "add_endpoint", n, g)
    /\ UNCHANGED <<cached_self, cached_foreign, published>>

\* Mutants: a rollback that takes the first entry, and one that does nothing.
DropFirst(gids) == Tail(gids)
DropNone(gids) == gids

\* The rollback of graph_add_endpoint: the entry it appended goes.
DropLast(gids) == SubSeq(gids, 1, Len(gids) - 1)

\* The rollback and return of graph_add_endpoint; the
\* caller then deletes the DDS entity, or goes on to cache the endpoint.
graph_add_endpoint_end(t) ==
    LET g == op[t].guid
        n == op[t].node
    IN  /\ op[t].pc = "add_endpoint"
        /\ graph_cache_apply_snapshot(t)
        /\ \/ /\ PublishResult(t)
              /\ op' = [op EXCEPT ![t].pc = "upsert"]
              /\ UNCHANGED <<graph_gids, endpoint>>
           \/ /\ ~PublishResult(t)
              /\ graph_gids' =
                    [graph_gids EXCEPT ![graph_index[n]][endpoint[g].kind] =
                        DropLast(@)]
              /\ endpoint' = [endpoint EXCEPT ![g] = NULL]
              /\ op' = [op EXCEPT ![t] = Idle]
        /\ UNCHANGED <<graph_nodes, graph_node_owners, graph_node_count,
                       node_context, graph_index, announced, cached_foreign>>

\* graph_cache_upsert_endpoint: refused when remote endpoints fill the cache.
\* Success ends the creation, refusal starts its unwinding.
graph_cache_upsert_endpoint(t) ==
    /\ op[t].pc = "upsert"
    /\ \/ op' = [op EXCEPT ![t] = Idle]
       \/ op' = [op EXCEPT ![t].pc = "unwind"]
    /\ UNCHANGED <<table, graph_lock, endpoint, announced, cached_self,
                   cached_foreign, published>>

\* Mutant: the last entry is taken for the match.
IsLastEntry(gids, g, index) == index = Len(gids)

\* The search loop of graph_remove_endpoint stops at the first match.
IsFirstMatch(gids, g, index) ==
    /\ gids[index] = g
    /\ \A j \in 1 .. index - 1 : gids[j] # g

\* graph_remove_endpoint's critical section up to dds_write.
RemoveEndpoint(t, g) ==
    /\ lock_graph(t)
    /\ graph_node_is_valid_locked(endpoint[g].node)
    /\ \E index \in 1 .. Len(Sequence(g)) :
        /\ IsFirstMatch(Sequence(g), g, index)
        /\ graph_gids' = [graph_gids EXCEPT
                ![graph_index[endpoint[g].node]][endpoint[g].kind] =
                    RemoveAt(@, index)]
    /\ UNCHANGED <<graph_nodes, graph_node_owners, graph_node_count,
                   node_context, graph_index, endpoint>>
    /\ dds_write(t, "remove_endpoint", endpoint[g].node, g)
    /\ UNCHANGED <<cached_self, cached_foreign, published>>

\* graph_remove_endpoint called by rmw_destroy_publisher and
\* rmw_destroy_subscription, for an endpoint no call is working on.
graph_remove_endpoint(t, g) ==
    /\ op[t].pc = "idle"
    /\ endpoint[g] # NULL
    /\ \A u \in Threads : op[u].guid # g
    /\ RemoveEndpoint(t, g)

\* graph_remove_endpoint called to undo a creation the cache refused.
graph_unwind_endpoint(t) ==
    /\ op[t].pc = "unwind"
    /\ RemoveEndpoint(t, op[t].guid)

\* The return of graph_remove_endpoint, never rolled back, and the deletion
\* of the DDS entity that both callers do next whatever it returned.
graph_remove_endpoint_end(t) ==
    /\ op[t].pc = "remove_endpoint"
    /\ graph_cache_apply_snapshot(t)
    /\ endpoint' = [endpoint EXCEPT ![op[t].guid] = NULL]
    /\ op' = [op EXCEPT ![t] = Idle]
    /\ UNCHANGED <<table, announced, cached_foreign>>

-----------------------------------------------------------------------------
\* The discovery listeners change how many nodes of other participants are
\* cached; graph_cache_apply_snapshot keeps the total within the limit.
RemoteNodesChange ==
    /\ cached_foreign' \in 0 .. GRAPH_CACHE_MAX_NODES
    /\ cached_foreign' + Len(cached_self) <= GRAPH_CACHE_MAX_NODES
    /\ UNCHANGED <<table, graph_lock, endpoint, announced, cached_self,
                   published, op>>

Begin(t) ==
    \/ \E n \in Nodes : graph_add_node(t, n)
    \/ \E n \in Nodes : graph_remove_node(t, n)
    \/ \E n \in Nodes, g \in Guids, kind \in Kinds :
            graph_add_endpoint(t, n, g, kind)
    \/ \E g \in Guids : graph_remove_endpoint(t, g)

\* The steps of a call that has begun.
Continue(t) ==
    \/ graph_add_node_end(t)
    \/ graph_remove_node_end(t)
    \/ graph_add_endpoint_end(t)
    \/ graph_cache_upsert_endpoint(t)
    \/ graph_unwind_endpoint(t)
    \/ graph_remove_endpoint_end(t)

Next == \/ \E t \in Threads : Begin(t) \/ Continue(t)
        \/ RemoteNodesChange

Spec == Init /\ [][Next]_vars

-----------------------------------------------------------------------------
(* Properties *)

TypeOK ==
    /\ graph_lock \in Threads \cup {NULL}
    /\ graph_nodes \in [Slots -> Nodes \cup {NULL}]
    /\ graph_gids \in [Slots -> [Kinds -> Seq(Guids)]]
    /\ graph_node_owners \in [Slots -> Nodes \cup {NULL}]
    /\ graph_node_count \in 0 .. GRAPH_MAX_NODES
    /\ node_context \in [Nodes -> BOOLEAN]
    /\ graph_index \in [Nodes -> Slots]
    /\ endpoint \in [Guids -> Endpoint \cup {NULL}]
    /\ announced \in Seq(GraphNode)
    /\ cached_self \in Seq(GraphNode)
    /\ cached_foreign \in 0 .. GRAPH_CACHE_MAX_NODES
    /\ published \in BOOLEAN
    /\ op \in [Threads -> Call]

\* graph_lock is held by exactly the threads inside a graph_* operation, so at
\* most one thread is between lock_graph and unlock_graph.
LockProtectsTable ==
    \A t \in Threads : (graph_lock = t) <=> (op[t].pc \in LockedPhases)

\* Whatever nodes were created and destroyed, in whatever order, every handle
\* the application holds passes graph_node_is_valid_locked and the slot it
\* points at carries its own name; slots and handles are in bijection.
HandlesOwnTheirSlots ==
    /\ \A n \in Nodes : node_context[n] =>
            /\ graph_node_is_valid_locked(n)
            /\ graph_nodes[graph_index[n]] = n
    /\ \A i \in 0 .. graph_node_count - 1 :
            /\ graph_node_owners[i] \in Nodes
            /\ node_context[graph_node_owners[i]]
            /\ graph_index[graph_node_owners[i]] = i

\* Endpoint g is past its graph_remove_endpoint, about to be deleted.
BeingRemoved(g) ==
    \E t \in Threads : op[t].pc = "remove_endpoint" /\ op[t].guid = g

\* Every endpoint that exists in DDS sits exactly once in the sequence of its
\* kind of the node it was created on, so graph_remove_endpoint's "absent"
\* returns are unreachable, also after the node's slot moved.
EndpointsAreListedOnce ==
    \A g \in Guids : endpoint[g] # NULL /\ ~BeingRemoved(g) =>
        /\ graph_node_is_valid_locked(endpoint[g].node)
        /\ \E i \in 1 .. Len(Sequence(g)) :
            /\ Sequence(g)[i] = g
            /\ \A j \in 1 .. Len(Sequence(g)) : Sequence(g)[j] = g => j = i

\* A GID in the table belongs to an endpoint that still exists and was created
\* on the node of that slot: no rollback or removal leaves a GID behind that
\* would make its node impossible to destroy.
ListedGidsExist ==
    \A i \in 0 .. graph_node_count - 1, kind \in Kinds :
        \A j \in 1 .. Len(graph_gids[i][kind]) :
            LET g == graph_gids[i][kind][j]
            IN  /\ endpoint[g] = [node |-> graph_node_owners[i], kind |-> kind]
                /\ ~BeingRemoved(g)

\* Once graph_publish_locked succeeded and the lock is free, the retained
\* sample, the local graph cache and the table agree, whatever failed before.
PublishedIsCurrent ==
    graph_lock = NULL /\ published =>
        announced = Snapshot /\ cached_self = Snapshot

\* The nodes in sample list endpoint g under node n.
Lists(sample, n, g, kind) ==
    \E i \in 1 .. Len(sample) :
        /\ sample[i].name = n
        /\ \E j \in 1 .. Len(sample[i].gids[kind]) :
                sample[i].gids[kind][j] = g

\* An endpoint whose creation returned stays visible to late-joining readers
\* and to local graph queries until its destruction begins, even while later
\* operations of any thread fail to publish or are refused by the cache.
CreatedIsVisible ==
    \A g \in Guids :
        endpoint[g] # NULL /\ (\A t \in Threads : op[t].guid # g) =>
            /\ Lists(announced, endpoint[g].node, g, endpoint[g].kind)
            /\ Lists(cached_self, endpoint[g].node, g, endpoint[g].kind)

\* Only graph_add_node can be refused by the bounded cache: whatever remote
\* participants fill, the cache has room for the snapshot of every other
\* operation, which therefore fails only when dds_write does.
OnlyNodeCreationIsRefused ==
    \A t \in Threads :
        op[t].pc \in LockedPhases \ {"add_node"} => CacheAccepts

\* docs/graph-outbound.md: "Endpoint removal is announced before the DDS
\* entity is deleted."  An endpoint that the retained sample still lists is
\* deleted only by a call whose publication failed and that reports it.
RemovalIsAnnouncedFirst ==
    [][\A g \in Guids : endpoint[g] # NULL /\ endpoint'[g] = NULL =>
            \/ ~Lists(announced, endpoint[g].node, g, endpoint[g].kind)
            \/ ~published']_vars

\* docs/graph-outbound.md: every change publishes a complete snapshot and no
\* stale entries remain.  Between operations the retained sample is the table.
AnnouncedIsTable == graph_lock = NULL => announced = Snapshot

-----------------------------------------------------------------------------
(* The abstract table this module implements *)

Members == {graph_node_owners[i] : i \in 0 .. graph_node_count - 1}

Owned ==
    [n \in Nodes |->
        [kind \in Kinds |->
            IF n \in Members THEN Range(graph_gids[graph_index[n]][kind])
                             ELSE {}]]

Table == INSTANCE GraphTable WITH members <- Members, owned <- Owned

\* Seen as sets of nodes and of the GIDs they own, the slot array with its
\* compaction, rollbacks and failing publications behaves as GraphTable: no
\* operation of one node ever touches what another node owns.
ImplementsGraphTable == Table!Spec
=============================================================================
