-------------------------- MODULE LocalGraphProofs --------------------------
(***************************************************************************)
(* What is proved of LocalGraph for every set of threads, nodes and GUIDs  *)
(* and every value of the limits.                                          *)
(*                                                                         *)
(* OwnershipInv is the inductive invariant: handles and slots are in       *)
(* bijection, and each call in progress holds what its next step relies    *)
(* on.  PublicationInv adds what the holder of graph_lock knows about the  *)
(* retained sample and the room in the graph cache.                        *)
(***************************************************************************)
EXTENDS LocalGraph, TLAPS

EndpointPhases == {"add_endpoint", "upsert", "unwind", "remove_endpoint"}

\* What the call of thread t knows.  A graph_add_node that has not returned
\* has the last slot; a call on an endpoint has an endpoint that exists.
CallKnows(t) ==
    /\ op[t].pc = "add_node" =>
            /\ op[t].node \in Nodes
            /\ node_context[op[t].node]
            /\ graph_index[op[t].node] = graph_node_count - 1
    /\ op[t].pc \in EndpointPhases =>
            /\ op[t].guid \in Guids
            /\ endpoint[op[t].guid] # NULL
    /\ op[t].pc \notin EndpointPhases => op[t].guid = NULL
    /\ op[t].pc = "add_endpoint" =>
            /\ op[t].node = endpoint[op[t].guid].node

CallsInProgress == \A t \in Threads : CallKnows(t)

\* No two calls work on the same endpoint.
EndpointsAreNotShared ==
    \A t, u \in Threads :
        t # u /\ op[t].guid # NULL => op[u].guid # op[t].guid

SlotsAreNamed == \A i \in 0 .. graph_node_count - 1 : graph_nodes[i] \in Nodes

OwnershipInv ==
    /\ TypeOK
    /\ LockProtectsTable
    /\ HandlesOwnTheirSlots
    /\ SlotsAreNamed
    /\ CallsInProgress
    /\ EndpointsAreNotShared

USE LimitsArePositive, NullIsNoHandle, WriteMayFailIsBoolean

-----------------------------------------------------------------------------
(* Types *)

\* The table, and only the table, is well-typed.
TableType ==
    /\ graph_nodes \in [Slots -> Nodes \cup {NULL}]
    /\ graph_gids \in [Slots -> [Kinds -> Seq(Guids)]]
    /\ graph_node_owners \in [Slots -> Nodes \cup {NULL}]
    /\ graph_node_count \in 0 .. GRAPH_MAX_NODES
    /\ node_context \in [Nodes -> BOOLEAN]
    /\ graph_index \in [Nodes -> Slots]

\* Removing an element of a GID sequence leaves a GID sequence.
LEMMA RemoveAtType ==
    ASSUME NEW S, NEW s \in Seq(S), NEW i \in 1 .. Len(s)
    PROVE  RemoveAt(s, i) \in Seq(S)
BY DEF RemoveAt

\* The sample built from a well-formed table is well-formed.
LEMMA SnapshotType ==
    TableType /\ SlotsAreNamed =>
        Snapshot \in Seq(GraphNode) /\ Len(Snapshot) = graph_node_count
<1> SUFFICES ASSUME TableType, SlotsAreNamed
             PROVE  /\ Snapshot \in Seq(GraphNode)
                    /\ Len(Snapshot) = graph_node_count
  OBVIOUS
<1>1. ASSUME NEW i \in 1 .. graph_node_count
      PROVE  [name |-> graph_nodes[i - 1], gids |-> graph_gids[i - 1]]
                \in GraphNode
  <2>1. i - 1 \in 0 .. graph_node_count - 1 /\ i - 1 \in Slots
    BY DEF TableType, Slots
  <2> QED BY <2>1 DEF GraphNode, TableType, SlotsAreNamed
<1>2. graph_node_count \in Nat
  BY DEF TableType
<1> QED BY <1>1, <1>2 DEF Snapshot

\* The same of the next state.
LEMMA SnapshotTypePrimed ==
    (TableType /\ SlotsAreNamed =>
        Snapshot \in Seq(GraphNode) /\ Len(Snapshot) = graph_node_count)'
BY SnapshotType, PTL

\* dds_write keeps the retained sample well-formed and starts a call.
LEMMA WriteType ==
    ASSUME TypeOK, NEW t \in Threads, NEW pc \in Phases,
           NEW n \in Nodes \cup {NULL}, NEW g \in Guids \cup {NULL},
           dds_write(t, pc, n, g), TableType', SlotsAreNamed'
    PROVE  /\ announced' \in Seq(GraphNode)
           /\ op' \in [Threads -> Call]
           /\ \A u \in Threads \ {t} : op'[u] = op[u]
           /\ op'[t].pc = pc /\ op'[t].node = n /\ op'[t].guid = g
           /\ op'[t].wrote => announced' = Snapshot'
<1>1. PICK ok \in BOOLEAN :
        /\ announced' = IF ok THEN Snapshot' ELSE announced
        /\ op' = [op EXCEPT ![t] =
                    [pc |-> pc, node |-> n, guid |-> g, wrote |-> ok]]
  BY DEF dds_write
<1>2. Snapshot' \in Seq(GraphNode)
  BY SnapshotTypePrimed
<1>3. announced' \in Seq(GraphNode)
  BY <1>1, <1>2 DEF TypeOK
<1>4. [pc |-> pc, node |-> n, guid |-> g, wrote |-> ok] \in Call
  BY DEF Call
<1>5. op' \in [Threads -> Call]
  BY <1>1, <1>4 DEF TypeOK
<1> QED BY <1>1, <1>3, <1>5 DEF TypeOK

\* The second half of graph_publish_locked keeps the cache well-formed.
LEMMA ApplyType ==
    ASSUME TypeOK, SlotsAreNamed, NEW t \in Threads,
           graph_cache_apply_snapshot(t)
    PROVE  /\ cached_self' \in Seq(GraphNode)
           /\ published' \in BOOLEAN
           /\ graph_lock' = NULL
<1>1. Snapshot \in Seq(GraphNode)
  BY SnapshotType DEF TypeOK, TableType
<1> QED BY <1>1 DEF graph_cache_apply_snapshot, TypeOK, PublishResult

-----------------------------------------------------------------------------
(* Calls *)

\* Taking the free lock for a graph_* operation.
LEMMA LockTaken ==
    ASSUME LockProtectsTable, NEW t \in Threads, lock_graph(t),
           \A u \in Threads \ {t} : op'[u] = op[u],
           op'[t].pc \in LockedPhases
    PROVE  /\ LockProtectsTable'
           /\ \A u \in Threads : op[u].pc \notin LockedPhases
<1>1. \A u \in Threads : op[u].pc \notin LockedPhases
  BY DEF LockProtectsTable, lock_graph
<1>2. ASSUME NEW u \in Threads, u # t
      PROVE  graph_lock' # u /\ op'[u].pc \notin LockedPhases
  BY <1>1, <1>2 DEF lock_graph
<1> QED BY <1>1, <1>2 DEF LockProtectsTable, lock_graph

\* Releasing the lock at the end of a graph_* operation.
LEMMA LockReleased ==
    ASSUME LockProtectsTable, NEW t \in Threads, op[t].pc \in LockedPhases,
           graph_lock' = NULL,
           \A u \in Threads \ {t} : op'[u] = op[u],
           op'[t].pc \notin LockedPhases
    PROVE  /\ LockProtectsTable'
           /\ \A u \in Threads \ {t} : op[u].pc \notin LockedPhases
<1>1. ASSUME NEW u \in Threads, u # t
      PROVE  op[u].pc \notin LockedPhases
  BY <1>1 DEF LockProtectsTable
<1>2. ASSUME NEW u \in Threads
      PROVE  graph_lock' # u /\ op'[u].pc \notin LockedPhases
  BY <1>1
<1> QED BY <1>1, <1>2 DEF LockProtectsTable

\* A call that does not move, and holds no lock, keeps what it knows while the
\* endpoint it works on stays.
LEMMA OtherCallKnows ==
    ASSUME NEW u \in Threads, CallKnows(u), op'[u] = op[u],
           op[u].pc \notin LockedPhases,
           op[u].guid # NULL => endpoint'[op[u].guid] = endpoint[op[u].guid]
    PROVE  CallKnows(u)'
<1>1. op[u].pc # "add_node" /\ op[u].pc # "add_endpoint"
  BY DEF LockedPhases
<1>2. /\ op'[u].pc = op[u].pc
      /\ op'[u].guid = op[u].guid
      /\ op'[u].node = op[u].node
  OBVIOUS
<1> QED BY <1>1, <1>2 DEF CallKnows

-----------------------------------------------------------------------------
(* OwnershipInv is inductive *)

\* The empty table of rmw_init satisfies OwnershipInv.
LEMMA InitOwnership == Init => OwnershipInv
<1> SUFFICES ASSUME Init PROVE OwnershipInv
  OBVIOUS
<1>1. <<>> \in Seq(GraphNode) /\ NoGids \in [Kinds -> Seq(Guids)]
  BY DEF NoGids
<1>2. Idle \in Call
  BY DEF Idle, Call, Phases
<1>3. TypeOK
  BY <1>1, <1>2 DEF Init, TypeOK, Slots
<1>4. \A t \in Threads : op[t].pc = "idle" /\ op[t].guid = NULL
  BY DEF Init, Idle
<1>5. LockProtectsTable /\ HandlesOwnTheirSlots /\ SlotsAreNamed
  BY <1>4 DEF Init, LockProtectsTable, LockedPhases, HandlesOwnTheirSlots,
              SlotsAreNamed
<1>6. CallsInProgress /\ EndpointsAreNotShared
  BY <1>4 DEF CallsInProgress, CallKnows, EndpointPhases, EndpointsAreNotShared
<1> QED BY <1>3, <1>5, <1>6 DEF OwnershipInv

\* graph_add_node up to dds_write keeps OwnershipInv: the new handle owns the
\* slot that was the first free one.
LEMMA AddNodeOwnership ==
    ASSUME OwnershipInv, NEW t \in Threads, NEW n \in Nodes,
           graph_add_node(t, n)
    PROVE  OwnershipInv'
<1> USE DEF OwnershipInv, graph_add_node
<1>1. TableType' /\ graph_node_count \in Slots
  BY DEF TypeOK, TableType, Slots, NoGids, lock_graph
<1>2. SlotsAreNamed'
  BY <1>1 DEF TypeOK, Slots, SlotsAreNamed
<1>3. /\ announced' \in Seq(GraphNode)
      /\ op' \in [Threads -> Call]
      /\ \A u \in Threads \ {t} : op'[u] = op[u]
      /\ op'[t].pc = "add_node" /\ op'[t].node = n /\ op'[t].guid = NULL
  BY <1>1, <1>2, WriteType DEF Phases, LockedPhases
<1>4. TypeOK'
  BY <1>1, <1>3 DEF TypeOK, TableType, lock_graph
<1>5. /\ LockProtectsTable'
      /\ \A u \in Threads : op[u].pc \notin LockedPhases
  BY <1>3, LockTaken DEF LockedPhases
<1>6. HandlesOwnTheirSlots'
  BY <1>1 DEF HandlesOwnTheirSlots, graph_node_is_valid_locked, TypeOK,
              TableType, Slots, lock_graph
<1>7. CallsInProgress'
  <2>1. ASSUME NEW u \in Threads, u # t
        PROVE  CallKnows(u)'
    BY <1>3, <1>5, <2>1, OtherCallKnows DEF CallsInProgress
  <2>2. CallKnows(t)'
    BY <1>1, <1>3 DEF CallKnows, EndpointPhases, TypeOK
  <2> QED BY <2>1, <2>2 DEF CallsInProgress
<1>8. EndpointsAreNotShared'
  BY <1>3 DEF EndpointsAreNotShared
<1> QED BY <1>2, <1>4, <1>5, <1>6, <1>7, <1>8

\* A step after which t is idle and the endpoints of other calls are as before.
LEMMA CallEnds ==
    ASSUME OwnershipInv, NEW t \in Threads, op[t].pc \in LockedPhases,
           graph_lock' = NULL, op' = [op EXCEPT ![t] = Idle],
           \A g \in Guids : g # op[t].guid => endpoint'[g] = endpoint[g]
    PROVE  /\ LockProtectsTable' /\ CallsInProgress' /\ EndpointsAreNotShared'
           /\ op' \in [Threads -> Call]
<1> USE DEF OwnershipInv
<1>1. /\ op' \in [Threads -> Call]
      /\ \A u \in Threads \ {t} : op'[u] = op[u]
      /\ op'[t].pc = "idle" /\ op'[t].guid = NULL
  <2>1. Idle \in Call
    BY DEF Idle, Call, Phases
  <2> QED BY <2>1 DEF TypeOK, Idle
<1>2. /\ LockProtectsTable'
      /\ \A u \in Threads \ {t} : op[u].pc \notin LockedPhases
  BY <1>1, LockReleased DEF LockedPhases
<1>3. ASSUME NEW u \in Threads, u # t
      PROVE  CallKnows(u)'
  <2>1. op[u].guid # NULL =>
            op[u].guid \in Guids /\ op[u].guid # op[t].guid
    BY <1>3 DEF EndpointsAreNotShared, TypeOK, Call
  <2> QED BY <1>1, <1>2, <1>3, <2>1, OtherCallKnows DEF CallsInProgress
<1>4. CallKnows(t)'
  BY <1>1 DEF CallKnows, EndpointPhases
<1>5. EndpointsAreNotShared'
  BY <1>1 DEF EndpointsAreNotShared
<1> QED BY <1>1, <1>2, <1>3, <1>4, <1>5 DEF CallsInProgress

\* Returning from graph_add_node keeps OwnershipInv; the rollback drops the
\* slot of the node being created and no other.
LEMMA AddNodeEndOwnership ==
    ASSUME OwnershipInv, NEW t \in Threads, graph_add_node_end(t)
    PROVE  OwnershipInv'
<1> USE DEF OwnershipInv, graph_add_node_end
<1>1. /\ cached_self' \in Seq(GraphNode) /\ published' \in BOOLEAN
      /\ graph_lock' = NULL
  BY ApplyType
<1>2. /\ LockProtectsTable' /\ CallsInProgress' /\ EndpointsAreNotShared'
      /\ op' \in [Threads -> Call]
  BY <1>1, CallEnds DEF LockedPhases
<1>3. CASE UNCHANGED table
  <2>1. TypeOK'
    BY <1>1, <1>2, <1>3 DEF TypeOK, table
  <2>2. HandlesOwnTheirSlots' /\ SlotsAreNamed'
    BY <1>3 DEF HandlesOwnTheirSlots, SlotsAreNamed,
                graph_node_is_valid_locked, table
  <2> QED BY <1>2, <2>1, <2>2
<1>4. CASE /\ DropLastSlot
           /\ node_context' = [node_context EXCEPT ![op[t].node] = FALSE]
           /\ UNCHANGED graph_index
  <2> DEFINE n == op[t].node
  <2>1. /\ n \in Nodes /\ node_context[n]
        /\ graph_index[n] = graph_node_count - 1
        /\ graph_index[n] < graph_node_count
        /\ graph_node_owners[graph_index[n]] = n
    BY DEF CallsInProgress, CallKnows, HandlesOwnTheirSlots,
           graph_node_is_valid_locked
  <2>2. TableType'
    BY <1>4, <2>1 DEF TypeOK, TableType, DropLastSlot, NoGids, Slots
  <2>3. TypeOK'
    BY <1>1, <1>2, <2>2 DEF TypeOK, TableType
  <2>4. SlotsAreNamed'
    <3>1. ASSUME NEW i \in 0 .. graph_node_count' - 1
          PROVE  graph_nodes'[i] \in Nodes
      <4>1. /\ i \in 0 .. graph_node_count - 1 /\ i # graph_node_count - 1
            /\ i \in Slots
        BY <1>4 DEF DropLastSlot, TypeOK, Slots
      <4> QED BY <1>4, <4>1 DEF SlotsAreNamed, DropLastSlot, TypeOK
    <3> QED BY <3>1 DEF SlotsAreNamed
  <2>5. HandlesOwnTheirSlots'
    <3>1. ASSUME NEW m \in Nodes, node_context'[m]
          PROVE  /\ graph_node_is_valid_locked(m)'
                 /\ graph_nodes'[graph_index'[m]] = m
      <4>1. m # n /\ node_context[m]
        BY <1>4, <2>1, <3>1 DEF TypeOK
      <4>2. /\ graph_index[m] \in 0 .. graph_node_count - 1
            /\ graph_node_owners[graph_index[m]] = m
            /\ graph_nodes[graph_index[m]] = m
        BY <4>1 DEF HandlesOwnTheirSlots, graph_node_is_valid_locked, TypeOK,
                    Slots
      <4>3. graph_index[m] < graph_node_count - 1
        BY <2>1, <4>1, <4>2 DEF TypeOK
      <4> QED BY <1>4, <3>1, <4>2, <4>3
            DEF graph_node_is_valid_locked, DropLastSlot, TypeOK, Slots
    <3>2. ASSUME NEW i \in 0 .. graph_node_count' - 1
          PROVE  /\ graph_node_owners'[i] \in Nodes
                 /\ node_context'[graph_node_owners'[i]]
                 /\ graph_index'[graph_node_owners'[i]] = i
      <4>1. /\ i \in 0 .. graph_node_count - 1 /\ i # graph_node_count - 1
            /\ i \in Slots
        BY <1>4 DEF DropLastSlot, TypeOK, Slots
      <4>2. graph_node_owners'[i] = graph_node_owners[i]
        BY <1>4, <4>1 DEF DropLastSlot, TypeOK
      <4>3. /\ graph_node_owners[i] \in Nodes /\ graph_node_owners[i] # n
            /\ node_context[graph_node_owners[i]]
            /\ graph_index[graph_node_owners[i]] = i
        BY <2>1, <4>1 DEF HandlesOwnTheirSlots
      <4> QED BY <1>4, <2>1, <4>2, <4>3 DEF TypeOK
    <3> QED BY <3>1, <3>2 DEF HandlesOwnTheirSlots
  <2> QED BY <1>2, <2>3, <2>4, <2>5
<1> QED BY <1>3, <1>4

\* What compaction does to slots: those below the removed one stay, those
\* above move down by one, and every handle follows its slot.
LEMMA Compaction ==
    ASSUME TypeOK, HandlesOwnTheirSlots, NEW n \in Nodes,
           graph_node_is_valid_locked(n)
    PROVE  LET r == graph_index[n]
               index == CompactedIndex(r)
           IN  /\ index \in [Nodes -> Slots]
               /\ \A m \in Nodes \ {n} : node_context[m] =>
                    /\ graph_index[m] # r
                    /\ graph_index[m] < r => index[m] = graph_index[m]
                    /\ graph_index[m] > r => index[m] = graph_index[m] - 1
<1> DEFINE r == graph_index[n]
           above == r + 1 .. graph_node_count - 1
           index == CompactedIndex(r)
<1>1. r \in Slots /\ graph_node_count \in 0 .. GRAPH_MAX_NODES
  BY DEF TypeOK
<1>2. ASSUME NEW m \in Nodes, \E i \in above : graph_node_owners[i] = m
      PROVE  /\ index[m] \in Slots
             /\ graph_index[m] \in above
             /\ index[m] = graph_index[m] - 1
  <2>1. PICK i \in above : graph_node_owners[i] = m
    BY <1>2
  <2>2. \A j \in above : graph_node_owners[j] = m => j = graph_index[m]
    BY <1>1 DEF HandlesOwnTheirSlots, Slots
  <2>3. i = graph_index[m]
    BY <2>1, <2>2
  <2>4. (CHOOSE j \in above : graph_node_owners[j] = m) = i
    BY <2>1, <2>2, <2>3
  <2>5. index[m] = i - 1
    BY <1>2, <2>4 DEF CompactedIndex
  <2> QED BY <1>1, <2>3, <2>5 DEF Slots
<1>3. ASSUME NEW m \in Nodes, ~\E i \in above : graph_node_owners[i] = m
      PROVE  index[m] = graph_index[m]
  BY <1>3 DEF CompactedIndex
<1>4. index \in [Nodes -> Slots]
  <2>1. index = [m \in Nodes |-> index[m]]
    BY DEF CompactedIndex
  <2>2. \A m \in Nodes : index[m] \in Slots
    BY <1>2, <1>3 DEF TypeOK
  <2> HIDE DEF index
  <2> QED BY <2>1, <2>2
<1>5. ASSUME NEW m \in Nodes \ {n}, node_context[m]
      PROVE  /\ graph_index[m] # r
             /\ graph_index[m] < r => index[m] = graph_index[m]
             /\ graph_index[m] > r => index[m] = graph_index[m] - 1
  <2>1. /\ graph_index[m] < graph_node_count
        /\ graph_node_owners[graph_index[m]] = m
        /\ graph_node_owners[r] = n
        /\ graph_index[m] \in Slots
    BY <1>5 DEF HandlesOwnTheirSlots, graph_node_is_valid_locked, TypeOK
  <2>2. graph_index[m] < r => ~\E i \in above : graph_node_owners[i] = m
    BY <1>1, <1>2 DEF Slots
  <2>3. graph_index[m] > r => \E i \in above : graph_node_owners[i] = m
    BY <1>1, <2>1 DEF Slots
  <2> HIDE DEF index
  <2> QED BY <1>1, <1>2, <1>3, <2>1, <2>2, <2>3 DEF Slots
<1> QED BY <1>4, <1>5

\* graph_remove_node keeps OwnershipInv: compaction moves slots and handles
\* together.
LEMMA RemoveNodeOwnership ==
    ASSUME OwnershipInv, NEW t \in Threads, NEW n \in Nodes,
           graph_remove_node(t, n)
    PROVE  OwnershipInv'
<1> USE DEF OwnershipInv, graph_remove_node
<1> DEFINE r == graph_index[n]
<1>1. /\ r \in Slots /\ r < graph_node_count
      /\ graph_node_count \in 1 .. GRAPH_MAX_NODES
      /\ graph_node_owners[r] = n
  BY DEF TypeOK, graph_node_is_valid_locked, Slots
<1>2. /\ graph_index' \in [Nodes -> Slots]
      /\ \A m \in Nodes \ {n} : node_context[m] =>
            /\ graph_index[m] # r
            /\ graph_index[m] < r => graph_index'[m] = graph_index[m]
            /\ graph_index[m] > r => graph_index'[m] = graph_index[m] - 1
  BY Compaction
<1>3. TableType'
  <2>1. /\ graph_nodes' \in [Slots -> Nodes \cup {NULL}]
        /\ graph_node_owners' \in [Slots -> Nodes \cup {NULL}]
    BY <1>1 DEF Compacted, TypeOK, Slots
  <2>2. graph_gids' \in [Slots -> [Kinds -> Seq(Guids)]]
    <3>1. NoGids \in [Kinds -> Seq(Guids)]
      BY DEF NoGids
    <3> QED BY <1>1, <3>1 DEF Compacted, TypeOK, Slots
  <2>3. node_context' \in [Nodes -> BOOLEAN]
    BY DEF TypeOK
  <2> QED BY <1>1, <1>2, <2>1, <2>2, <2>3 DEF TableType
<1>4. \A i \in 0 .. graph_node_count' - 1 :
        /\ i \in Slots
        /\ i < r => /\ graph_node_owners'[i] = graph_node_owners[i]
                    /\ graph_nodes'[i] = graph_nodes[i]
        /\ i >= r => /\ graph_node_owners'[i] = graph_node_owners[i + 1]
                     /\ graph_nodes'[i] = graph_nodes[i + 1]
  BY <1>1 DEF Compacted, Slots
<1>5. SlotsAreNamed'
  BY <1>1, <1>4 DEF SlotsAreNamed, Slots
<1>6. /\ announced' \in Seq(GraphNode)
      /\ op' \in [Threads -> Call]
      /\ \A u \in Threads \ {t} : op'[u] = op[u]
      /\ op'[t].pc = "remove_node" /\ op'[t].node = n /\ op'[t].guid = NULL
  BY <1>3, <1>5, WriteType DEF Phases, LockedPhases
<1>7. TypeOK'
  BY <1>3, <1>6 DEF TypeOK, TableType, lock_graph
<1>8. /\ LockProtectsTable'
      /\ \A u \in Threads : op[u].pc \notin LockedPhases
  BY <1>6, LockTaken DEF LockedPhases
<1>9. HandlesOwnTheirSlots'
  <2>1. ASSUME NEW m \in Nodes, node_context'[m]
        PROVE  /\ graph_index'[m] \in 0 .. graph_node_count' - 1
               /\ graph_node_owners'[graph_index'[m]] = m
               /\ graph_nodes'[graph_index'[m]] = m
    <3>1. m # n /\ node_context[m]
      BY <2>1 DEF TypeOK
    <3>2. /\ graph_index[m] \in 0 .. graph_node_count - 1
          /\ graph_node_owners[graph_index[m]] = m
          /\ graph_nodes[graph_index[m]] = m
      BY <3>1 DEF HandlesOwnTheirSlots, graph_node_is_valid_locked, TypeOK,
                  Slots
    <3>3. CASE graph_index[m] < r
      BY <1>1, <1>2, <1>4, <3>1, <3>2, <3>3 DEF Slots
    <3>4. CASE graph_index[m] > r
      <4>1. /\ graph_index'[m] = graph_index[m] - 1
            /\ graph_index'[m] \in 0 .. graph_node_count' - 1
            /\ graph_index'[m] >= r
        BY <1>1, <1>2, <3>1, <3>2, <3>4 DEF Slots
      <4> QED BY <1>1, <1>4, <3>2, <4>1 DEF Slots
    <3> QED BY <1>1, <1>2, <3>1, <3>2, <3>3, <3>4 DEF Slots
  <2>2. ASSUME NEW i \in 0 .. graph_node_count' - 1
        PROVE  /\ graph_node_owners'[i] \in Nodes
               /\ node_context'[graph_node_owners'[i]]
               /\ graph_index'[graph_node_owners'[i]] = i
    <3> DEFINE j == IF i < r THEN i ELSE i + 1
               m == graph_node_owners[j]
    <3>1. /\ j \in 0 .. graph_node_count - 1 /\ j # r
          /\ graph_node_owners'[i] = m
      BY <1>1, <1>4 DEF Slots
    <3>2. m \in Nodes /\ node_context[m] /\ graph_index[m] = j
      BY <3>1 DEF HandlesOwnTheirSlots
    <3>3. m # n
      BY <3>1, <3>2
    <3>4. node_context'[m]
      BY <3>2, <3>3 DEF TypeOK
    <3>5. graph_index'[m] = i
      BY <1>1, <1>2, <3>1, <3>2, <3>3 DEF Slots
    <3> QED BY <3>1, <3>2, <3>4, <3>5
  <2> QED BY <1>1, <2>1, <2>2
        DEF HandlesOwnTheirSlots, graph_node_is_valid_locked
<1>10. CallsInProgress'
  <2>1. ASSUME NEW u \in Threads, u # t
        PROVE  CallKnows(u)'
    BY <1>6, <1>8, <2>1, OtherCallKnows DEF CallsInProgress
  <2>2. CallKnows(t)'
    BY <1>6 DEF CallKnows, EndpointPhases
  <2> QED BY <2>1, <2>2 DEF CallsInProgress
<1>11. EndpointsAreNotShared'
  BY <1>6 DEF EndpointsAreNotShared
<1> QED BY <1>5, <1>7, <1>8, <1>9, <1>10, <1>11

\* Returning from graph_remove_node keeps OwnershipInv: the table stays.
LEMMA RemoveNodeEndOwnership ==
    ASSUME OwnershipInv, NEW t \in Threads, graph_remove_node_end(t)
    PROVE  OwnershipInv'
<1> USE DEF OwnershipInv, graph_remove_node_end
<1>1. /\ cached_self' \in Seq(GraphNode) /\ published' \in BOOLEAN
      /\ graph_lock' = NULL
  BY ApplyType
<1>2. /\ LockProtectsTable' /\ CallsInProgress' /\ EndpointsAreNotShared'
      /\ op' \in [Threads -> Call]
  BY <1>1, CallEnds DEF LockedPhases
<1>3. TypeOK'
  BY <1>1, <1>2 DEF TypeOK, table
<1>4. HandlesOwnTheirSlots' /\ SlotsAreNamed'
  BY DEF HandlesOwnTheirSlots, SlotsAreNamed, graph_node_is_valid_locked, table
<1> QED BY <1>2, <1>3, <1>4

\* A step that changes no more of the table than the GID sequences keeps the
\* handles with their slots.
LEMMA SlotsStay ==
    ASSUME HandlesOwnTheirSlots, SlotsAreNamed,
           UNCHANGED <<graph_nodes, graph_node_owners, graph_node_count,
                       node_context, graph_index>>
    PROVE  HandlesOwnTheirSlots' /\ SlotsAreNamed'
BY DEF HandlesOwnTheirSlots, SlotsAreNamed, graph_node_is_valid_locked

\* graph_add_endpoint keeps OwnershipInv: no other call has the new endpoint.
LEMMA AddEndpointOwnership ==
    ASSUME OwnershipInv, NEW t \in Threads, NEW n \in Nodes, NEW g \in Guids,
           NEW kind \in Kinds, graph_add_endpoint(t, n, g, kind)
    PROVE  OwnershipInv'
<1> USE DEF OwnershipInv, graph_add_endpoint
<1>1. TableType'
  <2>1. graph_index[n] \in Slots
    BY DEF TypeOK
  <2>2. Append(graph_gids[graph_index[n]][kind], g) \in Seq(Guids)
    BY <2>1 DEF TypeOK
  <2>3. graph_gids' \in [Slots -> [Kinds -> Seq(Guids)]]
    BY <2>1, <2>2 DEF TypeOK
  <2> QED BY <2>3 DEF TypeOK, TableType
<1>2. HandlesOwnTheirSlots' /\ SlotsAreNamed'
  BY SlotsStay
<1>3. /\ announced' \in Seq(GraphNode)
      /\ op' \in [Threads -> Call]
      /\ \A u \in Threads \ {t} : op'[u] = op[u]
      /\ op'[t].pc = "add_endpoint" /\ op'[t].node = n /\ op'[t].guid = g
  BY <1>1, <1>2, WriteType DEF Phases, LockedPhases
<1>4. /\ [node |-> n, kind |-> kind] \in Endpoint
      /\ endpoint' \in [Guids -> Endpoint \cup {NULL}]
      /\ endpoint'[g] = [node |-> n, kind |-> kind]
  BY DEF TypeOK, Endpoint
<1>5. TypeOK'
  BY <1>1, <1>3, <1>4 DEF TypeOK, TableType, lock_graph
<1>6. /\ LockProtectsTable'
      /\ \A u \in Threads : op[u].pc \notin LockedPhases
  BY <1>3, LockTaken DEF LockedPhases
<1>7. \A u \in Threads : op[u].guid # g
  BY DEF CallsInProgress, CallKnows
<1>8. CallsInProgress'
  <2>1. ASSUME NEW u \in Threads, u # t
        PROVE  CallKnows(u)'
    <3>1. op[u].guid # NULL => endpoint'[op[u].guid] = endpoint[op[u].guid]
      BY <1>7 DEF TypeOK, Call
    <3> QED BY <1>3, <1>6, <2>1, <3>1, OtherCallKnows DEF CallsInProgress
  <2>2. CallKnows(t)'
    BY <1>3, <1>4, NullIsNoEndpoint DEF CallKnows, EndpointPhases
  <2> QED BY <2>1, <2>2 DEF CallsInProgress
<1>9. EndpointsAreNotShared'
  BY <1>3, <1>7 DEF EndpointsAreNotShared
<1> QED BY <1>2, <1>5, <1>6, <1>8, <1>9

\* Returning from graph_add_endpoint, with or without rollback, keeps
\* OwnershipInv.
LEMMA AddEndpointEndOwnership ==
    ASSUME OwnershipInv, NEW t \in Threads, graph_add_endpoint_end(t)
    PROVE  OwnershipInv'
<1> USE DEF OwnershipInv
<1> DEFINE g == op[t].guid
           n == op[t].node
<1>0. /\ op[t].pc = "add_endpoint"
      /\ graph_cache_apply_snapshot(t)
      /\ UNCHANGED <<graph_nodes, graph_node_owners, graph_node_count,
                     node_context, graph_index, announced, cached_foreign>>
  BY DEF graph_add_endpoint_end
<1>1. /\ cached_self' \in Seq(GraphNode) /\ published' \in BOOLEAN
      /\ graph_lock' = NULL
  BY <1>0, ApplyType
<1>2. /\ g \in Guids /\ endpoint[g] \in Endpoint /\ endpoint[g] # NULL
      /\ n = endpoint[g].node /\ n \in Nodes /\ endpoint[g].kind \in Kinds
  BY <1>0 DEF CallsInProgress, CallKnows, EndpointPhases, TypeOK, Endpoint
<1>3. HandlesOwnTheirSlots' /\ SlotsAreNamed'
  BY <1>0, SlotsStay
<1>4. CASE /\ op' = [op EXCEPT ![t].pc = "upsert"]
           /\ UNCHANGED <<graph_gids, endpoint>>
  <2>1. /\ op' \in [Threads -> Call]
        /\ \A u \in Threads \ {t} : op'[u] = op[u]
        /\ op'[t].pc = "upsert" /\ op'[t].guid = g
    <3>1. op \in [Threads -> Call] /\ op[t] \in Call
      BY DEF TypeOK
    <3>4. [op[t] EXCEPT !.pc = "upsert"] \in Call
      BY <3>1 DEF Call, Phases
    <3>5. LET after == [op[t] EXCEPT !.pc = "upsert"]
           IN  after.pc = "upsert" /\ after.guid = g
      BY <3>1 DEF Call
    <3>2. PICK after \in Call :
            /\ after = [op[t] EXCEPT !.pc = "upsert"]
            /\ after.pc = "upsert" /\ after.guid = g
      BY <3>4, <3>5, Zenon
    <3>3. op' = [op EXCEPT ![t] = after]
      BY <1>4, <3>2
    <3> HIDE DEF g
    <3> QED BY <3>1, <3>2, <3>3
  <2>2. TypeOK'
    BY <1>0, <1>1, <1>4, <2>1 DEF TypeOK
  <2>3. /\ LockProtectsTable'
        /\ \A u \in Threads \ {t} : op[u].pc \notin LockedPhases
    BY <1>0, <1>1, <2>1, LockReleased DEF LockedPhases
  <2>4. ASSUME NEW u \in Threads, u # t
        PROVE  CallKnows(u)'
    BY <1>4, <2>1, <2>3, <2>4, OtherCallKnows DEF CallsInProgress
  <2>5. CallKnows(t)'
    BY <1>2, <1>4, <2>1 DEF CallKnows, EndpointPhases
  <2>6. EndpointsAreNotShared'
    BY <2>1 DEF EndpointsAreNotShared
  <2> QED BY <1>3, <2>2, <2>3, <2>4, <2>5, <2>6 DEF CallsInProgress
<1>5. CASE /\ graph_gids' =
                [graph_gids EXCEPT ![graph_index[n]][endpoint[g].kind] =
                    DropLast(@)]
           /\ endpoint' = [endpoint EXCEPT ![g] = NULL]
           /\ op' = [op EXCEPT ![t] = Idle]
  <2>1. /\ LockProtectsTable' /\ CallsInProgress' /\ EndpointsAreNotShared'
        /\ op' \in [Threads -> Call]
    BY <1>0, <1>1, <1>5, CallEnds DEF LockedPhases, TypeOK
  <2> DEFINE gids == graph_gids[graph_index[n]][endpoint[g].kind]
  <2>2. graph_index[n] \in Slots /\ gids \in Seq(Guids)
    BY <1>2 DEF TypeOK
  <2>3. DropLast(gids) \in Seq(Guids)
    <3> HIDE DEF gids
    <3> QED BY <2>2 DEF DropLast
  <2>4. graph_gids' \in [Slots -> [Kinds -> Seq(Guids)]]
    BY <1>2, <1>5, <2>2, <2>3 DEF TypeOK
  <2>5. TypeOK'
    BY <1>0, <1>1, <1>5, <2>1, <2>4 DEF TypeOK
  <2> QED BY <1>3, <2>1, <2>5
<1> QED BY <1>4, <1>5 DEF graph_add_endpoint_end

\* Caching the endpoint, or being refused, keeps OwnershipInv.
LEMMA UpsertOwnership ==
    ASSUME OwnershipInv, NEW t \in Threads, graph_cache_upsert_endpoint(t)
    PROVE  OwnershipInv'
<1> USE DEF OwnershipInv, graph_cache_upsert_endpoint
<1>1. /\ op' \in [Threads -> Call]
      /\ \A u \in Threads \ {t} : op'[u] = op[u]
      /\ \/ op'[t].pc = "idle" /\ op'[t].guid = NULL
         \/ op'[t].pc = "unwind" /\ op'[t].guid = op[t].guid
  <2>1. Idle \in Call /\ Idle.pc = "idle" /\ Idle.guid = NULL
    BY DEF Idle, Call, Phases
  <2>2. CASE op' = [op EXCEPT ![t] = Idle]
    BY <2>1, <2>2 DEF TypeOK
  <2>3. CASE op' = [op EXCEPT ![t].pc = "unwind"]
    BY <2>3 DEF TypeOK, Call, Phases
  <2> QED BY <2>2, <2>3
<1>2. TypeOK'
  BY <1>1 DEF TypeOK, table
<1>3. LockProtectsTable'
  BY <1>1 DEF LockProtectsTable, LockedPhases
<1>4. HandlesOwnTheirSlots' /\ SlotsAreNamed'
  BY SlotsStay DEF table
<1>5. ASSUME NEW u \in Threads, u # t
      PROVE  CallKnows(u)'
  <2>1. op'[u] = op[u] /\ CallKnows(u)
    BY <1>1, <1>5 DEF CallsInProgress
  <2> QED BY <2>1 DEF CallKnows, table
<1>6. CallKnows(t)'
  <2>1. op[t].guid \in Guids /\ endpoint[op[t].guid] # NULL
    BY DEF CallsInProgress, CallKnows, EndpointPhases
  <2> QED BY <1>1, <2>1 DEF CallKnows, EndpointPhases
<1>7. EndpointsAreNotShared'
  BY <1>1 DEF EndpointsAreNotShared
<1> QED BY <1>2, <1>3, <1>4, <1>5, <1>6, <1>7 DEF CallsInProgress

\* graph_remove_endpoint keeps OwnershipInv, whichever caller it has.
LEMMA RemoveEndpointOwnership ==
    ASSUME OwnershipInv, NEW t \in Threads, NEW g \in Guids,
           endpoint[g] # NULL,
           \A u \in Threads \ {t} : op[u].guid # g,
           RemoveEndpoint(t, g)
    PROVE  OwnershipInv'
<1> USE DEF OwnershipInv, RemoveEndpoint
<1> DEFINE n == endpoint[g].node
           gids == Sequence(g)
<1>1. /\ n \in Nodes /\ endpoint[g].kind \in Kinds
      /\ graph_index[n] \in Slots /\ gids \in Seq(Guids)
  BY DEF TypeOK, Endpoint, Sequence
<1>2. TableType'
  <2>1. PICK index \in 1 .. Len(gids) :
            graph_gids' = [graph_gids EXCEPT
                ![graph_index[n]][endpoint[g].kind] = RemoveAt(@, index)]
    OBVIOUS
  <2>2. RemoveAt(gids, index) \in Seq(Guids)
    BY <1>1, RemoveAtType
  <2>3. graph_gids' \in [Slots -> [Kinds -> Seq(Guids)]]
    BY <1>1, <2>1, <2>2 DEF TypeOK, Sequence
  <2> QED BY <2>3 DEF TypeOK, TableType
<1>3. HandlesOwnTheirSlots' /\ SlotsAreNamed'
  BY SlotsStay
<1>4. /\ announced' \in Seq(GraphNode)
      /\ op' \in [Threads -> Call]
      /\ \A u \in Threads \ {t} : op'[u] = op[u]
      /\ op'[t].pc = "remove_endpoint" /\ op'[t].guid = g
  BY <1>1, <1>2, <1>3, WriteType DEF Phases, LockedPhases
<1>5. TypeOK'
  BY <1>2, <1>4 DEF TypeOK, TableType, lock_graph
<1>6. /\ LockProtectsTable'
      /\ \A u \in Threads : op[u].pc \notin LockedPhases
  BY <1>4, LockTaken DEF LockedPhases
<1>7. ASSUME NEW u \in Threads, u # t
      PROVE  CallKnows(u)'
  BY <1>4, <1>6, <1>7, OtherCallKnows DEF CallsInProgress
<1>8. CallKnows(t)'
  BY <1>4 DEF CallKnows, EndpointPhases
<1>9. EndpointsAreNotShared'
  BY <1>4 DEF EndpointsAreNotShared
<1> QED BY <1>3, <1>5, <1>6, <1>7, <1>8, <1>9 DEF CallsInProgress

\* Returning from graph_remove_endpoint and deleting the entity keeps
\* OwnershipInv: no other call has the endpoint.
LEMMA RemoveEndpointEndOwnership ==
    ASSUME OwnershipInv, NEW t \in Threads, graph_remove_endpoint_end(t)
    PROVE  OwnershipInv'
<1> USE DEF OwnershipInv, graph_remove_endpoint_end
<1>1. /\ cached_self' \in Seq(GraphNode) /\ published' \in BOOLEAN
      /\ graph_lock' = NULL
  BY ApplyType
<1>2. /\ LockProtectsTable' /\ CallsInProgress' /\ EndpointsAreNotShared'
      /\ op' \in [Threads -> Call]
  BY <1>1, CallEnds DEF LockedPhases, TypeOK
<1>3. TypeOK'
  BY <1>1, <1>2 DEF TypeOK, table
<1>4. HandlesOwnTheirSlots' /\ SlotsAreNamed'
  BY SlotsStay DEF table
<1> QED BY <1>2, <1>3, <1>4

\* A step that leaves the table, the lock, the endpoints and the calls alone.
LEMMA FrameOwnership ==
    ASSUME OwnershipInv, TypeOK',
           UNCHANGED <<table, graph_lock, endpoint, op>>
    PROVE  OwnershipInv'
<1> USE DEF OwnershipInv
<1>1. LockProtectsTable' /\ EndpointsAreNotShared'
  BY DEF LockProtectsTable, EndpointsAreNotShared
<1>2. HandlesOwnTheirSlots' /\ SlotsAreNamed'
  BY SlotsStay DEF table
<1>3. CallsInProgress'
  BY DEF CallsInProgress, CallKnows, table
<1> QED BY <1>1, <1>2, <1>3

\* Every step keeps OwnershipInv.
LEMMA NextOwnership == OwnershipInv /\ [Next]_vars => OwnershipInv'
<1> SUFFICES ASSUME OwnershipInv, [Next]_vars
             PROVE  OwnershipInv'
  OBVIOUS
<1>1. ASSUME NEW t \in Threads, Begin(t)
      PROVE  OwnershipInv'
  <2>1. ASSUME NEW g \in Guids, graph_remove_endpoint(t, g)
        PROVE  OwnershipInv'
    BY <2>1, RemoveEndpointOwnership DEF graph_remove_endpoint
  <2> QED BY <1>1, <2>1, AddNodeOwnership, RemoveNodeOwnership,
             AddEndpointOwnership DEF Begin
<1>2. ASSUME NEW t \in Threads, Continue(t)
      PROVE  OwnershipInv'
  <2>1. ASSUME graph_unwind_endpoint(t)
        PROVE  OwnershipInv'
    <3>1. /\ op[t].guid \in Guids /\ endpoint[op[t].guid] # NULL
          /\ \A u \in Threads \ {t} : op[u].guid # op[t].guid
      BY <2>1 DEF graph_unwind_endpoint, OwnershipInv, CallsInProgress,
                  CallKnows, EndpointPhases, EndpointsAreNotShared
    <3> QED BY <2>1, <3>1, RemoveEndpointOwnership DEF graph_unwind_endpoint
  <2> QED BY <1>2, <2>1, AddNodeEndOwnership, RemoveNodeEndOwnership,
             AddEndpointEndOwnership, UpsertOwnership,
             RemoveEndpointEndOwnership DEF Continue
<1>3. CASE RemoteNodesChange
  <2>1. TypeOK'
    BY <1>3 DEF RemoteNodesChange, OwnershipInv, TypeOK, table
  <2> QED BY <1>3, <2>1, FrameOwnership DEF RemoteNodesChange
<1>4. CASE UNCHANGED vars
  <2>1. TypeOK'
    BY <1>4 DEF vars, OwnershipInv, TypeOK, table
  <2> QED BY <1>4, <2>1, FrameOwnership DEF vars
<1> QED BY <1>1, <1>2, <1>3, <1>4 DEF Next

\* OwnershipInv holds in every reachable state.
THEOREM OwnershipAlways == Spec => []OwnershipInv
BY InitOwnership, NextOwnership, PTL DEF Spec

\* Every variable keeps its type; in particular graph_node_count stays within
\* the slot arrays whatever fails and is rolled back.
THEOREM TypeCorrect == Spec => []TypeOK
<1>1. OwnershipInv => TypeOK
  BY DEF OwnershipInv
<1> QED BY <1>1, OwnershipAlways, PTL

\* The spin lock of lock_graph excludes: it is held by exactly the thread
\* inside a graph_* operation.
THEOREM MutualExclusion == Spec => []LockProtectsTable
<1>1. OwnershipInv => LockProtectsTable
  BY DEF OwnershipInv
<1> QED BY <1>1, OwnershipAlways, PTL

\* For any number of nodes, threads and slots, compaction and rollback keep
\* node handles and slots in bijection, each slot under its own name.
THEOREM HandlesAreStable == Spec => []HandlesOwnTheirSlots
<1>1. OwnershipInv => HandlesOwnTheirSlots
  BY DEF OwnershipInv
<1> QED BY <1>1, OwnershipAlways, PTL

-----------------------------------------------------------------------------
(* Publication and the room in the graph cache *)

Adding(t) == op[t].pc = "add_node"

\* The cached nodes of all participants are within the limit, and this
\* participant's share covers every slot but that of a node being created.
CacheHasRoom ==
    /\ cached_foreign + Len(cached_self) <= GRAPH_CACHE_MAX_NODES
    /\ (\A t \in Threads : ~Adding(t)) =>
            graph_node_count <= Len(cached_self)
    /\ \A t \in Threads : Adding(t) =>
            graph_node_count <= Len(cached_self) + 1

\* The holder of the lock that wrote, wrote the table as it is now.
HolderWroteTable ==
    \A t \in Threads :
        op[t].pc \in LockedPhases /\ op[t].wrote => announced = Snapshot

PublicationInv == CacheHasRoom /\ HolderWroteTable /\ PublishedIsCurrent

\* The start of a graph_* operation keeps PublicationInv if it adds at most
\* one slot, and only for a node being created.
LEMMA BeginPublication ==
    ASSUME OwnershipInv, OwnershipInv', PublicationInv,
           NEW t \in Threads, NEW pc \in LockedPhases,
           NEW n \in Nodes, NEW g \in Guids \cup {NULL},
           lock_graph(t), dds_write(t, pc, n, g),
           UNCHANGED <<cached_self, cached_foreign>>,
           graph_node_count' <=
                graph_node_count + (IF pc = "add_node" THEN 1 ELSE 0)
    PROVE  PublicationInv'
<1> USE DEF OwnershipInv, PublicationInv
<1>1. /\ \A u \in Threads \ {t} : op'[u] = op[u]
      /\ op'[t].pc = pc
      /\ op'[t].wrote => announced' = Snapshot'
  BY WriteType DEF TypeOK, TableType, Phases
<1>2. \A u \in Threads : op[u].pc \notin LockedPhases
  BY DEF LockProtectsTable, lock_graph
<1>3. graph_node_count <= Len(cached_self) /\ Len(cached_self) \in Nat
  BY <1>2 DEF CacheHasRoom, Adding, LockedPhases, TypeOK
<1>4. \A u \in Threads \ {t} : op'[u].pc \notin LockedPhases
  BY <1>1, <1>2
<1>5. HolderWroteTable'
  BY <1>1, <1>4 DEF HolderWroteTable
<1>6. PublishedIsCurrent'
  BY DEF PublishedIsCurrent, lock_graph
<1>7. CacheHasRoom'
  <2>1. \A u \in Threads \ {t} : ~Adding(u)'
    BY <1>4 DEF Adding, LockedPhases
  <2>2. Adding(t)' <=> pc = "add_node"
    BY <1>1 DEF Adding
  <2>3. graph_node_count \in Nat /\ graph_node_count' \in Nat
    BY DEF TypeOK
  <2>4. CASE pc = "add_node"
    <3>1. graph_node_count' <= Len(cached_self') + 1
      BY <1>3, <2>3, <2>4
    <3> QED BY <2>2, <2>4, <3>1 DEF CacheHasRoom
  <2>5. CASE pc # "add_node"
    <3>1. graph_node_count' <= Len(cached_self')
      BY <1>3, <2>3, <2>5
    <3>2. \A u \in Threads : ~Adding(u)'
      BY <2>1, <2>2, <2>5
    <3> QED BY <3>1, <3>2 DEF CacheHasRoom
  <2> QED BY <2>4, <2>5
<1> QED BY <1>5, <1>6, <1>7

\* The end of a graph_* operation keeps PublicationInv if it rolls back only
\* when publication failed, and then leaves no slot the cache does not hold.
LEMMA EndPublication ==
    ASSUME OwnershipInv, OwnershipInv', PublicationInv,
           NEW t \in Threads, op[t].pc \in LockedPhases,
           graph_cache_apply_snapshot(t),
           UNCHANGED <<announced, cached_foreign>>,
           \A u \in Threads \ {t} : op'[u] = op[u],
           op'[t].pc \notin LockedPhases,
           PublishResult(t) => UNCHANGED table,
           ~PublishResult(t) => graph_node_count' <= Len(cached_self)
    PROVE  PublicationInv'
<1> USE DEF OwnershipInv, PublicationInv
<1>1. \A u \in Threads : op'[u].pc \notin LockedPhases
  BY LockReleased DEF graph_cache_apply_snapshot
<1>2. HolderWroteTable'
  BY <1>1 DEF HolderWroteTable
<1>3. \A u \in Threads : ~Adding(u)'
  BY <1>1 DEF Adding, LockedPhases
<1>4. Len(Snapshot) = graph_node_count
  BY SnapshotType DEF TypeOK, TableType
<1>5. CASE PublishResult(t)
  <2>1. announced = Snapshot
    BY <1>5 DEF PublishResult, HolderWroteTable
  <2>2. Snapshot' = Snapshot /\ graph_node_count' = graph_node_count
    BY <1>5 DEF Snapshot, table
  <2>3. cached_self' = Snapshot
    BY <1>5 DEF graph_cache_apply_snapshot
  <2>4. PublishedIsCurrent'
    BY <2>1, <2>2, <2>3 DEF PublishedIsCurrent
  <2>5. cached_foreign + graph_node_count <= GRAPH_CACHE_MAX_NODES
    BY <1>5 DEF PublishResult, CacheAccepts
  <2>6. graph_node_count \in Nat
    BY DEF TypeOK
  <2> HIDE DEF OwnershipInv
  <2>7. CacheHasRoom'
    BY <1>3, <1>4, <2>2, <2>3, <2>5, <2>6 DEF CacheHasRoom
  <2> QED BY <1>2, <2>4, <2>7
<1>6. CASE ~PublishResult(t)
  <2>1. PublishedIsCurrent'
    BY <1>6 DEF graph_cache_apply_snapshot, PublishedIsCurrent
  <2>2. CacheHasRoom'
    BY <1>3, <1>6 DEF graph_cache_apply_snapshot, CacheHasRoom
  <2> QED BY <1>2, <2>1, <2>2
<1> QED BY <1>5, <1>6

\* The empty table and the empty cache satisfy PublicationInv.
LEMMA InitPublication == Init => PublicationInv
<1> SUFFICES ASSUME Init PROVE PublicationInv
  OBVIOUS
<1>1. \A t \in Threads : op[t].pc = "idle"
  BY DEF Init, Idle
<1>2. Snapshot = <<>>
  BY DEF Init, Snapshot
<1>3. CacheHasRoom
  BY <1>1 DEF Init, CacheHasRoom, Adding
<1>4. HolderWroteTable /\ PublishedIsCurrent
  BY <1>1, <1>2 DEF Init, HolderWroteTable, LockedPhases, PublishedIsCurrent
<1> QED BY <1>3, <1>4 DEF PublicationInv

\* graph_remove_endpoint keeps PublicationInv, whichever caller it has.
LEMMA RemoveEndpointPublication ==
    ASSUME OwnershipInv, OwnershipInv', PublicationInv,
           NEW t \in Threads, NEW g \in Guids, endpoint[g] # NULL,
           RemoveEndpoint(t, g)
    PROVE  PublicationInv'
<1>1. endpoint[g].node \in Nodes
  BY DEF OwnershipInv, TypeOK, Endpoint
<1>2. graph_node_count' = graph_node_count /\ graph_node_count \in Nat
  BY DEF RemoveEndpoint, OwnershipInv, TypeOK
<1>3. /\ lock_graph(t)
      /\ dds_write(t, "remove_endpoint", endpoint[g].node, g)
      /\ UNCHANGED <<cached_self, cached_foreign>>
  BY DEF RemoveEndpoint
<1> QED BY <1>1, <1>2, <1>3, BeginPublication DEF LockedPhases

\* Each way to begin a graph_* operation keeps PublicationInv.
LEMMA BeginKeepsPublication ==
    ASSUME OwnershipInv, OwnershipInv', PublicationInv,
           NEW t \in Threads, Begin(t)
    PROVE  PublicationInv'
<1>1. ASSUME NEW n \in Nodes, graph_add_node(t, n)
      PROVE  PublicationInv'
  BY <1>1, BeginPublication DEF graph_add_node, LockedPhases, OwnershipInv,
                                TypeOK
<1>2. ASSUME NEW n \in Nodes, graph_remove_node(t, n)
      PROVE  PublicationInv'
  BY <1>2, BeginPublication DEF graph_remove_node, LockedPhases, OwnershipInv,
                                TypeOK
<1>3. ASSUME NEW n \in Nodes, NEW g \in Guids, NEW kind \in Kinds,
             graph_add_endpoint(t, n, g, kind)
      PROVE  PublicationInv'
  BY <1>3, BeginPublication DEF graph_add_endpoint, LockedPhases,
                                OwnershipInv, TypeOK
<1>4. ASSUME NEW g \in Guids, graph_remove_endpoint(t, g)
      PROVE  PublicationInv'
  BY <1>4, RemoveEndpointPublication DEF graph_remove_endpoint
<1> QED BY <1>1, <1>2, <1>3, <1>4 DEF Begin

\* Each way a call goes on keeps PublicationInv.
LEMMA ContinueKeepsPublication ==
    ASSUME OwnershipInv, OwnershipInv', PublicationInv,
           NEW t \in Threads, Continue(t)
    PROVE  PublicationInv'
<1> USE DEF OwnershipInv
<1>1. Idle.pc \notin LockedPhases
  BY DEF Idle, LockedPhases
<1>2. op[t].pc \in LockedPhases /\ ~Adding(t) =>
        graph_node_count <= Len(cached_self)
  <2>1. ASSUME op[t].pc \in LockedPhases
        PROVE  \A u \in Threads \ {t} : ~Adding(u)
    BY <2>1 DEF LockProtectsTable, Adding, LockedPhases
  <2> QED BY <2>1 DEF PublicationInv, CacheHasRoom
<1>3. CASE graph_add_node_end(t)
  <2>1. op[t].pc \in LockedPhases /\ Adding(t)
    BY <1>3 DEF graph_add_node_end, LockedPhases, Adding
  <2>2. graph_node_count - 1 <= Len(cached_self)
    BY <2>1 DEF PublicationInv, CacheHasRoom, TypeOK
  <2>3. ~PublishResult(t) => graph_node_count' <= Len(cached_self)
    BY <1>3, <2>2 DEF graph_add_node_end, DropLastSlot
  <2> QED BY <1>1, <1>3, <2>1, <2>3, EndPublication
        DEF graph_add_node_end, TypeOK
<1>4. CASE graph_remove_node_end(t)
  <2>1. op[t].pc \in LockedPhases /\ ~Adding(t)
    BY <1>4 DEF graph_remove_node_end, LockedPhases, Adding
  <2> QED BY <1>1, <1>2, <1>4, <2>1, EndPublication
        DEF graph_remove_node_end, TypeOK, table
<1>5. CASE graph_add_endpoint_end(t)
  <2>1. op[t].pc \in LockedPhases /\ ~Adding(t)
    BY <1>5 DEF graph_add_endpoint_end, LockedPhases, Adding
  <2>2. op'[t].pc \notin LockedPhases
        /\ \A u \in Threads \ {t} : op'[u] = op[u]
    <3>1. CASE op' = [op EXCEPT ![t].pc = "upsert"]
      BY <3>1 DEF TypeOK, Call, LockedPhases
    <3>2. CASE op' = [op EXCEPT ![t] = Idle]
      BY <1>1, <3>2 DEF TypeOK
    <3> QED BY <1>5, <3>1, <3>2 DEF graph_add_endpoint_end
  <2>3. PublishResult(t) => UNCHANGED table
    BY <1>5 DEF graph_add_endpoint_end, table
  <2>4. ~PublishResult(t) => graph_node_count' <= Len(cached_self)
    BY <1>2, <1>5, <2>1 DEF graph_add_endpoint_end
  <2>5. /\ graph_cache_apply_snapshot(t)
        /\ UNCHANGED <<announced, cached_foreign>>
    BY <1>5 DEF graph_add_endpoint_end
  <2> QED BY <2>1, <2>2, <2>3, <2>4, <2>5, EndPublication
<1>6. CASE graph_cache_upsert_endpoint(t)
  <2>1. /\ \A u \in Threads \ {t} : op'[u] = op[u]
        /\ op[t].pc \notin LockedPhases
        /\ op'[t].pc \notin LockedPhases
    <3>1. CASE op' = [op EXCEPT ![t].pc = "unwind"]
      BY <1>6, <3>1 DEF graph_cache_upsert_endpoint, TypeOK, Call, LockedPhases
    <3>2. CASE op' = [op EXCEPT ![t] = Idle]
      BY <1>1, <1>6, <3>2 DEF graph_cache_upsert_endpoint, TypeOK, LockedPhases
    <3> QED BY <1>6, <3>1, <3>2 DEF graph_cache_upsert_endpoint
  <2>2. UNCHANGED <<table, graph_lock, announced, cached_self, cached_foreign,
                    published>>
    BY <1>6 DEF graph_cache_upsert_endpoint
  <2>3. HolderWroteTable' /\ PublishedIsCurrent'
    BY <2>1, <2>2 DEF PublicationInv, HolderWroteTable, PublishedIsCurrent,
                      Snapshot, table
  <2>4. \A u \in Threads : Adding(u)' <=> Adding(u)
    BY <2>1 DEF Adding, LockedPhases
  <2>5. CacheHasRoom'
    BY <2>2, <2>4 DEF PublicationInv, CacheHasRoom, table
  <2> QED BY <2>3, <2>5 DEF PublicationInv
<1>7. CASE graph_unwind_endpoint(t)
  <2>1. op[t].guid \in Guids /\ endpoint[op[t].guid] # NULL
    BY <1>7 DEF graph_unwind_endpoint, CallsInProgress, CallKnows,
                EndpointPhases
  <2> HIDE DEF OwnershipInv
  <2> QED BY <1>7, <2>1, RemoveEndpointPublication DEF graph_unwind_endpoint
<1>8. CASE graph_remove_endpoint_end(t)
  <2>1. op[t].pc \in LockedPhases /\ ~Adding(t)
    BY <1>8 DEF graph_remove_endpoint_end, LockedPhases, Adding
  <2> QED BY <1>1, <1>2, <1>8, <2>1, EndPublication
        DEF graph_remove_endpoint_end, TypeOK, table
<1> QED BY <1>3, <1>4, <1>5, <1>6, <1>7, <1>8 DEF Continue

\* Every step keeps PublicationInv.
LEMMA NextPublication ==
    OwnershipInv /\ OwnershipInv' /\ PublicationInv /\ [Next]_vars
        => PublicationInv'
<1> SUFFICES ASSUME OwnershipInv, OwnershipInv', PublicationInv, [Next]_vars
             PROVE  PublicationInv'
  OBVIOUS
<1>1. ASSUME UNCHANGED <<table, graph_lock, announced, cached_self, published,
                         op>>,
             cached_foreign' + Len(cached_self) <= GRAPH_CACHE_MAX_NODES
      PROVE  PublicationInv'
  BY <1>1 DEF PublicationInv, CacheHasRoom, Adding, HolderWroteTable,
              PublishedIsCurrent, Snapshot, table
<1>2. CASE RemoteNodesChange
  BY <1>1, <1>2 DEF RemoteNodesChange
<1>3. CASE UNCHANGED vars
  BY <1>1, <1>3 DEF vars, PublicationInv, CacheHasRoom
<1> QED BY <1>2, <1>3, BeginKeepsPublication, ContinueKeepsPublication
      DEF Next

\* PublicationInv holds in every reachable state.
THEOREM PublicationAlways == Spec => []PublicationInv
BY OwnershipAlways, InitPublication, NextPublication, PTL DEF Spec

\* For any limits and any behaviour of remote participants, the bounded graph
\* cache can make only graph_add_node fail: removals and endpoint operations
\* always have room for their snapshot.
THEOREM OnlyCreationRefused == Spec => []OnlyNodeCreationIsRefused
<1>1. OwnershipInv /\ PublicationInv => OnlyNodeCreationIsRefused
  <2> SUFFICES ASSUME OwnershipInv, PublicationInv, NEW t \in Threads,
                      op[t].pc \in LockedPhases \ {"add_node"}
               PROVE  CacheAccepts
    BY DEF OnlyNodeCreationIsRefused
  <2>1. \A u \in Threads : ~Adding(u)
    BY DEF OwnershipInv, LockProtectsTable, Adding, LockedPhases
  <2>2. /\ graph_node_count <= Len(cached_self)
        /\ cached_foreign + Len(cached_self) <= GRAPH_CACHE_MAX_NODES
    BY <2>1 DEF PublicationInv, CacheHasRoom
  <2>3. /\ graph_node_count \in Nat /\ Len(cached_self) \in Nat
        /\ cached_foreign \in Nat
    BY DEF OwnershipInv, TypeOK
  <2> QED BY <2>2, <2>3 DEF CacheAccepts
<1> QED BY <1>1, OwnershipAlways, PublicationAlways, PTL

\* Whatever failed before, after a successful graph_publish_locked the
\* retained sample, the cache and the table agree until the next operation.
THEOREM PublicationIsCurrent == Spec => []PublishedIsCurrent
<1>1. PublicationInv => PublishedIsCurrent
  BY DEF PublicationInv
<1> QED BY <1>1, PublicationAlways, PTL
=============================================================================
