------------------------- MODULE LocalGraphEndpoints -------------------------
(***************************************************************************)
(* What is proved of the endpoints in LocalGraph, on top of OwnershipInv   *)
(* and PublicationInv of LocalGraphProofs, again for every set of threads, *)
(* nodes and GUIDs and every value of the limits: each endpoint is listed  *)
(* once, stays visible, is announced gone before it is deleted, and the    *)
(* slot array implements GraphTable.                                       *)
(*                                                                         *)
(* Slots move, so the inductive invariant EndpointInv is stated of nodes:  *)
(* GidsOf(n) are the two GID sequences of node n wherever they are kept.   *)
(* Seen that way compaction changes nothing, and each operation changes    *)
(* one membership.                                                         *)
(***************************************************************************)
EXTENDS LocalGraphProofs, SequenceLemmas, FiniteSetTheorems

\* The GID sequences of node n.
GidsOf(n) == graph_gids[graph_index[n]]

Own(n, kind) == [node |-> n, kind |-> kind]

\* What a node lists was created on it with that kind and is not being removed.
ListedAreOwn ==
    \A n \in Nodes, kind \in Kinds : node_context[n] =>
        \A j \in 1 .. Len(GidsOf(n)[kind]) :
            /\ endpoint[GidsOf(n)[kind][j]] = Own(n, kind)
            /\ ~BeingRemoved(GidsOf(n)[kind][j])

NoneIsListedTwice ==
    \A n \in Nodes, kind \in Kinds : node_context[n] =>
        \A i, j \in 1 .. Len(GidsOf(n)[kind]) :
            GidsOf(n)[kind][i] = GidsOf(n)[kind][j] => i = j

ExistingAreListed ==
    \A g \in Guids : endpoint[g] # NULL /\ ~BeingRemoved(g) =>
        /\ node_context[endpoint[g].node]
        /\ \E i \in 1 .. Len(GidsOf(endpoint[g].node)[endpoint[g].kind]) :
                GidsOf(endpoint[g].node)[endpoint[g].kind][i] = g

ListingInv == ListedAreOwn /\ NoneIsListedTwice /\ ExistingAreListed

\* What the two rollbacks rely on: the endpoint being added is the last of its
\* sequence, and the node being added lists nothing.
RollbackInv ==
    \A t \in Threads :
        /\ op[t].pc = "add_endpoint" =>
                /\ Sequence(op[t].guid) # <<>>
                /\ Sequence(op[t].guid)[Len(Sequence(op[t].guid))] = op[t].guid
        /\ op[t].pc = "add_node" => GidsOf(op[t].node) = NoGids

EndpointInv == ListingInv /\ RollbackInv

\* Dropping the last element keeps all the others where they are.
LEMMA DropLastListing ==
    ASSUME NEW S, NEW s \in Seq(S), s # <<>>
    PROVE  /\ Len(DropLast(s)) = Len(s) - 1
           /\ \A i \in 1 .. Len(s) - 1 : DropLast(s)[i] = s[i]
<1>1. Len(s) \in 1 .. Len(s)
  OBVIOUS
<1>2. /\ Len(SubSeq(s, 1, Len(s) - 1)) = Len(s) - 1
      /\ \A j \in 1 .. Len(s) - 1 : SubSeq(s, 1, Len(s) - 1)[j] = s[j]
  BY <1>1, PrefixListing, Zenon
<1> QED BY <1>2, Zenon DEF DropLast

USE LimitsArePositive, NullIsNoHandle, NullIsNoEndpoint

-----------------------------------------------------------------------------
(* Nodes and what they list *)

\* Nodes that come or go list nothing, and the others list what they did.
LEMMA SameListing ==
    ASSUME OwnershipInv, ListingInv, OwnershipInv',
           \A n \in Nodes : node_context[n] /\ node_context'[n] =>
                GidsOf(n)' = GidsOf(n),
           \A n \in Nodes : node_context[n] /\ ~node_context'[n] =>
                GidsOf(n) = NoGids,
           \A n \in Nodes : ~node_context[n] /\ node_context'[n] =>
                GidsOf(n)' = NoGids,
           UNCHANGED endpoint,
           \A g \in Guids : BeingRemoved(g)' <=> BeingRemoved(g)
    PROVE  ListingInv'
<1> USE DEF ListingInv
<1>1. \A n \in Nodes, kind \in Kinds :
        /\ GidsOf(n)[kind] \in Seq(Guids)
        /\ GidsOf(n)'[kind] \in Seq(Guids)
  BY DEF OwnershipInv, TypeOK, GidsOf
<1>2. \A kind \in Kinds : NoGids[kind] = <<>>
  BY DEF NoGids
<1>3. ASSUME NEW n \in Nodes, NEW kind \in Kinds, node_context'[n],
             NEW j \in 1 .. Len(GidsOf(n)'[kind])
      PROVE  node_context[n] /\ GidsOf(n)' = GidsOf(n)
  BY <1>2, <1>3
<1>4. ListedAreOwn'
  <2> SUFFICES ASSUME NEW n \in Nodes, NEW kind \in Kinds, node_context'[n],
                      NEW j \in 1 .. Len(GidsOf(n)'[kind])
               PROVE  /\ endpoint'[GidsOf(n)'[kind][j]] = Own(n, kind)
                      /\ ~BeingRemoved(GidsOf(n)[kind][j])'
    BY DEF ListedAreOwn, Own
  <2>1. node_context[n] /\ GidsOf(n)' = GidsOf(n)
    BY <1>3
  <2>2. GidsOf(n)[kind][j] \in Guids
    BY <1>1, <2>1
  <2> QED BY <2>1, <2>2 DEF ListedAreOwn
<1>5. NoneIsListedTwice'
  BY <1>3 DEF NoneIsListedTwice
<1>6. ExistingAreListed'
  <2> SUFFICES ASSUME NEW g \in Guids, endpoint[g] # NULL, ~BeingRemoved(g)
               PROVE  /\ node_context'[endpoint[g].node]
                      /\ \E i \in 1 .. Len(GidsOf(endpoint[g].node)'
                                                    [endpoint[g].kind]) :
                            GidsOf(endpoint[g].node)'[endpoint[g].kind][i] = g
    BY DEF ExistingAreListed
  <2> DEFINE n == endpoint[g].node
             kind == endpoint[g].kind
  <2>1. n \in Nodes /\ kind \in Kinds
    BY DEF OwnershipInv, TypeOK, Endpoint
  <2>2. /\ node_context[n]
        /\ \E i \in 1 .. Len(GidsOf(n)[kind]) : GidsOf(n)[kind][i] = g
    BY DEF ExistingAreListed
  <2>3. GidsOf(n) # NoGids
    BY <1>2, <2>1, <2>2
  <2>4. node_context'[n] /\ GidsOf(n)' = GidsOf(n)
    BY <2>1, <2>2, <2>3
  <2> QED BY <2>2, <2>4
<1> QED BY <1>4, <1>5, <1>6

\* The threads that hold no lock in the next state have nothing to roll back.
LEMMA RollbackOfHolderPrimed ==
    ASSUME NEW t \in Threads,
           \A u \in Threads \ {t} : op'[u].pc \notin LockedPhases,
           op'[t].pc = "add_endpoint" =>
                /\ Sequence(op[t].guid)' # <<>>
                /\ Sequence(op[t].guid)'[Len(Sequence(op[t].guid)')]
                        = op'[t].guid,
           op'[t].pc = "add_node" => GidsOf(op[t].node)' = NoGids
    PROVE  RollbackInv'
BY DEF RollbackInv, LockedPhases

\* Whoever takes the lock finds nobody inside a graph_* operation.
LEMMA LockWasFree ==
    ASSUME OwnershipInv, NEW t \in Threads, lock_graph(t)
    PROVE  \A u \in Threads : op[u].pc \notin LockedPhases
BY DEF OwnershipInv, LockProtectsTable, lock_graph

\* graph_add_node: the new node lists nothing.
LEMMA AddNodeEndpoints ==
    ASSUME OwnershipInv, OwnershipInv', EndpointInv,
           NEW t \in Threads, NEW n \in Nodes, graph_add_node(t, n)
    PROVE  /\ EndpointInv'
           /\ GidsOf(n)' = NoGids
           /\ \A m \in Nodes : node_context[m] => GidsOf(m)' = GidsOf(m)
<1> USE DEF EndpointInv
<1>1. /\ \A u \in Threads \ {t} : op'[u] = op[u]
      /\ op'[t].pc = "add_node" /\ op'[t].node = n
  BY WriteType DEF OwnershipInv, TypeOK, TableType, graph_add_node, Phases,
                   LockedPhases
<1>2. \A u \in Threads : op[u].pc \notin LockedPhases
  BY LockWasFree DEF graph_add_node
<1>3. \A g \in Guids : BeingRemoved(g)' <=> BeingRemoved(g)
  BY <1>1, <1>2 DEF BeingRemoved, LockedPhases
<1>4. GidsOf(n)' = NoGids
  BY DEF graph_add_node, GidsOf, OwnershipInv, TypeOK, Slots
<1>5. ASSUME NEW m \in Nodes, node_context[m]
      PROVE  GidsOf(m)' = GidsOf(m)
  <2>1. m # n
    BY <1>5 DEF graph_add_node
  <2>2. graph_index'[m] = graph_index[m] /\ graph_index[m] # graph_node_count
    BY <1>5, <2>1 DEF graph_add_node, OwnershipInv, TypeOK,
                      HandlesOwnTheirSlots, graph_node_is_valid_locked, Slots
  <2> QED BY <2>2 DEF GidsOf, graph_add_node, OwnershipInv, TypeOK
<1>6. \A m \in Nodes : ~node_context[m] /\ node_context'[m] => m = n
  BY DEF graph_add_node, OwnershipInv, TypeOK
<1>7. \A m \in Nodes : node_context[m] => node_context'[m]
  BY DEF graph_add_node, OwnershipInv, TypeOK
<1>8. ListingInv'
  BY <1>3, <1>4, <1>5, <1>6, <1>7, SameListing DEF graph_add_node
<1>9. RollbackInv'
  BY <1>1, <1>2, <1>4, RollbackOfHolderPrimed
<1> QED BY <1>4, <1>5, <1>8, <1>9

\* Returning from graph_add_node: the slot the rollback drops lists nothing.
LEMMA AddNodeEndEndpoints ==
    ASSUME OwnershipInv, OwnershipInv', EndpointInv,
           NEW t \in Threads, graph_add_node_end(t)
    PROVE  /\ EndpointInv'
           /\ \A m \in Nodes : node_context'[m] => GidsOf(m)' = GidsOf(m)
           /\ GidsOf(op[t].node) = NoGids /\ op[t].node \in Nodes
<1> USE DEF EndpointInv
<1>1. /\ \A u \in Threads \ {t} : op'[u] = op[u]
      /\ op[t].pc = "add_node" /\ op'[t].pc = "idle"
  BY DEF OwnershipInv, TypeOK, graph_add_node_end, Idle
<1>2. \A u \in Threads \ {t} : op[u].pc \notin LockedPhases
  BY <1>1 DEF OwnershipInv, LockProtectsTable, LockedPhases
<1>3. \A g \in Guids : BeingRemoved(g)' <=> BeingRemoved(g)
  BY <1>1, <1>2 DEF BeingRemoved, LockedPhases
<1>4. RollbackInv'
  BY <1>1, <1>2, RollbackOfHolderPrimed
<1>7. GidsOf(op[t].node) = NoGids /\ op[t].node \in Nodes
  BY <1>1 DEF OwnershipInv, CallsInProgress, CallKnows, RollbackInv
<1>5. CASE UNCHANGED table
  <2>1. ListingInv'
    BY <1>3, <1>5, SameListing DEF graph_add_node_end, table, GidsOf
  <2>2. \A m \in Nodes : GidsOf(m)' = GidsOf(m)
    BY <1>5 DEF table, GidsOf
  <2> QED BY <1>4, <1>7, <2>1, <2>2
<1>6. CASE /\ DropLastSlot
           /\ node_context' = [node_context EXCEPT ![op[t].node] = FALSE]
           /\ UNCHANGED graph_index
  <2> DEFINE n == op[t].node
  <2>1. /\ n \in Nodes /\ node_context[n] /\ GidsOf(n) = NoGids
        /\ graph_index[n] = graph_node_count - 1
    BY <1>1 DEF OwnershipInv, CallsInProgress, CallKnows, RollbackInv
  <2>2. ASSUME NEW m \in Nodes, m # n, node_context[m]
        PROVE  GidsOf(m)' = GidsOf(m)
    <3>1. graph_index[m] # graph_node_count - 1
      BY <2>1, <2>2 DEF OwnershipInv, HandlesOwnTheirSlots,
                        graph_node_is_valid_locked
    <3> QED BY <1>6, <3>1 DEF DropLastSlot, GidsOf, OwnershipInv, TypeOK
  <2>3. \A m \in Nodes : node_context'[m] <=> node_context[m] /\ m # n
    BY <1>6, <2>1 DEF OwnershipInv, TypeOK
  <2>4. ListingInv'
    BY <1>3, <2>1, <2>2, <2>3, SameListing DEF graph_add_node_end
  <2> QED BY <1>4, <1>7, <2>2, <2>3, <2>4
<1> QED BY <1>5, <1>6 DEF graph_add_node_end

\* graph_remove_node: the GID sequences of every other node move with its slot.
LEMMA RemoveNodeEndpoints ==
    ASSUME OwnershipInv, OwnershipInv', EndpointInv,
           NEW t \in Threads, NEW n \in Nodes, graph_remove_node(t, n)
    PROVE  /\ EndpointInv'
           /\ \A m \in Nodes \ {n} : node_context[m] => GidsOf(m)' = GidsOf(m)
<1> USE DEF EndpointInv
<1>1. /\ \A u \in Threads \ {t} : op'[u] = op[u]
      /\ op'[t].pc = "remove_node"
  BY WriteType DEF OwnershipInv, TypeOK, TableType, graph_remove_node, Phases,
                   LockedPhases
<1>2. \A u \in Threads : op[u].pc \notin LockedPhases
  BY LockWasFree DEF graph_remove_node
<1>3. \A g \in Guids : BeingRemoved(g)' <=> BeingRemoved(g)
  BY <1>1, <1>2 DEF BeingRemoved, LockedPhases
<1>4. RollbackInv'
  BY <1>1, <1>2, RollbackOfHolderPrimed
<1> DEFINE r == graph_index[n]
<1>5. /\ r \in Slots /\ r < graph_node_count
      /\ graph_node_count \in 1 .. GRAPH_MAX_NODES
  BY DEF OwnershipInv, TypeOK, graph_node_is_valid_locked, Slots,
         graph_remove_node
<1>6. \A m \in Nodes \ {n} : node_context[m] =>
            /\ graph_index[m] # r
            /\ graph_index[m] < r => graph_index'[m] = graph_index[m]
            /\ graph_index[m] > r => graph_index'[m] = graph_index[m] - 1
  BY Compaction DEF OwnershipInv, graph_remove_node
<1>7. ASSUME NEW m \in Nodes \ {n}, node_context[m]
      PROVE  GidsOf(m)' = GidsOf(m)
  <2>1. graph_index[m] \in Slots /\ graph_index[m] < graph_node_count
    BY <1>7 DEF OwnershipInv, TypeOK, HandlesOwnTheirSlots,
                graph_node_is_valid_locked
  <2>0. graph_gids' = Compacted(graph_gids, r, NoGids)
    BY DEF graph_remove_node
  <2>2. CASE graph_index[m] < r
    BY <1>5, <1>6, <1>7, <2>0, <2>1, <2>2 DEF GidsOf, Compacted, Slots
  <2>3. CASE graph_index[m] > r
    <3>1. /\ graph_index'[m] = graph_index[m] - 1
          /\ graph_index'[m] \in Slots /\ ~(graph_index'[m] < r)
          /\ graph_index'[m] + 1 = graph_index[m]
      BY <1>5, <1>6, <1>7, <2>1, <2>3 DEF Slots
    <3>2. graph_gids'[graph_index'[m]] = graph_gids[graph_index[m]]
      BY <2>0, <2>1, <3>1 DEF Compacted
    <3> QED BY <3>2 DEF GidsOf
  <2> QED BY <1>5, <1>6, <1>7, <2>1, <2>2, <2>3 DEF Slots
<1>8. GidsOf(n) = NoGids
  BY DEF graph_remove_node, GidsOf
<1>9. \A m \in Nodes : node_context'[m] <=> node_context[m] /\ m # n
  BY DEF graph_remove_node, OwnershipInv, TypeOK
<1>10. ListingInv'
  BY <1>3, <1>7, <1>8, <1>9, SameListing DEF graph_remove_node
<1> QED BY <1>4, <1>7, <1>10

\* Returning from graph_remove_node changes no listing.
LEMMA RemoveNodeEndEndpoints ==
    ASSUME OwnershipInv, OwnershipInv', EndpointInv,
           NEW t \in Threads, graph_remove_node_end(t)
    PROVE  EndpointInv'
<1> USE DEF EndpointInv
<1>1. /\ \A u \in Threads \ {t} : op'[u] = op[u]
      /\ op[t].pc = "remove_node" /\ op'[t].pc = "idle"
  BY DEF OwnershipInv, TypeOK, graph_remove_node_end, Idle
<1>2. \A u \in Threads \ {t} : op[u].pc \notin LockedPhases
  BY <1>1 DEF OwnershipInv, LockProtectsTable, LockedPhases
<1>3. \A g \in Guids : BeingRemoved(g)' <=> BeingRemoved(g)
  BY <1>1, <1>2 DEF BeingRemoved, LockedPhases
<1>4. RollbackInv'
  BY <1>1, <1>2, RollbackOfHolderPrimed
<1>5. ListingInv'
  BY <1>3, SameListing DEF graph_remove_node_end, table, GidsOf
<1> QED BY <1>4, <1>5

\* A change of one GID sequence leaves those of other nodes and of the other
\* kind alone, because no two handles share a slot.
LEMMA OneSequenceChanges ==
    ASSUME OwnershipInv, NEW n \in Nodes, graph_node_is_valid_locked(n),
           NEW kind \in Kinds, NEW new,
           graph_gids' = [graph_gids EXCEPT ![graph_index[n]][kind] = new],
           UNCHANGED graph_index
    PROVE  /\ GidsOf(n)'[kind] = new
           /\ \A m \in Nodes, k \in Kinds :
                node_context[m] /\ (m # n \/ k # kind) =>
                    GidsOf(m)'[k] = GidsOf(m)[k]
<1>1. /\ graph_index[n] \in Slots /\ graph_gids \in [Slots -> [Kinds -> Seq(Guids)]]
      /\ \A m \in Nodes : graph_index[m] \in Slots
  BY DEF OwnershipInv, TypeOK
<1>2. GidsOf(n)'[kind] = new
  BY <1>1 DEF GidsOf
<1>3. ASSUME NEW m \in Nodes, NEW k \in Kinds, node_context[m], m # n
      PROVE  GidsOf(m)'[k] = GidsOf(m)[k]
  <2>1. graph_index[m] # graph_index[n]
    BY <1>3 DEF OwnershipInv, HandlesOwnTheirSlots, graph_node_is_valid_locked
  <2> QED BY <1>1, <2>1 DEF GidsOf
<1>4. ASSUME NEW k \in Kinds, k # kind
      PROVE  GidsOf(n)'[k] = GidsOf(n)[k]
  BY <1>1, <1>4 DEF GidsOf
<1> QED BY <1>2, <1>3, <1>4

\* graph_add_endpoint: the new GID is the last entry of its node's sequence.
LEMMA AddEndpointEndpoints ==
    ASSUME OwnershipInv, OwnershipInv', EndpointInv,
           NEW t \in Threads, NEW n \in Nodes, NEW g \in Guids,
           NEW kind \in Kinds, graph_add_endpoint(t, n, g, kind)
    PROVE  EndpointInv'
<1> USE DEF EndpointInv, ListingInv
<1> DEFINE old == GidsOf(n)[kind]
<1>1. /\ endpoint[g] = NULL /\ lock_graph(t)
      /\ graph_node_is_valid_locked(n) /\ node_context[n]
      /\ graph_gids' = [graph_gids EXCEPT ![graph_index[n]][kind] =
                            Append(old, g)]
      /\ endpoint' = [endpoint EXCEPT ![g] = Own(n, kind)]
      /\ UNCHANGED <<node_context, graph_index>>
      /\ dds_write(t, "add_endpoint", n, g)
  BY DEF graph_add_endpoint, Own, GidsOf, graph_node_is_valid_locked
<1>2. /\ \A u \in Threads \ {t} : op'[u] = op[u]
      /\ op'[t].pc = "add_endpoint" /\ op'[t].guid = g
  <2>1. TypeOK /\ TableType' /\ SlotsAreNamed'
    BY DEF OwnershipInv, TypeOK, TableType
  <2>2. PICK pc \in Phases : pc = "add_endpoint" /\ dds_write(t, pc, n, g)
    BY <1>1 DEF Phases, LockedPhases
  <2>3. /\ \A u \in Threads \ {t} : op'[u] = op[u]
        /\ op'[t].pc = pc /\ op'[t].guid = g
    BY <2>1, <2>2, WriteType
  <2> QED BY <2>2, <2>3
<1>3. \A u \in Threads : op[u].pc \notin LockedPhases
  BY <1>1, LockWasFree
<1>4. \A h \in Guids : ~BeingRemoved(h) /\ ~BeingRemoved(h)'
  BY <1>2, <1>3 DEF BeingRemoved, LockedPhases
<1>5. /\ GidsOf(n)'[kind] = Append(old, g)
      /\ \A m \in Nodes, k \in Kinds :
            node_context[m] /\ (m # n \/ k # kind) =>
                GidsOf(m)'[k] = GidsOf(m)[k]
  BY <1>1, OneSequenceChanges
<1>6. /\ endpoint'[g] = Own(n, kind) /\ Own(n, kind) \in Endpoint
      /\ Own(n, kind) # NULL
      /\ \A h \in Guids : h # g => endpoint'[h] = endpoint[h]
  BY <1>1 DEF OwnershipInv, TypeOK, Endpoint, Own
<1>7. /\ old \in Seq(Guids)
      /\ \A m \in Nodes, k \in Kinds : GidsOf(m)[k] \in Seq(Guids)
  BY DEF OwnershipInv, TypeOK, GidsOf
<1>8. \A m \in Nodes, k \in Kinds : node_context[m] =>
        \A j \in 1 .. Len(GidsOf(m)[k]) :
            GidsOf(m)[k][j] \in Guids /\ GidsOf(m)[k][j] # g
  <2> SUFFICES ASSUME NEW m \in Nodes, NEW k \in Kinds, node_context[m],
                      NEW j \in 1 .. Len(GidsOf(m)[k])
               PROVE  GidsOf(m)[k][j] \in Guids /\ GidsOf(m)[k][j] # g
    OBVIOUS
  <2>1. GidsOf(m)[k][j] \in Guids
    BY <1>7
  <2>2. endpoint[GidsOf(m)[k][j]] = Own(m, k) /\ Own(m, k) \in Endpoint
    BY DEF ListedAreOwn, Own, Endpoint
  <2> QED BY <1>1, <2>1, <2>2
<1>9. /\ Len(Append(old, g)) = Len(old) + 1
      /\ Append(old, g)[Len(old) + 1] = g
      /\ \A i \in 1 .. Len(old) : Append(old, g)[i] = old[i]
      /\ Append(old, g) # <<>> /\ Len(old) \in Nat
  BY <1>7, AppendListing
<1> HIDE DEF old
<1>10. ListedAreOwn'
  <2> SUFFICES ASSUME NEW m \in Nodes, NEW k \in Kinds, node_context'[m],
                      NEW j \in 1 .. Len(GidsOf(m)'[k])
               PROVE  /\ endpoint'[GidsOf(m)'[k][j]] = Own(m, k)
                      /\ ~BeingRemoved(GidsOf(m)[k][j])'
    BY DEF ListedAreOwn, Own
  <2>1. node_context[m]
    BY <1>1
  <2>2. CASE m # n \/ k # kind
    <3>1. GidsOf(m)'[k] = GidsOf(m)[k]
      BY <1>5, <2>1, <2>2
    <3>2. GidsOf(m)[k][j] \in Guids /\ GidsOf(m)[k][j] # g
      BY <1>8, <2>1, <3>1
    <3>3. endpoint[GidsOf(m)[k][j]] = Own(m, k)
      BY <2>1, <3>1 DEF ListedAreOwn
    <3> QED BY <1>4, <1>6, <3>1, <3>2, <3>3
  <2>3. CASE m = n /\ k = kind
    <3>1. CASE j = Len(old) + 1
      BY <1>4, <1>5, <1>6, <1>9, <2>3, <3>1
    <3>2. CASE j # Len(old) + 1
      <4>1. j \in 1 .. Len(old) /\ GidsOf(m)'[k][j] = old[j]
        BY <1>5, <1>9, <2>3, <3>2
      <4>2. old[j] \in Guids /\ old[j] # g /\ endpoint[old[j]] = Own(m, k)
        BY <1>8, <2>1, <2>3, <4>1 DEF ListedAreOwn, old
      <4> QED BY <1>4, <1>6, <4>1, <4>2
    <3> QED BY <3>1, <3>2
  <2> QED BY <2>2, <2>3
<1>11. NoneIsListedTwice'
  <2> SUFFICES ASSUME NEW m \in Nodes, NEW k \in Kinds, node_context'[m],
                      NEW i \in 1 .. Len(GidsOf(m)'[k]),
                      NEW j \in 1 .. Len(GidsOf(m)'[k]),
                      GidsOf(m)'[k][i] = GidsOf(m)'[k][j]
               PROVE  i = j
    BY DEF NoneIsListedTwice
  <2>1. node_context[m]
    BY <1>1
  <2>2. CASE m # n \/ k # kind
    BY <1>5, <2>1, <2>2 DEF NoneIsListedTwice
  <2>3. CASE m = n /\ k = kind
    <3>1. \A l \in 1 .. Len(old) : old[l] # g
      BY <1>1, <1>8 DEF old
    <3>2. \A l, h \in 1 .. Len(old) : old[l] = old[h] => l = h
      BY <1>1 DEF NoneIsListedTwice, old
    <3>3. /\ i \in 1 .. Len(old) + 1 /\ j \in 1 .. Len(old) + 1
          /\ Append(old, g)[i] = Append(old, g)[j]
      BY <1>5, <1>9, <2>3
    <3> QED BY <1>9, <3>1, <3>2, <3>3
  <2> QED BY <2>2, <2>3
<1>12. ExistingAreListed'
  <2> SUFFICES ASSUME NEW h \in Guids, endpoint'[h] # NULL
               PROVE  /\ node_context'[endpoint'[h].node]
                      /\ \E i \in 1 .. Len(GidsOf(endpoint[h].node)'
                                                    [endpoint'[h].kind]) :
                            GidsOf(endpoint[h].node)'[endpoint'[h].kind][i] = h
    BY DEF ExistingAreListed
  <2>1. CASE h = g
    <3>1. endpoint'[h].node = n /\ endpoint'[h].kind = kind
      BY <1>6, <2>1 DEF Own
    <3>2. GidsOf(endpoint[h].node)'[endpoint'[h].kind] = Append(old, g)
      BY <1>5, <3>1 DEF GidsOf
    <3>3. Len(old) + 1 \in 1 .. Len(Append(old, g))
      BY <1>9
    <3> QED BY <1>1, <1>9, <2>1, <3>1, <3>2, <3>3
  <2>2. CASE h # g
    <3>1. endpoint'[h] = endpoint[h]
      BY <1>6, <2>2
    <3>2. PICK m \in Nodes, k \in Kinds :
                endpoint[h].node = m /\ endpoint[h].kind = k /\ node_context[m]
      <4>1. endpoint[h].node \in Nodes /\ endpoint[h].kind \in Kinds
        BY <3>1 DEF OwnershipInv, TypeOK, Endpoint
      <4>2. node_context[endpoint[h].node]
        BY <1>4, <3>1 DEF ExistingAreListed
      <4> QED BY <4>1, <4>2
    <3>3. PICK i \in 1 .. Len(GidsOf(m)[k]) : GidsOf(m)[k][i] = h
      BY <1>4, <3>1, <3>2 DEF ExistingAreListed
    <3>4. /\ node_context'[endpoint'[h].node]
          /\ GidsOf(endpoint[h].node)'[endpoint'[h].kind] = GidsOf(m)'[k]
      BY <1>1, <3>1, <3>2 DEF GidsOf
    <3>5. CASE m # n \/ k # kind
      <4>1. GidsOf(m)'[k] = GidsOf(m)[k]
        BY <1>5, <3>2, <3>5
      <4> QED BY <3>3, <3>4, <4>1
    <3>6. CASE m = n /\ k = kind
      <4>1. i \in 1 .. Len(old) /\ old[i] = h
        BY <3>3, <3>6 DEF old
      <4>2. i \in 1 .. Len(Append(old, g)) /\ Append(old, g)[i] = h
        BY <1>9, <4>1
      <4>3. GidsOf(m)'[k] = Append(old, g)
        BY <1>5, <3>6
      <4> QED BY <3>4, <4>2, <4>3
    <3> QED BY <3>5, <3>6
  <2> QED BY <2>1, <2>2
<1>13. RollbackInv'
  <2>1. Sequence(g)' = Append(old, g)
    BY <1>5, <1>6 DEF Sequence, GidsOf, Own
  <2>2. Sequence(op[t].guid)' = Append(old, g)
    BY <1>2, <2>1 DEF Sequence
  <2>3. /\ Append(old, g)[Len(Append(old, g))] = op'[t].guid
        /\ Append(old, g) # <<>>
    BY <1>2, <1>9
  <2>4. \A u \in Threads \ {t} : op'[u].pc \notin LockedPhases
    BY <1>2, <1>3
  <2> QED BY <1>2, <2>2, <2>3, <2>4, RollbackOfHolderPrimed
<1> QED BY <1>10, <1>11, <1>12, <1>13

\* new is old without its entry at index.
LacksOne(new, old, index) ==
    /\ index \in 1 .. Len(old) /\ Len(new) = Len(old) - 1
    /\ \A j \in 1 .. Len(old) - 1 :
            new[j] = IF j < index THEN old[j] ELSE old[j + 1]

\* One entry leaves one sequence, and its endpoint is deleted or being removed.
LEMMA OneIsUnlisted ==
    ASSUME OwnershipInv, ListingInv,
           NEW n \in Nodes, graph_node_is_valid_locked(n), NEW kind \in Kinds,
           NEW g \in Guids, NEW index, NEW new \in Seq(Guids),
           LacksOne(new, GidsOf(n)[kind], index), GidsOf(n)[kind][index] = g,
           graph_gids' = [graph_gids EXCEPT ![graph_index[n]][kind] = new],
           UNCHANGED <<node_context, graph_index>>,
           \A h \in Guids : h # g => endpoint'[h] = endpoint[h],
           endpoint'[g] = NULL \/ BeingRemoved(g)',
           \A h \in Guids : ~BeingRemoved(h),
           \A h \in Guids : h # g => ~BeingRemoved(h)'
    PROVE  ListingInv'
<1> USE DEF ListingInv, LacksOne
<1> DEFINE old == GidsOf(n)[kind]
<1>1. /\ GidsOf(n)'[kind] = new
      /\ \A m \in Nodes, k \in Kinds :
            node_context[m] /\ (m # n \/ k # kind) =>
                GidsOf(m)'[k] = GidsOf(m)[k]
  BY OneSequenceChanges
<1>2. \A m \in Nodes, k \in Kinds : GidsOf(m)[k] \in Seq(Guids)
  BY DEF OwnershipInv, TypeOK, GidsOf
<1>3. node_context[n] /\ endpoint[g] = Own(n, kind)
  BY DEF graph_node_is_valid_locked, ListedAreOwn
<1>4. old \in Seq(Guids) /\ Len(old) \in Nat
  BY <1>2
<1>5. \A i, j \in 1 .. Len(old) : old[i] = old[j] => i = j
  BY <1>3 DEF NoneIsListedTwice
\* An entry of new is an entry of old at another index than the removed one.
<1>6. \A j \in 1 .. Len(new) :
        LET i == IF j < index THEN j ELSE j + 1
        IN  i \in 1 .. Len(old) /\ i # index /\ new[j] = old[i]
  BY <1>4
\* A listed endpoint other than g.
<1>7. ASSUME NEW m \in Nodes, NEW k \in Kinds, node_context[m],
             NEW j \in 1 .. Len(GidsOf(m)[k]),
             m # n \/ k # kind \/ j # index
      PROVE  /\ GidsOf(m)[k][j] \in Guids /\ GidsOf(m)[k][j] # g
             /\ endpoint[GidsOf(m)[k][j]] = Own(m, k)
  <2>1. GidsOf(m)[k][j] \in Guids
    BY <1>2
  <2>2. endpoint[GidsOf(m)[k][j]] = Own(m, k)
    BY <1>7 DEF ListedAreOwn
  <2>3. m # n \/ k # kind => GidsOf(m)[k][j] # g
    BY <1>3, <2>2 DEF Own
  <2>4. m = n /\ k = kind => GidsOf(m)[k][j] # g
    BY <1>5, <1>7
  <2> QED BY <2>1, <2>2, <2>3, <2>4
<1> HIDE DEF old
<1>8. ASSUME NEW m \in Nodes, NEW k \in Kinds, node_context[m],
             NEW j \in 1 .. Len(GidsOf(m)'[k])
      PROVE  \E i \in 1 .. Len(GidsOf(m)[k]) :
                /\ GidsOf(m)'[k][j] = GidsOf(m)[k][i]
                /\ m # n \/ k # kind \/ i # index
  <2>1. CASE m # n \/ k # kind
    BY <1>1, <1>8, <2>1
  <2>2. CASE m = n /\ k = kind
    <3>1. PICK i \in 1 .. Len(old) : i # index /\ new[j] = old[i]
      BY <1>1, <1>6, <2>2
    <3> QED BY <1>1, <2>2, <3>1 DEF old
  <2> QED BY <2>1, <2>2
<1>9. ListedAreOwn'
  <2> SUFFICES ASSUME NEW m \in Nodes, NEW k \in Kinds, node_context'[m],
                      NEW j \in 1 .. Len(GidsOf(m)'[k])
               PROVE  /\ endpoint'[GidsOf(m)'[k][j]] = Own(m, k)
                      /\ ~BeingRemoved(GidsOf(m)[k][j])'
    BY DEF ListedAreOwn, Own
  <2>1. PICK i \in 1 .. Len(GidsOf(m)[k]) :
                /\ GidsOf(m)'[k][j] = GidsOf(m)[k][i]
                /\ m # n \/ k # kind \/ i # index
    <3>1. node_context[m]
      OBVIOUS
    <3> QED BY <1>8, <3>1
  <2>2. /\ GidsOf(m)[k][i] \in Guids /\ GidsOf(m)[k][i] # g
        /\ endpoint[GidsOf(m)[k][i]] = Own(m, k)
    <3> HIDE DEF ListingInv, LacksOne
    <3>1. node_context[m]
      OBVIOUS
    <3> QED BY <1>7, <2>1, <3>1
  <2> QED BY <2>1, <2>2
<1>10. NoneIsListedTwice'
  <2> SUFFICES ASSUME NEW m \in Nodes, NEW k \in Kinds, node_context'[m],
                      NEW i \in 1 .. Len(GidsOf(m)'[k]),
                      NEW j \in 1 .. Len(GidsOf(m)'[k]),
                      GidsOf(m)'[k][i] = GidsOf(m)'[k][j]
               PROVE  i = j
    BY DEF NoneIsListedTwice
  <2>1. node_context[m]
    OBVIOUS
  <2>2. CASE m # n \/ k # kind
    <3> HIDE DEF LacksOne
    <3>1. GidsOf(m)'[k] = GidsOf(m)[k]
      BY <1>1, <2>1, <2>2
    <3> QED BY <2>1, <3>1 DEF NoneIsListedTwice
  <2>3. CASE m = n /\ k = kind
    <3>1. i \in 1 .. Len(new) /\ j \in 1 .. Len(new) /\ new[i] = new[j]
      BY <1>1, <2>3
    <3> DEFINE a == IF i < index THEN i ELSE i + 1
               b == IF j < index THEN j ELSE j + 1
    <3>2. a \in 1 .. Len(old) /\ b \in 1 .. Len(old) /\ old[a] = old[b]
      BY <1>6, <3>1
    <3>3. a = b
      BY <1>5, <3>2
    <3> QED BY <1>4, <3>1, <3>3
  <2> QED BY <2>2, <2>3
<1>11. ExistingAreListed'
  <2> SUFFICES ASSUME NEW h \in Guids, endpoint'[h] # NULL, ~BeingRemoved(h)'
               PROVE  /\ node_context'[endpoint'[h].node]
                      /\ \E i \in 1 .. Len(GidsOf(endpoint[h].node)'
                                                    [endpoint'[h].kind]) :
                            GidsOf(endpoint[h].node)'[endpoint'[h].kind][i] = h
    BY DEF ExistingAreListed
  <2>1. h # g /\ endpoint'[h] = endpoint[h]
    OBVIOUS
  <2>2. PICK m \in Nodes, k \in Kinds :
            endpoint[h].node = m /\ endpoint[h].kind = k /\ node_context[m]
    <3>1. endpoint[h].node \in Nodes /\ endpoint[h].kind \in Kinds
      BY <2>1 DEF OwnershipInv, TypeOK, Endpoint
    <3>2. node_context[endpoint[h].node]
      BY <2>1 DEF ExistingAreListed
    <3> QED BY <3>1, <3>2
  <2>3. PICK i \in 1 .. Len(GidsOf(m)[k]) : GidsOf(m)[k][i] = h
    BY <2>1, <2>2 DEF ExistingAreListed
  <2>4. /\ node_context'[endpoint'[h].node]
        /\ GidsOf(endpoint[h].node)'[endpoint'[h].kind] = GidsOf(m)'[k]
    BY <2>1, <2>2 DEF GidsOf
  <2>5. CASE m # n \/ k # kind
    <3>1. GidsOf(m)'[k] = GidsOf(m)[k]
      BY <1>1, <2>2, <2>5
    <3> QED BY <2>3, <2>4, <3>1
  <2>6. CASE m = n /\ k = kind
    <3>1. i \in 1 .. Len(old) /\ old[i] = h /\ i # index
      BY <2>1, <2>3, <2>6 DEF old
    <3> DEFINE j == IF i < index THEN i ELSE i - 1
    <3>2. j \in 1 .. Len(new) /\ new[j] = old[i]
      <4>1. j \in 1 .. Len(new)
        BY <1>4, <3>1 DEF old
      <4>2. i = IF j < index THEN j ELSE j + 1
        BY <1>4, <3>1
      <4> QED BY <1>6, <4>1, <4>2
    <3> QED BY <1>1, <2>4, <2>6, <3>1, <3>2
  <2> QED BY <2>5, <2>6
<1> QED BY <1>9, <1>10, <1>11

\* Returning from graph_add_endpoint: the rollback takes the entry this call
\* appended and no other.
LEMMA AddEndpointEndEndpoints ==
    ASSUME OwnershipInv, OwnershipInv', EndpointInv,
           NEW t \in Threads, graph_add_endpoint_end(t)
    PROVE  EndpointInv'
<1> USE DEF EndpointInv
<1>1. PICK g \in Guids, n \in Nodes, kind \in Kinds :
        /\ op[t].guid = g /\ op[t].node = n /\ endpoint[g] = Own(n, kind)
        /\ op[t].pc = "add_endpoint"
  <2>1. /\ op[t].pc = "add_endpoint"
        /\ op[t].guid \in Guids /\ endpoint[op[t].guid] # NULL
        /\ op[t].node = endpoint[op[t].guid].node
    BY DEF graph_add_endpoint_end, OwnershipInv, CallsInProgress, CallKnows,
           EndpointPhases
  <2>2. endpoint[op[t].guid] \in Endpoint
    BY <2>1 DEF OwnershipInv, TypeOK
  <2>3. PICK n \in Nodes, kind \in Kinds : endpoint[op[t].guid] = Own(n, kind)
    BY <2>2 DEF Endpoint, Own
  <2>4. op[t].node = n
    BY <2>1, <2>3 DEF Own
  <2> QED BY <2>1, <2>3, <2>4
<1>2. \A u \in Threads \ {t} : op[u].pc \notin LockedPhases
  BY <1>1 DEF OwnershipInv, LockProtectsTable, LockedPhases
<1>3. /\ \A u \in Threads \ {t} : op'[u] = op[u]
      /\ op'[t].pc \in {"idle", "upsert"}
  <2>1. CASE op' = [op EXCEPT ![t].pc = "upsert"]
    BY <2>1 DEF OwnershipInv, TypeOK, Call
  <2>2. CASE op' = [op EXCEPT ![t] = Idle]
    BY <2>2 DEF OwnershipInv, TypeOK, Idle
  <2> QED BY <2>1, <2>2 DEF graph_add_endpoint_end
<1>4. \A h \in Guids : ~BeingRemoved(h) /\ ~BeingRemoved(h)'
  BY <1>1, <1>2, <1>3 DEF BeingRemoved, LockedPhases
<1>5. RollbackInv'
  BY <1>2, <1>3, RollbackOfHolderPrimed
<1>6. UNCHANGED <<node_context, graph_index>>
  BY DEF graph_add_endpoint_end
<1>7. CASE UNCHANGED <<graph_gids, endpoint>>
  <2>1. ListingInv'
    BY <1>4, <1>6, <1>7, SameListing DEF GidsOf
  <2> QED BY <1>5, <2>1
<1>8. CASE /\ graph_gids' = [graph_gids EXCEPT
                ![graph_index[n]][endpoint[g].kind] = DropLast(@)]
           /\ endpoint' = [endpoint EXCEPT ![g] = NULL]
  <2> DEFINE old == GidsOf(n)[kind]
  <2>1. graph_gids' = [graph_gids EXCEPT ![graph_index[n]][kind] =
                            DropLast(old)]
    BY <1>1, <1>8 DEF Own, GidsOf
  <2>2. old \in Seq(Guids)
    BY DEF OwnershipInv, TypeOK, GidsOf
  <2>3. old # <<>> /\ old[Len(old)] = g
    <3>1. Sequence(g) = old
      BY <1>1 DEF Sequence, GidsOf, Own
    <3>2. Sequence(g) # <<>> /\ Sequence(g)[Len(Sequence(g))] = g
      BY <1>1 DEF RollbackInv
    <3> HIDE DEF old
    <3> QED BY <3>1, <3>2
  <2>4. /\ node_context[n] /\ graph_node_is_valid_locked(n)
    <3>1. endpoint[g] # NULL /\ ~BeingRemoved(g) /\ endpoint[g].node = n
      BY <1>1, <1>4 DEF Own, Endpoint
    <3>2. node_context[n]
      BY <3>1 DEF ListingInv, ExistingAreListed
    <3> QED BY <3>2 DEF OwnershipInv, HandlesOwnTheirSlots
  <2>5. /\ Len(DropLast(old)) = Len(old) - 1
        /\ \A i \in 1 .. Len(old) - 1 : DropLast(old)[i] = old[i]
    BY <2>2, <2>3, DropLastListing
  <2>6. Len(old) \in 1 .. Len(old) /\ DropLast(old) \in Seq(Guids)
    BY <2>2, <2>3 DEF DropLast
  <2>7. \A j \in 1 .. Len(old) - 1 :
            DropLast(old)[j] = IF j < Len(old) THEN old[j] ELSE old[j + 1]
    BY <2>5, <2>6
  <2>8. /\ endpoint'[g] = NULL
        /\ \A h \in Guids : h # g => endpoint'[h] = endpoint[h]
    BY <1>8 DEF OwnershipInv, TypeOK
  <2>9. ListingInv'
    <3> HIDE DEF EndpointInv, ListingInv
    <3>1. ListingInv
      BY DEF EndpointInv
    <3>2. PICK new \in Seq(Guids), index \in 1 .. Len(old) :
            new = DropLast(old) /\ index = Len(old)
      BY <2>6
    <3>3. /\ old[index] = g /\ LacksOne(new, old, index)
          /\ graph_gids' = [graph_gids EXCEPT ![graph_index[n]][kind] = new]
      BY <2>1, <2>3, <2>5, <2>7, <3>2 DEF LacksOne
    <3>4. /\ \A h \in Guids : ~BeingRemoved(h)
          /\ \A h \in Guids : h # g => ~BeingRemoved(h)'
      BY <1>4
    <3> QED BY <1>6, <2>4, <2>8, <3>1, <3>3, <3>4, OneIsUnlisted
  <2> QED BY <1>5, <2>9
<1> QED BY <1>1, <1>7, <1>8 DEF graph_add_endpoint_end

\* Caching the endpoint or being refused changes no listing.
LEMMA UpsertEndpoints ==
    ASSUME OwnershipInv, OwnershipInv', EndpointInv,
           NEW t \in Threads, graph_cache_upsert_endpoint(t)
    PROVE  EndpointInv'
<1> USE DEF EndpointInv
<1>1. /\ \A u \in Threads \ {t} : op'[u] = op[u]
      /\ op[t].pc = "upsert" /\ op'[t].pc \in {"idle", "unwind"}
  <2>1. CASE op' = [op EXCEPT ![t].pc = "unwind"]
    BY <2>1 DEF OwnershipInv, TypeOK, Call, graph_cache_upsert_endpoint
  <2>2. CASE op' = [op EXCEPT ![t] = Idle]
    BY <2>2 DEF OwnershipInv, TypeOK, Idle, graph_cache_upsert_endpoint
  <2> QED BY <2>1, <2>2 DEF graph_cache_upsert_endpoint
<1>2. \A h \in Guids : BeingRemoved(h)' <=> BeingRemoved(h)
  BY <1>1 DEF BeingRemoved
<1>3. ListingInv'
  BY <1>2, SameListing DEF graph_cache_upsert_endpoint, table, GidsOf
<1>4. RollbackInv'
  <2>1. UNCHANGED <<graph_gids, graph_index, endpoint>>
    BY DEF graph_cache_upsert_endpoint, table
  <2>2. ASSUME NEW u \in Threads, u # t
        PROVE  /\ op'[u].pc = op[u].pc
               /\ Sequence(op[u].guid)' = Sequence(op[u].guid)
               /\ GidsOf(op[u].node)' = GidsOf(op[u].node)
               /\ op'[u].guid = op[u].guid
    BY <1>1, <2>1, <2>2 DEF Sequence, GidsOf
  <2>3. op'[t].pc # "add_endpoint" /\ op'[t].pc # "add_node"
    BY <1>1
  <2> QED BY <2>2, <2>3 DEF RollbackInv
<1> QED BY <1>3, <1>4

\* graph_remove_endpoint, whichever caller it has: the endpoint's entry leaves.
LEMMA RemoveEndpointEndpoints ==
    ASSUME OwnershipInv, OwnershipInv', EndpointInv,
           NEW t \in Threads, NEW g \in Guids, endpoint[g] # NULL,
           RemoveEndpoint(t, g)
    PROVE  EndpointInv'
<1> USE DEF EndpointInv
<1>1. PICK n \in Nodes, kind \in Kinds : endpoint[g] = Own(n, kind)
  <2>1. endpoint[g] \in Endpoint
    BY DEF OwnershipInv, TypeOK
  <2> QED BY <2>1 DEF Endpoint, Own
<1>2. /\ lock_graph(t) /\ graph_node_is_valid_locked(n)
      /\ dds_write(t, "remove_endpoint", n, g)
      /\ UNCHANGED <<node_context, graph_index, endpoint>>
  BY <1>1 DEF RemoveEndpoint, Own
<1> DEFINE old == GidsOf(n)[kind]
<1>3. PICK index \in 1 .. Len(old) :
        /\ old[index] = g
        /\ graph_gids' = [graph_gids EXCEPT ![graph_index[n]][kind] =
                                RemoveAt(old, index)]
  <2>1. endpoint[g].node = n /\ endpoint[g].kind = kind /\ Sequence(g) = old
    BY <1>1 DEF Own, Sequence, GidsOf
  <2>2. PICK index \in 1 .. Len(Sequence(g)) :
            /\ IsFirstMatch(Sequence(g), g, index)
            /\ graph_gids' = [graph_gids EXCEPT
                    ![graph_index[endpoint[g].node]][endpoint[g].kind] =
                        RemoveAt(@, index)]
    BY DEF RemoveEndpoint
  <2>3. graph_gids' = [graph_gids EXCEPT ![graph_index[n]][kind] =
                            RemoveAt(old, index)]
    BY <2>1, <2>2 DEF GidsOf
  <2> QED BY <2>1, <2>2, <2>3 DEF IsFirstMatch
<1>4. /\ \A u \in Threads \ {t} : op'[u] = op[u]
      /\ op'[t].pc = "remove_endpoint" /\ op'[t].guid = g
  BY <1>2, WriteType DEF OwnershipInv, TypeOK, TableType, Phases, LockedPhases
<1>5. \A u \in Threads : op[u].pc \notin LockedPhases
  BY <1>2, LockWasFree
<1>6. /\ \A h \in Guids : ~BeingRemoved(h)
      /\ \A h \in Guids : h # g => ~BeingRemoved(h)'
      /\ BeingRemoved(g)'
  BY <1>4, <1>5 DEF BeingRemoved, LockedPhases
<1>7. old \in Seq(Guids)
  BY DEF OwnershipInv, TypeOK, GidsOf
<1>8. /\ Len(RemoveAt(old, index)) = Len(old) - 1
      /\ \A j \in 1 .. Len(old) - 1 :
            RemoveAt(old, index)[j] = IF j < index THEN old[j] ELSE old[j + 1]
      /\ RemoveAt(old, index) \in Seq(Guids)
  BY <1>7, RemoveAtListing, RemoveAtType
<1>9. ListingInv'
  <2> HIDE DEF EndpointInv
  <2>1. ListingInv
    BY DEF EndpointInv
  <2>2. PICK new \in Seq(Guids) : new = RemoveAt(old, index)
    BY <1>8
  <2>3. LacksOne(new, old, index) /\ old[index] = g
    BY <1>3, <1>8, <2>2 DEF LacksOne
  <2> HIDE DEF ListingInv
  <2> QED BY <1>2, <1>3, <1>6, <2>1, <2>2, <2>3, OneIsUnlisted
<1>10. RollbackInv'
  BY <1>4, <1>5, RollbackOfHolderPrimed
<1> QED BY <1>9, <1>10

\* Returning from graph_remove_endpoint: the endpoint that is deleted is listed
\* nowhere.
LEMMA RemoveEndpointEndEndpoints ==
    ASSUME OwnershipInv, OwnershipInv', EndpointInv,
           NEW t \in Threads, graph_remove_endpoint_end(t)
    PROVE  EndpointInv'
<1> USE DEF EndpointInv, ListingInv
<1>1. PICK g \in Guids : op[t].guid = g
  BY DEF graph_remove_endpoint_end, OwnershipInv, CallsInProgress, CallKnows,
         EndpointPhases
<1>2. /\ \A u \in Threads \ {t} : op'[u] = op[u]
      /\ op[t].pc = "remove_endpoint" /\ op'[t].pc = "idle"
  BY DEF OwnershipInv, TypeOK, graph_remove_endpoint_end, Idle
<1>3. \A u \in Threads \ {t} : op[u].pc \notin LockedPhases
  BY <1>2 DEF OwnershipInv, LockProtectsTable, LockedPhases
<1>4. /\ \A h \in Guids : BeingRemoved(h) <=> h = g
      /\ \A h \in Guids : ~BeingRemoved(h)'
  BY <1>1, <1>2, <1>3 DEF BeingRemoved, LockedPhases
<1>5. /\ endpoint'[g] = NULL
      /\ \A h \in Guids : h # g => endpoint'[h] = endpoint[h]
      /\ UNCHANGED <<graph_gids, node_context, graph_index>>
  BY <1>1 DEF OwnershipInv, TypeOK, graph_remove_endpoint_end, table
<1>6. \A m \in Nodes : GidsOf(m)' = GidsOf(m)
  BY <1>5 DEF GidsOf
<1>7. ListedAreOwn'
  <2> SUFFICES ASSUME NEW m \in Nodes, NEW k \in Kinds, node_context[m],
                      NEW j \in 1 .. Len(GidsOf(m)[k])
               PROVE  /\ endpoint'[GidsOf(m)[k][j]] = Own(m, k)
                      /\ ~BeingRemoved(GidsOf(m)[k][j])'
    BY <1>5, <1>6 DEF ListedAreOwn, Own
  <2>1. GidsOf(m)[k][j] \in Guids
    BY DEF OwnershipInv, TypeOK, GidsOf
  <2>2. endpoint[GidsOf(m)[k][j]] = Own(m, k) /\ GidsOf(m)[k][j] # g
    BY <1>4, <2>1 DEF ListedAreOwn
  <2>3. ~BeingRemoved(GidsOf(m)[k][j])'
    BY <1>4, <1>6, <2>1
  <2> QED BY <1>5, <2>1, <2>2, <2>3
<1>8. NoneIsListedTwice'
  BY <1>5, <1>6 DEF NoneIsListedTwice
<1>9. ExistingAreListed'
  <2> SUFFICES ASSUME NEW h \in Guids, endpoint'[h] # NULL
               PROVE  /\ node_context'[endpoint'[h].node]
                      /\ \E i \in 1 .. Len(GidsOf(endpoint[h].node)'
                                                    [endpoint'[h].kind]) :
                            GidsOf(endpoint[h].node)'[endpoint'[h].kind][i] = h
    BY DEF ExistingAreListed
  <2>1. endpoint'[h] = endpoint[h] /\ ~BeingRemoved(h)
    BY <1>4, <1>5
  <2>2. GidsOf(endpoint[h].node)' = GidsOf(endpoint[h].node)
    BY <1>5, <2>1 DEF GidsOf
  <2> QED BY <1>5, <2>1, <2>2 DEF ExistingAreListed
<1>10. RollbackInv'
  BY <1>2, <1>3, RollbackOfHolderPrimed
<1> QED BY <1>7, <1>8, <1>9, <1>10

-----------------------------------------------------------------------------
(* EndpointInv is inductive *)

\* The empty table lists nothing and no endpoint exists.
LEMMA InitEndpoints == Init => EndpointInv
<1> SUFFICES ASSUME Init PROVE EndpointInv
  OBVIOUS
<1>1. /\ \A n \in Nodes : ~node_context[n]
      /\ \A g \in Guids : endpoint[g] = NULL
      /\ \A t \in Threads : op[t].pc = "idle"
  BY DEF Init, Idle
<1>2. ListingInv
  BY <1>1 DEF ListingInv, ListedAreOwn, NoneIsListedTwice, ExistingAreListed
<1>3. RollbackInv
  BY <1>1 DEF RollbackInv
<1> QED BY <1>2, <1>3 DEF EndpointInv

\* A step that leaves the table, the endpoints and the calls alone.
LEMMA FrameEndpoints ==
    ASSUME OwnershipInv, OwnershipInv', EndpointInv,
           UNCHANGED <<table, endpoint, op>>
    PROVE  EndpointInv'
<1> USE DEF EndpointInv
<1>1. \A g \in Guids : BeingRemoved(g)' <=> BeingRemoved(g)
  BY DEF BeingRemoved
<1>2. ListingInv'
  BY <1>1, SameListing DEF table, GidsOf
<1>3. RollbackInv'
  BY DEF RollbackInv, table, GidsOf, Sequence
<1> QED BY <1>2, <1>3

\* The endpoint that a refused creation removes exists.
LEMMA UnwoundExists ==
    ASSUME OwnershipInv, NEW t \in Threads, graph_unwind_endpoint(t)
    PROVE  /\ op[t].guid \in Guids /\ endpoint[op[t].guid] # NULL
           /\ RemoveEndpoint(t, op[t].guid)
BY DEF graph_unwind_endpoint, OwnershipInv, CallsInProgress, CallKnows,
       EndpointPhases

\* Every step keeps EndpointInv.
LEMMA NextEndpoints ==
    OwnershipInv /\ OwnershipInv' /\ EndpointInv /\ [Next]_vars
        => EndpointInv'
<1> SUFFICES ASSUME OwnershipInv, OwnershipInv', EndpointInv, [Next]_vars
             PROVE  EndpointInv'
  OBVIOUS
<1>1. ASSUME NEW t \in Threads, Begin(t)
      PROVE  EndpointInv'
  <2>1. ASSUME NEW g \in Guids, graph_remove_endpoint(t, g)
        PROVE  EndpointInv'
    BY <2>1, RemoveEndpointEndpoints DEF graph_remove_endpoint
  <2> QED BY <1>1, <2>1, AddNodeEndpoints, RemoveNodeEndpoints,
             AddEndpointEndpoints DEF Begin
<1>2. ASSUME NEW t \in Threads, Continue(t)
      PROVE  EndpointInv'
  <2>1. ASSUME graph_unwind_endpoint(t)
        PROVE  EndpointInv'
    BY <2>1, UnwoundExists, RemoveEndpointEndpoints
  <2> QED BY <1>2, <2>1, AddNodeEndEndpoints, RemoveNodeEndEndpoints,
             AddEndpointEndEndpoints, UpsertEndpoints,
             RemoveEndpointEndEndpoints DEF Continue
<1>3. CASE RemoteNodesChange
  BY <1>3, FrameEndpoints DEF RemoteNodesChange
<1>4. CASE UNCHANGED vars
  BY <1>4, FrameEndpoints DEF vars
<1> QED BY <1>1, <1>2, <1>3, <1>4 DEF Next

\* EndpointInv holds in every reachable state.
THEOREM EndpointsAlways == Spec => []EndpointInv
BY OwnershipAlways, InitEndpoints, NextEndpoints, PTL DEF Spec

\* For any number of endpoints, nodes and threads: an endpoint that exists is
\* found by graph_remove_endpoint, exactly once, in the sequence of its kind of
\* the node it was created on, wherever compaction moved that node.
THEOREM EndpointsListedOnce == Spec => []EndpointsAreListedOnce
<1>1. OwnershipInv /\ EndpointInv => EndpointsAreListedOnce
  <2> SUFFICES ASSUME OwnershipInv, EndpointInv, NEW g \in Guids,
                      endpoint[g] # NULL, ~BeingRemoved(g)
               PROVE  /\ graph_node_is_valid_locked(endpoint[g].node)
                      /\ \E i \in 1 .. Len(Sequence(g)) :
                            /\ Sequence(g)[i] = g
                            /\ \A j \in 1 .. Len(Sequence(g)) :
                                    Sequence(g)[j] = g => j = i
    BY DEF EndpointsAreListedOnce
  <2>1. endpoint[g].node \in Nodes /\ endpoint[g].kind \in Kinds
    BY DEF OwnershipInv, TypeOK, Endpoint
  <2>2. /\ node_context[endpoint[g].node]
        /\ \E i \in 1 .. Len(Sequence(g)) : Sequence(g)[i] = g
    BY DEF EndpointInv, ListingInv, ExistingAreListed, Sequence, GidsOf
  <2>3. graph_node_is_valid_locked(endpoint[g].node)
    BY <2>1, <2>2 DEF OwnershipInv, HandlesOwnTheirSlots
  <2>4. \A i, j \in 1 .. Len(Sequence(g)) :
            Sequence(g)[i] = Sequence(g)[j] => i = j
    BY <2>1, <2>2 DEF EndpointInv, ListingInv, NoneIsListedTwice, Sequence,
                      GidsOf
  <2> QED BY <2>2, <2>3, <2>4
<1> QED BY <1>1, OwnershipAlways, EndpointsAlways, PTL

\* No rollback, removal or compaction leaves a GID in the table whose endpoint
\* is gone or belongs to another node.
LEMMA ListedExist == OwnershipInv /\ EndpointInv => ListedGidsExist
<1> SUFFICES ASSUME OwnershipInv, EndpointInv,
                    NEW i \in 0 .. graph_node_count - 1, NEW kind \in Kinds,
                    NEW j \in 1 .. Len(graph_gids[i][kind])
             PROVE  LET g == graph_gids[i][kind][j]
                    IN  /\ endpoint[g] = [node |-> graph_node_owners[i],
                                          kind |-> kind]
                        /\ ~BeingRemoved(g)
  BY DEF ListedGidsExist
<1>1. PICK n \in Nodes : /\ graph_node_owners[i] = n
                         /\ node_context[n] /\ graph_index[n] = i
  BY DEF OwnershipInv, HandlesOwnTheirSlots
<1> QED BY <1>1 DEF EndpointInv, ListingInv, ListedAreOwn, GidsOf, Own

\* ListedGidsExist holds in every reachable state: a node whose endpoints are
\* all destroyed can be destroyed.
THEOREM ListedGidsAlwaysExist == Spec => []ListedGidsExist
BY ListedExist, OwnershipAlways, EndpointsAlways, PTL

-----------------------------------------------------------------------------
(* Visibility *)

\* The table built into a sample lists every endpoint that is not being removed.
LEMMA SnapshotListsExisting ==
    OwnershipInv /\ EndpointInv =>
        \A g \in Guids : endpoint[g] # NULL /\ ~BeingRemoved(g) =>
            Lists(Snapshot, endpoint[g].node, g, endpoint[g].kind)
<1> SUFFICES ASSUME OwnershipInv, EndpointInv, NEW g \in Guids,
                    endpoint[g] # NULL, ~BeingRemoved(g)
             PROVE  Lists(Snapshot, endpoint[g].node, g, endpoint[g].kind)
  OBVIOUS
<1> DEFINE n == endpoint[g].node
           i == graph_index[n] + 1
<1>1. n \in Nodes /\ node_context[n]
  BY DEF OwnershipInv, TypeOK, Endpoint, EndpointInv, ListingInv,
         ExistingAreListed
<1>2. /\ graph_index[n] \in Nat /\ graph_index[n] < graph_node_count
      /\ graph_nodes[graph_index[n]] = n /\ graph_node_count \in Nat
  BY <1>1 DEF OwnershipInv, HandlesOwnTheirSlots, graph_node_is_valid_locked,
              TypeOK, Slots
<1>3. i \in 1 .. graph_node_count /\ i - 1 = graph_index[n]
  BY <1>2
<1>4. Snapshot[i] = [name |-> n, gids |-> GidsOf(n)]
  BY <1>2, <1>3 DEF Snapshot, GidsOf
<1>5. Len(Snapshot) = graph_node_count
  BY SnapshotType DEF OwnershipInv, TypeOK, TableType
<1>6. \E j \in 1 .. Len(GidsOf(n)[endpoint[g].kind]) :
        GidsOf(n)[endpoint[g].kind][j] = g
  BY DEF EndpointInv, ListingInv, ExistingAreListed
<1> QED BY <1>3, <1>4, <1>5, <1>6 DEF Lists

\* The same of the next state.
LEMMA SnapshotListsExistingPrimed ==
    (OwnershipInv /\ EndpointInv =>
        \A g \in Guids : endpoint[g] # NULL /\ ~BeingRemoved(g) =>
            Lists(Snapshot, endpoint[g].node, g, endpoint[g].kind))'
BY SnapshotListsExisting, PTL

\* Creation of endpoint g has published it: no call works on it, or one that
\* only has its cache entry left to do.
Established(g) ==
    endpoint[g] # NULL /\ \A t \in Threads : op[t].guid = g => op[t].pc = "upsert"

\* What CreatedIsVisible needs to be inductive: the endpoint is visible as soon
\* as its creation published it.
VisibilityInv ==
    \A g \in Guids : Established(g) =>
        /\ Lists(announced, endpoint[g].node, g, endpoint[g].kind)
        /\ Lists(cached_self, endpoint[g].node, g, endpoint[g].kind)

\* An established endpoint is not being removed.
LEMMA EstablishedIsNotRemoved ==
    ASSUME NEW g \in Guids, Established(g)
    PROVE  endpoint[g] # NULL /\ ~BeingRemoved(g)
BY DEF Established, BeingRemoved

\* The same of the next state.
LEMMA EstablishedIsNotRemovedPrimed ==
    ASSUME NEW g \in Guids, Established(g)'
    PROVE  endpoint'[g] # NULL /\ ~BeingRemoved(g)'
BY DEF Established, BeingRemoved

\* A step that leaves the cache alone and writes the new table or nothing keeps
\* visible what it does not newly establish.
LEMMA WriteKeepsVisible ==
    ASSUME OwnershipInv', EndpointInv', VisibilityInv,
           announced' = announced \/ announced' = Snapshot',
           UNCHANGED cached_self,
           \A g \in Guids : Established(g)' =>
                Established(g) /\ endpoint'[g] = endpoint[g]
    PROVE  VisibilityInv'
<1> SUFFICES ASSUME NEW g \in Guids, Established(g)'
             PROVE  /\ Lists(announced, endpoint[g].node, g, endpoint[g].kind)'
                    /\ Lists(cached_self, endpoint[g].node, g,
                             endpoint[g].kind)'
  BY DEF VisibilityInv
<1>1. /\ Established(g) /\ endpoint'[g] = endpoint[g]
      /\ Lists(announced, endpoint[g].node, g, endpoint[g].kind)
      /\ Lists(cached_self, endpoint[g].node, g, endpoint[g].kind)
  BY DEF VisibilityInv
<1>2. Lists(cached_self, endpoint[g].node, g, endpoint[g].kind)'
  BY <1>1 DEF Lists
<1>3. CASE announced' = announced
  <2>1. Lists(announced, endpoint[g].node, g, endpoint[g].kind)'
    BY <1>1, <1>3 DEF Lists
  <2> QED BY <1>2, <2>1
<1>4. CASE announced' = Snapshot'
  <2>1. Lists(Snapshot, endpoint[g].node, g, endpoint[g].kind)'
    BY SnapshotListsExistingPrimed, EstablishedIsNotRemovedPrimed
  <2> QED BY <1>2, <1>4, <2>1 DEF Lists
<1> QED BY <1>3, <1>4

\* The end of a graph_* operation establishes at most the endpoint it added,
\* and that one only if publication succeeded.
LEMMA EndKeepsVisible ==
    ASSUME OwnershipInv, PublicationInv, EndpointInv, VisibilityInv,
           NEW t \in Threads, op[t].pc \in LockedPhases,
           graph_cache_apply_snapshot(t), UNCHANGED announced,
           \A g \in Guids : Established(g)' =>
                /\ endpoint'[g] = endpoint[g]
                /\ \/ Established(g)
                   \/ PublishResult(t) /\ ~BeingRemoved(g)
    PROVE  VisibilityInv'
<1> SUFFICES ASSUME NEW g \in Guids, Established(g)'
             PROVE  /\ Lists(announced, endpoint[g].node, g, endpoint[g].kind)'
                    /\ Lists(cached_self, endpoint[g].node, g,
                             endpoint[g].kind)'
  BY DEF VisibilityInv
<1>1. /\ endpoint'[g] = endpoint[g] /\ endpoint[g] # NULL /\ ~BeingRemoved(g)
  <2>1. Established(g) => ~BeingRemoved(g)
    BY EstablishedIsNotRemoved
  <2> QED BY <2>1, EstablishedIsNotRemovedPrimed
<1>2. Lists(Snapshot, endpoint[g].node, g, endpoint[g].kind)
  BY <1>1, SnapshotListsExisting
<1>3. CASE PublishResult(t)
  <2>1. announced' = Snapshot
    BY <1>3 DEF PublicationInv, HolderWroteTable, PublishResult
  <2>2. cached_self' = Snapshot
    BY <1>3 DEF graph_cache_apply_snapshot
  <2> QED BY <1>1, <1>2, <2>1, <2>2 DEF Lists
<1>4. CASE ~PublishResult(t)
  <2>1. UNCHANGED <<announced, cached_self>> /\ Established(g)
    BY <1>4 DEF graph_cache_apply_snapshot
  <2> QED BY <1>1, <2>1 DEF Lists, VisibilityInv
<1> QED BY <1>3, <1>4

\* Every way to begin an operation keeps VisibilityInv.
LEMMA BeginVisibility ==
    ASSUME OwnershipInv, OwnershipInv', EndpointInv', VisibilityInv,
           NEW t \in Threads, op[t].guid = NULL \/ op[t].pc = "unwind",
           NEW pc \in LockedPhases, NEW n \in Nodes,
           NEW g \in Guids \cup {NULL}, dds_write(t, pc, n, g),
           UNCHANGED cached_self,
           \A h \in Guids : h # g => endpoint'[h] = endpoint[h],
           op[t].guid # NULL => op[t].guid = g
    PROVE  VisibilityInv'
<1>1. /\ \A u \in Threads \ {t} : op'[u] = op[u]
      /\ op'[t].pc = pc /\ op'[t].guid = g
  BY WriteType DEF OwnershipInv, TypeOK, TableType, Phases
<1>2. announced' = announced \/ announced' = Snapshot'
  BY DEF dds_write
<1>3. ASSUME NEW h \in Guids, Established(h)'
      PROVE  Established(h) /\ endpoint'[h] = endpoint[h]
  <2>1. h # g
    BY <1>1, <1>3 DEF Established, LockedPhases
  <2>2. endpoint'[h] = endpoint[h] /\ op[t].guid # h
    BY <2>1
  <2> QED BY <1>1, <1>3, <2>2 DEF Established
<1> QED BY <1>2, <1>3, WriteKeepsVisible

\* Every step keeps VisibilityInv.
LEMMA NextVisibility ==
    OwnershipInv /\ OwnershipInv' /\ PublicationInv /\ EndpointInv /\
    EndpointInv' /\ VisibilityInv /\ [Next]_vars => VisibilityInv'
<1> SUFFICES ASSUME OwnershipInv, OwnershipInv', PublicationInv,
                    EndpointInv, EndpointInv', VisibilityInv, [Next]_vars
             PROVE  VisibilityInv'
  OBVIOUS
<1>1. ASSUME NEW t \in Threads, Begin(t)
      PROVE  VisibilityInv'
  <2>1. op[t].pc = "idle" /\ op[t].guid = NULL
    <3>1. op[t].pc = "idle"
      BY <1>1 DEF Begin, graph_add_node, graph_remove_node, graph_add_endpoint,
                  graph_remove_endpoint
    <3> QED BY <3>1 DEF OwnershipInv, CallsInProgress, CallKnows,
                        EndpointPhases
  <2>2. ASSUME NEW n \in Nodes, graph_add_node(t, n)
        PROVE  VisibilityInv'
    BY <2>1, <2>2, BeginVisibility DEF graph_add_node, LockedPhases
  <2>3. ASSUME NEW n \in Nodes, graph_remove_node(t, n)
        PROVE  VisibilityInv'
    BY <2>1, <2>3, BeginVisibility DEF graph_remove_node, LockedPhases
  <2>4. ASSUME NEW n \in Nodes, NEW g \in Guids, NEW kind \in Kinds,
               graph_add_endpoint(t, n, g, kind)
        PROVE  VisibilityInv'
    <3>1. \A h \in Guids : h # g => endpoint'[h] = endpoint[h]
      BY <2>4 DEF graph_add_endpoint, OwnershipInv, TypeOK
    <3>2. dds_write(t, "add_endpoint", n, g) /\ UNCHANGED cached_self
      BY <2>4 DEF graph_add_endpoint
    <3> QED BY <2>1, <3>1, <3>2, BeginVisibility DEF LockedPhases
  <2>5. ASSUME NEW g \in Guids, graph_remove_endpoint(t, g)
        PROVE  VisibilityInv'
    <3>1. PICK n \in Nodes : n = endpoint[g].node
      BY <2>5 DEF graph_remove_endpoint, OwnershipInv, TypeOK, Endpoint
    <3>2. /\ dds_write(t, "remove_endpoint", n, g)
          /\ UNCHANGED <<cached_self, endpoint>>
      BY <2>5, <3>1 DEF graph_remove_endpoint, RemoveEndpoint
    <3> QED BY <2>1, <3>2, BeginVisibility DEF LockedPhases
  <2> QED BY <1>1, <2>2, <2>3, <2>4, <2>5 DEF Begin
<1>2. ASSUME NEW t \in Threads, Continue(t)
      PROVE  VisibilityInv'
  <2>1. ASSUME graph_unwind_endpoint(t)
        PROVE  VisibilityInv'
    <3>1. PICK g \in Guids : g = op[t].guid
      BY <2>1, UnwoundExists
    <3>2. endpoint[g] # NULL /\ RemoveEndpoint(t, g)
      BY <2>1, <3>1, UnwoundExists
    <3>3. PICK n \in Nodes : n = endpoint[g].node
      BY <3>2 DEF OwnershipInv, TypeOK, Endpoint
    <3>4. /\ dds_write(t, "remove_endpoint", n, g)
          /\ UNCHANGED <<cached_self, endpoint>>
      BY <3>2, <3>3 DEF RemoveEndpoint
    <3>5. op[t].pc = "unwind"
      BY <2>1 DEF graph_unwind_endpoint
    <3> QED BY <3>1, <3>4, <3>5, BeginVisibility DEF LockedPhases
  <2>2. ASSUME graph_cache_upsert_endpoint(t)
        PROVE  VisibilityInv'
    <3>1. /\ \A u \in Threads \ {t} : op'[u] = op[u]
          /\ op[t].pc = "upsert"
      BY <2>2 DEF OwnershipInv, TypeOK, graph_cache_upsert_endpoint
    <3>2. UNCHANGED <<endpoint, announced, cached_self>>
      BY <2>2 DEF graph_cache_upsert_endpoint
    <3>3. ASSUME NEW g \in Guids, Established(g)' PROVE Established(g)
      BY <3>1, <3>2, <3>3 DEF Established
    <3> QED BY <3>2, <3>3, WriteKeepsVisible
  \* The endpoint operations and node operations that end without adding.
  <2>3. ASSUME op[t].pc \in LockedPhases, graph_cache_apply_snapshot(t),
               UNCHANGED announced, op' = [op EXCEPT ![t] = Idle],
               \A g \in Guids : endpoint'[g] = IF g = op[t].guid THEN NULL
                                               ELSE endpoint[g]
        PROVE  VisibilityInv'
    <3>1. \A u \in Threads \ {t} : op'[u] = op[u]
      BY <2>3 DEF OwnershipInv, TypeOK
    <3>2. ASSUME NEW g \in Guids, Established(g)'
          PROVE  endpoint'[g] = endpoint[g] /\ Established(g)
      BY <2>3, <3>1, <3>2 DEF Established
    <3> QED BY <2>3, <3>2, EndKeepsVisible
  <2>4. ASSUME op[t].pc \in {"add_node", "remove_node"}, UNCHANGED endpoint
        PROVE  \A g \in Guids : endpoint'[g] = IF g = op[t].guid THEN NULL
                                               ELSE endpoint[g]
    <3>1. op[t].guid = NULL
      BY <2>4 DEF OwnershipInv, CallsInProgress, CallKnows, EndpointPhases
    <3> QED BY <2>4, <3>1
  <2>5. CASE graph_add_node_end(t)
    BY <2>3, <2>4, <2>5 DEF graph_add_node_end, LockedPhases
  <2>6. CASE graph_remove_node_end(t)
    BY <2>3, <2>4, <2>6 DEF graph_remove_node_end, LockedPhases
  <2>7. CASE graph_remove_endpoint_end(t)
    BY <2>3, <2>7 DEF graph_remove_endpoint_end, LockedPhases, OwnershipInv,
                      TypeOK
  <2>8. CASE graph_add_endpoint_end(t)
    <3>1. /\ op[t].pc \in LockedPhases /\ op[t].pc = "add_endpoint"
          /\ graph_cache_apply_snapshot(t) /\ UNCHANGED announced
      BY <2>8 DEF graph_add_endpoint_end, LockedPhases
    <3>2. CASE ~PublishResult(t)
      BY <2>3, <2>8, <3>1, <3>2 DEF graph_add_endpoint_end, OwnershipInv,
                                    TypeOK
    <3>3. CASE PublishResult(t)
      <4>1. UNCHANGED endpoint
        BY <2>8, <3>3 DEF graph_add_endpoint_end
      <4>2. \A g \in Guids : ~BeingRemoved(g)
        <5>1. \A u \in Threads \ {t} : op[u].pc \notin LockedPhases
          BY <3>1 DEF OwnershipInv, LockProtectsTable
        <5> QED BY <3>1, <5>1 DEF BeingRemoved, LockedPhases
      <4> QED BY <3>1, <3>3, <4>1, <4>2, EndKeepsVisible
    <3> QED BY <3>2, <3>3
  <2> QED BY <1>2, <2>1, <2>2, <2>5, <2>6, <2>7, <2>8 DEF Continue
<1>3. CASE UNCHANGED <<endpoint, op, announced, cached_self>>
  BY <1>3, WriteKeepsVisible DEF Established
<1>4. CASE RemoteNodesChange
  BY <1>3, <1>4 DEF RemoteNodesChange
<1>5. CASE UNCHANGED vars
  BY <1>3, <1>5 DEF vars
<1> QED BY <1>1, <1>2, <1>4, <1>5 DEF Next

\* An endpoint whose creation returned is in the retained sample and in the
\* local cache until its destruction begins, for any number of threads, nodes
\* and endpoints, while writes fail and the cache refuses.
THEOREM CreatedStaysVisible == Spec => []CreatedIsVisible
<1>1. Init => VisibilityInv
  BY DEF Init, VisibilityInv, Established
<1>2. VisibilityInv => CreatedIsVisible
  BY DEF VisibilityInv, Established, CreatedIsVisible
<1>3. Spec => []VisibilityInv
  BY <1>1, OwnershipAlways, PublicationAlways, EndpointsAlways, NextVisibility,
     PTL DEF Spec
<1> QED BY <1>2, <1>3, PTL

-----------------------------------------------------------------------------
(* Removal is announced first *)

\* The sample of the table does not list an endpoint that is being removed.
LEMMA SnapshotOmitsRemoved ==
    ASSUME OwnershipInv, EndpointInv, NEW g \in Guids, BeingRemoved(g),
           NEW n, NEW kind \in Kinds
    PROVE  ~Lists(Snapshot, n, g, kind)
<1> SUFFICES ASSUME Lists(Snapshot, n, g, kind)
             PROVE  FALSE
  OBVIOUS
<1>1. graph_node_count \in Nat /\ Len(Snapshot) = graph_node_count
  BY DEF Snapshot, OwnershipInv, TypeOK
<1>2. PICK i \in 1 .. graph_node_count :
            \E j \in 1 .. Len(Snapshot[i].gids[kind]) :
                Snapshot[i].gids[kind][j] = g
  BY <1>1 DEF Lists
<1>3. Snapshot[i].gids = graph_gids[i - 1]
  BY <1>2 DEF Snapshot
<1>4. PICK j \in 1 .. Len(graph_gids[i - 1][kind]) :
            graph_gids[i - 1][kind][j] = g
  BY <1>2, <1>3
<1>5. i - 1 \in 0 .. graph_node_count - 1
  BY <1>1, <1>2
<1>6. ~BeingRemoved(graph_gids[i - 1][kind][j])
  BY <1>4, <1>5, ListedExist DEF ListedGidsExist
<1> QED BY <1>4, <1>6

\* A DDS entity that the retained sample still lists is deleted only by a call
\* whose publication failed: graph_remove_endpoint_end deletes what the
\* snapshot it published no longer lists, and a creation is rolled back only
\* when it could not be published.
THEOREM RemovalAnnouncedFirst == Spec => RemovalIsAnnouncedFirst
<1> DEFINE Deletion(g) ==
        endpoint[g] # NULL /\ endpoint'[g] = NULL =>
            \/ ~Lists(announced, endpoint[g].node, g, endpoint[g].kind)
            \/ ~published'
<1>1. ASSUME OwnershipInv, PublicationInv, EndpointInv, [Next]_vars
      PROVE  [\A g \in Guids : Deletion(g)]_vars
  <2> SUFFICES ASSUME NEW g \in Guids, endpoint[g] # NULL, endpoint'[g] = NULL,
                      Next
               PROVE  \/ ~Lists(announced, endpoint[g].node, g,
                                endpoint[g].kind)
                      \/ ~published'
    BY <1>1
  <2>1. PICK t \in Threads :
            graph_add_endpoint_end(t) \/ graph_remove_endpoint_end(t)
    <3>1. ~UNCHANGED endpoint
      OBVIOUS
    <3>2. ASSUME NEW t \in Threads, NEW n \in Nodes, NEW h \in Guids,
                 NEW kind \in Kinds, graph_add_endpoint(t, n, h, kind)
          PROVE  FALSE
      <4>1. Own(n, kind) \in Endpoint
        BY DEF Own, Endpoint
      <4> QED BY <1>1, <3>2, <4>1 DEF graph_add_endpoint, OwnershipInv, TypeOK, Own
    <3>3. ASSUME NEW t \in Threads, Begin(t) PROVE FALSE
      BY <3>1, <3>2, <3>3 DEF Begin, graph_add_node, graph_remove_node,
                              graph_remove_endpoint, RemoveEndpoint
    <3>4. ~RemoteNodesChange
      BY <3>1 DEF RemoteNodesChange
    <3>5. PICK t \in Threads : Continue(t)
      BY <3>3, <3>4 DEF Next
    <3>6. ~graph_add_node_end(t) /\ ~graph_remove_node_end(t)
      BY <3>1 DEF graph_add_node_end, graph_remove_node_end
    <3>7. ~graph_cache_upsert_endpoint(t) /\ ~graph_unwind_endpoint(t)
      BY <3>1 DEF graph_cache_upsert_endpoint, graph_unwind_endpoint,
                  RemoveEndpoint
    <3> QED BY <3>5, <3>6, <3>7 DEF Continue
  <2>2. CASE graph_add_endpoint_end(t)
    <3>1. ~PublishResult(t)
      BY <2>2 DEF graph_add_endpoint_end
    <3> QED BY <2>2, <3>1 DEF graph_add_endpoint_end,
                              graph_cache_apply_snapshot
  <2>3. CASE graph_remove_endpoint_end(t)
    <3>1. /\ op[t].pc = "remove_endpoint"
          /\ published' = PublishResult(t)
          /\ endpoint' = [endpoint EXCEPT ![op[t].guid] = NULL]
      BY <2>3 DEF graph_remove_endpoint_end, graph_cache_apply_snapshot
    <3>2. op[t].guid = g
      BY <1>1, <3>1 DEF OwnershipInv, TypeOK
    <3>3. BeingRemoved(g)
      BY <3>1, <3>2 DEF BeingRemoved
    <3>4. PICK n \in Nodes, kind \in Kinds :
                n = endpoint[g].node /\ kind = endpoint[g].kind
      BY <1>1 DEF OwnershipInv, TypeOK, Endpoint
    <3>5. ~Lists(Snapshot, n, g, kind)
      BY <1>1, <3>3, SnapshotOmitsRemoved
    <3>6. PublishResult(t) => announced = Snapshot
      BY <1>1, <3>1 DEF PublicationInv, HolderWroteTable, PublishResult,
                  LockedPhases
    <3> QED BY <3>1, <3>4, <3>5, <3>6
  <2> QED BY <2>1, <2>2, <2>3
<1> QED BY <1>1, OwnershipAlways, PublicationAlways, EndpointsAlways,
           PTL DEF Spec, RemovalIsAnnouncedFirst

-----------------------------------------------------------------------------
(* LocalGraph implements GraphTable.  Members and Owned are the refinement *)
(* mapping; under OwnershipInv they are the nodes whose handle is in use   *)
(* and the GIDs that EndpointInv speaks of.                                *)

\* The GIDs of one kind that node n owns.
Owns(n, kind) == IF node_context[n] THEN Range(GidsOf(n)[kind]) ELSE {}

\* The refinement mapping in terms of handles instead of slots.
MappingInv ==
    /\ Members = {n \in Nodes : node_context[n]}
    /\ Owned = [n \in Nodes |-> [kind \in Kinds |-> Owns(n, kind)]]

\* Slots and handles are in bijection, so the mapping has that form.
LEMMA MappingIsOfHandles == OwnershipInv => MappingInv
<1> SUFFICES ASSUME OwnershipInv PROVE MappingInv
  OBVIOUS
<1>1. Members = {n \in Nodes : node_context[n]}
  <2>1. ASSUME NEW i \in 0 .. graph_node_count - 1
        PROVE  /\ graph_node_owners[i] \in Nodes
               /\ node_context[graph_node_owners[i]]
    BY DEF OwnershipInv, HandlesOwnTheirSlots
  <2>2. ASSUME NEW n \in Nodes, node_context[n]
        PROVE  \E i \in 0 .. graph_node_count - 1 : graph_node_owners[i] = n
    BY <2>2 DEF OwnershipInv, TypeOK, HandlesOwnTheirSlots,
                graph_node_is_valid_locked, Slots
  <2> QED BY <2>1, <2>2 DEF Members
<1>2. \A n \in Nodes : n \in Members <=> node_context[n]
  BY <1>1
<1> QED BY <1>1, <1>2 DEF MappingInv, Owned, Owns, GidsOf

\* The same of the next state.
LEMMA MappingIsOfHandlesPrimed == OwnershipInv' => MappingInv'
BY MappingIsOfHandles, PTL

\* GraphTable counts with the same Cardinality.
LEMMA SameCardinality ==
    ASSUME NEW S
    PROVE  Table!Cardinality(S) = Cardinality(S)
BY DEF Table!Cardinality, Cardinality

\* There are at most as many members as slots in use.
LEMMA MembersAreBounded ==
    ASSUME OwnershipInv
    PROVE  IsFiniteSet(Members) /\ Cardinality(Members) <= graph_node_count
<1> DEFINE f == [i \in 1 .. graph_node_count |-> graph_node_owners[i - 1]]
<1>1. graph_node_count \in Nat
  BY DEF OwnershipInv, TypeOK
<1>2. Range(f) = Members
  <2>1. ASSUME NEW i \in 0 .. graph_node_count - 1
        PROVE  i + 1 \in 1 .. graph_node_count /\ (i + 1) - 1 = i
    BY <1>1
  <2>2. \A i \in 1 .. graph_node_count : i - 1 \in 0 .. graph_node_count - 1
    BY <1>1
  <2> QED BY <2>1, <2>2 DEF Range, Members
<1>3. f = [i \in 1 .. graph_node_count |-> f[i]]
  OBVIOUS
<1> HIDE DEF f
<1> QED BY <1>1, <1>2, <1>3, RangeIsBounded

\* Nobody owns more than before or after if handles and listings stay.
LEMMA MappingStays ==
    ASSUME OwnershipInv, OwnershipInv', UNCHANGED node_context,
           \A n \in Nodes, kind \in Kinds :
                node_context[n] => GidsOf(n)'[kind] = GidsOf(n)[kind]
    PROVE  UNCHANGED <<Members, Owned>>
<1>1. \A n \in Nodes, kind \in Kinds : Owns(n, kind)' = Owns(n, kind)
  BY DEF Owns
<1>2. UNCHANGED Members
  BY MappingIsOfHandles, MappingIsOfHandlesPrimed DEF MappingInv
<1>3. /\ Owned = [m \in Nodes |-> [k \in Kinds |-> Owns(m, k)]]
      /\ Owned' = [m \in Nodes |-> [k \in Kinds |-> Owns(m, k)']]
  BY MappingIsOfHandles, MappingIsOfHandlesPrimed DEF MappingInv
<1> QED BY <1>1, <1>2, <1>3

\* One listing changes, and with it what one node owns of one kind.
LEMMA OneOwnedSetChanges ==
    ASSUME OwnershipInv, OwnershipInv', NEW n \in Nodes, NEW kind \in Kinds,
           node_context[n], UNCHANGED node_context, NEW new,
           Range(GidsOf(n)'[kind]) = new,
           \A m \in Nodes, k \in Kinds :
                node_context[m] /\ (m # n \/ k # kind) =>
                    GidsOf(m)'[k] = GidsOf(m)[k]
    PROVE  /\ UNCHANGED Members /\ n \in Members
           /\ Owned[n][kind] = Range(GidsOf(n)[kind])
           /\ Owned' = [Owned EXCEPT ![n][kind] = new]
<1>1. /\ Owns(n, kind)' = new /\ Owns(n, kind) = Range(GidsOf(n)[kind])
      /\ \A m \in Nodes, k \in Kinds :
            m # n \/ k # kind => Owns(m, k)' = Owns(m, k)
  BY DEF Owns
<1>2. UNCHANGED Members /\ n \in Members
  BY MappingIsOfHandles, MappingIsOfHandlesPrimed DEF MappingInv
<1>3. /\ Owned = [m \in Nodes |-> [k \in Kinds |-> Owns(m, k)]]
      /\ Owned' = [m \in Nodes |-> [k \in Kinds |-> Owns(m, k)']]
  BY MappingIsOfHandles, MappingIsOfHandlesPrimed DEF MappingInv
<1> QED BY <1>1, <1>2, <1>3

\* A node that enters or leaves owns nothing, and nobody else is touched.
LEMMA OneMemberChanges ==
    ASSUME OwnershipInv, OwnershipInv', NEW n \in Nodes,
           \A m \in Nodes \ {n} :
                /\ node_context'[m] = node_context[m]
                /\ node_context[m] => GidsOf(m)' = GidsOf(m),
           node_context[n] => GidsOf(n) = NoGids,
           node_context'[n] => GidsOf(n)' = NoGids
    PROVE  UNCHANGED Owned /\ Owned[n] = [kind \in Kinds |-> {}]
<1>1. \A kind \in Kinds : Range(NoGids[kind]) = {}
  BY DEF NoGids, Range
<1>2. \A kind \in Kinds : Owns(n, kind) = {} /\ Owns(n, kind)' = {}
  BY <1>1 DEF Owns
<1>3. \A m \in Nodes, k \in Kinds : Owns(m, k)' = Owns(m, k)
  BY <1>2 DEF Owns
<1>4. /\ Owned = [m \in Nodes |-> [k \in Kinds |-> Owns(m, k)]]
      /\ Owned' = [m \in Nodes |-> [k \in Kinds |-> Owns(m, k)']]
  BY MappingIsOfHandles, MappingIsOfHandlesPrimed DEF MappingInv
<1> QED BY <1>2, <1>3, <1>4

-----------------------------------------------------------------------------
(* Each step is a step of GraphTable or leaves the mapping alone *)

\* graph_add_node is AddNode.
LEMMA AddNodeRefines ==
    ASSUME OwnershipInv, OwnershipInv', EndpointInv,
           NEW t \in Threads, NEW n \in Nodes, graph_add_node(t, n)
    PROVE  Table!AddNode(n)
<1>1. /\ ~node_context[n] /\ graph_node_count < GRAPH_MAX_NODES
      /\ node_context' = [node_context EXCEPT ![n] = TRUE]
  BY DEF graph_add_node
<1>2. \A m \in Nodes : node_context'[m] <=> node_context[m] \/ m = n
  BY <1>1 DEF OwnershipInv, TypeOK
<1>3. n \notin Members /\ Members' = Members \cup {n}
  BY <1>1, <1>2, MappingIsOfHandles, MappingIsOfHandlesPrimed DEF MappingInv
<1>4. Cardinality(Members) < GRAPH_MAX_NODES
  <2>1. IsFiniteSet(Members) /\ Cardinality(Members) <= graph_node_count
    BY MembersAreBounded
  <2>2. Cardinality(Members) \in Nat
    BY <2>1, FS_CardinalityType
  <2> QED BY <1>1, <2>1, <2>2 DEF OwnershipInv, TypeOK
<1>5. UNCHANGED Owned
  <2>1. /\ GidsOf(n)' = NoGids
        /\ \A m \in Nodes : node_context[m] => GidsOf(m)' = GidsOf(m)
    BY AddNodeEndpoints
  <2>2. \A m \in Nodes \ {n} : node_context'[m] = node_context[m]
    BY <1>1 DEF OwnershipInv, TypeOK
  <2> QED BY <1>1, <2>1, <2>2, OneMemberChanges
<1> QED BY <1>3, <1>4, <1>5, SameCardinality DEF Table!AddNode

\* A node that lists nothing and whose handle goes out of use is removed.
LEMMA NodeLeaves ==
    ASSUME OwnershipInv, OwnershipInv', NEW n \in Nodes, node_context[n],
           node_context' = [node_context EXCEPT ![n] = FALSE],
           GidsOf(n) = NoGids,
           \A m \in Nodes \ {n} : node_context[m] => GidsOf(m)' = GidsOf(m)
    PROVE  Table!RemoveNode(n)
<1>1. \A m \in Nodes : node_context'[m] <=> node_context[m] /\ m # n
  BY DEF OwnershipInv, TypeOK
<1>2. n \in Members /\ Members' = Members \ {n}
  BY <1>1, MappingIsOfHandles, MappingIsOfHandlesPrimed DEF MappingInv
<1>3. \A m \in Nodes \ {n} : node_context'[m] = node_context[m]
  BY DEF OwnershipInv, TypeOK
<1>4. UNCHANGED Owned /\ Owned[n] = [kind \in Kinds |-> {}]
  BY <1>1, <1>3, OneMemberChanges
<1> QED BY <1>2, <1>4 DEF Table!RemoveNode, Table!Nothing, Table!Kinds, Kinds

\* graph_add_node_end is RemoveNode when it rolls back, and a stuttering step
\* otherwise.
LEMMA AddNodeEndRefines ==
    ASSUME OwnershipInv, OwnershipInv', EndpointInv,
           NEW t \in Threads, graph_add_node_end(t)
    PROVE  (\E n \in Nodes : Table!RemoveNode(n)) \/ UNCHANGED <<Members, Owned>>
<1>1. PICK n \in Nodes : n = op[t].node
  BY AddNodeEndEndpoints
<1>2. /\ GidsOf(n) = NoGids
      /\ \A m \in Nodes : node_context'[m] => GidsOf(m)' = GidsOf(m)
  BY <1>1, AddNodeEndEndpoints
<1>3. CASE UNCHANGED table
  BY <1>3, MappingStays DEF table, GidsOf
<1>4. CASE node_context' = [node_context EXCEPT ![op[t].node] = FALSE]
  <2>1. node_context[n]
    BY <1>1 DEF OwnershipInv, CallsInProgress, CallKnows, graph_add_node_end
  <2>2. \A m \in Nodes \ {n} : node_context[m] => GidsOf(m)' = GidsOf(m)
    BY <1>1, <1>2, <1>4 DEF OwnershipInv, TypeOK
  <2> QED BY <1>1, <1>2, <1>4, <2>1, <2>2, NodeLeaves
<1> QED BY <1>3, <1>4 DEF graph_add_node_end

\* graph_remove_node is RemoveNode.
LEMMA RemoveNodeRefines ==
    ASSUME OwnershipInv, OwnershipInv', EndpointInv,
           NEW t \in Threads, NEW n \in Nodes, graph_remove_node(t, n)
    PROVE  Table!RemoveNode(n)
<1>1. /\ node_context[n] /\ GidsOf(n) = NoGids
      /\ node_context' = [node_context EXCEPT ![n] = FALSE]
  BY DEF graph_remove_node, graph_node_is_valid_locked, GidsOf
<1>2. \A m \in Nodes \ {n} : node_context[m] => GidsOf(m)' = GidsOf(m)
  BY RemoveNodeEndpoints
<1> QED BY <1>1, <1>2, NodeLeaves

\* graph_add_endpoint is AddEndpoint.
LEMMA AddEndpointRefines ==
    ASSUME OwnershipInv, OwnershipInv', EndpointInv,
           NEW t \in Threads, NEW n \in Nodes, NEW g \in Guids,
           NEW kind \in Kinds, graph_add_endpoint(t, n, g, kind)
    PROVE  Table!AddEndpoint(n, kind, g)
<1> DEFINE old == GidsOf(n)[kind]
<1>1. /\ endpoint[g] = NULL /\ graph_node_is_valid_locked(n)
      /\ node_context[n] /\ Len(old) < GRAPH_MAX_ENDPOINTS_PER_NODE
      /\ graph_gids' = [graph_gids EXCEPT ![graph_index[n]][kind] =
                            Append(old, g)]
      /\ UNCHANGED <<node_context, graph_index>>
  BY DEF graph_add_endpoint, GidsOf, graph_node_is_valid_locked
<1>2. /\ GidsOf(n)'[kind] = Append(old, g)
      /\ \A m \in Nodes, k \in Kinds :
            node_context[m] /\ (m # n \/ k # kind) =>
                GidsOf(m)'[k] = GidsOf(m)[k]
  BY <1>1, OneSequenceChanges
<1>3. old \in Seq(Guids)
  BY DEF OwnershipInv, TypeOK, GidsOf
<1>4. PICK new : new = Range(old) \cup {g} /\ Range(GidsOf(n)'[kind]) = new
  BY <1>2, <1>3, AppendRange
<1>5. /\ UNCHANGED Members /\ n \in Members /\ Owned[n][kind] = Range(old)
      /\ Owned' = [Owned EXCEPT ![n][kind] = new]
  <2>1. node_context[n] /\ UNCHANGED node_context
    BY <1>1
  <2>2. \A m \in Nodes, k \in Kinds :
            node_context[m] /\ (m # n \/ k # kind) =>
                GidsOf(m)'[k] = GidsOf(m)[k]
    BY <1>2
  <2>3. Range(GidsOf(n)'[kind]) = new
    BY <1>4
  <2> HIDE <1>1, <1>2, <1>3, <1>4
  <2> HIDE DEF old
  <2>4. Members' = Members
    BY <2>1, <2>2, <2>3, OneOwnedSetChanges
  <2>5. n \in Members
    BY <2>1, <2>2, <2>3, OneOwnedSetChanges
  <2>6. Owned[n][kind] = Range(GidsOf(n)[kind])
    BY <2>1, <2>2, <2>3, OneOwnedSetChanges
  <2>7. Owned' = [Owned EXCEPT ![n][kind] = new]
    BY <2>1, <2>2, <2>3, OneOwnedSetChanges
  <2> QED BY <2>4, <2>5, <2>6, <2>7 DEF old
<1>6. ASSUME NEW m \in Nodes, NEW k \in Kinds
      PROVE  g \notin Owned[m][k]
  <2>1. Owned[m][k] = Owns(m, k)
    BY MappingIsOfHandles DEF MappingInv
  <2>2. ASSUME node_context[m], NEW j \in 1 .. Len(GidsOf(m)[k])
        PROVE  GidsOf(m)[k][j] # g
    <3>1. endpoint[GidsOf(m)[k][j]] = Own(m, k) /\ Own(m, k) \in Endpoint
      BY <2>2 DEF EndpointInv, ListingInv, ListedAreOwn, Own, Endpoint
    <3> QED BY <1>1, <3>1
  <2>3. DOMAIN (GidsOf(m)[k]) = 1 .. Len(GidsOf(m)[k])
    BY DEF OwnershipInv, TypeOK, GidsOf
  <2> QED BY <2>1, <2>2, <2>3 DEF Owns, Range
<1>7. Cardinality(Owned[n][kind]) < GRAPH_MAX_ENDPOINTS_PER_NODE
  <2>1. Len(old) \in Nat /\ old = [i \in 1 .. Len(old) |-> old[i]]
    BY <1>3
  <2>2. IsFiniteSet(Range(old)) /\ Cardinality(Range(old)) <= Len(old)
    BY <2>1, RangeIsBounded
  <2>3. Cardinality(Range(old)) \in Nat
    BY <2>2, FS_CardinalityType
  <2> QED BY <1>1, <1>5, <2>1, <2>2, <2>3
<1> HIDE DEF old
<1> QED BY <1>4, <1>5, <1>6, <1>7, SameCardinality
        DEF Table!AddEndpoint, Table!Kinds, Kinds

\* The only entry of g leaves the listing of its node.
LEMMA EntryLeaves ==
    ASSUME OwnershipInv, OwnershipInv', EndpointInv,
           NEW n \in Nodes, graph_node_is_valid_locked(n), NEW kind \in Kinds,
           NEW g \in Guids, NEW index \in 1 .. Len(GidsOf(n)[kind]),
           GidsOf(n)[kind][index] = g,
           NEW new \in Seq(Guids), Len(new) = Len(GidsOf(n)[kind]) - 1,
           \A j \in 1 .. Len(GidsOf(n)[kind]) - 1 :
                new[j] = IF j < index THEN GidsOf(n)[kind][j]
                                      ELSE GidsOf(n)[kind][j + 1],
           graph_gids' = [graph_gids EXCEPT ![graph_index[n]][kind] = new],
           UNCHANGED <<node_context, graph_index>>
    PROVE  Table!RemoveEndpoint(n, kind, g)
<1> DEFINE old == GidsOf(n)[kind]
<1>1. old \in Seq(Guids) /\ DOMAIN old = 1 .. Len(old) /\ node_context[n]
  BY DEF OwnershipInv, TypeOK, GidsOf, graph_node_is_valid_locked
<1>2. \A i \in 1 .. Len(old) : old[i] = old[index] => i = index
  BY <1>1 DEF EndpointInv, ListingInv, NoneIsListedTwice
<1>3. Range(new) = Range(old) \ {g} /\ g \in Range(old)
  <2>1. g \in Range(old)
    BY <1>1 DEF Range
  <2> HIDE DEF old
  <2>2. PICK was \in Seq(Guids) : was = old
    BY <1>1
  <2>3. index \in 1 .. Len(was) /\ was[index] = g
    BY <2>2 DEF old
  <2>4. IsOnlyEntry(was, index)
    BY <1>2, <2>2 DEF IsOnlyEntry
  <2>5. LacksEntry(new, was, index)
    BY <2>2 DEF old, LacksEntry
  <2>6. Range(new) = Range(was) \ {was[index]}
    BY <2>3, <2>4, <2>5, RemovedRange
  <2> QED BY <2>1, <2>2, <2>3, <2>6
<1>4. /\ GidsOf(n)'[kind] = new
      /\ \A m \in Nodes, k \in Kinds :
            node_context[m] /\ (m # n \/ k # kind) =>
                GidsOf(m)'[k] = GidsOf(m)[k]
  BY OneSequenceChanges
<1>5. PICK left : left = Range(new)
  OBVIOUS
<1>6. /\ UNCHANGED Members
      /\ Owned[n][kind] = Range(GidsOf(n)[kind])
      /\ Owned' = [Owned EXCEPT ![n][kind] = left]
  BY <1>1, <1>4, <1>5, OneOwnedSetChanges
<1> QED BY <1>3, <1>5, <1>6 DEF Table!RemoveEndpoint

\* graph_remove_endpoint is RemoveEndpoint.
LEMMA RemoveEndpointRefines ==
    ASSUME OwnershipInv, OwnershipInv', EndpointInv,
           NEW t \in Threads, NEW g \in Guids, endpoint[g] # NULL,
           RemoveEndpoint(t, g)
    PROVE  \E n \in Nodes, kind \in Kinds : Table!RemoveEndpoint(n, kind, g)
<1>1. PICK n \in Nodes, kind \in Kinds :
            endpoint[g].node = n /\ endpoint[g].kind = kind
  BY DEF OwnershipInv, TypeOK, Endpoint
<1>2. /\ graph_node_is_valid_locked(n)
      /\ UNCHANGED <<node_context, graph_index>>
      /\ Sequence(g) = GidsOf(n)[kind]
  BY <1>1 DEF RemoveEndpoint, Sequence, GidsOf
<1>3. GidsOf(n)[kind] \in Seq(Guids)
  BY DEF OwnershipInv, TypeOK, GidsOf
<1>4. PICK index \in 1 .. Len(GidsOf(n)[kind]) :
        /\ GidsOf(n)[kind][index] = g
        /\ graph_gids' = [graph_gids EXCEPT ![graph_index[n]][kind] =
                                RemoveAt(GidsOf(n)[kind], index)]
  <2>1. PICK index \in 1 .. Len(Sequence(g)) :
            /\ IsFirstMatch(Sequence(g), g, index)
            /\ graph_gids' = [graph_gids EXCEPT
                    ![graph_index[endpoint[g].node]][endpoint[g].kind] =
                        RemoveAt(@, index)]
    BY DEF RemoveEndpoint
  <2>2. graph_gids' = [graph_gids EXCEPT ![graph_index[n]][kind] =
                            RemoveAt(GidsOf(n)[kind], index)]
    BY <1>1, <2>1 DEF GidsOf
  <2> QED BY <1>2, <2>1, <2>2 DEF IsFirstMatch
<1>5. PICK new \in Seq(Guids) : new = RemoveAt(GidsOf(n)[kind], index)
  BY <1>3, <1>4, RemoveAtType
<1>6. /\ Len(new) = Len(GidsOf(n)[kind]) - 1
      /\ \A j \in 1 .. Len(GidsOf(n)[kind]) - 1 :
            new[j] = IF j < index THEN GidsOf(n)[kind][j]
                                  ELSE GidsOf(n)[kind][j + 1]
  BY <1>3, <1>4, <1>5, RemoveAtListing
<1>7. Table!RemoveEndpoint(n, kind, g)
  BY <1>2, <1>4, <1>5, <1>6, EntryLeaves
<1> QED BY <1>7

\* graph_add_endpoint_end is RemoveEndpoint when it rolls back, and a
\* stuttering step otherwise.
LEMMA AddEndpointEndRefines ==
    ASSUME OwnershipInv, OwnershipInv', EndpointInv,
           NEW t \in Threads, graph_add_endpoint_end(t)
    PROVE  \/ \E n \in Nodes, kind \in Kinds, g \in Guids :
                Table!RemoveEndpoint(n, kind, g)
           \/ UNCHANGED <<Members, Owned>>
<1>1. PICK g \in Guids, n \in Nodes, kind \in Kinds :
        /\ op[t].guid = g /\ op[t].node = n
        /\ endpoint[g].node = n /\ endpoint[g].kind = kind
        /\ op[t].pc = "add_endpoint" /\ endpoint[g] # NULL
  BY DEF graph_add_endpoint_end, OwnershipInv, CallsInProgress, CallKnows,
         EndpointPhases, TypeOK, Endpoint
<1>2. UNCHANGED <<node_context, graph_index>>
  BY DEF graph_add_endpoint_end
<1>3. CASE UNCHANGED graph_gids
  BY <1>2, <1>3, MappingStays DEF GidsOf
<1>4. CASE graph_gids' = [graph_gids EXCEPT
                ![graph_index[n]][endpoint[g].kind] = DropLast(@)]
  <2>1. GidsOf(n)[kind] \in Seq(Guids)
    BY DEF OwnershipInv, TypeOK, GidsOf
  <2>2. GidsOf(n)[kind] # <<>> /\ GidsOf(n)[kind][Len(GidsOf(n)[kind])] = g
    BY <1>1 DEF EndpointInv, RollbackInv, Sequence, GidsOf
  <2>3. graph_node_is_valid_locked(n)
    <3>1. ~BeingRemoved(g)
      BY <1>1 DEF BeingRemoved, OwnershipInv, LockProtectsTable, LockedPhases
    <3>2. node_context[n]
      BY <1>1, <3>1 DEF EndpointInv, ListingInv, ExistingAreListed
    <3> QED BY <3>2 DEF OwnershipInv, HandlesOwnTheirSlots
  <2>4. PICK new \in Seq(Guids), index \in 1 .. Len(GidsOf(n)[kind]) :
            new = DropLast(GidsOf(n)[kind]) /\ index = Len(GidsOf(n)[kind])
    <3>1. /\ Len(GidsOf(n)[kind]) \in 1 .. Len(GidsOf(n)[kind])
          /\ DropLast(GidsOf(n)[kind]) \in Seq(Guids)
      BY <2>1, <2>2 DEF DropLast
    <3> QED BY <3>1
  <2>5. /\ Len(new) = Len(GidsOf(n)[kind]) - 1
        /\ \A j \in 1 .. Len(GidsOf(n)[kind]) - 1 : new[j] = GidsOf(n)[kind][j]
    BY <2>1, <2>2, <2>4, DropLastListing
  <2>6. \A j \in 1 .. Len(GidsOf(n)[kind]) - 1 :
            new[j] = IF j < index THEN GidsOf(n)[kind][j]
                                  ELSE GidsOf(n)[kind][j + 1]
    BY <2>1, <2>4, <2>5
  <2>7. graph_gids' = [graph_gids EXCEPT ![graph_index[n]][kind] = new]
    BY <1>1, <1>4, <2>4 DEF GidsOf
  <2>8. Table!RemoveEndpoint(n, kind, g)
    BY <1>2, <2>2, <2>3, <2>4, <2>5, <2>6, <2>7, EntryLeaves
  <2> QED BY <2>8
<1> QED BY <1>1, <1>3, <1>4 DEF graph_add_endpoint_end

-----------------------------------------------------------------------------
\* Every step of the slot array is a step of the abstract table, or leaves it
\* alone.
LEMMA NextRefines ==
    OwnershipInv /\ OwnershipInv' /\ EndpointInv /\ [Next]_vars =>
        [Table!Next]_<<Members, Owned>>
<1> SUFFICES ASSUME OwnershipInv, OwnershipInv', EndpointInv, [Next]_vars
             PROVE  Table!Next \/ UNCHANGED <<Members, Owned>>
  OBVIOUS
<1> USE DEF Table!Next, Table!Kinds, Kinds
<1>1. ASSUME UNCHANGED table PROVE UNCHANGED <<Members, Owned>>
  BY <1>1, MappingStays DEF table, GidsOf
<1>2. ASSUME NEW t \in Threads, Begin(t) PROVE Table!Next
  <2>1. ASSUME NEW g \in Guids, graph_remove_endpoint(t, g)
        PROVE  Table!Next
    <3>1. endpoint[g] # NULL /\ RemoveEndpoint(t, g)
      BY <2>1 DEF graph_remove_endpoint
    <3> QED BY <3>1, RemoveEndpointRefines
  <2>2. ASSUME NEW n \in Nodes, graph_add_node(t, n) PROVE Table!Next
    BY <2>2, AddNodeRefines
  <2>3. ASSUME NEW n \in Nodes, graph_remove_node(t, n) PROVE Table!Next
    BY <2>3, RemoveNodeRefines
  <2>4. ASSUME NEW n \in Nodes, NEW g \in Guids, NEW kind \in Kinds,
               graph_add_endpoint(t, n, g, kind)
        PROVE  Table!Next
    BY <2>4, AddEndpointRefines
  <2> QED BY <1>2, <2>1, <2>2, <2>3, <2>4 DEF Begin
<1>3. ASSUME NEW t \in Threads, Continue(t)
      PROVE  Table!Next \/ UNCHANGED <<Members, Owned>>
  <2>1. CASE graph_add_node_end(t)
    BY <2>1, AddNodeEndRefines
  <2>2. CASE graph_add_endpoint_end(t)
    BY <2>2, AddEndpointEndRefines
  <2>3. CASE graph_unwind_endpoint(t)
    <3>1. PICK g \in Guids : g = op[t].guid
      BY <2>3, UnwoundExists
    <3>2. endpoint[g] # NULL /\ RemoveEndpoint(t, g)
      BY <2>3, <3>1, UnwoundExists
    <3> QED BY <3>2, RemoveEndpointRefines
  <2>4. CASE graph_remove_node_end(t) \/ graph_remove_endpoint_end(t) \/
             graph_cache_upsert_endpoint(t)
    BY <1>1, <2>4 DEF graph_remove_node_end, graph_remove_endpoint_end,
                      graph_cache_upsert_endpoint
  <2> QED BY <1>3, <2>1, <2>2, <2>3, <2>4 DEF Continue
<1>4. CASE RemoteNodesChange \/ UNCHANGED vars
  BY <1>1, <1>4 DEF RemoteNodesChange, vars
<1> QED BY <1>2, <1>3, <1>4 DEF Next

\* The slot array implements the abstract table of nodes and owned GIDs, for
\* any number of threads, nodes and endpoints, with failing writes and a full
\* graph cache: compaction, rollback and unwinding never touch what another
\* node owns, no GID has two owners, and no limit is passed.
THEOREM TableIsImplemented == Spec => ImplementsGraphTable
<1>1. Init => Table!Init
  <2> SUFFICES ASSUME Init PROVE Table!Init
    OBVIOUS
  <2>1. Members = {}
    BY DEF Init, Members
  <2>2. Owned = [n \in Nodes |-> [kind \in Kinds |-> {}]]
    BY <2>1 DEF Owned
  <2> QED BY <2>1, <2>2 DEF Table!Init, Table!Nothing, Table!Kinds, Kinds
<1> QED BY <1>1, NextRefines, OwnershipAlways, EndpointsAlways,
           PTL DEF Spec, Table!Spec, ImplementsGraphTable
==============================================================================
