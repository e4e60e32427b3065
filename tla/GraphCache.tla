----------------------------- MODULE GraphCache -----------------------------
(***************************************************************************)
(* The inbound half of the ROS graph: the bounded cache of participants,   *)
(* nodes and DDS endpoints, the listeners of the four discovery readers    *)
(* that fill it, the local calls that fill it too, and the graph guard     *)
(* condition they trigger.                                                 *)
(*                                                                         *)
(* Each reader's listener runs in a thread of its own: it takes a batch,   *)
(* handles the samples one by one, each under graph_cache_lock, and takes  *)
(* again.  Between any two of those steps DDS and the other threads move   *)
(* on.  graph_cache_signal runs after the lock is released, so it is a     *)
(* step of its own.                                                        *)
(*                                                                         *)
(* Participants and nodes are sets: no caller depends on the order of      *)
(* their arrays, and the compaction loops are set filters.  Endpoints, the *)
(* only entries that are updated in place, are a sequence.  A node's name  *)
(* is <<v, i>>: the i-th node of its participant's v-th snapshot.          *)
(***************************************************************************)
EXTENDS Naturals, Sequences, FiniteSets, SequencesExt, Compaction

CONSTANTS
    Self,                           \* this context's participant
    Remotes,                        \* the other participants
    Endpoints,                      \* DDS readers and writers
    OwnerOf,                        \* endpoint -> its participant
    WriterEndpoints,                \* the endpoints that are writers
    Oversized,                      \* those with a name that is too long
    NULL,
    GRAPH_CACHE_MAX_PARTICIPANTS,
    GRAPH_CACHE_MAX_NODES,
    GRAPH_CACHE_MAX_ENDPOINTS,
    GRAPH_DISCOVERY_BATCH,
    CoalesceLoss,   \* may DDS report a loss on a data sample not yet taken?
    Snapshots,      \* the snapshots a participant may write
    MaxSnapshots,   \* bound: participant -> snapshots it writes
    MaxAppearances  \* bound: key -> times it is discovered

Participants == Remotes \cup {Self}
Keys == Participants \cup Endpoints

ASSUME LimitsArePositive ==
    /\ GRAPH_CACHE_MAX_PARTICIPANTS \in Nat \ {0}
    /\ GRAPH_CACHE_MAX_NODES \in Nat \ {0}
    /\ GRAPH_CACHE_MAX_ENDPOINTS \in Nat \ {0}
    /\ GRAPH_DISCOVERY_BATCH \in Nat \ {0}

ASSUME BoundsAreNaturals ==
    /\ MaxSnapshots \in [Participants -> Nat]
    /\ MaxAppearances \in [Keys -> Nat]
    /\ Snapshots \subseteq [size : Nat, fits : BOOLEAN]
    /\ CoalesceLoss \in BOOLEAN

ASSUME KeysAreDistinct ==
    /\ Self \notin Remotes
    /\ Participants \cap Endpoints = {}
    /\ OwnerOf \in [Endpoints -> Participants]
    /\ WriterEndpoints \cup Oversized \subseteq Endpoints
    /\ NULL \notin Keys

VARIABLES
    \* DDS
    alive,          \* key -> whether DDS holds its instance alive
    appearances,    \* key -> times it was discovered
    snapshots,      \* participant -> the snapshots it wrote, in order
    queue,          \* reader -> samples not yet taken, oldest first
    \* the listeners and the local caller
    batch,          \* reader -> samples its listener took and has not handled
    local,          \* the phase of the local call in progress
    signalling,     \* the threads between unlock_graph_cache and the signal
    \* the cache
    cached_participants, cached_nodes, cached_endpoints,
    \* the graph guard condition and the application that waits on it
    graph_guard,
    unseen          \* the cache changed since the application last looked

dds == <<alive, appearances, snapshots, queue>>
cache == <<cached_participants, cached_nodes, cached_endpoints>>
vars == <<dds, batch, local, signalling, cache, graph_guard, unseen>>

-----------------------------------------------------------------------------
EndpointReaders == {"publication", "subscription"}
Readers == {"graph", "participant"} \cup EndpointReaders
Actors == Readers \cup {"local"}

ReaderOf(key) ==
    IF key \in Participants THEN "participant"
    ELSE IF key \in WriterEndpoints THEN "publication" ELSE "subscription"

\* A snapshot on the wire: fits abstracts the limits inside one node
\* (endpoints-per-node, 256-byte names).
GraphSample == [gid : Participants, version : Nat, size : Nat, fits : BOOLEAN]

\* A built-in topic sample; alive is the instance state read with the sample.
BuiltinSample == [key : Keys, valid : BOOLEAN, alive : BOOLEAN]

CachedNode == [participant_guid : Participants, name : Nat \X Nat]
CachedEndpoint ==
    [guid : Endpoints, participant_guid : Participants, writer : BOOLEAN]

LocalPhases == {"idle", "apply", "upsert", "undo", "delete", "notify"}
LocalIdle == [pc |-> "idle", endpoint |-> NULL]

\* rmw_init cached and signalled this participant before it created the
\* readers; the participant reader then delivers the participant's own sample.
Init ==
    /\ alive = [k \in Keys |-> k = Self]
    /\ appearances = [k \in Keys |-> 0]
    /\ snapshots = [p \in Participants |-> <<>>]
    /\ queue = [r \in Readers |->
                    IF r = "participant"
                    THEN <<[key |-> Self, valid |-> TRUE, alive |-> TRUE]>>
                    ELSE <<>>]
    /\ batch = [r \in Readers |-> <<>>]
    /\ local = LocalIdle
    /\ signalling = {}
    /\ cached_participants = {Self}
    /\ cached_nodes = {}
    /\ cached_endpoints = <<>>
    /\ graph_guard = TRUE
    /\ unseen = TRUE

-----------------------------------------------------------------------------
(* Discovery, as DDS delivers it *)

Without(samples, key) ==
    Compact(samples, {s \in Range(samples) : s.key # key})

\* Built-in readers keep the last sample of an instance: news of a key
\* replaces what was not yet taken of it.
Appeared(q, key) ==
    [q EXCEPT ![ReaderOf(key)] =
        Append(Without(@, key), [key |-> key, valid |-> TRUE, alive |-> TRUE])]

\* The loss of keys shows in the instance state of their data samples that
\* still wait in a reader.  It is an invalid sample of its own, unless DDS
\* leaves it at that when such a data sample exists.
Lost(q, keys) ==
    [r \in Readers |->
        LET waiting(key) == \E i \in 1 .. Len(q[r]) : q[r][i].key = key
            told == {key \in keys : ReaderOf(key) = r
                                        /\ ~(CoalesceLoss /\ waiting(key))}
        IN  IF r = "graph" THEN q[r]
            ELSE [i \in 1 .. Len(q[r]) |->
                    IF q[r][i].key \in keys
                    THEN [q[r][i] EXCEPT !.alive = FALSE] ELSE q[r][i]]
                 \o SetToSeq({[key |-> key, valid |-> FALSE, alive |-> FALSE] :
                                key \in told})]

\* A transient-local reader that matches a writer again gets its last sample.
LastSample(p) ==
    [gid |-> p, version |-> Len(snapshots[p]),
     size |-> Last(snapshots[p]).size, fits |-> Last(snapshots[p]).fits]

Redelivered(q, p) ==
    IF snapshots[p] = <<>> THEN q
    ELSE [q EXCEPT !["graph"] = Append(@, LastSample(p))]

ParticipantAppears(p) ==
    /\ p \in Remotes
    /\ ~alive[p]
    /\ appearances[p] < MaxAppearances[p]
    /\ alive' = [alive EXCEPT ![p] = TRUE]
    /\ appearances' = [appearances EXCEPT ![p] = @ + 1]
    /\ queue' = Redelivered(Appeared(queue, p), p)
    /\ UNCHANGED <<snapshots, batch, local, signalling, cache, graph_guard,
                   unseen>>

\* The lease of a participant expires, or it says goodbye: its endpoints are
\* lost with it.
ParticipantIsLost(p) ==
    LET gone == {p} \cup {e \in Endpoints : OwnerOf[e] = p /\ alive[e]}
    IN  /\ p \in Remotes
        /\ alive[p]
        /\ alive' = [k \in Keys |-> alive[k] /\ k \notin gone]
        /\ queue' = Lost(queue, gone)
        /\ UNCHANGED <<appearances, snapshots, batch, local, signalling,
                       cache, graph_guard, unseen>>

EndpointAppears(e) ==
    /\ OwnerOf[e] \in Remotes
    /\ alive[OwnerOf[e]]
    /\ ~alive[e]
    /\ appearances[e] < MaxAppearances[e]
    /\ alive' = [alive EXCEPT ![e] = TRUE]
    /\ appearances' = [appearances EXCEPT ![e] = @ + 1]
    /\ queue' = Appeared(queue, e)
    /\ UNCHANGED <<snapshots, batch, local, signalling, cache, graph_guard,
                   unseen>>

EndpointIsLost(e) ==
    /\ OwnerOf[e] \in Remotes
    /\ alive[e]
    /\ alive' = [alive EXCEPT ![e] = FALSE]
    /\ queue' = Lost(queue, {e})
    /\ UNCHANGED <<appearances, snapshots, batch, local, signalling, cache,
                   graph_guard, unseen>>

\* A participant writes its next snapshot; the keep-all reader queues it.
Write(p, snapshot) ==
    /\ Len(snapshots[p]) < MaxSnapshots[p]
    /\ snapshots' = [snapshots EXCEPT ![p] = Append(@, snapshot)]
    /\ queue' = [queue EXCEPT !["graph"] =
                    Append(@, [gid |-> p, version |-> Len(snapshots[p]) + 1,
                               size |-> snapshot.size, fits |-> snapshot.fits])]

RemoteWrite(p, snapshot) ==
    /\ p \in Remotes
    /\ alive[p]
    /\ Write(p, snapshot)
    /\ UNCHANGED <<alive, appearances, batch, local, signalling, cache,
                   graph_guard, unseen>>

-----------------------------------------------------------------------------
(* The operations on the cache, each atomic under graph_cache_lock *)

NodesOf(p) == {n \in cached_nodes : n.participant_guid = p}

\* graph_cache_add_participant_locked returns RMW_RET_OK.
ParticipantFits(p) ==
    \/ p \in cached_participants
    \/ Cardinality(cached_participants) # GRAPH_CACHE_MAX_PARTICIPANTS

\* Mutant: only the listeners signal.
UnlockRemoteOnly(actor) ==
    /\ signalling' = signalling \cup ({actor} \ {"local"})
    /\ unseen' = (unseen \/ cache' # cache)

\* unlock_graph_cache; the caller signals next.
Unlock(actor) ==
    /\ signalling' = signalling \cup {actor}
    /\ unseen' = (unseen \/ cache' # cache)

\* An early return: nothing changes and nothing is signalled.
Refuse == UNCHANGED <<cache, signalling, unseen>>

graph_cache_add_participant(actor, p) ==
    \/ /\ ParticipantFits(p)
       /\ cached_participants' = cached_participants \cup {p}
       /\ UNCHANGED <<cached_nodes, cached_endpoints>>
       /\ Unlock(actor)
    \/ /\ ~ParticipantFits(p)
       /\ Refuse

\* Mutant: the nodes stay.
graph_cache_remove_participant_only(actor, p) ==
    /\ cached_participants' = cached_participants \ {p}
    /\ UNCHANGED <<cached_nodes, cached_endpoints>>
    /\ Unlock(actor)

graph_cache_remove_participant(actor, p) ==
    /\ cached_participants' = cached_participants \ {p}
    /\ cached_nodes' = cached_nodes \ NodesOf(p)
    /\ cached_endpoints' =
            Compact(cached_endpoints,
                    {e \in Range(cached_endpoints) : e.participant_guid # p})
    /\ Unlock(actor)

\* Mutant: the nodes of other participants do not count.
SnapshotFitsAlone(sample) ==
    /\ sample.size <= GRAPH_CACHE_MAX_NODES
    /\ sample.fits
    /\ ParticipantFits(sample.gid)

SnapshotFits(sample) ==
    /\ sample.size <= GRAPH_CACHE_MAX_NODES
    /\ sample.fits
    /\ Cardinality(cached_nodes) - Cardinality(NodesOf(sample.gid))
            + sample.size <= GRAPH_CACHE_MAX_NODES
    /\ ParticipantFits(sample.gid)

SampleNodes(sample) ==
    {[participant_guid |-> sample.gid, name |-> <<sample.version, i>>] :
        i \in 1 .. sample.size}

\* Mutant: the nodes of the previous snapshot stay.
graph_cache_merge_snapshot(actor, sample) ==
    /\ SnapshotFits(sample)
    /\ cached_participants' = cached_participants \cup {sample.gid}
    /\ cached_nodes' = cached_nodes \cup SampleNodes(sample)
    /\ UNCHANGED cached_endpoints
    /\ Unlock(actor)

graph_cache_apply_snapshot(actor, sample) ==
    \/ /\ SnapshotFits(sample)
       /\ cached_participants' = cached_participants \cup {sample.gid}
       /\ cached_nodes' =
            (cached_nodes \ NodesOf(sample.gid)) \cup SampleNodes(sample)
       /\ UNCHANGED cached_endpoints
       /\ Unlock(actor)
    \/ /\ ~SnapshotFits(sample)
       /\ Refuse

\* Mutant: the search misses the last entry.
graph_cache_find_endpoint_short(guid) ==
    Min({Len(cached_endpoints) + 1} \cup
        {i \in 1 .. Len(cached_endpoints) - 1 :
            cached_endpoints[i].guid = guid})

\* The index of the entry of guid, or one past the last entry.
graph_cache_find_endpoint_locked(guid) ==
    Min({Len(cached_endpoints) + 1} \cup
        {i \in 1 .. Len(cached_endpoints) : cached_endpoints[i].guid = guid})

IsCached(guid) ==
    graph_cache_find_endpoint_locked(guid) <= Len(cached_endpoints)

\* Mutant: one entry too many.
EndpointFitsPastEnd(guid) ==
    /\ guid \notin Oversized
    /\ IsCached(guid) \/ Len(cached_endpoints) <= GRAPH_CACHE_MAX_ENDPOINTS

EndpointFits(guid) ==
    /\ guid \notin Oversized
    /\ IsCached(guid) \/ Len(cached_endpoints) # GRAPH_CACHE_MAX_ENDPOINTS

\* Mutant: the owner is left zero.
CachedAsUnowned(guid) ==
    [guid |-> guid, participant_guid |-> NULL,
     writer |-> guid \in WriterEndpoints]

CachedAs(guid) ==
    [guid |-> guid, participant_guid |-> OwnerOf[guid],
     writer |-> guid \in WriterEndpoints]

graph_cache_upsert_endpoint(actor, guid) ==
    \/ /\ EndpointFits(guid)
       /\ cached_endpoints' =
            IF IsCached(guid)
            THEN [cached_endpoints EXCEPT
                    ![graph_cache_find_endpoint_locked(guid)] = CachedAs(guid)]
            ELSE Append(cached_endpoints, CachedAs(guid))
       /\ UNCHANGED <<cached_participants, cached_nodes>>
       /\ Unlock(actor)
    \/ /\ ~EndpointFits(guid)
       /\ Refuse

graph_cache_remove_endpoint_guid(actor, guid) ==
    /\ cached_endpoints' =
            IF IsCached(guid)
            THEN RemoveAt(cached_endpoints,
                          graph_cache_find_endpoint_locked(guid))
            ELSE cached_endpoints
    /\ UNCHANGED <<cached_participants, cached_nodes>>
    /\ Unlock(actor)

\* graph_cache_signal, after the unlock.
graph_cache_signal(actor) ==
    /\ actor \in signalling
    /\ signalling' = signalling \ {actor}
    /\ graph_guard' = TRUE
    /\ UNCHANGED <<dds, batch, local, cache, unseen>>

-----------------------------------------------------------------------------
(* The listeners *)

\* Mutant: the newest samples are taken first.
dds_take_newest(r) ==
    /\ r \notin signalling
    /\ batch[r] = <<>>
    /\ queue[r] # <<>>
    /\ batch' = [batch EXCEPT ![r] = <<Last(queue[r])>>]
    /\ queue' = [queue EXCEPT ![r] = Front(@)]
    /\ UNCHANGED <<alive, appearances, snapshots, local, signalling, cache,
                   graph_guard, unseen>>

\* dds_take: up to GRAPH_DISCOVERY_BATCH samples leave the reader.
dds_take(r) ==
    LET count == IF Len(queue[r]) < GRAPH_DISCOVERY_BATCH
                 THEN Len(queue[r]) ELSE GRAPH_DISCOVERY_BATCH
    IN  /\ r \notin signalling
        /\ batch[r] = <<>>
        /\ queue[r] # <<>>
        /\ batch' = [batch EXCEPT ![r] = SubSeq(queue[r], 1, count)]
        /\ queue' = [queue EXCEPT ![r] = SubSeq(@, count + 1, Len(@))]
        /\ UNCHANGED <<alive, appearances, snapshots, local, signalling, cache,
                       graph_guard, unseen>>

\* The loop moves on to the next sample of the batch.
NextSample(r) ==
    /\ r \notin signalling
    /\ batch[r] # <<>>
    /\ batch' = [batch EXCEPT ![r] = Tail(@)]
    /\ UNCHANGED <<dds, local, graph_guard>>

\* Mutants: own samples are applied too; samples of participants that were
\* not discovered yet are dropped.
graph_data_available_any ==
    /\ NextSample("graph")
    /\ graph_cache_apply_snapshot("graph", Head(batch["graph"]))
graph_data_available_known ==
    LET sample == Head(batch["graph"])
    IN  /\ NextSample("graph")
        /\ \/ /\ sample.gid \in cached_participants \ {Self}
              /\ graph_cache_apply_snapshot("graph", sample)
           \/ /\ sample.gid \notin cached_participants \ {Self}
              /\ Refuse

\* graph_data_available: one sample.  The local publisher applied its own
\* snapshots itself.
graph_data_available ==
    LET sample == Head(batch["graph"])
    IN  /\ NextSample("graph")
        /\ \/ /\ sample.gid # Self
              /\ graph_cache_apply_snapshot("graph", sample)
           \/ /\ sample.gid = Self
              /\ Refuse

\* participant_data_available: one sample.
participant_data_available ==
    LET sample == Head(batch["participant"])
    IN  /\ NextSample("participant")
        /\ \/ /\ sample.key # Self
              /\ sample.valid
              /\ graph_cache_add_participant("participant", sample.key)
           \/ /\ sample.key # Self
              /\ ~sample.valid
              /\ ~sample.alive
              /\ graph_cache_remove_participant("participant", sample.key)
           \/ /\ sample.key = Self
              /\ Refuse

\* Mutants: own endpoints are handled too; a loss is handled only while the
\* participant is cached.
endpoint_data_available_any(r) ==
    LET sample == Head(batch[r])
    IN  /\ NextSample(r)
        /\ \/ /\ sample.valid
              /\ graph_cache_upsert_endpoint(r, sample.key)
           \/ /\ ~sample.valid
              /\ graph_cache_remove_endpoint_guid(r, sample.key)
endpoint_data_available_known(r) ==
    LET sample == Head(batch[r])
    IN  /\ NextSample(r)
        /\ \/ /\ sample.valid
              /\ graph_cache_upsert_endpoint(r, sample.key)
           \/ /\ ~sample.valid
              /\ IF OwnerOf[sample.key] \in cached_participants
                 THEN graph_cache_remove_endpoint_guid(r, sample.key)
                 ELSE Refuse

\* endpoint_data_available, in the publication and the subscription listener:
\* one sample.
endpoint_data_available(r) ==
    LET sample == Head(batch[r])
    IN  /\ NextSample(r)
        /\ \/ /\ OwnerOf[sample.key] # Self
              /\ sample.valid
              /\ graph_cache_upsert_endpoint(r, sample.key)
           \/ /\ OwnerOf[sample.key] # Self
              /\ ~sample.valid
              /\ ~sample.alive
              /\ graph_cache_remove_endpoint_guid(r, sample.key)
           \/ /\ OwnerOf[sample.key] = Self
              /\ Refuse

-----------------------------------------------------------------------------
(* The local calls: what LocalGraph's operations do to the cache *)

LocalStep(pc) ==
    /\ local.pc = pc
    /\ "local" \notin signalling

\* graph_publish_locked: dds_write, then the snapshot goes into the cache.
LocalWrite(snapshot) ==
    /\ LocalStep("idle")
    /\ Write(Self, snapshot)
    /\ local' = [local EXCEPT !.pc = "apply"]
    /\ UNCHANGED <<alive, appearances, batch, signalling, cache, graph_guard,
                   unseen>>

LocalApply ==
    /\ LocalStep("apply")
    /\ graph_cache_apply_snapshot("local", LastSample(Self))
    /\ \/ local' = [local EXCEPT !.pc = "notify"] \* a node came or went
       \/ local' = LocalIdle                      \* any other publication
    /\ UNCHANGED <<dds, batch, graph_guard>>

\* rmw_create_publisher / rmw_create_subscription: the DDS entity, then its
\* cache entry; a refusal deletes the entity again.
LocalCreate(e) ==
    /\ LocalStep("idle")
    /\ OwnerOf[e] = Self
    /\ ~alive[e]
    /\ appearances[e] < MaxAppearances[e]
    /\ alive' = [alive EXCEPT ![e] = TRUE]
    /\ appearances' = [appearances EXCEPT ![e] = @ + 1]
    /\ queue' = Appeared(queue, e)
    /\ local' = [pc |-> "upsert", endpoint |-> e]
    /\ UNCHANGED <<snapshots, batch, signalling, cache, graph_guard, unseen>>

LocalUpsert ==
    /\ LocalStep("upsert")
    /\ graph_cache_upsert_endpoint("local", local.endpoint)
    /\ local' = [local EXCEPT !.pc =
                    IF EndpointFits(local.endpoint) THEN "notify" ELSE "undo"]
    /\ UNCHANGED <<dds, batch, graph_guard>>

\* rmw_destroy_publisher / rmw_destroy_subscription: the cache entry, then
\* the DDS entity.
LocalRemove(e) ==
    /\ LocalStep("idle")
    /\ OwnerOf[e] = Self
    /\ alive[e]
    /\ graph_cache_remove_endpoint_guid("local", e)
    /\ local' = [pc |-> "delete", endpoint |-> e]
    /\ UNCHANGED <<dds, batch, graph_guard>>

\* dds_delete of the entity, by a destroy or by a create that was refused.
LocalDelete ==
    /\ LocalStep("delete") \/ LocalStep("undo")
    /\ alive' = [alive EXCEPT ![local.endpoint] = FALSE]
    /\ queue' = Lost(queue, {local.endpoint})
    /\ local' = IF local.pc = "delete" THEN [local EXCEPT !.pc = "notify"]
                                       ELSE LocalIdle
    /\ UNCHANGED <<appearances, snapshots, batch, signalling, cache,
                   graph_guard, unseen>>

\* The create and destroy functions end with a trigger of their own.
LocalNotify ==
    /\ LocalStep("notify")
    /\ graph_guard' = TRUE
    /\ local' = LocalIdle
    /\ UNCHANGED <<dds, batch, signalling, cache, unseen>>

\* rmw_wait takes the triggered guard condition; the application then queries.
TakeGraphGuard ==
    /\ graph_guard
    /\ graph_guard' = FALSE
    /\ unseen' = FALSE
    /\ UNCHANGED <<dds, batch, local, signalling, cache>>

-----------------------------------------------------------------------------
Environment ==
    \/ \E p \in Remotes : ParticipantAppears(p) \/ ParticipantIsLost(p)
    \/ \E p \in Remotes, s \in Snapshots : RemoteWrite(p, s)
    \/ \E e \in Endpoints : EndpointAppears(e) \/ EndpointIsLost(e)

\* The listener of reader r handles the next sample, under graph_cache_lock.
Handle(r) ==
    \/ r = "graph" /\ graph_data_available
    \/ r = "participant" /\ participant_data_available
    \/ r \in EndpointReaders /\ endpoint_data_available(r)

Listener(r) == dds_take(r) \/ Handle(r)

LocalCall ==
    \/ \E s \in Snapshots : s.fits /\ LocalWrite(s)
    \/ \E e \in Endpoints : LocalCreate(e) \/ LocalRemove(e)

LocalContinue == LocalApply \/ LocalUpsert \/ LocalDelete \/ LocalNotify

Next ==
    \/ Environment
    \/ \E r \in Readers : Listener(r)
    \/ LocalCall \/ LocalContinue
    \/ \E actor \in Actors : graph_cache_signal(actor)
    \/ TakeGraphGuard

Spec == Init /\ [][Next]_vars

\* DDS keeps calling a listener while its reader holds samples, and a listener
\* or call in progress runs on.  graph_cache_lock is never held across a
\* blocking call, so each critical section gets its turn.
FairSpec ==
    /\ Spec
    /\ \A r \in Readers : WF_vars(Listener(r))
    /\ WF_vars(LocalContinue)
    /\ \A actor \in Actors : WF_vars(graph_cache_signal(actor))

-----------------------------------------------------------------------------
(* Properties *)

TypeOK ==
    /\ alive \in [Keys -> BOOLEAN]
    /\ appearances \in [Keys -> Nat]
    /\ snapshots \in [Participants -> Seq(Snapshots)]
    /\ \A r \in Readers :
        LET Sample == IF r = "graph" THEN GraphSample ELSE BuiltinSample
        IN  queue[r] \in Seq(Sample) /\ batch[r] \in Seq(Sample)
    /\ local \in [pc : LocalPhases, endpoint : Endpoints \cup {NULL}]
    /\ signalling \subseteq Actors
    /\ cached_participants \subseteq Participants
    /\ cached_nodes \subseteq CachedNode
    /\ cached_endpoints \in Seq(CachedEndpoint)
    /\ graph_guard \in BOOLEAN
    /\ unseen \in BOOLEAN

\* The three fixed-size arrays are never written past their end, although
\* graph_cache_apply_snapshot fills two of them after one check each, and
\* listeners and local calls fill them in any order.
WithinLimits ==
    /\ Cardinality(cached_participants) <= GRAPH_CACHE_MAX_PARTICIPANTS
    /\ Cardinality(cached_nodes) <= GRAPH_CACHE_MAX_NODES
    /\ Len(cached_endpoints) <= GRAPH_CACHE_MAX_ENDPOINTS

\* A node is never cached without its participant, whichever of the graph and
\* participant listeners hears of it first or last: a later loss of the
\* participant therefore finds the node.
NodesHaveParticipant ==
    \A n \in cached_nodes : n.participant_guid \in cached_participants

\* An endpoint has one entry however often it is announced and whoever
\* announces it, and removal by index takes no other endpoint's entry along: a
\* second entry would survive the loss of the endpoint.
OneEntryPerEndpoint ==
    \A i, j \in 1 .. Len(cached_endpoints) :
        cached_endpoints[i].guid = cached_endpoints[j].guid => i = j

\* The v-th snapshot of participant p, as a sample.
SampleOf(p, v) ==
    [gid |-> p, version |-> v,
     size |-> snapshots[p][v].size, fits |-> snapshots[p][v].fits]

\* docs/graph-inbound.md: "data is never truncated".  The cached nodes of a
\* participant are one snapshot it really wrote, whole: never a mixture of two
\* and never a part of one that did not fit.
WholeSnapshots ==
    \A p \in Participants :
        NodesOf(p) # {} =>
            \E v \in 1 .. Len(snapshots[p]) :
                /\ snapshots[p][v].fits
                /\ NodesOf(p) = SampleNodes(SampleOf(p, v))

\* A participant's cached nodes never go back to an older snapshot, although
\* samples wait in queues and batches while newer ones are written.
SnapshotsAdvance ==
    [][\A n \in cached_nodes, m \in cached_nodes' :
            n.participant_guid = m.participant_guid =>
                n.name[1] <= m.name[1]]_vars

LocalPart == <<Self \in cached_participants, NodesOf(Self),
               Compact(cached_endpoints,
                       {e \in CachedEndpoint : e.participant_guid = Self})>>

\* The listeners also receive this participant's own samples, late; none of
\* them changes what the local calls cached for it, and nothing a remote
\* participant does evicts it.
ListenersLeaveLocalPartAlone ==
    [][LocalPart' # LocalPart => local' # local]_vars

\* No lost wake-up: a change the application has not looked at since it last
\* took the graph guard condition has triggered it again, or the thread that
\* made the change is about to.
ChangeIsSignalled == unseen => graph_guard \/ signalling # {}

\* The cache holds participant p with the nodes of its last snapshot.
IsCachedWithLastSnapshot(p) ==
    /\ p \in cached_participants
    /\ snapshots[p] # <<>>
    /\ NodesOf(p) = SampleNodes(LastSample(p))

\* A remote participant that stays alive ends up cached, with the nodes of its
\* last snapshot if that one fits, when the limits leave room.
LiveParticipantsAreCached ==
    \A p \in Remotes :
        <>[](alive[p] /\ snapshots[p] # <<>> /\ Last(snapshots[p]).fits) =>
            <>[]IsCachedWithLastSnapshot(p)

\* docs/graph-inbound.md: the built-in samples supply endpoint liveness.  An
\* endpoint that is gone for good leaves the cache for good.
DeadEndpointsAreForgotten ==
    \A e \in Endpoints :
        <>[]~alive[e] => <>[]~IsCached(e)

\* docs/graph-inbound.md: "Participant disappearance removes all nodes and
\* endpoints owned by that participant."
LostParticipantsAreForgotten ==
    \A p \in Remotes :
        <>[]~alive[p] => <>[](p \notin cached_participants /\ NodesOf(p) = {})
=============================================================================
