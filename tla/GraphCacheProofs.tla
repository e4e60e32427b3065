-------------------------- MODULE GraphCacheProofs --------------------------
(***************************************************************************)
(* What is proved of GraphCache for every set of participants and          *)
(* endpoints, every limit, every batch size and whether or not DDS         *)
(* coalesces losses.                                                       *)
(*                                                                         *)
(* The argument has three layers.  TypeInv says which samples a reader can *)
(* hold.  NextOnCache then shows that every step leaves the cache alone or *)
(* is one of the five operations on it, by a listener for somebody else's  *)
(* entries or by the local call for its own; CacheInv is preserved by each *)
(* operation.  OrderInv relates the snapshots that wait in the graph       *)
(* reader and in its listener's batch to those that are cached.            *)
(***************************************************************************)
EXTENDS GraphCache, SequenceLemmas

-----------------------------------------------------------------------------
(* Samples *)

\* The samples of one reader.
ReaderSample(r) ==
    IF r = "graph" THEN GraphSample
    ELSE {s \in BuiltinSample : ReaderOf(s.key) = r}

\* q holds the samples of every reader.
HoldsSamples(q) ==
    /\ q = [r \in Readers |-> q[r]]
    /\ \A r \in Readers : q[r] \in Seq(ReaderSample(r))

\* Built-in samples come from the three built-in readers.
LEMMA ReaderOfKey ==
    ASSUME NEW k \in Keys
    PROVE  ReaderOf(k) \in Readers \ {"graph"}
BY DEF ReaderOf, Readers, EndpointReaders

\* Changing what one reader holds.
LEMMA OneReaderChanges ==
    ASSUME NEW q, HoldsSamples(q), NEW r \in Readers,
           NEW x \in Seq(ReaderSample(r))
    PROVE  HoldsSamples([q EXCEPT ![r] = x])
BY DEF HoldsSamples

\* A new sample of key is a sample of its reader.
LEMMA NewSample ==
    ASSUME NEW k \in Keys, NEW valid \in BOOLEAN, NEW live \in BOOLEAN
    PROVE  [key |-> k, valid |-> valid, alive |-> live]
                \in ReaderSample(ReaderOf(k))
<1>1. ReaderOf(k) # "graph"
  BY ReaderOfKey
<1>2. [key |-> k, valid |-> valid, alive |-> live] \in BuiltinSample
  BY DEF BuiltinSample
<1> QED BY <1>1, <1>2 DEF ReaderSample

\* The news of a key is a sample of its reader.
LEMMA AppearedType ==
    ASSUME NEW q, HoldsSamples(q), NEW k \in Keys
    PROVE  HoldsSamples(Appeared(q, k))
<1>1. PICK r \in Readers : r = ReaderOf(k)
  BY ReaderOfKey
<1>2. PICK old \in Seq(ReaderSample(r)) : old = q[r]
  BY DEF HoldsSamples
<1>3. Without(old, k) \in Seq(ReaderSample(r))
  BY CompactSelects DEF Without
<1>4. [key |-> k, valid |-> TRUE, alive |-> TRUE] \in ReaderSample(r)
  BY <1>1, NewSample
<1>5. PICK x \in Seq(ReaderSample(r)) :
        x = Append(Without(old, k),
                   [key |-> k, valid |-> TRUE, alive |-> TRUE])
  <2>1. Append(Without(old, k), [key |-> k, valid |-> TRUE, alive |-> TRUE])
            \in Seq(ReaderSample(r))
    BY <1>3, <1>4
  <2> QED BY <2>1
<1>6. Appeared(q, k) = [q EXCEPT ![r] = x]
  BY <1>1, <1>2, <1>5 DEF Appeared
<1>7. HoldsSamples([q EXCEPT ![r] = x])
  BY OneReaderChanges
<1> QED BY <1>6, <1>7

\* A sequence of the elements of a finite set.
LEMMA SetToSeqType ==
    ASSUME NEW S, IsFiniteSet(S)
    PROVE  SetToSeq(S) \in Seq(S)
<1>1. PICK n \in Nat : n = Cardinality(S)
  BY FS_CardinalityType
<1>2. \E f \in [1 .. n -> S] : IsInjective(f)
  <2>1. ExistsBijection(1 .. n, S)
    BY <1>1, FS_CardinalityType
  <2>2. PICK f \in Bijection(1 .. n, S) : TRUE
    BY <2>1 DEF ExistsBijection
  <2>3. f \in [1 .. n -> S] /\ IsInjective(f)
    BY <2>2 DEF Bijection, Injection, IsInjective
  <2> QED BY <2>3
<1>3. SetToSeq(S) \in [1 .. n -> S]
  BY <1>1, <1>2 DEF SetToSeq
<1> QED BY <1>3

\* The image of a finite set of keys.
LEMMA LossesAreFinite ==
    ASSUME NEW told, IsFiniteSet(told)
    PROVE  IsFiniteSet({[key |-> k, valid |-> FALSE, alive |-> FALSE] :
                            k \in told})
<1> DEFINE f == [k \in told |-> [key |-> k, valid |-> FALSE, alive |-> FALSE]]
           T == {[key |-> k, valid |-> FALSE, alive |-> FALSE] : k \in told}
<1>1. f \in Surjection(told, T)
  BY DEF Surjection
<1> HIDE DEF f, T
<1>2. IsFiniteSet(T)
  BY <1>1, FS_Surjection
<1> QED BY <1>2 DEF T

\* The loss of finitely many keys shows in samples of their readers.
LEMMA LostType ==
    ASSUME NEW q, HoldsSamples(q), NEW keys \in SUBSET Keys, IsFiniteSet(keys)
    PROVE  HoldsSamples(Lost(q, keys))
<1>1. ASSUME NEW r \in Readers
      PROVE  Lost(q, keys)[r] \in Seq(ReaderSample(r))
  <2> DEFINE waiting(k) == \E i \in 1 .. Len(q[r]) : q[r][i].key = k
             told == {k \in keys : ReaderOf(k) = r
                                        /\ ~(CoalesceLoss /\ waiting(k))}
             marked == [i \in 1 .. Len(q[r]) |->
                            IF q[r][i].key \in keys
                            THEN [q[r][i] EXCEPT !.alive = FALSE] ELSE q[r][i]]
             losses == {[key |-> k, valid |-> FALSE, alive |-> FALSE] :
                            k \in told}
  <2>1. Lost(q, keys)[r] = IF r = "graph" THEN q[r]
                           ELSE marked \o SetToSeq(losses)
    BY DEF Lost
  <2>2. q[r] \in Seq(ReaderSample(r))
    BY DEF HoldsSamples
  <2>3. CASE r # "graph"
    <3>1. ASSUME NEW s \in ReaderSample(r)
          PROVE  [s EXCEPT !.alive = FALSE] \in ReaderSample(r)
      BY <2>3 DEF ReaderSample, BuiltinSample
    <3>2. marked \in Seq(ReaderSample(r))
      BY <2>2, <3>1
    <3>3. told \in SUBSET keys
      OBVIOUS
    <3> HIDE DEF told
    <3>4. IsFiniteSet(told)
      BY <3>3, FS_Subset
    <3>5. IsFiniteSet(losses)
      BY <3>4, LossesAreFinite
    <3>6. losses \subseteq ReaderSample(r)
      <4>1. ASSUME NEW k \in told
            PROVE  [key |-> k, valid |-> FALSE, alive |-> FALSE]
                        \in ReaderSample(r)
        <5>1. k \in Keys /\ ReaderOf(k) = r
          BY DEF told
        <5> QED BY <5>1, NewSample
      <4> QED BY <4>1
    <3> HIDE DEF losses
    <3>7. SetToSeq(losses) \in Seq(losses)
      BY <3>5, SetToSeqType
    <3>8. SetToSeq(losses) \in Seq(ReaderSample(r))
      BY <3>6, <3>7
    <3> HIDE DEF marked
    <3>9. marked \o SetToSeq(losses) \in Seq(ReaderSample(r))
      BY <3>2, <3>8
    <3> QED BY <2>1, <2>3, <3>9
  <2> QED BY <2>1, <2>2, <2>3
<1>2. Lost(q, keys) = [r \in Readers |-> Lost(q, keys)[r]]
  BY DEF Lost
<1> QED BY <1>1, <1>2 DEF HoldsSamples

-----------------------------------------------------------------------------
(* TypeInv *)

\* The local call knows the endpoint or the snapshot it works on.
LocalKnows ==
    /\ local.pc \in {"upsert", "undo", "delete"} =>
            local.endpoint \in Endpoints /\ OwnerOf[local.endpoint] = Self
    /\ local.pc = "apply" => snapshots[Self] # <<>>

DdsType ==
    /\ alive \in [Keys -> BOOLEAN]
    /\ appearances \in [Keys -> Nat]
    /\ snapshots \in [Participants -> Seq(Snapshots)]
    /\ HoldsSamples(queue)
    /\ HoldsSamples(batch)
    /\ IsFiniteSet({e \in Endpoints : alive[e]})

LocalType ==
    /\ local \in [pc : LocalPhases, endpoint : Endpoints \cup {NULL}]
    /\ LocalKnows

CacheType ==
    /\ cached_participants \subseteq Participants
    /\ cached_nodes \subseteq CachedNode
    /\ cached_endpoints \in Seq(CachedEndpoint)

SignalType ==
    /\ signalling \subseteq Actors
    /\ graph_guard \in BOOLEAN
    /\ unseen \in BOOLEAN

TypeInv == DdsType /\ LocalType /\ CacheType /\ SignalType

\* TypeInv says more than TypeOK.
LEMMA TypeInvIsStronger == TypeInv => TypeOK
<1> SUFFICES ASSUME TypeInv PROVE TypeOK
  OBVIOUS
<1>1. ASSUME NEW r \in Readers
      PROVE  LET Sample == IF r = "graph" THEN GraphSample ELSE BuiltinSample
             IN  queue[r] \in Seq(Sample) /\ batch[r] \in Seq(Sample)
  <2>1. queue[r] \in Seq(ReaderSample(r)) /\ batch[r] \in Seq(ReaderSample(r))
    BY DEF TypeInv, DdsType, HoldsSamples
  <2>2. CASE r = "graph"
    BY <2>1, <2>2 DEF ReaderSample
  <2>3. CASE r # "graph"
    <3>1. ReaderSample(r) \subseteq BuiltinSample
      BY <2>3 DEF ReaderSample
    <3>2. queue[r] \in Seq(BuiltinSample) /\ batch[r] \in Seq(BuiltinSample)
      BY <2>1, <3>1
    <3> QED BY <2>3, <3>2
  <2> QED BY <2>2, <2>3
<1> QED BY <1>1 DEF TypeOK, TypeInv, DdsType, LocalType, CacheType, SignalType

\* A participant's last snapshot is a sample of the graph reader.
LEMMA LastSampleType ==
    ASSUME snapshots \in [Participants -> Seq(Snapshots)],
           NEW p \in Participants, snapshots[p] # <<>>
    PROVE  /\ LastSample(p) \in GraphSample
           /\ LastSample(p).gid = p
           /\ LastSample(p).version = Len(snapshots[p])
<1>1. /\ Len(snapshots[p]) \in Nat
      /\ Last(snapshots[p]) \in Snapshots
  BY DEF Last
<1>2. Last(snapshots[p]).size \in Nat /\ Last(snapshots[p]).fits \in BOOLEAN
  BY <1>1, BoundsAreNaturals
<1> QED BY <1>1, <1>2 DEF LastSample, GraphSample

\* One more sample in the graph reader.
LEMMA GraphReaderGrows ==
    ASSUME NEW q, HoldsSamples(q), NEW s \in GraphSample
    PROVE  HoldsSamples([q EXCEPT !["graph"] = Append(@, s)])
<1>1. "graph" \in Readers /\ ReaderSample("graph") = GraphSample
  BY DEF Readers, ReaderSample
<1>2. q["graph"] \in Seq(GraphSample)
  BY <1>1 DEF HoldsSamples
<1>3. Append(q["graph"], s) \in Seq(GraphSample)
  BY <1>2
<1>4. PICK x \in Seq(GraphSample) : x = Append(q["graph"], s)
  BY <1>3
<1>5. HoldsSamples([q EXCEPT !["graph"] = x])
  BY <1>1, OneReaderChanges
<1> QED BY <1>4, <1>5

\* A matched reader may get the last sample again.
LEMMA RedeliveredType ==
    ASSUME snapshots \in [Participants -> Seq(Snapshots)],
           NEW q, HoldsSamples(q), NEW p \in Participants
    PROVE  HoldsSamples(Redelivered(q, p))
<1>1. CASE snapshots[p] = <<>>
  BY <1>1 DEF Redelivered
<1>2. CASE snapshots[p] # <<>>
  <2>1. PICK s \in GraphSample : s = LastSample(p)
    BY <1>2, LastSampleType
  <2> QED BY <1>2, <2>1, GraphReaderGrows DEF Redelivered
<1> QED BY <1>1, <1>2

\* Writing a snapshot.
LEMMA WriteType ==
    ASSUME snapshots \in [Participants -> Seq(Snapshots)],
           HoldsSamples(queue), NEW p \in Participants, NEW s \in Snapshots,
           Write(p, s)
    PROVE  /\ snapshots' \in [Participants -> Seq(Snapshots)]
           /\ HoldsSamples(queue)'
           /\ snapshots'[p] # <<>>
<1>1. snapshots[p] \in Seq(Snapshots) /\ Len(snapshots[p]) \in Nat
  OBVIOUS
<1>2. /\ Append(snapshots[p], s) \in Seq(Snapshots)
      /\ Append(snapshots[p], s) # <<>>
  <2>1. PICK old \in Seq(Snapshots) : old = snapshots[p]
    BY <1>1
  <2>2. Append(old, s) \in Seq(Snapshots) /\ Append(old, s) # <<>>
    BY AppendListing
  <2> QED BY <2>1, <2>2
<1>3. snapshots' = [snapshots EXCEPT ![p] = Append(snapshots[p], s)]
  BY DEF Write
<1>4. /\ snapshots' \in [Participants -> Seq(Snapshots)]
      /\ snapshots'[p] # <<>>
  BY <1>2, <1>3
<1>5. PICK sample \in GraphSample :
        sample = [gid |-> p, version |-> Len(snapshots[p]) + 1,
                  size |-> s.size, fits |-> s.fits]
  <2>1. s.size \in Nat /\ s.fits \in BOOLEAN
    BY BoundsAreNaturals
  <2>2. [gid |-> p, version |-> Len(snapshots[p]) + 1,
         size |-> s.size, fits |-> s.fits] \in GraphSample
    BY <1>1, <2>1 DEF GraphSample
  <2> QED BY <2>2
<1>6. queue' = [queue EXCEPT !["graph"] = Append(@, sample)]
  BY <1>5 DEF Write
<1>7. HoldsSamples(queue')
  BY <1>6, GraphReaderGrows
<1> QED BY <1>4, <1>7 DEF HoldsSamples

\* The initial state.
LEMMA InitType == Init => TypeInv
<1> SUFFICES ASSUME Init PROVE TypeInv
  OBVIOUS
<1>1. Self \in Participants /\ Self \in Keys /\ ReaderOf(Self) = "participant"
  BY DEF Participants, Keys, ReaderOf
<1>2. HoldsSamples(queue)
  <2>1. PICK s : s = [key |-> Self, valid |-> TRUE, alive |-> TRUE]
    OBVIOUS
  <2>2. s \in ReaderSample("participant")
    BY <1>1, <2>1, NewSample
  <2>3. queue = [r \in Readers |-> IF r = "participant" THEN <<s>> ELSE <<>>]
    BY <2>1 DEF Init
  <2> QED BY <2>2, <2>3 DEF HoldsSamples
<1>3. HoldsSamples(batch)
  BY DEF Init, HoldsSamples
<1>4. IsFiniteSet({e \in Endpoints : alive[e]})
  <2>1. \A e \in Endpoints : ~alive[e]
    BY <1>1, KeysAreDistinct DEF Init, Keys
  <2>2. {e \in Endpoints : alive[e]} = {}
    BY <2>1
  <2> QED BY <2>2, FS_EmptySet
<1>5. DdsType
  BY <1>2, <1>3, <1>4 DEF DdsType, Init
<1>6. LocalType
  BY DEF Init, LocalType, LocalKnows, LocalIdle, LocalPhases
<1>7. CacheType /\ SignalType
  BY <1>1 DEF Init, CacheType, SignalType
<1> QED BY <1>5, <1>6, <1>7 DEF TypeInv

-----------------------------------------------------------------------------
(* Which steps touch the cache *)

\* The listener of reader r works on entries of other participants.
ListenerOperation(r) ==
    /\ UNCHANGED <<local, graph_guard>>
    /\ \/ \E p \in Remotes : \/ graph_cache_add_participant(r, p)
                             \/ graph_cache_remove_participant(r, p)
       \/ \E s \in GraphSample :
            /\ batch["graph"] # <<>>
            /\ s = Head(batch["graph"])
            /\ s.gid \in Remotes
            /\ graph_cache_apply_snapshot(r, s)
       \/ \E e \in Endpoints :
            /\ OwnerOf[e] # Self
            /\ \/ graph_cache_upsert_endpoint(r, e)
               \/ graph_cache_remove_endpoint_guid(r, e)

\* The local call works on its own entries.
LocalOperation ==
    /\ local' # local
    /\ UNCHANGED graph_guard
    /\ \/ \E s \in GraphSample :
            /\ snapshots[Self] # <<>>
            /\ s = LastSample(Self)
            /\ s.gid = Self
            /\ graph_cache_apply_snapshot("local", s)
       \/ \E e \in Endpoints :
            /\ OwnerOf[e] = Self
            /\ \/ graph_cache_upsert_endpoint("local", e)
               \/ graph_cache_remove_endpoint_guid("local", e)

\* A step that only moves signals along.
QuietStep ==
    /\ UNCHANGED cache
    /\ \/ UNCHANGED <<signalling, graph_guard, unseen>>
       \/ \E actor \in Actors : /\ signalling' = signalling \ {actor}
                                /\ graph_guard' = TRUE
                                /\ UNCHANGED unseen
       \/ graph_guard' = TRUE /\ UNCHANGED <<signalling, unseen>>
       \/ graph_guard' = FALSE /\ unseen' = FALSE /\ UNCHANGED signalling

\* The oldest sample of a batch.
LEMMA HeadSample ==
    ASSUME HoldsSamples(batch), NEW r \in Readers, batch[r] # <<>>
    PROVE  Head(batch[r]) \in ReaderSample(r)
<1>1. batch[r] \in Seq(ReaderSample(r))
  BY DEF HoldsSamples
<1> QED BY <1>1

\* The participant reader holds participants, the endpoint readers endpoints.
LEMMA SampleKeys ==
    ASSUME NEW s
    PROVE  /\ s \in ReaderSample("participant") => s.key \in Participants
           /\ \A r \in EndpointReaders :
                s \in ReaderSample(r) => s.key \in Endpoints
<1>1. ASSUME s \in ReaderSample("participant")
      PROVE  s.key \in Participants
  <2>1. s.key \in Keys /\ ReaderOf(s.key) = "participant"
    BY <1>1 DEF ReaderSample, BuiltinSample
  <2> QED BY <2>1 DEF ReaderOf
<1>2. ASSUME NEW r \in EndpointReaders, s \in ReaderSample(r)
      PROVE  s.key \in Endpoints
  <2>1. s.key \in Keys /\ ReaderOf(s.key) = r
    BY <1>2 DEF ReaderSample, BuiltinSample, EndpointReaders
  <2>2. s.key \notin Participants
    BY <2>1 DEF ReaderOf, EndpointReaders
  <2> QED BY <2>1, <2>2 DEF Keys
<1> QED BY <1>1, <1>2

\* A listener's turn.
LEMMA HandleOnCache ==
    ASSUME TypeInv, NEW r \in Readers, Handle(r)
    PROVE  QuietStep \/ ListenerOperation(r)
<1>1. HoldsSamples(batch)
  BY DEF TypeInv, DdsType
<1>2. CASE r = "graph" /\ graph_data_available
  <2>1. /\ batch["graph"] # <<>> /\ UNCHANGED <<local, graph_guard>>
    BY <1>2 DEF graph_data_available, NextSample
  <2>2. PICK s \in GraphSample : s = Head(batch["graph"])
    BY <1>1, <1>2, <2>1, HeadSample DEF ReaderSample
  <2>3. CASE s.gid # Self
    <3>1. s.gid \in Remotes
      BY <2>3 DEF GraphSample, Participants
    <3>2. graph_cache_apply_snapshot("graph", s)
      BY <1>2, <2>2, <2>3 DEF graph_data_available
    <3> QED BY <1>2, <2>1, <2>2, <3>1, <3>2 DEF ListenerOperation
  <2>4. CASE s.gid = Self
    BY <1>2, <2>1, <2>2, <2>4 DEF graph_data_available, Refuse, QuietStep
  <2> QED BY <2>3, <2>4
<1>3. CASE r = "participant" /\ participant_data_available
  <2>1. /\ batch["participant"] # <<>> /\ UNCHANGED <<local, graph_guard>>
    BY <1>3 DEF participant_data_available, NextSample
  <2>2. PICK p \in Participants : p = Head(batch["participant"]).key
    BY <1>1, <1>3, <2>1, HeadSample, SampleKeys
  <2>3. CASE p # Self
    <3>1. p \in Remotes
      BY <2>3 DEF Participants
    <3>2. \/ graph_cache_add_participant("participant", p)
          \/ graph_cache_remove_participant("participant", p)
      BY <1>3, <2>2, <2>3 DEF participant_data_available
    <3> QED BY <1>3, <2>1, <3>1, <3>2 DEF ListenerOperation
  <2>4. CASE p = Self
    BY <1>3, <2>1, <2>2, <2>4 DEF participant_data_available, Refuse, QuietStep
  <2> QED BY <2>3, <2>4
<1>4. CASE r \in EndpointReaders /\ endpoint_data_available(r)
  <2>1. /\ batch[r] # <<>> /\ UNCHANGED <<local, graph_guard>>
    BY <1>4 DEF endpoint_data_available, NextSample
  <2>2. PICK e \in Endpoints : e = Head(batch[r]).key
    BY <1>1, <1>4, <2>1, HeadSample, SampleKeys
  <2>3. CASE OwnerOf[e] # Self
    <3>1. \/ graph_cache_upsert_endpoint(r, e)
          \/ graph_cache_remove_endpoint_guid(r, e)
      BY <1>4, <2>2, <2>3 DEF endpoint_data_available
    <3> QED BY <2>1, <2>3, <3>1 DEF ListenerOperation
  <2>4. CASE OwnerOf[e] = Self
    BY <1>4, <2>1, <2>2, <2>4 DEF endpoint_data_available, Refuse, QuietStep
  <2> QED BY <2>3, <2>4
<1> QED BY <1>2, <1>3, <1>4 DEF Handle

\* A step of the local call.
LEMMA LocalOnCache ==
    ASSUME TypeInv, LocalCall \/ LocalContinue
    PROVE  QuietStep \/ LocalOperation
<1>1. local \in [pc : LocalPhases, endpoint : Endpoints \cup {NULL}]
  BY DEF TypeInv, LocalType
<1>2. CASE LocalApply
  <2>1. local.pc = "apply"
    BY <1>2 DEF LocalApply, LocalStep
  <2>2. local'.pc # local.pc
    BY <1>1, <1>2, <2>1 DEF LocalApply, LocalIdle
  <2>3. snapshots[Self] # <<>> /\ Self \in Participants
    BY <2>1 DEF TypeInv, LocalType, LocalKnows, Participants
  <2>4. PICK s \in GraphSample : s = LastSample(Self) /\ s.gid = Self
    BY <2>3, LastSampleType DEF TypeInv, DdsType
  <2>5. graph_cache_apply_snapshot("local", s) /\ UNCHANGED graph_guard
    BY <1>2, <2>4 DEF LocalApply
  <2> QED BY <2>2, <2>3, <2>4, <2>5 DEF LocalOperation
<1>3. CASE LocalUpsert
  <2>1. local.pc = "upsert"
    BY <1>3 DEF LocalUpsert, LocalStep
  <2>2. local'.pc # local.pc
    BY <1>1, <1>3, <2>1 DEF LocalUpsert
  <2>3. PICK e \in Endpoints : e = local.endpoint /\ OwnerOf[e] = Self
    BY <2>1 DEF TypeInv, LocalType, LocalKnows
  <2>4. graph_cache_upsert_endpoint("local", e) /\ UNCHANGED graph_guard
    BY <1>3, <2>3 DEF LocalUpsert
  <2> QED BY <2>2, <2>3, <2>4 DEF LocalOperation
<1>4. ASSUME NEW e \in Endpoints, LocalRemove(e)
      PROVE  LocalOperation
  <2>1. local'.pc # local.pc
    BY <1>4 DEF LocalRemove, LocalStep
  <2>2. /\ OwnerOf[e] = Self /\ UNCHANGED graph_guard
        /\ graph_cache_remove_endpoint_guid("local", e)
    BY <1>4 DEF LocalRemove
  <2> QED BY <2>1, <2>2 DEF LocalOperation
<1>5. CASE LocalDelete \/ LocalNotify
  BY <1>5 DEF LocalDelete, LocalNotify, QuietStep
<1>6. CASE \/ \E s \in Snapshots : s.fits /\ LocalWrite(s)
           \/ \E e \in Endpoints : LocalCreate(e)
  BY <1>6 DEF LocalWrite, LocalCreate, QuietStep
<1> QED BY <1>2, <1>3, <1>4, <1>5, <1>6 DEF LocalCall, LocalContinue

\* Every step leaves the cache alone, or a listener works on the entries of
\* others, or the local call works on its own and moves on.
LEMMA NextOnCache ==
    ASSUME TypeInv, [Next]_vars
    PROVE  \/ QuietStep
           \/ \E r \in Readers : ListenerOperation(r)
           \/ LocalOperation
<1>1. CASE Environment
  BY <1>1 DEF Environment, ParticipantAppears, ParticipantIsLost, RemoteWrite,
              EndpointAppears, EndpointIsLost, QuietStep
<1>2. ASSUME NEW r \in Readers, Listener(r)
      PROVE  QuietStep \/ ListenerOperation(r)
  <2>1. CASE dds_take(r)
    BY <2>1 DEF dds_take, QuietStep
  <2> QED BY <1>2, <2>1, HandleOnCache DEF Listener
<1>3. CASE \E actor \in Actors : graph_cache_signal(actor)
  BY <1>3 DEF graph_cache_signal, QuietStep
<1>4. CASE TakeGraphGuard
  BY <1>4 DEF TakeGraphGuard, QuietStep
<1>5. CASE UNCHANGED vars
  BY <1>5 DEF vars, QuietStep
<1> QED BY <1>1, <1>2, <1>3, <1>4, <1>5, LocalOnCache DEF Next

-----------------------------------------------------------------------------
(* The operations keep the cache's type *)

\* graph_cache_find_endpoint_locked finds the first entry of guid, or tells
\* that there is none.
LEMMA FindEndpoint ==
    ASSUME cached_endpoints \in Seq(CachedEndpoint), NEW guid
    PROVE  LET i == graph_cache_find_endpoint_locked(guid)
           IN  /\ i \in 1 .. Len(cached_endpoints) + 1
               /\ IsCached(guid) => /\ i \in 1 .. Len(cached_endpoints)
                                    /\ cached_endpoints[i].guid = guid
               /\ ~IsCached(guid) =>
                    \A j \in 1 .. Len(cached_endpoints) :
                        cached_endpoints[j].guid # guid
<1> DEFINE n == Len(cached_endpoints)
           M == {j \in 1 .. n : cached_endpoints[j].guid = guid}
           T == {n + 1} \cup M
           i == graph_cache_find_endpoint_locked(guid)
<1>1. n \in Nat
  OBVIOUS
<1>2. i = Min(T)
  BY DEF graph_cache_find_endpoint_locked
<1>3. T \in SUBSET Nat /\ T # {}
  BY <1>1
<1>4. /\ \A j \in M : j \in 1 .. n /\ cached_endpoints[j].guid = guid
      /\ \A j \in 1 .. n : cached_endpoints[j].guid = guid => j \in M
  OBVIOUS
<1>5. i \in T /\ \A y \in T : i <= y
  <2> HIDE DEF T, i
  <2> QED BY <1>2, <1>3, MinIsLeast
<1>6. IsCached(guid) <=> i <= n
  BY DEF IsCached
<1> HIDE DEF M, n, i
<1>7. i \in 1 .. n + 1
  BY <1>1, <1>4, <1>5
<1>8. i <= n => i \in 1 .. n /\ cached_endpoints[i].guid = guid
  BY <1>1, <1>4, <1>5
<1>9. ~(i <= n) => \A j \in 1 .. n : cached_endpoints[j].guid # guid
  BY <1>1, <1>4, <1>5, <1>7
<1> QED BY <1>6, <1>7, <1>8, <1>9 DEF n, i

\* An entry as graph_cache_upsert_endpoint writes it.
LEMMA CachedAsType ==
    ASSUME NEW e \in Endpoints
    PROVE  CachedAs(e) \in CachedEndpoint
BY KeysAreDistinct DEF CachedAs, CachedEndpoint

\* The nodes of a sample.
LEMMA SampleNodesType ==
    ASSUME NEW s \in GraphSample
    PROVE  SampleNodes(s) \subseteq CachedNode
BY DEF SampleNodes, GraphSample, CachedNode

\* Whoever unlocks is then about to signal.
LEMMA UnlockType ==
    ASSUME SignalType, NEW actor \in Actors, Unlock(actor)
    PROVE  signalling' \subseteq Actors /\ unseen' \in BOOLEAN
BY DEF SignalType, Unlock

\* The operations on participants and nodes.
LEMMA ParticipantOperationType ==
    ASSUME CacheType, SignalType, NEW actor \in Actors,
           \/ \E p \in Participants : \/ graph_cache_add_participant(actor, p)
                                      \/ graph_cache_remove_participant(actor, p)
           \/ \E s \in GraphSample : graph_cache_apply_snapshot(actor, s)
    PROVE  CacheType' /\ signalling' \subseteq Actors /\ unseen' \in BOOLEAN
<1>1. CASE Refuse
  BY <1>1 DEF Refuse, cache, CacheType, SignalType
<1>2. CASE \E p \in Participants :
                graph_cache_add_participant(actor, p) /\ ~Refuse
  BY <1>2, UnlockType DEF graph_cache_add_participant, CacheType
<1>3. ASSUME NEW p \in Participants, graph_cache_remove_participant(actor, p)
      PROVE  CacheType' /\ signalling' \subseteq Actors /\ unseen' \in BOOLEAN
  <2>1. cached_endpoints' \in Seq(CachedEndpoint)
    BY <1>3, CompactSelects DEF graph_cache_remove_participant, CacheType
  <2> QED BY <1>3, <2>1, UnlockType DEF graph_cache_remove_participant,
                                        CacheType
<1>4. ASSUME NEW s \in GraphSample, graph_cache_apply_snapshot(actor, s),
             ~Refuse
      PROVE  CacheType' /\ signalling' \subseteq Actors /\ unseen' \in BOOLEAN
  <2>1. /\ cached_participants' = cached_participants \cup {s.gid}
        /\ cached_nodes' = (cached_nodes \ NodesOf(s.gid)) \cup SampleNodes(s)
        /\ UNCHANGED cached_endpoints
        /\ Unlock(actor)
    BY <1>4 DEF graph_cache_apply_snapshot
  <2>2. s.gid \in Participants /\ SampleNodes(s) \subseteq CachedNode
    BY SampleNodesType DEF GraphSample
  <2> QED BY <2>1, <2>2, UnlockType DEF CacheType
<1> QED BY <1>1, <1>2, <1>3, <1>4 DEF graph_cache_add_participant,
                                      graph_cache_apply_snapshot

\* The operations on endpoints.
LEMMA EndpointOperationType ==
    ASSUME CacheType, SignalType, NEW actor \in Actors, NEW e \in Endpoints,
           \/ graph_cache_upsert_endpoint(actor, e)
           \/ graph_cache_remove_endpoint_guid(actor, e)
    PROVE  CacheType' /\ signalling' \subseteq Actors /\ unseen' \in BOOLEAN
<1> DEFINE i == graph_cache_find_endpoint_locked(e)
<1>0. cached_endpoints \in Seq(CachedEndpoint)
  BY DEF CacheType
<1>1. IsCached(e) => i \in 1 .. Len(cached_endpoints)
  BY <1>0, FindEndpoint
<1> HIDE DEF i
<1>2. CASE graph_cache_upsert_endpoint(actor, e)
  <2>1. CASE ~EndpointFits(e)
    BY <1>2, <2>1 DEF graph_cache_upsert_endpoint, Refuse, cache, CacheType,
                      SignalType
  <2>2. CASE EndpointFits(e)
    <3>1. cached_endpoints' =
                IF IsCached(e) THEN [cached_endpoints EXCEPT ![i] = CachedAs(e)]
                               ELSE Append(cached_endpoints, CachedAs(e))
      BY <1>2, <2>2 DEF graph_cache_upsert_endpoint, i
    <3>2. UNCHANGED <<cached_participants, cached_nodes>> /\ Unlock(actor)
      BY <1>2, <2>2 DEF graph_cache_upsert_endpoint
    <3>3. CachedAs(e) \in CachedEndpoint
      BY CachedAsType
    <3>4. cached_endpoints' \in Seq(CachedEndpoint)
      BY <1>0, <1>1, <3>1, <3>3
    <3> QED BY <3>2, <3>4, UnlockType DEF CacheType
  <2> QED BY <2>1, <2>2
<1>3. CASE graph_cache_remove_endpoint_guid(actor, e)
  <2>1. /\ cached_endpoints' = IF IsCached(e) THEN RemoveAt(cached_endpoints, i)
                                              ELSE cached_endpoints
        /\ UNCHANGED <<cached_participants, cached_nodes>> /\ Unlock(actor)
    BY <1>3 DEF graph_cache_remove_endpoint_guid, i
  <2>2. IsCached(e) => RemoveAt(cached_endpoints, i) \in Seq(CachedEndpoint)
    BY <1>0, <1>1 DEF RemoveAt
  <2> QED BY <1>0, <2>1, <2>2, UnlockType DEF CacheType
<1> QED BY <1>2, <1>3

\* Every step keeps the types of the cache and of the signals.
LEMMA NextCacheType ==
    ASSUME TypeInv, [Next]_vars
    PROVE  CacheType' /\ SignalType'
<1>0. CacheType /\ SignalType
  BY DEF TypeInv
<1>1. CASE QuietStep
  BY <1>0, <1>1 DEF QuietStep, cache, CacheType, SignalType
<1>2. ASSUME NEW r \in Readers, ListenerOperation(r)
      PROVE  CacheType' /\ SignalType'
  <2>1. r \in Actors /\ UNCHANGED graph_guard
    BY <1>2 DEF Actors, ListenerOperation
  <2>2. CacheType' /\ signalling' \subseteq Actors /\ unseen' \in BOOLEAN
    BY <1>0, <1>2, <2>1, ParticipantOperationType, EndpointOperationType
       DEF ListenerOperation, Participants
  <2> QED BY <1>0, <2>1, <2>2 DEF SignalType
<1>3. CASE LocalOperation
  <2>1. "local" \in Actors /\ UNCHANGED graph_guard
    BY <1>3 DEF Actors, LocalOperation
  <2>2. CacheType' /\ signalling' \subseteq Actors /\ unseen' \in BOOLEAN
    BY <1>0, <1>3, <2>1, ParticipantOperationType, EndpointOperationType
       DEF LocalOperation
  <2> QED BY <1>0, <2>1, <2>2 DEF SignalType
<1> QED BY <1>1, <1>2, <1>3, NextOnCache

-----------------------------------------------------------------------------
(* DDS and the local call keep their types *)

\* At most one endpoint at a time comes alive.
LEMMA AliveStaysFinite ==
    ASSUME NEW old, NEW new, NEW k,
           IsFiniteSet({e \in Endpoints : old[e]}),
           \A e \in Endpoints : new[e] => old[e] \/ e = k
    PROVE  IsFiniteSet({e \in Endpoints : new[e]})
<1> DEFINE O == {e \in Endpoints : old[e]}
           N == {e \in Endpoints : new[e]}
<1>1. N \subseteq O \cup {k}
  OBVIOUS
<1> HIDE DEF O, N
<1>2. IsFiniteSet(O)
  BY DEF O
<1>3. IsFiniteSet(O \cup {k})
  BY <1>2, FS_AddElement
<1>4. IsFiniteSet(N)
  BY <1>1, <1>3, FS_Subset
<1> QED BY <1>4 DEF N

\* What DdsType says of the instances.
LEMMA AppearsType ==
    ASSUME DdsType, NEW k \in Keys,
           alive' = [alive EXCEPT ![k] = TRUE],
           appearances' = [appearances EXCEPT ![k] = @ + 1]
    PROVE  /\ alive' \in [Keys -> BOOLEAN]
           /\ appearances' \in [Keys -> Nat]
           /\ IsFiniteSet({e \in Endpoints : alive[e]})'
<1>1. /\ alive' \in [Keys -> BOOLEAN]
      /\ appearances' \in [Keys -> Nat]
  BY DEF DdsType
<1>2. IsFiniteSet({e \in Endpoints : alive[e]})
  BY DEF DdsType
<1>3. \A e \in Endpoints : alive'[e] => alive[e] \/ e = k
  BY DEF DdsType, Keys
<1>4. IsFiniteSet({e \in Endpoints : alive'[e]})
  BY <1>2, <1>3, AliveStaysFinite
<1> QED BY <1>1, <1>4

\* The loss of some instances that were alive.
LEMMA LossType ==
    ASSUME DdsType, NEW gone \in SUBSET Keys, IsFiniteSet(gone),
           alive' \in [Keys -> BOOLEAN],
           \A k \in Keys : alive'[k] => alive[k],
           queue' = Lost(queue, gone),
           UNCHANGED <<appearances, snapshots, batch>>
    PROVE  DdsType'
<1>1. HoldsSamples(queue')
  <2>1. HoldsSamples(queue)
    BY DEF DdsType
  <2> QED BY <2>1, LostType
<1>2. IsFiniteSet({e \in Endpoints : alive'[e]})
  <2>1. {e \in Endpoints : alive'[e]} \subseteq {e \in Endpoints : alive[e]}
    BY DEF Keys
  <2> QED BY <2>1, FS_Subset DEF DdsType
<1> QED BY <1>1, <1>2 DEF DdsType, HoldsSamples

\* What DDS does by itself.
LEMMA EnvironmentType ==
    ASSUME DdsType, Environment
    PROVE  DdsType' /\ UNCHANGED local
           /\ (snapshots[Self] # <<>> => snapshots'[Self] # <<>>)
<1>0. /\ HoldsSamples(queue) /\ HoldsSamples(batch)
      /\ snapshots \in [Participants -> Seq(Snapshots)]
      /\ IsFiniteSet({e \in Endpoints : alive[e]})
      /\ alive \in [Keys -> BOOLEAN]
  BY DEF DdsType
<1>1. ASSUME NEW p \in Remotes, ParticipantAppears(p)
      PROVE  DdsType'
  <2>1. p \in Keys /\ p \in Participants
    BY DEF Keys, Participants
  <2>2. /\ alive' = [alive EXCEPT ![p] = TRUE]
        /\ appearances' = [appearances EXCEPT ![p] = @ + 1]
        /\ queue' = Redelivered(Appeared(queue, p), p)
        /\ UNCHANGED <<snapshots, batch>>
    BY <1>1 DEF ParticipantAppears
  <2>3. PICK q : q = Appeared(queue, p)
    OBVIOUS
  <2>4. HoldsSamples(q)
    BY <1>0, <2>1, <2>3, AppearedType
  <2>5. HoldsSamples(queue')
    BY <1>0, <2>1, <2>2, <2>3, <2>4, RedeliveredType
  <2>6. /\ alive' \in [Keys -> BOOLEAN]
        /\ appearances' \in [Keys -> Nat]
        /\ IsFiniteSet({e \in Endpoints : alive[e]})'
    BY <2>1, <2>2, AppearsType
  <2> QED BY <1>0, <2>2, <2>5, <2>6 DEF DdsType, HoldsSamples
<1>2. ASSUME NEW p \in Remotes, ParticipantIsLost(p)
      PROVE  DdsType'
  <2>1. PICK gone : gone = {p} \cup {e \in Endpoints : OwnerOf[e] = p /\ alive[e]}
    OBVIOUS
  <2>2. gone \in SUBSET Keys
    BY <2>1 DEF Keys, Participants
  <2>3. IsFiniteSet(gone)
    <3>1. {e \in Endpoints : OwnerOf[e] = p /\ alive[e]}
                \subseteq {e \in Endpoints : alive[e]}
      OBVIOUS
    <3>2. IsFiniteSet({e \in Endpoints : OwnerOf[e] = p /\ alive[e]})
      BY <1>0, <3>1, FS_Subset
    <3>3. gone = {e \in Endpoints : OwnerOf[e] = p /\ alive[e]} \cup {p}
      BY <2>1
    <3> QED BY <3>2, <3>3, FS_AddElement
  <2>4. /\ alive' = [k \in Keys |-> alive[k] /\ k \notin gone]
        /\ queue' = Lost(queue, gone)
        /\ UNCHANGED <<appearances, snapshots, batch>>
    BY <1>2, <2>1 DEF ParticipantIsLost
  <2>5. /\ alive' \in [Keys -> BOOLEAN]
        /\ \A k \in Keys : alive'[k] => alive[k]
    BY <2>4
  <2> QED BY <2>2, <2>3, <2>4, <2>5, LossType
<1>3. ASSUME NEW p \in Remotes, NEW s \in Snapshots, RemoteWrite(p, s)
      PROVE  DdsType'
  <2>1. p \in Participants /\ Write(p, s)
        /\ UNCHANGED <<alive, appearances, batch>>
    BY <1>3 DEF Participants, RemoteWrite
  <2>2. /\ snapshots' \in [Participants -> Seq(Snapshots)]
        /\ HoldsSamples(queue)'
    BY <1>0, <2>1, WriteType
  <2> QED BY <2>1, <2>2 DEF DdsType, HoldsSamples
<1>4. ASSUME NEW e \in Endpoints, EndpointAppears(e)
      PROVE  DdsType'
  <2>1. e \in Keys
    BY DEF Keys
  <2>2. /\ alive' = [alive EXCEPT ![e] = TRUE]
        /\ appearances' = [appearances EXCEPT ![e] = @ + 1]
        /\ queue' = Appeared(queue, e)
        /\ UNCHANGED <<snapshots, batch>>
    BY <1>4 DEF EndpointAppears
  <2>3. HoldsSamples(queue')
    BY <1>0, <2>1, <2>2, AppearedType
  <2>4. /\ alive' \in [Keys -> BOOLEAN]
        /\ appearances' \in [Keys -> Nat]
        /\ IsFiniteSet({x \in Endpoints : alive[x]})'
    BY <2>1, <2>2, AppearsType
  <2> QED BY <1>0, <2>2, <2>3, <2>4 DEF DdsType, HoldsSamples
<1>5. ASSUME NEW e \in Endpoints, EndpointIsLost(e)
      PROVE  DdsType'
  <2>1. {e} \in SUBSET Keys /\ IsFiniteSet({e})
    BY FS_Singleton DEF Keys
  <2>2. /\ alive' = [alive EXCEPT ![e] = FALSE]
        /\ queue' = Lost(queue, {e})
        /\ UNCHANGED <<appearances, snapshots, batch>>
    BY <1>5 DEF EndpointIsLost
  <2>3. /\ alive' \in [Keys -> BOOLEAN]
        /\ \A k \in Keys : alive'[k] => alive[k]
    BY <1>0, <2>2
  <2> QED BY <2>1, <2>2, <2>3, LossType
<1>6. UNCHANGED local
  BY DEF Environment, ParticipantAppears, ParticipantIsLost, RemoteWrite,
         EndpointAppears, EndpointIsLost
<1>7. snapshots[Self] # <<>> => snapshots'[Self] # <<>>
  <2>1. CASE UNCHANGED snapshots
    BY <2>1
  <2>2. ASSUME NEW p \in Remotes, NEW s \in Snapshots, RemoteWrite(p, s)
        PROVE  snapshots'[Self] = snapshots[Self]
    BY <1>0, <2>2, KeysAreDistinct DEF RemoteWrite, Write, Participants
  <2> QED BY <2>1, <2>2 DEF Environment, ParticipantAppears, ParticipantIsLost,
                            EndpointAppears, EndpointIsLost
<1> QED BY <1>1, <1>2, <1>3, <1>4, <1>5, <1>6, <1>7 DEF Environment

\* The split of a sequence at the end of a batch.
LEMMA SplitListing ==
    ASSUME NEW S, NEW s \in Seq(S), NEW n \in 0 .. Len(s)
    PROVE  /\ SubSeq(s, 1, n) \in Seq(S)
           /\ Len(SubSeq(s, 1, n)) = n
           /\ \A i \in 1 .. n : SubSeq(s, 1, n)[i] = s[i]
           /\ SubSeq(s, n + 1, Len(s)) \in Seq(S)
           /\ Len(SubSeq(s, n + 1, Len(s))) = Len(s) - n
           /\ \A i \in 1 .. Len(s) - n : SubSeq(s, n + 1, Len(s))[i] = s[n + i]
OBVIOUS

\* The size of a batch.
BatchSize(r) == IF Len(queue[r]) < GRAPH_DISCOVERY_BATCH
                THEN Len(queue[r]) ELSE GRAPH_DISCOVERY_BATCH

\* dds_take moves the oldest samples of a reader into its listener's batch.
LEMMA TakeMoves ==
    ASSUME DdsType, NEW r \in Readers, dds_take(r)
    PROVE  /\ BatchSize(r) \in 0 .. Len(queue[r])
           /\ batch[r] = <<>>
           /\ batch' = [batch EXCEPT ![r] = SubSeq(queue[r], 1, BatchSize(r))]
           /\ queue' = [queue EXCEPT ![r] =
                            SubSeq(queue[r], BatchSize(r) + 1, Len(queue[r]))]
           /\ UNCHANGED <<alive, appearances, snapshots, local, cache>>
<1>1. queue[r] \in Seq(ReaderSample(r))
  BY DEF DdsType, HoldsSamples
<1>2. Len(queue[r]) \in Nat
  BY <1>1
<1>3. BatchSize(r) \in 0 .. Len(queue[r])
  BY <1>2, LimitsArePositive DEF BatchSize
<1>4. /\ batch[r] = <<>>
      /\ batch' = [batch EXCEPT ![r] = SubSeq(queue[r], 1, BatchSize(r))]
      /\ queue' = [queue EXCEPT ![r] =
                        SubSeq(queue[r], BatchSize(r) + 1, Len(queue[r]))]
  BY DEF dds_take, BatchSize
<1>5. UNCHANGED <<alive, appearances, snapshots, local, cache>>
  BY DEF dds_take
<1> QED BY <1>3, <1>4, <1>5

\* Handling a sample drops it from the batch.
LEMMA HandleMoves ==
    ASSUME NEW r \in Readers, Handle(r)
    PROVE  /\ batch[r] # <<>>
           /\ batch' = [batch EXCEPT ![r] = Tail(batch[r])]
           /\ UNCHANGED <<alive, appearances, snapshots, queue, local>>
BY DEF Handle, graph_data_available, participant_data_available,
       endpoint_data_available, NextSample, dds

\* A listener's turn.
LEMMA ListenerType ==
    ASSUME DdsType, NEW r \in Readers, Listener(r)
    PROVE  DdsType' /\ UNCHANGED <<local, snapshots>>
<1>0. /\ HoldsSamples(queue) /\ HoldsSamples(batch)
      /\ queue[r] \in Seq(ReaderSample(r))
      /\ batch[r] \in Seq(ReaderSample(r))
  BY DEF DdsType, HoldsSamples
<1>1. CASE dds_take(r)
  <2>1. PICK n \in 0 .. Len(queue[r]) : n = BatchSize(r)
    BY <1>1, TakeMoves
  <2>2. PICK old \in Seq(ReaderSample(r)) : old = queue[r]
    BY <1>0
  <2>3. PICK x \in Seq(ReaderSample(r)), y \in Seq(ReaderSample(r)) :
            x = SubSeq(old, 1, n) /\ y = SubSeq(old, n + 1, Len(old))
    BY <2>1, <2>2, SplitListing
  <2>4. /\ batch' = [batch EXCEPT ![r] = x]
        /\ queue' = [queue EXCEPT ![r] = y]
        /\ UNCHANGED <<alive, appearances, snapshots, local>>
    BY <1>1, <2>1, <2>2, <2>3, TakeMoves
  <2>5. HoldsSamples(batch') /\ HoldsSamples(queue')
    BY <1>0, <2>4, OneReaderChanges
  <2> QED BY <2>4, <2>5 DEF DdsType, HoldsSamples
<1>2. CASE Handle(r)
  <2>1. Tail(batch[r]) \in Seq(ReaderSample(r))
    BY <1>0, <1>2, HandleMoves
  <2>2. PICK x \in Seq(ReaderSample(r)) : x = Tail(batch[r])
    BY <2>1
  <2>3. /\ batch' = [batch EXCEPT ![r] = x]
        /\ UNCHANGED <<alive, appearances, snapshots, queue, local>>
    BY <1>2, <2>2, HandleMoves
  <2>4. HoldsSamples(batch')
    BY <1>0, <2>3, OneReaderChanges
  <2> QED BY <2>3, <2>4 DEF DdsType, HoldsSamples
<1> QED BY <1>1, <1>2 DEF Listener

\* A step of the local call.
LEMMA LocalCallType ==
    ASSUME DdsType, LocalType, LocalCall \/ LocalContinue
    PROVE  DdsType' /\ LocalType'
<1>0. /\ HoldsSamples(queue) /\ HoldsSamples(batch)
      /\ snapshots \in [Participants -> Seq(Snapshots)]
      /\ alive \in [Keys -> BOOLEAN]
      /\ local \in [pc : LocalPhases, endpoint : Endpoints \cup {NULL}]
      /\ Self \in Participants
  BY DEF DdsType, LocalType, Participants
<1>1. ASSUME UNCHANGED <<dds, batch>>
      PROVE  DdsType' /\ UNCHANGED snapshots
  BY <1>1 DEF DdsType, HoldsSamples, dds
<1>2. ASSUME local'.pc \notin {"upsert", "undo", "delete", "apply"}
      PROVE  LocalKnows'
  BY <1>2 DEF LocalKnows
<1>3. ASSUME NEW s \in Snapshots, LocalWrite(s)
      PROVE  DdsType' /\ LocalType'
  <2>1. Write(Self, s) /\ UNCHANGED <<alive, appearances, batch>>
        /\ local' = [local EXCEPT !.pc = "apply"]
    BY <1>3 DEF LocalWrite
  <2>2. /\ snapshots' \in [Participants -> Seq(Snapshots)]
        /\ HoldsSamples(queue)'
        /\ snapshots'[Self] # <<>>
    BY <1>0, <2>1, WriteType
  <2>3. DdsType'
    BY <2>1, <2>2 DEF DdsType, HoldsSamples
  <2>4. LocalType'
    BY <1>0, <2>1, <2>2 DEF LocalType, LocalKnows, LocalPhases
  <2> QED BY <2>3, <2>4
<1>4. ASSUME NEW e \in Endpoints, LocalCreate(e)
      PROVE  DdsType' /\ LocalType'
  <2>1. e \in Keys
    BY DEF Keys
  <2>2. /\ alive' = [alive EXCEPT ![e] = TRUE]
        /\ appearances' = [appearances EXCEPT ![e] = @ + 1]
        /\ queue' = Appeared(queue, e)
        /\ UNCHANGED <<snapshots, batch>>
        /\ OwnerOf[e] = Self
        /\ local' = [pc |-> "upsert", endpoint |-> e]
    BY <1>4 DEF LocalCreate
  <2>3. HoldsSamples(queue')
    BY <1>0, <2>1, <2>2, AppearedType
  <2>4. /\ alive' \in [Keys -> BOOLEAN]
        /\ appearances' \in [Keys -> Nat]
        /\ IsFiniteSet({x \in Endpoints : alive[x]})'
    BY <2>1, <2>2, AppearsType
  <2>5. DdsType'
    BY <1>0, <2>2, <2>3, <2>4 DEF DdsType, HoldsSamples
  <2>6. LocalType'
    BY <2>2 DEF LocalType, LocalKnows, LocalPhases
  <2> QED BY <2>5, <2>6
<1>5. ASSUME NEW e \in Endpoints, LocalRemove(e)
      PROVE  DdsType' /\ LocalType'
  <2>1. /\ OwnerOf[e] = Self /\ UNCHANGED <<dds, batch>>
        /\ local' = [pc |-> "delete", endpoint |-> e]
    BY <1>5 DEF LocalRemove
  <2>2. LocalType'
    BY <2>1 DEF LocalType, LocalKnows, LocalPhases
  <2> QED BY <1>1, <2>1, <2>2
<1>6. CASE LocalApply
  <2>1. /\ UNCHANGED <<dds, batch>>
        /\ local' \in {[local EXCEPT !.pc = "notify"], LocalIdle}
    BY <1>6 DEF LocalApply
  <2>2. /\ local' \in [pc : LocalPhases, endpoint : Endpoints \cup {NULL}]
        /\ local'.pc \in {"notify", "idle"}
    BY <1>0, <2>1 DEF LocalIdle, LocalPhases
  <2> QED BY <1>1, <1>2, <2>1, <2>2 DEF LocalType
<1>7. CASE LocalUpsert
  <2>1. /\ UNCHANGED <<dds, batch>> /\ local.pc = "upsert"
        /\ \/ local' = [local EXCEPT !.pc = "notify"]
           \/ local' = [local EXCEPT !.pc = "undo"]
    BY <1>7 DEF LocalUpsert, LocalStep
  <2>2. /\ local.endpoint \in Endpoints /\ OwnerOf[local.endpoint] = Self
    BY <2>1 DEF LocalType, LocalKnows
  <2>3. /\ local' \in [pc : LocalPhases, endpoint : Endpoints \cup {NULL}]
        /\ local'.pc # "apply" /\ local'.endpoint = local.endpoint
    BY <1>0, <2>1 DEF LocalPhases
  <2>4. LocalType'
    BY <2>2, <2>3 DEF LocalType, LocalKnows
  <2> QED BY <1>1, <2>1, <2>4
<1>8. CASE LocalDelete
  <2>1. local.pc \in {"delete", "undo"}
    BY <1>8 DEF LocalDelete, LocalStep
  <2>2. PICK e \in Endpoints : e = local.endpoint
    BY <2>1 DEF LocalType, LocalKnows
  <2>3. /\ alive' = [alive EXCEPT ![e] = FALSE]
        /\ queue' = Lost(queue, {e})
        /\ UNCHANGED <<appearances, snapshots, batch>>
        /\ local' \in {[local EXCEPT !.pc = "notify"], LocalIdle}
    BY <1>8, <2>2 DEF LocalDelete
  <2>4. {e} \in SUBSET Keys /\ IsFiniteSet({e})
    BY FS_Singleton DEF Keys
  <2>5. /\ alive' \in [Keys -> BOOLEAN]
        /\ \A k \in Keys : alive'[k] => alive[k]
    BY <1>0, <2>3
  <2>6. DdsType'
    BY <2>3, <2>4, <2>5, LossType
  <2>7. /\ local' \in [pc : LocalPhases, endpoint : Endpoints \cup {NULL}]
        /\ local'.pc \in {"notify", "idle"}
    BY <1>0, <2>3 DEF LocalIdle, LocalPhases
  <2> QED BY <1>2, <2>6, <2>7 DEF LocalType
<1>9. CASE LocalNotify
  <2>1. UNCHANGED <<dds, batch>> /\ local' = LocalIdle
    BY <1>9 DEF LocalNotify
  <2>2. LocalType'
    BY <2>1 DEF LocalType, LocalKnows, LocalIdle, LocalPhases
  <2> QED BY <1>1, <2>1, <2>2
<1> QED BY <1>3, <1>4, <1>5, <1>6, <1>7, <1>8, <1>9 DEF LocalCall, LocalContinue

\* Every step keeps TypeInv.
LEMMA NextType == TypeInv /\ [Next]_vars => TypeInv'
<1> SUFFICES ASSUME TypeInv, [Next]_vars PROVE DdsType' /\ LocalType'
  BY NextCacheType DEF TypeInv
<1>0. DdsType /\ LocalType
  BY DEF TypeInv
<1>1. ASSUME DdsType', UNCHANGED local,
             snapshots[Self] # <<>> => snapshots'[Self] # <<>>
      PROVE  DdsType' /\ LocalType'
  BY <1>0, <1>1 DEF LocalType, LocalKnows
<1>2. CASE Environment
  BY <1>0, <1>1, <1>2, EnvironmentType
<1>3. CASE \E r \in Readers : Listener(r)
  BY <1>0, <1>1, <1>3, ListenerType
<1>4. ASSUME UNCHANGED <<dds, batch, local>>
      PROVE  DdsType' /\ LocalType'
  BY <1>0, <1>4 DEF dds, DdsType, HoldsSamples, LocalType, LocalKnows
<1>5. CASE \E actor \in Actors : graph_cache_signal(actor)
  BY <1>4, <1>5 DEF graph_cache_signal
<1>6. CASE TakeGraphGuard
  BY <1>4, <1>6 DEF TakeGraphGuard
<1>7. CASE UNCHANGED vars
  BY <1>4, <1>7 DEF vars
<1> QED BY <1>0, <1>2, <1>3, <1>5, <1>6, <1>7, LocalCallType DEF Next

\* TypeInv is inductive.
THEOREM TypeInvAlways == Spec => []TypeInv
BY InitType, NextType, PTL DEF Spec

\* The readers hold samples of their own kind, the listeners and the local
\* call work on keys of their own kind, and the cache is filled with entries
\* of the right form.
THEOREM TypeCorrect == Spec => []TypeOK
BY TypeInvAlways, TypeInvIsStronger, PTL

-----------------------------------------------------------------------------
(* CacheInv: what each operation on the cache keeps *)

\* Participants and nodes.
NodeInv ==
    /\ IsFiniteSet(cached_participants)
    /\ Cardinality(cached_participants) <= GRAPH_CACHE_MAX_PARTICIPANTS
    /\ IsFiniteSet(cached_nodes)
    /\ Cardinality(cached_nodes) <= GRAPH_CACHE_MAX_NODES
    /\ NodesHaveParticipant

\* One entry per guid, each as graph_cache_upsert_endpoint writes it.
ProperEntries(entries) ==
    /\ \A i, j \in 1 .. Len(entries) :
            entries[i].guid = entries[j].guid => i = j
    /\ \A i \in 1 .. Len(entries) : entries[i] = CachedAs(entries[i].guid)
    /\ Len(entries) <= GRAPH_CACHE_MAX_ENDPOINTS

CacheInv == NodeInv /\ ProperEntries(cached_endpoints)

\* Some elements make room for others.
LEMMA ReplacedFits ==
    ASSUME NEW N, IsFiniteSet(N), NEW M \in SUBSET N, NEW T, IsFiniteSet(T),
           NEW n \in Nat, Cardinality(T) <= n, NEW max \in Nat,
           Cardinality(N) - Cardinality(M) + n <= max
    PROVE  IsFiniteSet((N \ M) \cup T) /\ Cardinality((N \ M) \cup T) <= max
<1>1. PICK D : D = N \ M
  OBVIOUS
<1>2. N \cap M = M
  OBVIOUS
<1>3. IsFiniteSet(M) /\ IsFiniteSet(D)
      /\ Cardinality(D) = Cardinality(N) - Cardinality(M)
  <2>1. IsFiniteSet(M)
    BY FS_Subset
  <2>2. /\ IsFiniteSet(N \ M)
        /\ Cardinality(N \ M) = Cardinality(N) - Cardinality(N \cap M)
    BY FS_Difference
  <2> QED BY <1>1, <1>2, <2>1, <2>2
<1>4. IsFiniteSet(D \cap T)
  BY <1>3, FS_Intersection
<1>5. /\ IsFiniteSet(D \cup T)
      /\ Cardinality(D \cup T) =
            Cardinality(D) + Cardinality(T) - Cardinality(D \cap T)
  BY <1>3, FS_Union
<1>6. /\ Cardinality(N) \in Nat /\ Cardinality(M) \in Nat
      /\ Cardinality(T) \in Nat /\ Cardinality(D \cap T) \in Nat
  BY <1>3, <1>4, FS_CardinalityType
<1>7. Cardinality(D \cup T) <= max
  BY <1>3, <1>5, <1>6
<1> QED BY <1>1, <1>5, <1>7

\* A sample has no more nodes than its size says.
LEMMA SampleNodesFit ==
    ASSUME NEW s \in GraphSample
    PROVE  IsFiniteSet(SampleNodes(s)) /\ Cardinality(SampleNodes(s)) <= s.size
<1> DEFINE f == [i \in 1 .. s.size |->
                    [participant_guid |-> s.gid, name |-> <<s.version, i>>]]
<1>1. s.size \in Nat
  BY DEF GraphSample
<1>2. f = [i \in 1 .. s.size |-> f[i]]
  OBVIOUS
<1>3. Range(f) = SampleNodes(s)
  BY DEF Range, SampleNodes
<1> HIDE DEF f
<1>4. IsFiniteSet(Range(f)) /\ Cardinality(Range(f)) <= s.size
  BY <1>1, <1>2, RangeIsBounded
<1> QED BY <1>3, <1>4

\* graph_cache_add_participant_locked.
LEMMA ParticipantIsAdded ==
    ASSUME NodeInv, NEW p, ParticipantFits(p)
    PROVE  /\ IsFiniteSet(cached_participants \cup {p})
           /\ Cardinality(cached_participants \cup {p})
                    <= GRAPH_CACHE_MAX_PARTICIPANTS
<1>1. /\ IsFiniteSet(cached_participants)
      /\ Cardinality(cached_participants) <= GRAPH_CACHE_MAX_PARTICIPANTS
      /\ GRAPH_CACHE_MAX_PARTICIPANTS \in Nat
  BY LimitsArePositive DEF NodeInv
<1>2. Cardinality(cached_participants) \in Nat
  BY <1>1, FS_CardinalityType
<1>3. /\ IsFiniteSet(cached_participants \cup {p})
      /\ Cardinality(cached_participants \cup {p}) =
            IF p \in cached_participants THEN Cardinality(cached_participants)
            ELSE Cardinality(cached_participants) + 1
  BY <1>1, FS_AddElement
<1>4. CASE p \in cached_participants
  BY <1>1, <1>3, <1>4
<1>5. CASE p \notin cached_participants
  <2>1. Cardinality(cached_participants) # GRAPH_CACHE_MAX_PARTICIPANTS
    BY <1>5 DEF ParticipantFits
  <2> QED BY <1>1, <1>2, <1>3, <1>5, <2>1
<1> QED BY <1>4, <1>5

\* graph_cache_add_participant keeps NodeInv.
LEMMA AddParticipantKeeps ==
    ASSUME NodeInv, NEW actor, NEW p, graph_cache_add_participant(actor, p)
    PROVE  NodeInv' /\ UNCHANGED cached_endpoints
<1>1. CASE Refuse
  BY <1>1 DEF Refuse, cache, NodeInv, NodesHaveParticipant
<1>2. CASE ~Refuse
  <2>1. /\ ParticipantFits(p)
        /\ cached_participants' = cached_participants \cup {p}
        /\ UNCHANGED <<cached_nodes, cached_endpoints>>
    BY <1>2 DEF graph_cache_add_participant
  <2> QED BY <2>1, ParticipantIsAdded DEF NodeInv, NodesHaveParticipant
<1> QED BY <1>1, <1>2

\* graph_cache_remove_participant keeps NodeInv: the nodes go along.
LEMMA RemoveParticipantKeeps ==
    ASSUME NodeInv, NEW actor, NEW p, graph_cache_remove_participant(actor, p)
    PROVE  NodeInv'
<1>1. /\ cached_participants' = cached_participants \ {p}
      /\ cached_nodes' = cached_nodes \ NodesOf(p)
  BY DEF graph_cache_remove_participant
<1>2. /\ cached_participants' \in SUBSET cached_participants
      /\ cached_nodes' \in SUBSET cached_nodes
  BY <1>1
<1>3. /\ IsFiniteSet(cached_participants) /\ IsFiniteSet(cached_nodes)
      /\ Cardinality(cached_participants) <= GRAPH_CACHE_MAX_PARTICIPANTS
      /\ Cardinality(cached_nodes) <= GRAPH_CACHE_MAX_NODES
      /\ GRAPH_CACHE_MAX_PARTICIPANTS \in Nat /\ GRAPH_CACHE_MAX_NODES \in Nat
  BY LimitsArePositive DEF NodeInv
<1>4. /\ IsFiniteSet(cached_participants')
      /\ Cardinality(cached_participants') <= Cardinality(cached_participants)
      /\ IsFiniteSet(cached_nodes')
      /\ Cardinality(cached_nodes') <= Cardinality(cached_nodes)
  BY <1>2, <1>3, FS_Subset
<1>5. /\ Cardinality(cached_participants) \in Nat
      /\ Cardinality(cached_participants') \in Nat
      /\ Cardinality(cached_nodes) \in Nat
      /\ Cardinality(cached_nodes') \in Nat
  BY <1>3, <1>4, FS_CardinalityType
<1>6. /\ Cardinality(cached_participants') <= GRAPH_CACHE_MAX_PARTICIPANTS
      /\ Cardinality(cached_nodes') <= GRAPH_CACHE_MAX_NODES
  BY <1>3, <1>4, <1>5
<1>7. NodesHaveParticipant'
  BY <1>1 DEF NodeInv, NodesHaveParticipant, NodesOf
<1> QED BY <1>4, <1>6, <1>7 DEF NodeInv

\* graph_cache_apply_snapshot keeps NodeInv: the check of the node count
\* leaves room for the whole sample.
LEMMA ApplySnapshotKeeps ==
    ASSUME NodeInv, NEW actor, NEW s \in GraphSample,
           graph_cache_apply_snapshot(actor, s)
    PROVE  NodeInv' /\ UNCHANGED cached_endpoints
<1>1. CASE Refuse
  BY <1>1 DEF Refuse, cache, NodeInv, NodesHaveParticipant
<1>2. CASE ~Refuse
  <2>1. /\ SnapshotFits(s)
        /\ cached_participants' = cached_participants \cup {s.gid}
        /\ cached_nodes' = (cached_nodes \ NodesOf(s.gid)) \cup SampleNodes(s)
        /\ UNCHANGED cached_endpoints
    BY <1>2 DEF graph_cache_apply_snapshot
  <2>2. /\ ParticipantFits(s.gid)
        /\ Cardinality(cached_nodes) - Cardinality(NodesOf(s.gid)) + s.size
                <= GRAPH_CACHE_MAX_NODES
    BY <2>1 DEF SnapshotFits
  <2>3. /\ IsFiniteSet(cached_participants')
        /\ Cardinality(cached_participants') <= GRAPH_CACHE_MAX_PARTICIPANTS
    BY <2>1, <2>2, ParticipantIsAdded
  <2>4. PICK N, M, T : /\ N = cached_nodes /\ M = NodesOf(s.gid)
                       /\ T = SampleNodes(s)
    OBVIOUS
  <2>5. IsFiniteSet(N) /\ M \in SUBSET N /\ IsFiniteSet(T)
        /\ Cardinality(T) <= s.size /\ s.size \in Nat
        /\ GRAPH_CACHE_MAX_NODES \in Nat
    BY <2>4, SampleNodesFit, LimitsArePositive DEF NodeInv, NodesOf, GraphSample
  <2>6. /\ IsFiniteSet((N \ M) \cup T)
        /\ Cardinality((N \ M) \cup T) <= GRAPH_CACHE_MAX_NODES
    BY <2>2, <2>4, <2>5, ReplacedFits
  <2>7. NodesHaveParticipant'
    BY <2>1 DEF NodeInv, NodesHaveParticipant, SampleNodes
  <2> QED BY <2>1, <2>3, <2>4, <2>6, <2>7 DEF NodeInv
<1> QED BY <1>1, <1>2

\* An entry is written over another of the same guid.
LEMMA ReplacedEntry ==
    ASSUME NEW s \in Seq(CachedEndpoint), ProperEntries(s),
           NEW i \in 1 .. Len(s)
    PROVE  [s EXCEPT ![i] = CachedAs(s[i].guid)] = s
<1>1. s[i] = CachedAs(s[i].guid)
  BY DEF ProperEntries
<1> QED BY <1>1

\* An entry of a guid that has none is appended.
LEMMA AppendedEntry ==
    ASSUME NEW s \in Seq(CachedEndpoint), ProperEntries(s),
           NEW e \in Endpoints,
           \A i \in 1 .. Len(s) : s[i].guid # e,
           Len(s) # GRAPH_CACHE_MAX_ENDPOINTS
    PROVE  ProperEntries(Append(s, CachedAs(e)))
<1>1. PICK new \in Seq(CachedEndpoint) : new = Append(s, CachedAs(e))
  <2>1. CachedAs(e) \in CachedEndpoint
    BY CachedAsType
  <2>2. Append(s, CachedAs(e)) \in Seq(CachedEndpoint)
    BY <2>1
  <2> QED BY <2>2
<1>2. /\ Len(new) = Len(s) + 1
      /\ new[Len(s) + 1] = CachedAs(e)
      /\ \A i \in 1 .. Len(s) : new[i] = s[i]
      /\ Len(s) \in Nat
  BY <1>1, CachedAsType, AppendListing
<1>3. CachedAs(e).guid = e
  BY DEF CachedAs
<1>4. \A i \in 1 .. Len(new) : i = Len(s) + 1 \/ i \in 1 .. Len(s)
  BY <1>2
<1>5. \A i, j \in 1 .. Len(new) : new[i].guid = new[j].guid => i = j
  BY <1>2, <1>3, <1>4 DEF ProperEntries
<1>6. \A i \in 1 .. Len(new) : new[i] = CachedAs(new[i].guid)
  BY <1>2, <1>3, <1>4 DEF ProperEntries
<1>7. Len(new) <= GRAPH_CACHE_MAX_ENDPOINTS
  BY <1>2, LimitsArePositive DEF ProperEntries
<1> QED BY <1>1, <1>5, <1>6, <1>7 DEF ProperEntries

\* Entries that remain, each at a place of its own.
LEMMA RemainingEntries ==
    ASSUME NEW s \in Seq(CachedEndpoint), ProperEntries(s),
           NEW new \in Seq(CachedEndpoint), Len(new) <= Len(s),
           NEW h \in [1 .. Len(new) -> 1 .. Len(s)],
           \A i, j \in 1 .. Len(new) : i # j => h[i] # h[j],
           \A i \in 1 .. Len(new) : new[i] = s[h[i]]
    PROVE  ProperEntries(new)
<1>1. \A i, j \in 1 .. Len(new) : new[i].guid = new[j].guid => i = j
  <2> SUFFICES ASSUME NEW i \in 1 .. Len(new), NEW j \in 1 .. Len(new),
                      new[i].guid = new[j].guid
               PROVE  i = j
    OBVIOUS
  <2>1. h[i] \in 1 .. Len(s) /\ h[j] \in 1 .. Len(s)
        /\ new[i] = s[h[i]] /\ new[j] = s[h[j]]
    OBVIOUS
  <2>2. h[i] = h[j]
    BY <2>1 DEF ProperEntries
  <2> QED BY <2>2
<1>2. \A i \in 1 .. Len(new) : new[i] = CachedAs(new[i].guid)
  BY DEF ProperEntries
<1>3. Len(new) <= GRAPH_CACHE_MAX_ENDPOINTS
  <2>1. Len(new) \in Nat /\ Len(s) \in Nat
    OBVIOUS
  <2> QED BY <2>1, LimitsArePositive DEF ProperEntries
<1> QED BY <1>1, <1>2, <1>3 DEF ProperEntries

\* Compaction, as in graph_cache_remove_participant.
LEMMA CompactedEntries ==
    ASSUME NEW s \in Seq(CachedEndpoint), ProperEntries(s), NEW keep
    PROVE  ProperEntries(Compact(s, keep))
<1>1. PICK new \in Seq(CachedEndpoint) : new = Compact(s, keep)
  BY CompactSelects
<1>2. Len(new) <= Len(s)
  BY <1>1, CompactSelects
<1>3. PICK h : Selects(h, new, s, keep, Len(s))
  BY <1>1, CompactSelects
<1>4. /\ h \in [1 .. Len(new) -> 1 .. Len(s)]
      /\ \A i, j \in 1 .. Len(new) : i < j => h[i] < h[j]
      /\ \A i \in 1 .. Len(new) : new[i] = s[h[i]]
  BY <1>3 DEF Selects
<1>5. \A i, j \in 1 .. Len(new) : i # j => h[i] # h[j]
  <2> SUFFICES ASSUME NEW i \in 1 .. Len(new), NEW j \in 1 .. Len(new), i # j
               PROVE  h[i] # h[j]
    OBVIOUS
  <2>1. h[i] \in 1 .. Len(s) /\ h[j] \in 1 .. Len(s)
    BY <1>4
  <2>2. i < j \/ j < i
    OBVIOUS
  <2> QED BY <1>4, <2>1, <2>2
<1> QED BY <1>1, <1>2, <1>4, <1>5, RemainingEntries

\* Removal at an index, as in graph_cache_remove_endpoint_guid.
LEMMA RemovedEntry ==
    ASSUME NEW s \in Seq(CachedEndpoint), ProperEntries(s),
           NEW index \in 1 .. Len(s)
    PROVE  /\ RemoveAt(s, index) \in Seq(CachedEndpoint)
           /\ LacksEntry(RemoveAt(s, index), s, index)
           /\ ProperEntries(RemoveAt(s, index))
<1>1. RemoveAt(s, index) \in Seq(CachedEndpoint)
  BY DEF RemoveAt
<1>2. PICK new \in Seq(CachedEndpoint) : new = RemoveAt(s, index)
  BY <1>1
<1>3. /\ Len(new) = Len(s) - 1
      /\ \A j \in 1 .. Len(s) - 1 :
            new[j] = IF j < index THEN s[j] ELSE s[j + 1]
  BY <1>2, RemoveAtListing
<1>4. LacksEntry(new, s, index)
  BY <1>3 DEF LacksEntry
<1> DEFINE h == [j \in 1 .. Len(new) |-> IF j < index THEN j ELSE j + 1]
<1>5. Len(s) \in Nat /\ Len(new) <= Len(s)
  BY <1>3
<1>6. h \in [1 .. Len(new) -> 1 .. Len(s)]
  BY <1>3
<1>7. \A i, j \in 1 .. Len(new) : i # j => h[i] # h[j]
  BY <1>3
<1>8. \A i \in 1 .. Len(new) : new[i] = s[h[i]]
  BY <1>3
<1> HIDE DEF h
<1>9. ProperEntries(new)
  BY <1>5, <1>6, <1>7, <1>8, RemainingEntries
<1> QED BY <1>2, <1>4, <1>9

\* What an operation on an endpoint may do to the entries.
EntriesStep(e) ==
    \/ UNCHANGED cached_endpoints
    \/ cached_endpoints' = Append(cached_endpoints, CachedAs(e))
    \/ \E i \in 1 .. Len(cached_endpoints) :
            /\ cached_endpoints[i].guid = e
            /\ cached_endpoints' = RemoveAt(cached_endpoints, i)

\* The operations on endpoints keep the entries proper and touch only their
\* own.
LEMMA EndpointOperationKeeps ==
    ASSUME CacheType, CacheInv, NEW actor, NEW e \in Endpoints,
           \/ graph_cache_upsert_endpoint(actor, e)
           \/ graph_cache_remove_endpoint_guid(actor, e)
    PROVE  /\ UNCHANGED <<cached_participants, cached_nodes>>
           /\ ProperEntries(cached_endpoints')
           /\ EntriesStep(e)
<1> DEFINE i == graph_cache_find_endpoint_locked(e)
<1>0. cached_endpoints \in Seq(CachedEndpoint) /\ ProperEntries(cached_endpoints)
  BY DEF CacheType, CacheInv
<1>1. /\ IsCached(e) => /\ i \in 1 .. Len(cached_endpoints)
                        /\ cached_endpoints[i].guid = e
      /\ ~IsCached(e) => \A j \in 1 .. Len(cached_endpoints) :
                            cached_endpoints[j].guid # e
  BY <1>0, FindEndpoint
<1> HIDE DEF i
<1>2. CASE graph_cache_upsert_endpoint(actor, e)
  <2>1. CASE Refuse
    BY <1>0, <2>1 DEF Refuse, cache, EntriesStep
  <2>2. CASE ~Refuse
    <3>1. /\ EndpointFits(e)
          /\ cached_endpoints' =
                IF IsCached(e) THEN [cached_endpoints EXCEPT ![i] = CachedAs(e)]
                               ELSE Append(cached_endpoints, CachedAs(e))
          /\ UNCHANGED <<cached_participants, cached_nodes>>
      BY <1>2, <2>2 DEF graph_cache_upsert_endpoint, i
    <3>2. CASE IsCached(e)
      <4>1. cached_endpoints' = [cached_endpoints EXCEPT ![i] = CachedAs(e)]
        BY <3>1, <3>2
      <4>2. PICK s \in Seq(CachedEndpoint) : s = cached_endpoints
        BY <1>0
      <4>3. [s EXCEPT ![i] = CachedAs(s[i].guid)] = s
        BY <1>0, <1>1, <3>2, <4>2, ReplacedEntry
      <4>4. UNCHANGED cached_endpoints
        BY <1>1, <3>2, <4>1, <4>2, <4>3
      <4> QED BY <1>0, <3>1, <4>4 DEF EntriesStep
    <3>3. CASE ~IsCached(e)
      <4>1. Len(cached_endpoints) # GRAPH_CACHE_MAX_ENDPOINTS
        BY <3>1, <3>3 DEF EndpointFits
      <4>2. cached_endpoints' = Append(cached_endpoints, CachedAs(e))
        BY <3>1, <3>3
      <4>3. ProperEntries(Append(cached_endpoints, CachedAs(e)))
        BY <1>0, <1>1, <3>3, <4>1, AppendedEntry
      <4> QED BY <3>1, <4>2, <4>3 DEF EntriesStep
    <3> QED BY <3>2, <3>3
  <2> QED BY <2>1, <2>2
<1>3. CASE graph_cache_remove_endpoint_guid(actor, e)
  <2>1. /\ cached_endpoints' = IF IsCached(e) THEN RemoveAt(cached_endpoints, i)
                                              ELSE cached_endpoints
        /\ UNCHANGED <<cached_participants, cached_nodes>>
    BY <1>3 DEF graph_cache_remove_endpoint_guid, i
  <2>2. IsCached(e) => ProperEntries(RemoveAt(cached_endpoints, i))
    BY <1>0, <1>1, RemovedEntry
  <2> QED BY <1>0, <1>1, <2>1, <2>2 DEF EntriesStep
<1> QED BY <1>2, <1>3

\* The initial cache.
LEMMA InitCacheInv == Init => CacheInv
<1> SUFFICES ASSUME Init PROVE CacheInv
  OBVIOUS
<1>1. /\ cached_participants = {Self} /\ cached_nodes = {}
      /\ cached_endpoints = <<>>
  BY DEF Init
<1>2. /\ IsFiniteSet({Self}) /\ Cardinality({Self}) = 1
      /\ IsFiniteSet({}) /\ Cardinality({}) = 0
  BY FS_Singleton, FS_EmptySet
<1>3. NodeInv
  BY <1>1, <1>2, LimitsArePositive DEF NodeInv, NodesHaveParticipant
<1>4. ProperEntries(<<>>)
  BY LimitsArePositive DEF ProperEntries
<1> QED BY <1>1, <1>3, <1>4 DEF CacheInv

\* graph_cache_remove_participant keeps CacheInv.
LEMMA RemoveParticipantKeepsAll ==
    ASSUME CacheType, CacheInv, NEW actor, NEW p,
           graph_cache_remove_participant(actor, p)
    PROVE  CacheInv'
<1>1. NodeInv'
  BY RemoveParticipantKeeps DEF CacheInv
<1>2. PICK s \in Seq(CachedEndpoint) : s = cached_endpoints
  BY DEF CacheType
<1>3. PICK keep : cached_endpoints' = Compact(s, keep)
  BY <1>2 DEF graph_cache_remove_participant
<1>4. ProperEntries(Compact(s, keep))
  BY <1>2, CompactedEntries DEF CacheInv
<1> QED BY <1>1, <1>3, <1>4 DEF CacheInv, ProperEntries

\* Every step keeps CacheInv.
LEMMA NextCacheInv == TypeInv /\ CacheInv /\ [Next]_vars => CacheInv'
<1> SUFFICES ASSUME TypeInv, CacheInv, [Next]_vars PROVE CacheInv'
  OBVIOUS
<1>0. CacheType /\ NodeInv
  BY DEF TypeInv, CacheInv
<1>1. CASE QuietStep
  BY <1>1 DEF QuietStep, cache, CacheInv, NodeInv, NodesHaveParticipant,
              ProperEntries
<1>2. ASSUME NodeInv', UNCHANGED cached_endpoints
      PROVE  CacheInv'
  BY <1>2 DEF CacheInv, ProperEntries
<1>3. ASSUME NEW actor, NEW e \in Endpoints,
             \/ graph_cache_upsert_endpoint(actor, e)
             \/ graph_cache_remove_endpoint_guid(actor, e)
      PROVE  CacheInv'
  <2>1. /\ UNCHANGED <<cached_participants, cached_nodes>>
        /\ ProperEntries(cached_endpoints')
    BY <1>0, <1>3, EndpointOperationKeeps
  <2>2. NodeInv'
    BY <1>0, <2>1 DEF NodeInv, NodesHaveParticipant
  <2> QED BY <2>1, <2>2 DEF CacheInv, ProperEntries
<1>4. ASSUME NEW actor, NEW s \in GraphSample,
             graph_cache_apply_snapshot(actor, s)
      PROVE  CacheInv'
  BY <1>0, <1>2, <1>4, ApplySnapshotKeeps
<1>5. ASSUME NEW actor, NEW p,
             \/ graph_cache_add_participant(actor, p)
             \/ graph_cache_remove_participant(actor, p)
      PROVE  CacheInv'
  BY <1>0, <1>2, <1>5, AddParticipantKeeps, RemoveParticipantKeepsAll
<1>6. CASE \E r \in Readers : ListenerOperation(r)
  BY <1>3, <1>4, <1>5, <1>6 DEF ListenerOperation
<1>7. CASE LocalOperation
  BY <1>3, <1>4, <1>7 DEF LocalOperation
<1> QED BY <1>1, <1>6, <1>7, NextOnCache

\* CacheInv holds in every state.
THEOREM CacheInvAlways == Spec => []CacheInv
<1>1. Init => CacheInv
  BY InitCacheInv
<1>2. TypeInv /\ CacheInv /\ [Next]_vars => CacheInv'
  BY NextCacheInv
<1> QED BY <1>1, <1>2, TypeInvAlways, PTL DEF Spec

\* None of the three arrays of the cache is written past its end, whatever the
\* limits are and whoever fills them.
THEOREM CacheStaysWithinLimits == Spec => []WithinLimits
<1>1. CacheInv => WithinLimits
  BY DEF CacheInv, NodeInv, ProperEntries, WithinLimits
<1> QED BY <1>1, CacheInvAlways, PTL

\* A node is never cached without its participant.
THEOREM NodesAlwaysHaveParticipant == Spec => []NodesHaveParticipant
<1>1. CacheInv => NodesHaveParticipant
  BY DEF CacheInv, NodeInv
<1> QED BY <1>1, CacheInvAlways, PTL

\* An endpoint never has two entries.
THEOREM EndpointsHaveOneEntry == Spec => []OneEntryPerEndpoint
<1>1. CacheInv => OneEntryPerEndpoint
  BY DEF CacheInv, ProperEntries, OneEntryPerEndpoint
<1> QED BY <1>1, CacheInvAlways, PTL

-----------------------------------------------------------------------------
(* The graph guard condition *)

\* An operation on the cache that changes it leaves its caller about to signal.
LEMMA OperationSignals ==
    ASSUME NEW actor,
           \/ \E p : \/ graph_cache_add_participant(actor, p)
                     \/ graph_cache_remove_participant(actor, p)
           \/ \E s : graph_cache_apply_snapshot(actor, s)
           \/ \E e : \/ graph_cache_upsert_endpoint(actor, e)
                     \/ graph_cache_remove_endpoint_guid(actor, e)
    PROVE  Unlock(actor) \/ Refuse
BY DEF graph_cache_add_participant, graph_cache_remove_participant,
       graph_cache_apply_snapshot, graph_cache_upsert_endpoint,
       graph_cache_remove_endpoint_guid

\* The initial signal, and the steps that move it along.
LEMMA NextSignalled ==
    TypeInv /\ ChangeIsSignalled /\ [Next]_vars => ChangeIsSignalled'
<1> SUFFICES ASSUME TypeInv, ChangeIsSignalled, [Next]_vars
             PROVE  ChangeIsSignalled'
  OBVIOUS
<1>1. CASE QuietStep
  BY <1>1 DEF QuietStep, ChangeIsSignalled
<1>2. ASSUME NEW actor, UNCHANGED graph_guard, Unlock(actor) \/ Refuse
      PROVE  ChangeIsSignalled'
  BY <1>2 DEF Unlock, Refuse, ChangeIsSignalled
<1>3. ASSUME NEW r \in Readers, ListenerOperation(r)
      PROVE  ChangeIsSignalled'
  <2>1. UNCHANGED graph_guard
    BY <1>3 DEF ListenerOperation
  <2>2. Unlock(r) \/ Refuse
    BY <1>3, OperationSignals DEF ListenerOperation
  <2> QED BY <1>2, <2>1, <2>2
<1>4. CASE LocalOperation
  <2>1. UNCHANGED graph_guard
    BY <1>4 DEF LocalOperation
  <2>2. Unlock("local") \/ Refuse
    BY <1>4, OperationSignals DEF LocalOperation
  <2> QED BY <1>2, <2>1, <2>2
<1> QED BY <1>1, <1>3, <1>4, NextOnCache

\* No lost wake-up, whichever listeners and calls run at once: a change the
\* application has not seen has triggered the graph guard condition, or is
\* about to.
THEOREM ChangesAreSignalled == Spec => []ChangeIsSignalled
<1>1. Init => ChangeIsSignalled
  BY DEF Init, ChangeIsSignalled
<1> QED BY <1>1, NextSignalled, TypeInvAlways, PTL DEF Spec

-----------------------------------------------------------------------------
(* The local part of the cache *)

OwnEntries == {e \in CachedEndpoint : e.participant_guid = Self}

\* The removal of another participant leaves this one's entries.
LEMMA RemovalLeavesOwnEntries ==
    ASSUME NEW s \in Seq(CachedEndpoint), NEW p, p # Self
    PROVE  Compact(Compact(s, {e \in Range(s) : e.participant_guid # p}),
                   OwnEntries)
                = Compact(s, OwnEntries)
<1>1. PICK wide, keep : /\ wide = {e \in Range(s) : e.participant_guid # p}
                        /\ keep = OwnEntries
  OBVIOUS
<1>2. \A i \in 1 .. Len(s) : s[i] \in keep => s[i] \in wide
  BY <1>1 DEF OwnEntries, Range
<1>3. Compact(Compact(s, wide), keep) = Compact(s, keep)
  BY <1>2, CompactCompact
<1> QED BY <1>1, <1>3

\* An operation on another participant's endpoint leaves this one's entries.
LEMMA EntriesStepLeavesOwn ==
    ASSUME CacheType, CacheInv, NEW e \in Endpoints, OwnerOf[e] # Self,
           EntriesStep(e)
    PROVE  Compact(cached_endpoints', OwnEntries)
                = Compact(cached_endpoints, OwnEntries)
<1>0. PICK s \in Seq(CachedEndpoint) : s = cached_endpoints
  BY DEF CacheType
<1>1. PICK keep : keep = OwnEntries
  OBVIOUS
<1>2. CachedAs(e) \in CachedEndpoint /\ CachedAs(e) \notin keep
  BY <1>1, CachedAsType DEF CachedAs, OwnEntries
<1>3. CASE cached_endpoints' = Append(cached_endpoints, CachedAs(e))
  <2>1. Compact(Append(s, CachedAs(e)), keep) = Compact(s, keep)
    BY <1>2, CompactAppend
  <2> QED BY <1>0, <1>1, <1>3, <2>1
<1>4. ASSUME NEW i \in 1 .. Len(cached_endpoints),
             cached_endpoints[i].guid = e,
             cached_endpoints' = RemoveAt(cached_endpoints, i)
      PROVE  Compact(cached_endpoints', OwnEntries)
                  = Compact(cached_endpoints, OwnEntries)
  <2>1. PICK new \in Seq(CachedEndpoint) :
            new = RemoveAt(s, i) /\ LacksEntry(new, s, i)
    BY <1>0, <1>4, RemovedEntry DEF CacheInv
  <2>2. s[i] = CachedAs(e)
    BY <1>0, <1>4 DEF CacheInv, ProperEntries
  <2>3. Compact(new, keep) = Compact(s, keep)
    BY <1>0, <1>2, <1>4, <2>1, <2>2, CompactLacks
  <2> QED BY <1>0, <1>1, <1>4, <2>1, <2>3
<1> QED BY <1>3, <1>4 DEF EntriesStep

\* What a listener does leaves the local part of the cache alone.
LEMMA ListenerLeavesLocalPart ==
    ASSUME TypeInv, CacheInv, NEW r, ListenerOperation(r)
    PROVE  LocalPart' = LocalPart
<1>0. LocalPart = <<Self \in cached_participants, NodesOf(Self),
                    Compact(cached_endpoints, OwnEntries)>>
  BY DEF LocalPart, OwnEntries
<1>1. LocalPart' = <<Self \in cached_participants', NodesOf(Self)',
                     Compact(cached_endpoints', OwnEntries)>>
  BY DEF LocalPart, OwnEntries
<1>2. ASSUME UNCHANGED cache
      PROVE  LocalPart' = LocalPart
  BY <1>2 DEF cache, LocalPart, NodesOf
<1>3. Self \notin Remotes
  BY KeysAreDistinct
<1>4. ASSUME NEW p \in Remotes, graph_cache_add_participant(r, p)
      PROVE  LocalPart' = LocalPart
  <2>1. CASE Refuse
    BY <1>2, <2>1 DEF Refuse
  <2>2. CASE ~Refuse
    <3>1. /\ cached_participants' = cached_participants \cup {p}
          /\ UNCHANGED <<cached_nodes, cached_endpoints>>
      BY <1>4, <2>2 DEF graph_cache_add_participant
    <3>2. Self \in cached_participants' <=> Self \in cached_participants
      BY <1>3, <3>1
    <3>3. NodesOf(Self)' = NodesOf(Self)
      BY <3>1 DEF NodesOf
    <3>4. (Self \in cached_participants') = (Self \in cached_participants)
      BY <3>2
    <3> QED BY <1>0, <1>1, <3>1, <3>3, <3>4, Zenon
  <2> QED BY <2>1, <2>2
<1>5. ASSUME NEW p \in Remotes, graph_cache_remove_participant(r, p)
      PROVE  LocalPart' = LocalPart
  <2>1. /\ cached_participants' = cached_participants \ {p}
        /\ cached_nodes' = cached_nodes \ NodesOf(p)
        /\ cached_endpoints' =
            Compact(cached_endpoints,
                    {e \in Range(cached_endpoints) : e.participant_guid # p})
    BY <1>5 DEF graph_cache_remove_participant
  <2>2. (Self \in cached_participants') = (Self \in cached_participants)
    BY <1>3, <2>1
  <2>3. NodesOf(Self)' = NodesOf(Self)
    BY <1>3, <2>1 DEF NodesOf
  <2>4. PICK s \in Seq(CachedEndpoint) : s = cached_endpoints
    BY DEF TypeInv, CacheType
  <2>5. Compact(cached_endpoints', OwnEntries)
            = Compact(cached_endpoints, OwnEntries)
    BY <1>3, <2>1, <2>4, RemovalLeavesOwnEntries
  <2> QED BY <1>0, <1>1, <2>2, <2>3, <2>5, Zenon
<1>6. ASSUME NEW s \in GraphSample, s.gid \in Remotes,
             graph_cache_apply_snapshot(r, s)
      PROVE  LocalPart' = LocalPart
  <2>1. CASE Refuse
    BY <1>2, <2>1 DEF Refuse
  <2>2. CASE ~Refuse
    <3>1. /\ cached_participants' = cached_participants \cup {s.gid}
          /\ cached_nodes' =
                (cached_nodes \ NodesOf(s.gid)) \cup SampleNodes(s)
          /\ UNCHANGED cached_endpoints
      BY <1>6, <2>2 DEF graph_cache_apply_snapshot
    <3>2. (Self \in cached_participants') = (Self \in cached_participants)
      BY <1>3, <1>6, <3>1
    <3>3. NodesOf(Self)' = NodesOf(Self)
      BY <1>3, <1>6, <3>1 DEF NodesOf, SampleNodes
    <3> QED BY <1>0, <1>1, <3>1, <3>2, <3>3, Zenon
  <2> QED BY <2>1, <2>2
<1>7. ASSUME NEW e \in Endpoints, OwnerOf[e] # Self,
             \/ graph_cache_upsert_endpoint(r, e)
             \/ graph_cache_remove_endpoint_guid(r, e)
      PROVE  LocalPart' = LocalPart
  <2>1. CacheType
    BY DEF TypeInv
  <2>2. UNCHANGED <<cached_participants, cached_nodes>> /\ EntriesStep(e)
    BY <1>7, <2>1, EndpointOperationKeeps
  <2>3. Compact(cached_endpoints', OwnEntries)
            = Compact(cached_endpoints, OwnEntries)
    BY <1>7, <2>1, <2>2, EntriesStepLeavesOwn
  <2>4. (Self \in cached_participants') = (Self \in cached_participants)
    BY <2>2
  <2>5. NodesOf(Self)' = NodesOf(Self)
    BY <2>2 DEF NodesOf
  <2> QED BY <1>0, <1>1, <2>3, <2>4, <2>5, Zenon
<1> QED BY <1>4, <1>5, <1>6, <1>7 DEF ListenerOperation

\* Whatever the listeners hear, late or out of step, of this participant or of
\* others, only a step of the local call changes what is cached of it.
THEOREM LocalPartIsOwn == Spec => ListenersLeaveLocalPartAlone
<1>1. TypeInv /\ CacheInv /\ [Next]_vars
            => [LocalPart' # LocalPart => local' # local]_vars
  <2> SUFFICES ASSUME TypeInv, CacheInv, [Next]_vars, LocalPart' # LocalPart
               PROVE  local' # local
    OBVIOUS
  <2>1. CASE QuietStep
    BY <2>1 DEF QuietStep, cache, LocalPart, NodesOf
  <2>2. CASE LocalOperation
    BY <2>2 DEF LocalOperation
  <2> QED BY <2>1, <2>2, NextOnCache, ListenerLeavesLocalPart
<1> QED BY <1>1, TypeInvAlways, CacheInvAlways, PTL
        DEF Spec, ListenersLeaveLocalPartAlone

-----------------------------------------------------------------------------
(* OrderInv: the snapshots that wait and those that are cached *)

\* The graph samples that are on their way into the cache, oldest first.
Pending == batch["graph"] \o queue["graph"]

\* A sample is what its participant wrote as its version-th snapshot.
Genuine(sample, snaps) ==
    /\ sample.version \in 1 .. Len(snaps[sample.gid])
    /\ sample.size = snaps[sample.gid][sample.version].size
    /\ sample.fits = snaps[sample.gid][sample.version].fits

\* Genuine samples, no later one of a participant older than an earlier one.
InOrder(samples, snaps) ==
    /\ samples \in Seq(GraphSample)
    /\ \A i \in 1 .. Len(samples) : Genuine(samples[i], snaps)
    /\ \A i, j \in 1 .. Len(samples) :
            i < j /\ samples[i].gid = samples[j].gid =>
                samples[i].version <= samples[j].version

\* No sample that waits is older than what is cached of its participant.
NoneIsOlder(nodes, samples) ==
    \A n \in nodes, i \in 1 .. Len(samples) :
        n.participant_guid \in Remotes
            /\ samples[i].gid = n.participant_guid =>
                n.name[1] <= samples[i].version

\* The nodes are those of one genuine sample of p that fits.
IsOneSnapshot(nodes, p, snaps) ==
    \E s \in GraphSample :
        s.gid = p /\ s.fits /\ Genuine(s, snaps) /\ nodes = SampleNodes(s)

OrderInv ==
    /\ InOrder(Pending, snapshots)
    /\ NoneIsOlder(cached_nodes, Pending)
    /\ \A p \in Participants :
            NodesOf(p) # {} => IsOneSnapshot(NodesOf(p), p, snapshots)

\* One more snapshot leaves the earlier ones.
LEMMA GenuineStays ==
    ASSUME NEW snaps \in [Participants -> Seq(Snapshots)],
           NEW p \in Participants, NEW new \in Snapshots,
           NEW s \in GraphSample, Genuine(s, snaps)
    PROVE  Genuine(s, [snaps EXCEPT ![p] = Append(@, new)])
<1>1. s.gid \in Participants
  BY DEF GraphSample
<1>2. PICK after : after = [snaps EXCEPT ![p] = Append(@, new)]
  OBVIOUS
<1>3. CASE s.gid # p
  <2>1. after[s.gid] = snaps[s.gid]
    BY <1>1, <1>2, <1>3
  <2> QED BY <1>2, <2>1 DEF Genuine
<1>4. CASE s.gid = p
  <2>1. PICK old \in Seq(Snapshots) : old = snaps[p]
    OBVIOUS
  <2>2. after[s.gid] = Append(old, new)
    BY <1>2, <1>4, <2>1
  <2>3. /\ Len(Append(old, new)) = Len(old) + 1 /\ Len(old) \in Nat
        /\ \A i \in 1 .. Len(old) : Append(old, new)[i] = old[i]
    BY AppendListing
  <2>4. /\ s.version \in 1 .. Len(old)
        /\ s.size = old[s.version].size /\ s.fits = old[s.version].fits
    BY <1>4, <2>1 DEF Genuine
  <2>5. Genuine(s, after)
    BY <2>2, <2>3, <2>4 DEF Genuine
  <2> QED BY <1>2, <2>5
<1> QED BY <1>3, <1>4

\* So the samples stay in order.
LEMMA InOrderStays ==
    ASSUME NEW snaps \in [Participants -> Seq(Snapshots)],
           NEW p \in Participants, NEW new \in Snapshots,
           NEW samples, InOrder(samples, snaps)
    PROVE  InOrder(samples, [snaps EXCEPT ![p] = Append(@, new)])
<1>1. \A i \in 1 .. Len(samples) :
        samples[i] \in GraphSample /\ Genuine(samples[i], snaps)
  BY DEF InOrder
<1>2. \A i \in 1 .. Len(samples) :
        Genuine(samples[i], [snaps EXCEPT ![p] = Append(@, new)])
  BY <1>1, GenuineStays
<1> QED BY <1>2 DEF InOrder

\* A participant's last snapshot goes to the end.
LEMMA InOrderAppend ==
    ASSUME NEW snaps \in [Participants -> Seq(Snapshots)],
           NEW samples, InOrder(samples, snaps),
           NEW s \in GraphSample, Genuine(s, snaps),
           s.version = Len(snaps[s.gid])
    PROVE  InOrder(Append(samples, s), snaps)
<1>0. PICK old \in Seq(GraphSample) : old = samples
  BY DEF InOrder
<1>1. PICK new \in Seq(GraphSample) : new = Append(old, s)
  <2>1. Append(old, s) \in Seq(GraphSample)
    OBVIOUS
  <2> QED BY <2>1
<1>2. /\ Len(new) = Len(old) + 1 /\ new[Len(old) + 1] = s /\ Len(old) \in Nat
      /\ \A i \in 1 .. Len(old) : new[i] = old[i]
  BY <1>1, AppendListing
<1>3. \A i \in 1 .. Len(new) : i = Len(old) + 1 \/ i \in 1 .. Len(old)
  BY <1>2
<1>4. \A i \in 1 .. Len(new) : Genuine(new[i], snaps)
  BY <1>0, <1>2, <1>3 DEF InOrder
<1>5. ASSUME NEW i \in 1 .. Len(new), NEW j \in 1 .. Len(new), i < j,
             new[i].gid = new[j].gid
      PROVE  new[i].version <= new[j].version
  <2>1. i \in 1 .. Len(old)
    BY <1>2, <1>3, <1>5
  <2>2. CASE j \in 1 .. Len(old)
    BY <1>0, <1>2, <1>5, <2>1, <2>2 DEF InOrder
  <2>3. CASE j = Len(old) + 1
    <3>1. new[j] = s /\ Genuine(new[i], snaps)
      BY <1>2, <1>4, <2>3
    <3>2. new[i].version \in 1 .. Len(snaps[s.gid])
      BY <1>5, <3>1 DEF Genuine
    <3> QED BY <3>1, <3>2
  <2> QED BY <1>3, <2>2, <2>3
<1> QED BY <1>0, <1>1, <1>4, <1>5 DEF InOrder

\* The oldest one is handled.
LEMMA InOrderTail ==
    ASSUME NEW snaps, NEW samples, InOrder(samples, snaps), samples # <<>>
    PROVE  InOrder(Tail(samples), snaps)
<1>0. PICK old \in Seq(GraphSample) : old = samples
  BY DEF InOrder
<1>1. PICK new \in Seq(GraphSample) :
        /\ new = Tail(old) /\ Len(new) = Len(old) - 1
        /\ \A i \in 1 .. Len(new) : new[i] = old[i + 1]
  BY <1>0, HeadTailProperties
<1>2. \A i \in 1 .. Len(new) : i + 1 \in 1 .. Len(old)
  BY <1>1
<1>3. \A i \in 1 .. Len(new) : Genuine(new[i], snaps)
  BY <1>0, <1>1, <1>2 DEF InOrder
<1>4. ASSUME NEW i \in 1 .. Len(new), NEW j \in 1 .. Len(new), i < j,
             new[i].gid = new[j].gid
      PROVE  new[i].version <= new[j].version
  <2>1. i + 1 \in 1 .. Len(old) /\ j + 1 \in 1 .. Len(old) /\ i + 1 < j + 1
    BY <1>2, <1>4
  <2>2. old[i + 1].gid = old[j + 1].gid
    BY <1>1, <1>4
  <2>3. old[i + 1].version <= old[j + 1].version
    BY <1>0, <2>1, <2>2 DEF InOrder
  <2> QED BY <1>1, <2>3
<1> QED BY <1>0, <1>1, <1>3, <1>4 DEF InOrder

\* Nothing older is left behind it, nor comes after it.
LEMMA NoneIsOlderTail ==
    ASSUME NEW nodes, NEW samples \in Seq(GraphSample), samples # <<>>,
           NoneIsOlder(nodes, samples)
    PROVE  NoneIsOlder(nodes, Tail(samples))
<1>1. PICK new \in Seq(GraphSample) :
        /\ new = Tail(samples) /\ Len(new) = Len(samples) - 1
        /\ \A i \in 1 .. Len(new) : new[i] = samples[i + 1]
  BY HeadTailProperties
<1>2. \A i \in 1 .. Len(new) : i + 1 \in 1 .. Len(samples)
  BY <1>1
<1>3. NoneIsOlder(nodes, new)
  <2> SUFFICES ASSUME NEW n \in nodes, NEW i \in 1 .. Len(new),
                      n.participant_guid \in Remotes,
                      new[i].gid = n.participant_guid
               PROVE  n.name[1] <= new[i].version
    BY DEF NoneIsOlder
  <2>1. i + 1 \in 1 .. Len(samples) /\ new[i] = samples[i + 1]
    BY <1>1, <1>2
  <2> QED BY <2>1 DEF NoneIsOlder
<1> QED BY <1>1, <1>3

\* What a step does to the samples on their way and to the snapshots.
PendingKeeps == UNCHANGED <<Pending, snapshots>>

PendingShrinks ==
    /\ Pending # <<>>
    /\ Pending' = Tail(Pending)
    /\ UNCHANGED snapshots

PendingRepeats ==
    \E p \in Participants :
        /\ snapshots[p] # <<>>
        /\ Pending' = Append(Pending, LastSample(p))
        /\ UNCHANGED <<snapshots, cache>>

PendingGrows ==
    \E p \in Participants, s \in Snapshots :
        /\ snapshots' = [snapshots EXCEPT ![p] = Append(@, s)]
        /\ Pending' = Append(Pending,
                             [gid |-> p, version |-> Len(snapshots[p]) + 1,
                              size |-> s.size, fits |-> s.fits])
        /\ UNCHANGED cache

\* The two parts of Pending.
LEMMA PendingParts ==
    ASSUME DdsType
    PROVE  /\ batch["graph"] \in Seq(GraphSample)
           /\ queue["graph"] \in Seq(GraphSample)
           /\ Pending \in Seq(GraphSample)
           /\ Len(Pending) = Len(batch["graph"]) + Len(queue["graph"])
           /\ batch["graph"] # <<>> => /\ Pending # <<>>
                                       /\ Pending[1] = Head(batch["graph"])
<1>1. "graph" \in Readers /\ ReaderSample("graph") = GraphSample
  BY DEF Readers, ReaderSample
<1>2. PICK b \in Seq(GraphSample), q \in Seq(GraphSample) :
        b = batch["graph"] /\ q = queue["graph"]
  BY <1>1 DEF DdsType, HoldsSamples
<1>3. /\ b \o q \in Seq(GraphSample) /\ Len(b \o q) = Len(b) + Len(q)
      /\ \A i \in 1 .. Len(b) + Len(q) :
            (b \o q)[i] = IF i <= Len(b) THEN b[i] ELSE q[i - Len(b)]
  BY ConcatProperties
<1>4. ASSUME b # <<>> PROVE b \o q # <<>> /\ (b \o q)[1] = Head(b)
  <2>1. Len(b) \in Nat \ {0} /\ Len(q) \in Nat
    BY <1>4
  <2>2. 1 \in 1 .. Len(b) + Len(q) /\ 1 <= Len(b)
    BY <2>1
  <2>3. (b \o q)[1] = b[1] /\ b[1] = Head(b)
    BY <1>3, <2>2
  <2>4. Len(b \o q) # 0
    BY <1>3, <2>1
  <2> QED BY <2>3, <2>4
<1> QED BY <1>2, <1>3, <1>4 DEF Pending

\* A sample joins the end of the reader's queue.
LEMMA PendingAppend ==
    ASSUME DdsType, NEW s \in GraphSample,
           batch'["graph"] = batch["graph"],
           queue'["graph"] = Append(queue["graph"], s)
    PROVE  Pending' = Append(Pending, s)
<1>1. PICK b \in Seq(GraphSample), q \in Seq(GraphSample) :
        b = batch["graph"] /\ q = queue["graph"]
  BY PendingParts
<1>2. <<s>> \in Seq(GraphSample) /\ b \o q \in Seq(GraphSample)
  OBVIOUS
<1>3. Append(q, s) = q \o <<s>> /\ Append(b \o q, s) = (b \o q) \o <<s>>
  BY <1>2, AppendIsConcat
<1>4. (b \o q) \o <<s>> = b \o (q \o <<s>>)
  BY <1>2, ConcatAssociative
<1> QED BY <1>1, <1>3, <1>4 DEF Pending

\* The listener handles the oldest sample.
LEMMA PendingTail ==
    ASSUME DdsType, batch["graph"] # <<>>,
           batch'["graph"] = Tail(batch["graph"]),
           queue'["graph"] = queue["graph"]
    PROVE  Pending # <<>> /\ Pending' = Tail(Pending)
<1>1. PICK b \in Seq(GraphSample), q \in Seq(GraphSample) :
        b = batch["graph"] /\ q = queue["graph"]
  BY PendingParts
<1>2. b \o q # <<>> /\ Tail(b) \o q = Tail(b \o q)
  BY <1>1, ConcatTail
<1> QED BY <1>1, <1>2 DEF Pending

\* The listener takes a batch.
LEMMA PendingTake ==
    ASSUME DdsType, NEW r \in Readers, dds_take(r)
    PROVE  Pending' = Pending
<1>1. "graph" \in Readers
  BY DEF Readers
<1>2. CASE r # "graph"
  <2>1. batch'["graph"] = batch["graph"] /\ queue'["graph"] = queue["graph"]
    BY <1>1, <1>2, TakeMoves DEF DdsType, HoldsSamples
  <2> QED BY <2>1 DEF Pending
<1>3. CASE r = "graph"
  <2>1. PICK q \in Seq(GraphSample) : q = queue["graph"]
    BY PendingParts
  <2>2. PICK n \in 0 .. Len(q) : n = BatchSize(r)
    BY <1>3, <2>1, TakeMoves
  <2>3. /\ batch["graph"] = <<>>
        /\ batch'["graph"] = SubSeq(q, 1, n)
        /\ queue'["graph"] = SubSeq(q, n + 1, Len(q))
    BY <1>1, <1>3, <2>1, <2>2, TakeMoves DEF DdsType, HoldsSamples
  <2>4. /\ 1 \in 1 .. Len(q) + 1 /\ n \in 1 - 1 .. Len(q)
        /\ Len(q) \in n .. Len(q)
    <3>1. Len(q) \in Nat
      OBVIOUS
    <3> QED BY <3>1
  <2>5. SubSeq(q, 1, n) \o SubSeq(q, n + 1, Len(q)) = SubSeq(q, 1, Len(q))
    BY <2>4, ConcatAdjacentSubSeq
  <2>6. SubSeq(q, 1, Len(q)) = q /\ <<>> \o q = q
    BY SubSeqFull, ConcatEmptySeq
  <2> QED BY <2>1, <2>3, <2>5, <2>6 DEF Pending
<1> QED BY <1>2, <1>3

\* News of a key does not reach the graph reader.
LEMMA NewsPassesBy ==
    ASSUME NEW q, HoldsSamples(q)
    PROVE  /\ \A k \in Keys : Appeared(q, k)["graph"] = q["graph"]
           /\ \A keys : Lost(q, keys)["graph"] = q["graph"]
<1>1. "graph" \in Readers
  BY DEF Readers
<1>2. ASSUME NEW k \in Keys
      PROVE  Appeared(q, k)["graph"] = q["graph"]
  <2>1. ReaderOf(k) # "graph" /\ ReaderOf(k) \in Readers
    BY ReaderOfKey
  <2>2. PICK x : Appeared(q, k) = [q EXCEPT ![ReaderOf(k)] = x]
    BY DEF Appeared
  <2> QED BY <1>1, <2>1, <2>2 DEF HoldsSamples
<1>3. ASSUME NEW keys
      PROVE  Lost(q, keys)["graph"] = q["graph"]
  BY <1>1 DEF Lost
<1> QED BY <1>2, <1>3

\* A snapshot is written.
LEMMA WriteGrows ==
    ASSUME DdsType, NEW p \in Participants, NEW s \in Snapshots, Write(p, s),
           UNCHANGED <<batch, cache>>
    PROVE  PendingGrows
<1>1. "graph" \in Readers /\ HoldsSamples(queue)
      /\ snapshots \in [Participants -> Seq(Snapshots)]
  BY DEF Readers, DdsType
<1>2. PICK sample \in GraphSample :
        sample = [gid |-> p, version |-> Len(snapshots[p]) + 1,
                  size |-> s.size, fits |-> s.fits]
  <2>1. s.size \in Nat /\ s.fits \in BOOLEAN
    BY BoundsAreNaturals
  <2>2. Len(snapshots[p]) \in Nat
    BY <1>1
  <2>3. [gid |-> p, version |-> Len(snapshots[p]) + 1,
         size |-> s.size, fits |-> s.fits] \in GraphSample
    BY <2>1, <2>2 DEF GraphSample
  <2> QED BY <2>3
<1>3. queue'["graph"] = Append(queue["graph"], sample)
  BY <1>1, <1>2 DEF Write, HoldsSamples
<1>4. Pending' = Append(Pending, sample)
  BY <1>3, PendingAppend
<1>5. snapshots' = [snapshots EXCEPT ![p] = Append(@, s)]
  BY DEF Write
<1> QED BY <1>2, <1>4, <1>5 DEF PendingGrows

\* Every step moves the samples along in one of these ways.
LEMMA NextOnPending ==
    ASSUME TypeInv, [Next]_vars
    PROVE  PendingKeeps \/ PendingShrinks \/ PendingRepeats \/ PendingGrows
<1>0. /\ DdsType /\ HoldsSamples(queue) /\ HoldsSamples(batch)
      /\ snapshots \in [Participants -> Seq(Snapshots)] /\ "graph" \in Readers
  BY DEF TypeInv, DdsType, Readers
<1>1. ASSUME UNCHANGED <<snapshots, batch>>, queue'["graph"] = queue["graph"]
      PROVE  PendingKeeps
  BY <1>1 DEF PendingKeeps, Pending
<1>2. ASSUME NEW p \in Remotes, ParticipantAppears(p)
      PROVE  PendingKeeps \/ PendingRepeats
  <2>1. /\ queue' = Redelivered(Appeared(queue, p), p)
        /\ UNCHANGED <<snapshots, batch, cache>>
    BY <1>2 DEF ParticipantAppears
  <2>2. p \in Participants /\ p \in Keys
    BY DEF Participants, Keys
  <2>3. PICK q : q = Appeared(queue, p)
    OBVIOUS
  <2>4. HoldsSamples(q) /\ q["graph"] = queue["graph"]
    BY <1>0, <2>2, <2>3, NewsPassesBy, AppearedType
  <2>5. CASE snapshots[p] = <<>>
    BY <1>1, <2>1, <2>3, <2>4, <2>5 DEF Redelivered
  <2>6. CASE snapshots[p] # <<>>
    <3>1. LastSample(p) \in GraphSample
      BY <1>0, <2>2, <2>6, LastSampleType
    <3>2. queue'["graph"] = Append(queue["graph"], LastSample(p))
      BY <1>0, <2>1, <2>3, <2>4, <2>6 DEF Redelivered, HoldsSamples
    <3>3. Pending' = Append(Pending, LastSample(p))
      BY <1>0, <2>1, <3>1, <3>2, PendingAppend
    <3> QED BY <2>1, <2>2, <2>6, <3>3 DEF PendingRepeats
  <2> QED BY <2>5, <2>6
<1>3. CASE Environment
  <2>1. ASSUME NEW p \in Remotes, NEW s \in Snapshots, RemoteWrite(p, s)
        PROVE  PendingGrows
    BY <1>0, <2>1, WriteGrows DEF RemoteWrite, Participants
  <2>2. ASSUME NEW p \in Remotes, ParticipantIsLost(p)
        PROVE  PendingKeeps
    <3>1. PICK keys : queue' = Lost(queue, keys) /\ UNCHANGED <<snapshots, batch>>
      BY <2>2 DEF ParticipantIsLost
    <3> QED BY <1>0, <1>1, <3>1, NewsPassesBy
  <2>3. ASSUME NEW e \in Endpoints, EndpointAppears(e) \/ EndpointIsLost(e)
        PROVE  PendingKeeps
    <3>1. UNCHANGED <<snapshots, batch>>
      BY <2>3 DEF EndpointAppears, EndpointIsLost
    <3>2. queue' = Appeared(queue, e) \/ \E keys : queue' = Lost(queue, keys)
      BY <2>3 DEF EndpointAppears, EndpointIsLost
    <3> QED BY <1>0, <1>1, <3>1, <3>2, NewsPassesBy DEF Keys
  <2> QED BY <1>2, <1>3, <2>1, <2>2, <2>3 DEF Environment
<1>4. ASSUME NEW r \in Readers, dds_take(r)
      PROVE  PendingKeeps
  BY <1>0, <1>4, PendingTake, TakeMoves DEF PendingKeeps
<1>5. ASSUME NEW r \in Readers, Handle(r)
      PROVE  PendingKeeps \/ PendingShrinks
  <2>1. /\ batch[r] # <<>> /\ batch' = [batch EXCEPT ![r] = Tail(batch[r])]
        /\ UNCHANGED <<snapshots, queue>>
    BY <1>5, HandleMoves
  <2>2. CASE r = "graph"
    <3>1. batch'["graph"] = Tail(batch["graph"])
      BY <1>0, <2>1, <2>2 DEF HoldsSamples
    <3>2. Pending # <<>> /\ Pending' = Tail(Pending)
      BY <1>0, <2>1, <2>2, <3>1, PendingTail
    <3> QED BY <2>1, <3>2 DEF PendingShrinks
  <2>3. CASE r # "graph"
    <3>1. batch'["graph"] = batch["graph"]
      BY <1>0, <2>1, <2>3 DEF HoldsSamples
    <3> QED BY <2>1, <3>1 DEF PendingKeeps, Pending
  <2> QED BY <2>2, <2>3
<1>6. CASE LocalCall
  <2>1. ASSUME NEW s \in Snapshots, LocalWrite(s)
        PROVE  PendingGrows
    BY <1>0, <2>1, WriteGrows DEF LocalWrite, Participants
  <2>2. ASSUME NEW e \in Endpoints, LocalCreate(e)
        PROVE  PendingKeeps
    <3>1. UNCHANGED <<snapshots, batch>> /\ queue' = Appeared(queue, e)
      BY <2>2 DEF LocalCreate
    <3> QED BY <1>0, <1>1, <3>1, NewsPassesBy DEF Keys
  <2>3. ASSUME NEW e \in Endpoints, LocalRemove(e)
        PROVE  PendingKeeps
    BY <1>1, <2>3 DEF LocalRemove, dds
  <2> QED BY <1>6, <2>1, <2>2, <2>3 DEF LocalCall
<1>7. CASE LocalContinue
  <2>1. CASE LocalApply \/ LocalUpsert \/ LocalNotify
    BY <1>1, <2>1 DEF LocalApply, LocalUpsert, LocalNotify, dds
  <2>2. CASE LocalDelete
    <3>1. PICK keys : queue' = Lost(queue, keys) /\ UNCHANGED <<snapshots, batch>>
      BY <2>2 DEF LocalDelete
    <3> QED BY <1>0, <1>1, <3>1, NewsPassesBy
  <2> QED BY <1>7, <2>1, <2>2 DEF LocalContinue
<1>8. CASE \/ \E actor \in Actors : graph_cache_signal(actor)
           \/ TakeGraphGuard
           \/ UNCHANGED vars
  BY <1>1, <1>8 DEF graph_cache_signal, TakeGraphGuard, vars, dds
<1> QED BY <1>3, <1>4, <1>5, <1>6, <1>7, <1>8 DEF Next, Listener

\* The samples stay in order.
LEMMA NextInOrder ==
    ASSUME TypeInv, InOrder(Pending, snapshots), [Next]_vars
    PROVE  InOrder(Pending', snapshots')
<1>0. snapshots \in [Participants -> Seq(Snapshots)]
  BY DEF TypeInv, DdsType
<1>1. CASE PendingKeeps
  BY <1>1 DEF PendingKeeps
<1>2. CASE PendingShrinks
  BY <1>2, InOrderTail DEF PendingShrinks
<1>3. CASE PendingRepeats
  <2>1. PICK p \in Participants :
            /\ snapshots[p] # <<>>
            /\ Pending' = Append(Pending, LastSample(p))
            /\ UNCHANGED snapshots
    BY <1>3 DEF PendingRepeats
  <2>2. PICK s \in GraphSample : s = LastSample(p)
    BY <1>0, <2>1, LastSampleType
  <2>3. s.gid = p /\ s.version = Len(snapshots[p])
    BY <1>0, <2>1, <2>2, LastSampleType
  <2>4. Len(snapshots[p]) \in 1 .. Len(snapshots[p])
    BY <1>0, <2>1
  <2>5. Genuine(s, snapshots)
    BY <2>2, <2>3, <2>4 DEF Genuine, LastSample, Last
  <2>6. InOrder(Append(Pending, s), snapshots)
    BY <1>0, <2>3, <2>5, InOrderAppend
  <2> QED BY <2>1, <2>2, <2>6
<1>4. CASE PendingGrows
  <2>1. PICK p \in Participants, new \in Snapshots :
            /\ snapshots' = [snapshots EXCEPT ![p] = Append(@, new)]
            /\ Pending' = Append(Pending,
                                 [gid |-> p, version |-> Len(snapshots[p]) + 1,
                                  size |-> new.size, fits |-> new.fits])
    BY <1>4 DEF PendingGrows
  <2>2. InOrder(Pending, snapshots')
    BY <1>0, <2>1, InOrderStays
  <2>3. PICK old \in Seq(Snapshots) : old = snapshots[p]
    BY <1>0
  <2>4. /\ snapshots'[p] = Append(old, new) /\ Len(old) \in Nat
        /\ Len(Append(old, new)) = Len(old) + 1
        /\ Append(old, new)[Len(old) + 1] = new
        /\ Append(old, new) \in Seq(Snapshots)
    BY <1>0, <2>1, <2>3, AppendListing
  <2>5. snapshots' \in [Participants -> Seq(Snapshots)]
    BY <1>0, <2>1, <2>3, <2>4
  <2>6. PICK s \in GraphSample :
            s = [gid |-> p, version |-> Len(snapshots[p]) + 1,
                 size |-> new.size, fits |-> new.fits]
    <3>1. new.size \in Nat /\ new.fits \in BOOLEAN
      BY BoundsAreNaturals
    <3>2. [gid |-> p, version |-> Len(snapshots[p]) + 1,
           size |-> new.size, fits |-> new.fits] \in GraphSample
      BY <2>3, <2>4, <3>1 DEF GraphSample
    <3> QED BY <3>2
  <2>7. s.gid = p /\ s.version = Len(snapshots'[p])
    BY <2>3, <2>4, <2>6
  <2>8. Genuine(s, snapshots')
    <3>1. s.version \in 1 .. Len(snapshots'[p])
      BY <2>4, <2>7
    <3>2. snapshots'[p][s.version] = new
      BY <2>3, <2>4, <2>6
    <3> QED BY <2>6, <2>7, <3>1, <3>2 DEF Genuine
  <2>9. InOrder(Append(Pending, s), snapshots')
    BY <2>2, <2>5, <2>7, <2>8, InOrderAppend
  <2> QED BY <2>1, <2>6, <2>9
<1> QED BY <1>1, <1>2, <1>3, <1>4, NextOnPending

\* A snapshot that may be applied next: the oldest sample on its way, or the
\* last one that this participant wrote.
IsNextSnapshot(s) ==
    /\ s \in GraphSample
    /\ s.fits
    /\ Genuine(s, snapshots)
    /\ \/ s.gid \in Remotes /\ Pending # <<>> /\ s = Pending[1]
       \/ s.gid = Self /\ s.version = Len(snapshots[Self])

\* What a step does to the cached nodes.
NodesStep ==
    \/ \E p : cached_nodes' = cached_nodes \ NodesOf(p)
    \/ UNCHANGED cached_nodes
    \/ \E s : /\ IsNextSnapshot(s)
              /\ cached_nodes' =
                    (cached_nodes \ NodesOf(s.gid)) \cup SampleNodes(s)

\* Every step does one of these to the nodes.
LEMMA NextOnNodes ==
    ASSUME TypeInv, CacheInv, InOrder(Pending, snapshots), [Next]_vars
    PROVE  NodesStep
<1>0. DdsType /\ CacheType
  BY DEF TypeInv
<1>1. CASE QuietStep
  BY <1>1 DEF QuietStep, cache, NodesStep
<1>2. ASSUME NEW actor, NEW s \in GraphSample,
             graph_cache_apply_snapshot(actor, s), s.fits => IsNextSnapshot(s)
      PROVE  NodesStep
  <2>1. CASE Refuse
    BY <2>1 DEF Refuse, cache, NodesStep
  <2>2. CASE ~Refuse
    <3>1. /\ SnapshotFits(s)
          /\ cached_nodes' =
                (cached_nodes \ NodesOf(s.gid)) \cup SampleNodes(s)
      BY <1>2, <2>2 DEF graph_cache_apply_snapshot
    <3>2. IsNextSnapshot(s)
      BY <1>2, <3>1 DEF SnapshotFits
    <3> QED BY <3>1, <3>2 DEF NodesStep
  <2> QED BY <2>1, <2>2
<1>3. ASSUME NEW actor, NEW e \in Endpoints,
             \/ graph_cache_upsert_endpoint(actor, e)
             \/ graph_cache_remove_endpoint_guid(actor, e)
      PROVE  NodesStep
  BY <1>0, <1>3, EndpointOperationKeeps DEF NodesStep
<1>4. ASSUME NEW r \in Readers, ListenerOperation(r)
      PROVE  NodesStep
  <2>1. ASSUME NEW p, \/ graph_cache_add_participant(r, p)
                      \/ graph_cache_remove_participant(r, p)
        PROVE  NodesStep
    BY <2>1 DEF graph_cache_add_participant, graph_cache_remove_participant,
                Refuse, cache, NodesStep
  <2>2. ASSUME NEW s \in GraphSample, batch["graph"] # <<>>,
               s = Head(batch["graph"]), s.gid \in Remotes,
               graph_cache_apply_snapshot(r, s)
        PROVE  NodesStep
    <3>1. Pending # <<>> /\ s = Pending[1] /\ Pending \in Seq(GraphSample)
      BY <1>0, <2>2, PendingParts
    <3>2. 1 \in 1 .. Len(Pending)
      BY <3>1
    <3>3. Genuine(s, snapshots)
      BY <3>1, <3>2 DEF InOrder
    <3> QED BY <1>2, <2>2, <3>1, <3>3 DEF IsNextSnapshot
  <2> QED BY <1>3, <1>4, <2>1, <2>2 DEF ListenerOperation
<1>5. CASE LocalOperation
  <2>1. ASSUME NEW s \in GraphSample, snapshots[Self] # <<>>,
               s = LastSample(Self), s.gid = Self,
               graph_cache_apply_snapshot("local", s)
        PROVE  NodesStep
    <3>1. Self \in Participants /\ snapshots[Self] \in Seq(Snapshots)
      BY <1>0 DEF Participants, DdsType
    <3>2. Len(snapshots[Self]) \in 1 .. Len(snapshots[Self])
      BY <2>1, <3>1
    <3>3. /\ s.version = Len(snapshots[Self])
          /\ Genuine(s, snapshots)
      BY <2>1, <3>2 DEF LastSample, Last, Genuine
    <3> QED BY <1>2, <2>1, <3>3 DEF IsNextSnapshot
  <2> QED BY <1>3, <1>5, <2>1 DEF LocalOperation
<1> QED BY <1>1, <1>4, <1>5, NextOnCache

\* The nodes of a sample tell its participant and its version.
LEMMA SampleNodesTell ==
    ASSUME NEW s, NEW n \in SampleNodes(s)
    PROVE  n.participant_guid = s.gid /\ n.name[1] = s.version
BY DEF SampleNodes

\* The cached nodes of a participant are of one version, that it wrote.
LEMMA CachedVersion ==
    ASSUME CacheType, OrderInv, NEW n \in cached_nodes
    PROVE  /\ n.participant_guid \in Participants
           /\ n.name[1] \in 1 .. Len(snapshots[n.participant_guid])
           /\ \A m \in cached_nodes :
                m.participant_guid = n.participant_guid => m.name[1] = n.name[1]
<1>1. PICK p \in Participants : p = n.participant_guid
  BY DEF CacheType, CachedNode
<1>2. n \in NodesOf(p)
  BY <1>1 DEF NodesOf
<1>3. PICK s \in GraphSample :
        s.gid = p /\ Genuine(s, snapshots) /\ NodesOf(p) = SampleNodes(s)
  BY <1>2 DEF OrderInv, IsOneSnapshot
<1>4. n.name[1] = s.version /\ s.version \in 1 .. Len(snapshots[p])
  BY <1>2, <1>3, SampleNodesTell DEF Genuine
<1>5. ASSUME NEW m \in cached_nodes, m.participant_guid = p
      PROVE  m.name[1] = s.version
  <2>1. m \in SampleNodes(s)
    BY <1>3, <1>5 DEF NodesOf
  <2> QED BY <2>1, SampleNodesTell
<1> QED BY <1>1, <1>4, <1>5

\* Applying the next snapshot leaves nothing older on its way.
LEMMA NodesStepKeepsOrder ==
    ASSUME TypeInv, OrderInv, NodesStep
    PROVE  NoneIsOlder(cached_nodes', Pending)
<1> SUFFICES ASSUME NEW n \in cached_nodes', NEW i \in 1 .. Len(Pending),
                    n.participant_guid \in Remotes,
                    Pending[i].gid = n.participant_guid
             PROVE  n.name[1] <= Pending[i].version
  BY DEF NoneIsOlder
<1>0. /\ NoneIsOlder(cached_nodes, Pending) /\ InOrder(Pending, snapshots)
      /\ Pending \in Seq(GraphSample)
  BY DEF OrderInv, InOrder
<1>1. CASE n \in cached_nodes
  BY <1>0, <1>1 DEF NoneIsOlder
<1>2. CASE n \notin cached_nodes
  <2>1. PICK s : IsNextSnapshot(s) /\ n \in SampleNodes(s)
    BY <1>2 DEF NodesStep
  <2>2. n.participant_guid = s.gid /\ n.name[1] = s.version
    BY <2>1, SampleNodesTell
  <2>3. s = Pending[1] /\ Pending # <<>>
    BY <2>1, <2>2, KeysAreDistinct DEF IsNextSnapshot
  <2>4. 1 \in 1 .. Len(Pending)
    BY <1>0, <2>3
  <2>5. CASE i = 1
    <3>1. s.version \in Nat
      BY <2>1 DEF IsNextSnapshot, GraphSample
    <3> QED BY <2>2, <2>3, <2>5, <3>1
  <2>6. CASE i # 1
    <3>1. 1 < i
      BY <2>6
    <3> QED BY <1>0, <2>2, <2>3, <2>4, <3>1 DEF InOrder
  <2> QED BY <2>5, <2>6
<1> QED BY <1>1, <1>2

\* A participant's nodes stay one snapshot.
LEMMA NodesStepKeepsSnapshots ==
    ASSUME OrderInv, NodesStep, UNCHANGED snapshots, NEW p \in Participants,
           NodesOf(p)' # {}
    PROVE  IsOneSnapshot(NodesOf(p)', p, snapshots')
<1>1. CASE NodesOf(p)' = NodesOf(p)
  BY <1>1 DEF OrderInv
<1>2. ASSUME NEW q, cached_nodes' = cached_nodes \ NodesOf(q)
      PROVE  NodesOf(p)' = NodesOf(p)
  <2>1. q # p
    BY <1>2 DEF NodesOf
  <2> QED BY <1>2, <2>1 DEF NodesOf
<1>3. ASSUME NEW s, IsNextSnapshot(s),
             cached_nodes' = (cached_nodes \ NodesOf(s.gid)) \cup SampleNodes(s)
      PROVE  IsOneSnapshot(NodesOf(p)', p, snapshots')
  <2>0. \A n \in SampleNodes(s) : n.participant_guid = s.gid
    BY SampleNodesTell
  <2>1. CASE s.gid # p
    <3>1. NodesOf(p)' = NodesOf(p)
      BY <1>3, <2>0, <2>1 DEF NodesOf
    <3> QED BY <1>1, <3>1
  <2>2. CASE s.gid = p
    <3>1. NodesOf(p)' = SampleNodes(s)
      BY <1>3, <2>0, <2>2 DEF NodesOf
    <3> QED BY <1>3, <2>2, <3>1 DEF IsOneSnapshot, IsNextSnapshot
  <2> QED BY <2>1, <2>2
<1>4. CASE UNCHANGED cached_nodes
  BY <1>1, <1>4 DEF NodesOf
<1> QED BY <1>1, <1>2, <1>3, <1>4 DEF NodesStep

\* A sample that joins the end is not older than what is cached.
LEMMA NoneIsOlderAppend ==
    ASSUME CacheType, OrderInv, NEW s \in GraphSample,
           s.version >= Len(snapshots[s.gid]),
           snapshots \in [Participants -> Seq(Snapshots)]
    PROVE  NoneIsOlder(cached_nodes, Append(Pending, s))
<1>0. PICK old \in Seq(GraphSample) : old = Pending
  BY DEF OrderInv, InOrder
<1>1. PICK new \in Seq(GraphSample) : new = Append(old, s)
  <2>1. Append(old, s) \in Seq(GraphSample)
    OBVIOUS
  <2> QED BY <2>1
<1>2. /\ Len(new) = Len(old) + 1 /\ new[Len(old) + 1] = s /\ Len(old) \in Nat
      /\ \A i \in 1 .. Len(old) : new[i] = old[i]
  BY <1>1, AppendListing
<1>3. ASSUME NEW n \in cached_nodes, NEW i \in 1 .. Len(new),
             n.participant_guid \in Remotes, new[i].gid = n.participant_guid
      PROVE  n.name[1] <= new[i].version
  <2>1. CASE i \in 1 .. Len(old)
    BY <1>0, <1>2, <1>3, <2>1 DEF OrderInv, NoneIsOlder
  <2>2. CASE i \notin 1 .. Len(old)
    <3>1. new[i] = s
      <4>1. i = Len(old) + 1
        BY <1>2, <2>2
      <4> QED BY <1>2, <4>1
    <3>2. n.name[1] \in 1 .. Len(snapshots[s.gid])
      BY <1>3, <3>1, CachedVersion
    <3>3. s.version \in Nat /\ Len(snapshots[s.gid]) \in Nat
      BY DEF GraphSample
    <3> QED BY <3>1, <3>2, <3>3
  <2> QED BY <2>1, <2>2
<1> QED BY <1>0, <1>1, <1>3 DEF NoneIsOlder

\* The initial state: nothing is on its way and no node is cached.
LEMMA InitOrder == Init => OrderInv
<1> SUFFICES ASSUME Init PROVE OrderInv
  OBVIOUS
<1>1. Pending = <<>> /\ cached_nodes = {}
  BY DEF Init, Pending, Readers
<1> QED BY <1>1 DEF OrderInv, InOrder, NoneIsOlder, NodesOf

\* Every step keeps OrderInv.
LEMMA NextOrder == TypeInv /\ CacheInv /\ OrderInv /\ [Next]_vars => OrderInv'
<1> SUFFICES ASSUME TypeInv, CacheInv, OrderInv, [Next]_vars PROVE OrderInv'
  OBVIOUS
<1>0. /\ InOrder(Pending, snapshots) /\ NoneIsOlder(cached_nodes, Pending)
      /\ snapshots \in [Participants -> Seq(Snapshots)] /\ CacheType
      /\ Pending \in Seq(GraphSample)
  BY DEF OrderInv, InOrder, TypeInv, DdsType
<1>1. InOrder(Pending', snapshots')
  BY <1>0, NextInOrder
<1>2. NodesStep
  BY <1>0, NextOnNodes
<1>3. ASSUME UNCHANGED snapshots
      PROVE  \A p \in Participants :
                NodesOf(p)' # {} => IsOneSnapshot(NodesOf(p)', p, snapshots')
  BY <1>2, <1>3, NodesStepKeepsSnapshots
<1>4. ASSUME NoneIsOlder(cached_nodes', Pending'),
             \A p \in Participants :
                NodesOf(p)' # {} => IsOneSnapshot(NodesOf(p)', p, snapshots')
      PROVE  OrderInv'
  BY <1>1, <1>4 DEF OrderInv, InOrder, Genuine, NoneIsOlder, IsOneSnapshot,
                    SampleNodes
<1>5. CASE PendingKeeps
  <2>1. NoneIsOlder(cached_nodes', Pending')
    BY <1>2, <1>5, NodesStepKeepsOrder DEF PendingKeeps
  <2> QED BY <1>3, <1>4, <1>5, <2>1 DEF PendingKeeps
<1>6. CASE PendingShrinks
  <2>1. Pending # <<>> /\ Pending' = Tail(Pending) /\ UNCHANGED snapshots
    BY <1>6 DEF PendingShrinks
  <2>2. NoneIsOlder(cached_nodes', Pending)
    BY <1>2, NodesStepKeepsOrder
  <2>3. NoneIsOlder(cached_nodes', Tail(Pending))
    BY <1>0, <2>1, <2>2, NoneIsOlderTail
  <2> QED BY <1>3, <1>4, <2>1, <2>3
<1>7. CASE PendingRepeats
  <2>1. PICK p \in Participants :
            /\ snapshots[p] # <<>>
            /\ Pending' = Append(Pending, LastSample(p))
            /\ UNCHANGED <<snapshots, cached_nodes>>
    BY <1>7 DEF PendingRepeats, cache
  <2>2. PICK s \in GraphSample : s = LastSample(p)
    BY <1>0, <2>1, LastSampleType
  <2>3. s.version >= Len(snapshots[s.gid])
    <3>1. s.gid = p /\ s.version = Len(snapshots[p]) /\ Len(snapshots[p]) \in Nat
      BY <1>0, <2>1, <2>2, LastSampleType
    <3> QED BY <3>1
  <2>4. NoneIsOlder(cached_nodes, Append(Pending, s))
    BY <1>0, <2>3, NoneIsOlderAppend
  <2>5. NoneIsOlder(cached_nodes', Pending')
    BY <2>1, <2>2, <2>4
  <2> QED BY <1>3, <1>4, <2>1, <2>5
<1>8. CASE PendingGrows
  <2>1. PICK p \in Participants, new \in Snapshots :
            /\ snapshots' = [snapshots EXCEPT ![p] = Append(@, new)]
            /\ Pending' = Append(Pending,
                                 [gid |-> p, version |-> Len(snapshots[p]) + 1,
                                  size |-> new.size, fits |-> new.fits])
            /\ UNCHANGED cached_nodes
    BY <1>8 DEF PendingGrows, cache
  <2>2. Len(snapshots[p]) \in Nat
    BY <1>0
  <2>3. PICK s \in GraphSample :
            s = [gid |-> p, version |-> Len(snapshots[p]) + 1,
                 size |-> new.size, fits |-> new.fits]
    <3>1. new.size \in Nat /\ new.fits \in BOOLEAN
      BY BoundsAreNaturals
    <3>2. [gid |-> p, version |-> Len(snapshots[p]) + 1,
           size |-> new.size, fits |-> new.fits] \in GraphSample
      BY <2>2, <3>1 DEF GraphSample
    <3> QED BY <3>2
  <2>4. s.version >= Len(snapshots[s.gid])
    BY <2>2, <2>3
  <2>5. NoneIsOlder(cached_nodes, Append(Pending, s))
    BY <1>0, <2>4, NoneIsOlderAppend
  <2>6. NoneIsOlder(cached_nodes', Pending')
    BY <2>1, <2>3, <2>5
  <2>7. ASSUME NEW q \in Participants, NodesOf(q)' # {}
        PROVE  IsOneSnapshot(NodesOf(q)', q, snapshots')
    <3>1. NodesOf(q)' = NodesOf(q)
      BY <2>1 DEF NodesOf
    <3>2. PICK x \in GraphSample :
            /\ x.gid = q /\ x.fits /\ Genuine(x, snapshots)
            /\ NodesOf(q) = SampleNodes(x)
      BY <2>7, <3>1 DEF OrderInv, IsOneSnapshot
    <3>3. Genuine(x, snapshots')
      BY <1>0, <2>1, <3>2, GenuineStays
    <3> QED BY <3>1, <3>2, <3>3 DEF IsOneSnapshot
  <2> QED BY <1>4, <2>6, <2>7
<1> QED BY <1>5, <1>6, <1>7, <1>8, NextOnPending

\* OrderInv holds in every state.
THEOREM OrderInvAlways == Spec => []OrderInv
<1>1. Init => OrderInv
  BY InitOrder
<1>2. TypeInv /\ CacheInv /\ OrderInv /\ [Next]_vars => OrderInv'
  BY NextOrder
<1> QED BY <1>1, <1>2, TypeInvAlways, CacheInvAlways, PTL DEF Spec

\* The cached nodes of a participant are always one whole snapshot that it
\* wrote, for every limit and every size of snapshot.
THEOREM SnapshotsAreWhole == Spec => []WholeSnapshots
<1>1. TypeInv /\ OrderInv => WholeSnapshots
  <2> SUFFICES ASSUME TypeInv, OrderInv, NEW p \in Participants,
                      NodesOf(p) # {}
               PROVE  \E v \in 1 .. Len(snapshots[p]) :
                        /\ snapshots[p][v].fits
                        /\ NodesOf(p) = SampleNodes(SampleOf(p, v))
    BY DEF WholeSnapshots
  <2>1. PICK s \in GraphSample :
            /\ s.gid = p /\ s.fits /\ Genuine(s, snapshots)
            /\ NodesOf(p) = SampleNodes(s)
    BY DEF OrderInv, IsOneSnapshot
  <2>2. PICK v \in 1 .. Len(snapshots[p]) : v = s.version
    BY <2>1 DEF Genuine
  <2>3. s.size = snapshots[p][v].size /\ s.fits = snapshots[p][v].fits
    BY <2>1, <2>2 DEF Genuine
  <2>4. s = SampleOf(p, v)
    BY <2>1, <2>2, <2>3 DEF SampleOf, GraphSample
  <2>5. snapshots[p][v].fits
    BY <2>1, <2>3
  <2> QED BY <2>1, <2>4, <2>5
<1> QED BY <1>1, TypeInvAlways, OrderInvAlways, PTL

\* Nodes never go back to an older snapshot, however long samples wait.
THEOREM SnapshotsOnlyAdvance == Spec => SnapshotsAdvance
<1>1. TypeInv /\ CacheInv /\ OrderInv /\ [Next]_vars =>
        [\A n \in cached_nodes, m \in cached_nodes' :
            n.participant_guid = m.participant_guid =>
                n.name[1] <= m.name[1]]_vars
  <2> SUFFICES ASSUME TypeInv, CacheInv, OrderInv, [Next]_vars,
                      NEW n \in cached_nodes, NEW m \in cached_nodes',
                      n.participant_guid = m.participant_guid
               PROVE  n.name[1] <= m.name[1]
    OBVIOUS
  <2>0. /\ InOrder(Pending, snapshots) /\ NoneIsOlder(cached_nodes, Pending)
        /\ CacheType /\ Pending \in Seq(GraphSample)
        /\ snapshots \in [Participants -> Seq(Snapshots)]
    BY DEF OrderInv, InOrder, TypeInv, DdsType
  <2>1. /\ n.name[1] \in 1 .. Len(snapshots[n.participant_guid])
        /\ n.participant_guid \in Participants
    BY <2>0, CachedVersion
  <2>2. CASE m \in cached_nodes
    <3>1. n.name[1] = m.name[1]
      BY <2>0, <2>2, CachedVersion
    <3> QED BY <2>1, <3>1
  <2>3. CASE m \notin cached_nodes
    <3>1. NodesStep
      BY <2>0, NextOnNodes
    <3>2. PICK s : IsNextSnapshot(s) /\ m \in SampleNodes(s)
      BY <2>3, <3>1 DEF NodesStep
    <3>3. m.participant_guid = s.gid /\ m.name[1] = s.version
      BY <3>2, SampleNodesTell
    <3>4. CASE s.gid \in Remotes /\ Pending # <<>> /\ s = Pending[1]
      <4>1. 1 \in 1 .. Len(Pending)
        BY <2>0, <3>4
      <4> QED BY <2>0, <3>3, <3>4, <4>1 DEF NoneIsOlder
    <3>5. CASE s.gid = Self /\ s.version = Len(snapshots[Self])
      <4>1. Len(snapshots[n.participant_guid]) \in Nat
        BY <2>0, <2>1
      <4> QED BY <2>1, <3>3, <3>5, <4>1
    <3> QED BY <3>2, <3>4, <3>5 DEF IsNextSnapshot
  <2> QED BY <2>2, <2>3
<1> QED BY <1>1, TypeInvAlways, CacheInvAlways, OrderInvAlways, PTL
        DEF Spec, SnapshotsAdvance
=============================================================================
