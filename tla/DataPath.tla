------------------------------ MODULE DataPath ------------------------------
(***************************************************************************)
(* The way of a message: rmw_publish converts it into the publisher's one  *)
(* DDS sample and writes that, rmw_take_with_info takes into the           *)
(* subscription's one DDS sample and converts back.  Threads that share an *)
(* endpoint share its sample; sample_lock, a spin lock, is held from the   *)
(* memset to the end of the conversion or the write.                       *)
(*                                                                         *)
(* The endpoints are created with a ROS QoS profile, which is validated    *)
(* and mapped to DDS policies.  Between writer and reader is DDS, modelled *)
(* by what these policies mean: keep-last histories at both ends,          *)
(* best-effort samples that may be lost, samples retained for readers that *)
(* join late, and a dds_write that may block until what was written before *)
(* is acknowledged.                                                        *)
(*                                                                         *)
(* A message is its number in the order of the rmw_publish calls; the      *)
(* history records which messages were written and taken.                  *)
(***************************************************************************)
EXTENDS Naturals, Integers, Sequences, FiniteSets, SequencesExt

CONSTANTS
    PublishingThreads, TakingThreads,
    NULL,
    Profiles,           \* the QoS profiles applications ask for
    INT32_MAX,          \* 2^k - 1: the width of a DDS history depth
    MaxMessages,        \* bound: calls of rmw_publish
    MaxFaults           \* bound: conversions and DDS calls that fail

Threads == PublishingThreads \cup TakingThreads

ASSUME ThreadsAreDistinct ==
    /\ PublishingThreads \cap TakingThreads = {}
    /\ NULL \notin Threads \cup Nat
    /\ INT32_MAX \in Nat /\ MaxMessages \in Nat /\ MaxFaults \in Nat
    /\ Profiles \subseteq
        [history : {"keep_last", "keep_all", "system_default"}, depth : Nat,
         reliability : {"reliable", "best_effort", "system_default"},
         durability : {"volatile", "transient_local", "system_default"},
         avoid_ros_namespace_conventions : BOOLEAN]

VARIABLES
    publisher, subscription,    \* [qos, dds], or NULL
    sample_lock,    \* endpoint -> the thread in its critical section, or NULL
    dds_sample,     \* endpoint -> the message in its sample, NULL when zeroed
    call,           \* thread -> the rmw_publish or rmw_take in progress
    faults,
    \* DDS
    written,        \* the messages written, in order
    joined,         \* Len(written) when the reader matched, NULL before
    wire,           \* positions in written on their way to the reader
    cache,          \* the positions in written that the reader holds
    invalid,        \* whether it also holds a sample without data
    \* history
    consumed,       \* positions that dds_take handed out
    taken,          \* the messages rmw_take returned, in order
    refused         \* the messages whose rmw_publish failed

endpoints == <<publisher, subscription>>
dds == <<written, joined, wire, cache, invalid>>
history == <<consumed, taken, refused>>
vars == <<endpoints, sample_lock, dds_sample, call, faults, dds, history>>

Idle == [pc |-> "idle", message |-> NULL]
SideOf(t) == IF t \in PublishingThreads THEN "publisher" ELSE "subscription"

Init ==
    /\ publisher = NULL
    /\ subscription = NULL
    /\ sample_lock = [side \in {"publisher", "subscription"} |-> NULL]
    /\ dds_sample = [side \in {"publisher", "subscription"} |-> NULL]
    /\ call = [t \in Threads |-> Idle]
    /\ faults = 0
    /\ written = <<>>
    /\ joined = NULL
    /\ wire = <<>>
    /\ cache = <<>>
    /\ invalid = FALSE
    /\ consumed = {}
    /\ taken = <<>>
    /\ refused = {}

-----------------------------------------------------------------------------
(* QoS *)

\* Mutant: the depth is not compared with INT32_MAX.
qos_is_supported_any_depth(qos) ==
    /\ qos.history = "keep_last"
    /\ qos.depth # 0
    /\ qos.reliability \in {"best_effort", "reliable"}
    /\ qos.durability \in {"volatile", "transient_local"}
    /\ ~qos.avoid_ros_namespace_conventions

qos_is_supported(qos) ==
    /\ qos.history = "keep_last"
    /\ qos.depth # 0
    /\ qos.depth <= INT32_MAX
    /\ qos.reliability \in {"best_effort", "reliable"}
    /\ qos.durability \in {"volatile", "transient_local"}
    /\ ~qos.avoid_ros_namespace_conventions

\* The conversion (int32_t)depth.
ToInt32(depth) ==
    LET low == depth % (2 * (INT32_MAX + 1))
    IN  IF low <= INT32_MAX THEN low ELSE low - 2 * (INT32_MAX + 1)

\* The durability service depth is 1 unless it is set.
create_dds_qos(qos, writer) ==
    [depth |-> ToInt32(qos.depth),
     reliable |-> qos.reliability = "reliable",
     transient_local |-> qos.durability = "transient_local",
     service_depth |->
        IF writer /\ qos.durability = "transient_local"
        THEN ToInt32(qos.depth) ELSE 1]

\* rmw_create_publisher and rmw_create_subscription, as far as QoS goes.
CreatePublisher(qos) ==
    /\ publisher = NULL
    /\ qos_is_supported(qos)
    /\ publisher' = [qos |-> qos, dds |-> create_dds_qos(qos, TRUE)]
    /\ UNCHANGED <<subscription, sample_lock, dds_sample, call, faults, dds,
                   history>>

CreateSubscription(qos) ==
    /\ subscription = NULL
    /\ qos_is_supported(qos)
    /\ subscription' = [qos |-> qos, dds |-> create_dds_qos(qos, FALSE)]
    /\ UNCHANGED <<publisher, sample_lock, dds_sample, call, faults, dds,
                   history>>

-----------------------------------------------------------------------------
(* DDS *)

rmw_publisher_get_actual_qos == publisher.qos
rmw_subscription_get_actual_qos == subscription.qos
rmw_publisher_count_matched_subscriptions == IF joined = NULL THEN 0 ELSE 1
rmw_subscription_count_matched_publishers == IF joined = NULL THEN 0 ELSE 1

LastOf(s, n) == SubSeq(s, IF Len(s) > n THEN Len(s) - n + 1 ELSE 1, Len(s))

Positions == [i \in 1 .. Len(written) |-> i]

\* A writer and a reader match when the writer offers what the reader
\* requests.  A transient-local reader then gets what the writer retained.
Match ==
    /\ publisher # NULL /\ subscription # NULL
    /\ joined = NULL
    /\ subscription.dds.reliable => publisher.dds.reliable
    /\ subscription.dds.transient_local => publisher.dds.transient_local
    /\ joined' = Len(written)
    /\ wire' = IF subscription.dds.transient_local
               THEN LastOf(Positions, publisher.dds.service_depth) ELSE <<>>
    /\ UNCHANGED <<endpoints, sample_lock, dds_sample, call, faults, written,
                   cache, invalid, history>>

\* A reliable writer repeats at most its history until it is acknowledged.
Send(position) ==
    wire' = IF rmw_publisher_count_matched_subscriptions = 0 THEN wire
            ELSE IF subscription.dds.reliable
            THEN LastOf(Append(wire, position), publisher.dds.depth)
            ELSE Append(wire, position)

\* The reader keeps the last samples of its depth and acknowledges.
Deliver ==
    /\ wire # <<>>
    /\ cache' = LastOf(Append(cache, Head(wire)), subscription.dds.depth)
    /\ invalid' = FALSE
    /\ wire' = Tail(wire)
    /\ UNCHANGED <<endpoints, sample_lock, dds_sample, call, faults, written,
                   joined, history>>

Lose ==
    /\ wire # <<>>
    /\ ~subscription.dds.reliable
    /\ wire' = Tail(wire)
    /\ UNCHANGED <<endpoints, sample_lock, dds_sample, call, faults, written,
                   joined, cache, invalid, history>>

Fault ==
    /\ faults < MaxFaults
    /\ faults' = faults + 1

\* A writer elsewhere on the topic goes away; the reader reports the change in
\* a sample without data.
OtherWriterLeaves ==
    /\ subscription # NULL
    /\ Fault
    /\ invalid' = TRUE
    /\ UNCHANGED <<endpoints, sample_lock, dds_sample, call, written, joined,
                   wire, cache, history>>

-----------------------------------------------------------------------------
(* rmw_publish and rmw_take_with_info *)

\* Mutant: the loop does not wait for the flag to be clear.
lock_sample_barging(t) == TRUE

\* The flag is clear; setting it ends the loop.
lock_sample(t) == sample_lock[SideOf(t)] = NULL

\* The call of thread t goes on at pc, with the given sample.
Continue(t, pc, message, sample) ==
    /\ call' = [call EXCEPT ![t] = [pc |-> pc, message |-> message]]
    /\ dds_sample' = [dds_sample EXCEPT ![SideOf(t)] = sample]
    /\ sample_lock' = [sample_lock EXCEPT ![SideOf(t)] = t]
    /\ UNCHANGED endpoints

\* unlock_sample, and the call returns.
Return(t) ==
    /\ call' = [call EXCEPT ![t] = Idle]
    /\ sample_lock' = [sample_lock EXCEPT ![SideOf(t)] = NULL]
    /\ UNCHANGED <<dds_sample, endpoints>>

\* The messages of all calls so far: this many.
Published == Len(written) + Cardinality(refused)
                + Cardinality({t \in PublishingThreads : call[t].pc # "idle"})

rmw_publish(t) ==
    /\ t \in PublishingThreads
    /\ publisher # NULL
    /\ call[t].pc = "idle"
    /\ Published < MaxMessages
    /\ call' = [call EXCEPT ![t] = [pc |-> "lock", message |-> Published + 1]]
    /\ UNCHANGED <<endpoints, sample_lock, dds_sample, faults, dds, history>>

\* The lock, then memset.
LockAndClear(t) ==
    /\ call[t].pc = "lock"
    /\ lock_sample(t)
    /\ Continue(t, "locked", call[t].message, NULL)
    /\ UNCHANGED <<faults, dds, history>>

\* Mutant: an early return without unlock_sample.
ConversionFailsLocked(t) ==
    /\ Fault
    /\ call' = [call EXCEPT ![t] = Idle]
    /\ UNCHANGED <<sample_lock, dds_sample, endpoints>>

\* A conversion returns false.
ConversionFails(t) == Fault /\ Return(t)

ros_to_dds(t) ==
    /\ t \in PublishingThreads
    /\ call[t].pc = "locked"
    /\ \/ /\ Continue(t, "converted", call[t].message, call[t].message)
          /\ UNCHANGED <<faults, refused>>
       \/ /\ ConversionFails(t)
          /\ refused' = refused \cup {call[t].message}
    /\ UNCHANGED <<dds, consumed, taken>>

\* dds_write of the sample.
Write(t) ==
    /\ call[t].pc = "converted"
    /\ written' = Append(written, dds_sample["publisher"])
    /\ Send(Len(written) + 1)
    /\ Return(t)
    /\ UNCHANGED <<faults, joined, cache, invalid, history>>

WriteFails(t) ==
    /\ call[t].pc = "converted"
    /\ Fault
    /\ Return(t)
    /\ refused' = refused \cup {call[t].message}
    /\ UNCHANGED <<dds, consumed, taken>>

\* The read condition, DDS_ANY_STATE: rmw_wait reports the subscription.
DataAvailable == cache # <<>> \/ invalid

rmw_take(t) ==
    /\ t \in TakingThreads
    /\ subscription # NULL
    /\ call[t].pc = "idle"
    /\ DataAvailable
    /\ call' = [call EXCEPT ![t].pc = "lock"]
    /\ UNCHANGED <<endpoints, sample_lock, dds_sample, faults, dds, history>>

\* Mutant: dds_read, which leaves the sample in the reader.
dds_read(t) ==
    /\ cache # <<>>
    /\ Continue(t, "converting", NULL, written[Head(cache)])
    /\ consumed' = consumed \cup {Head(cache)}
    /\ UNCHANGED <<cache, invalid>>

\* dds_take of one sample.
dds_take(t) ==
    /\ cache # <<>>
    /\ Continue(t, "converting", NULL, written[Head(cache)])
    /\ consumed' = consumed \cup {Head(cache)}
    /\ cache' = Tail(cache)
    /\ UNCHANGED invalid

\* Mutant: the sample info is read first, and only samples with data are taken.
dds_read_nothing(t) ==
    /\ cache = <<>>
    /\ Return(t)
    /\ UNCHANGED <<invalid, cache, consumed>>

\* Nothing, or a sample without data: taken is false.
dds_take_nothing(t) ==
    /\ cache = <<>>
    /\ Return(t)
    /\ invalid' = FALSE
    /\ UNCHANGED <<cache, consumed>>

Take(t) ==
    /\ t \in TakingThreads
    /\ call[t].pc = "locked"
    /\ \/ dds_take(t) /\ UNCHANGED faults
       \/ dds_take_nothing(t) /\ UNCHANGED faults
       \/ Fault /\ Return(t) /\ UNCHANGED <<cache, invalid, consumed>>
    /\ UNCHANGED <<written, joined, wire, taken, refused>>

dds_to_ros(t) ==
    /\ call[t].pc = "converting"
    /\ \/ /\ Return(t)
          /\ taken' = Append(taken, dds_sample["subscription"])
          /\ UNCHANGED faults
       \/ ConversionFails(t) /\ UNCHANGED taken
    /\ UNCHANGED <<dds, consumed, refused>>

-----------------------------------------------------------------------------
Next ==
    \/ \E qos \in Profiles : CreatePublisher(qos) \/ CreateSubscription(qos)
    \/ Match \/ Deliver \/ Lose \/ OtherWriterLeaves
    \/ \E t \in Threads :
        \/ rmw_publish(t) \/ rmw_take(t) \/ LockAndClear(t)
        \/ ros_to_dds(t) \/ Write(t) \/ WriteFails(t)
        \/ Take(t) \/ dds_to_ros(t)

Spec == Init /\ [][Next]_vars

\* What a thread inside its critical section is sure to do.  dds_write, with
\* DDS_INFINITY to wait, only surely returns once everything written before
\* was acknowledged.
Proceed(t) ==
    \/ ros_to_dds(t) \/ Take(t) \/ dds_to_ros(t)
    \/ wire = <<>> /\ Write(t)

\* The network delivers in the end, and some thread of the application goes on
\* taking while data is available.  Nothing is assumed of a publishing thread
\* that spins for the lock.
FairSpec ==
    /\ Spec
    /\ \A t \in Threads : WF_vars(Proceed(t))
    /\ WF_vars(Deliver)
    /\ WF_vars(\E t \in TakingThreads : rmw_take(t) \/ LockAndClear(t))

-----------------------------------------------------------------------------
(* Properties *)

\* Threads that publish on one publisher at once do not get into each other's
\* sample: what was written is, each once, the messages whose rmw_publish
\* returned OK.
PublishedExactlyOnce ==
    /\ IsInjective(written)
    /\ Range(written) = (1 .. Published)
            \ (refused \cup {call[t].message : t \in PublishingThreads})

\* Threads that take from one subscription at once get different messages, in
\* the order in which they were written.
TakesAreOrdered ==
    \A i, j \in 1 .. Len(taken) :
        i < j => \E a, b \in 1 .. Len(written) :
            a < b /\ written[a] = taken[i] /\ written[b] = taken[j]

\* The promise of docs/transient-local.md, in terms of the profiles that the
\* actual-QoS queries report: of the messages since a reliable subscription
\* matched, the last of the smaller depth are neither lost nor skipped.  A late
\* transient-local subscription is owed the publisher's last ones too.
ReliableKeepsLast ==
    LET pub == rmw_publisher_get_actual_qos
        sub == rmw_subscription_get_actual_qos
    IN  rmw_subscription_count_matched_publishers = 1
        /\ sub.reliability = "reliable" =>
        LET since == IF sub.durability = "transient_local"
                     THEN joined - pub.depth ELSE joined
            depth == IF pub.depth < sub.depth THEN pub.depth ELSE sub.depth
        IN  \A i \in 1 .. Len(written) :
                i > since /\ Len(written) - i < depth =>
                    i \in Range(wire) \cup Range(cache) \cup consumed

\* Nobody spins forever: sample_lock is released again and again, whatever
\* fails inside and although dds_write may wait for acknowledgements.
SampleLockIsReleased ==
    \A side \in {"publisher", "subscription"} :
        sample_lock[side] # NULL ~> sample_lock[side] = NULL

\* An application that takes once each time rmw_wait reports the subscription
\* gets to the end of the data, past samples without data and failing calls.
DataIsConsumed == DataAvailable ~> ~DataAvailable
=============================================================================
