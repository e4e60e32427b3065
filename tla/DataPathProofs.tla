--------------------------- MODULE DataPathProofs ---------------------------
(***************************************************************************)
(* What is proved of DataPath for any number of publishing and taking      *)
(* threads, messages and faults, any set of QoS profiles and any width of  *)
(* a DDS history depth.                                                    *)
(*                                                                         *)
(* DataInv has four parts.  ThreadInv: sample_lock keeps the threads of an *)
(* endpoint apart, so a sample holds what its thread put there.  CountInv: *)
(* each message is being published, refused or written, in one place only. *)
(* OrderInv: the positions in written go from the wire to the reader's     *)
(* cache to the taking threads in increasing order.  TakenInv: what was    *)
(* taken are such positions, and a conversion in progress holds a later    *)
(* one.                                                                    *)
(***************************************************************************)
EXTENDS DataPath, SequenceLemmas

Sides == {"publisher", "subscription"}
Phases == {"idle", "lock", "locked", "converted", "converting"}

\* An endpoint as rmw_create_publisher or rmw_create_subscription made it.
Endpoint(writer) ==
    {[qos |-> qos, dds |-> create_dds_qos(qos, writer)] :
        qos \in {q \in Profiles : qos_is_supported(q)}}

PublisherType(t) ==
    /\ call[t].pc \in {"idle", "lock", "locked", "converted"}
    /\ call[t].pc = "idle" => call[t].message = NULL
    /\ call[t].pc # "idle" => call[t].message \in Nat

TakerType(t) == call[t].pc \in {"idle", "lock", "locked", "converting"}

CallTypes ==
    /\ sample_lock \in [Sides -> Threads \cup {NULL}]
    /\ dds_sample \in [Sides -> Nat \cup {NULL}]
    /\ call \in [Threads -> [pc : Phases, message : Nat \cup {NULL}]]
    /\ \A t \in PublishingThreads : PublisherType(t)
    /\ \A t \in TakingThreads : TakerType(t)

TypeInv ==
    /\ publisher \in {NULL} \cup Endpoint(TRUE)
    /\ subscription \in {NULL} \cup Endpoint(FALSE)
    /\ faults \in Nat /\ invalid \in BOOLEAN
    /\ written \in Seq(Nat) /\ taken \in Seq(Nat)
    /\ joined \in Nat \cup {NULL}
    /\ wire \in Seq(Nat) /\ cache \in Seq(Nat)
    /\ consumed \subseteq Nat /\ refused \subseteq Nat

Critical(t) == call[t].pc \in {"locked", "converted", "converting"}

MutexInv ==
    \A t \in Threads :
        /\ Critical(t) => sample_lock[SideOf(t)] = t
        /\ call[t].pc = "converted" => dds_sample["publisher"] = call[t].message
        /\ call[t].pc = "converting" => dds_sample["subscription"] \in Nat

ThreadInv == CallTypes /\ MutexInv

\* The calls of rmw_publish in progress.
Busy == {t \in PublishingThreads : call[t].pc # "idle"}

CountInv ==
    /\ IsFiniteSet(Busy) /\ IsFiniteSet(refused)
    /\ refused \subseteq 1 .. Published
    /\ \A i \in 1 .. Len(written) : written[i] \in (1 .. Published) \ refused
    /\ \A i, j \in 1 .. Len(written) : i # j => written[i] # written[j]
    /\ \A t \in Busy :
        /\ call[t].message \in (1 .. Published) \ refused
        /\ \A u \in Busy : u # t => call[u].message # call[t].message
        /\ \A i \in 1 .. Len(written) : written[i] # call[t].message
    /\ \A n \in 1 .. Published :
        \/ n \in refused
        \/ \E i \in 1 .. Len(written) : written[i] = n
        \/ \E t \in Busy : call[t].message = n

Increasing(s) == \A i, j \in 1 .. Len(s) : i < j => s[i] < s[j]

OrderInv ==
    /\ joined = NULL => wire = <<>> /\ cache = <<>> /\ consumed = {}
    /\ joined # NULL => publisher # NULL /\ subscription # NULL
    /\ Range(wire) \cup Range(cache) \cup consumed \subseteq 1 .. Len(written)
    /\ Increasing(wire) /\ Increasing(cache)
    /\ \A a \in Range(cache), b \in Range(wire) : a < b
    /\ \A c \in consumed : \A a \in Range(cache) \cup Range(wire) : c < a

TakenInv ==
    /\ \A i \in 1 .. Len(taken) : \E a \in consumed : written[a] = taken[i]
    /\ TakesAreOrdered
    /\ \A t \in TakingThreads : call[t].pc = "converting" =>
        \E c \in consumed :
            /\ written[c] = dds_sample["subscription"]
            /\ \A i \in 1 .. Len(taken) :
                \E a \in consumed : a < c /\ written[a] = taken[i]

DataInv ==
    /\ TypeInv /\ ThreadInv /\ CountInv /\ OrderInv /\ TakenInv
    /\ ReliableKeepsLast

-----------------------------------------------------------------------------
(* QoS *)

\* A depth that qos_is_supported accepts is the same number as an int32_t.
LEMMA DepthsAreKept ==
    ASSUME NEW depth \in Nat, depth <= INT32_MAX
    PROVE  ToInt32(depth) = depth
<1>1. INT32_MAX \in Nat
  BY ThreadsAreDistinct
<1>2. PICK k \in Nat : k = 2 * (INT32_MAX + 1) /\ depth < k /\ k > 0
  BY <1>1
<1>3. depth % k = depth
  BY <1>2
<1> QED BY <1>2, <1>3 DEF ToInt32

\* What DDS is asked for is what the profile says.
LEMMA EndpointMeans ==
    ASSUME NEW writer \in BOOLEAN, NEW e \in Endpoint(writer)
    PROVE  /\ e.qos.depth \in Nat \ {0}
           /\ e.dds.depth = e.qos.depth
           /\ e.dds.reliable <=> e.qos.reliability = "reliable"
           /\ e.dds.transient_local <=> e.qos.durability = "transient_local"
           /\ writer /\ e.dds.transient_local =>
                    e.dds.service_depth = e.qos.depth
           /\ e.dds.service_depth \in Nat \ {0}
<1>1. PICK qos \in Profiles :
        /\ qos_is_supported(qos)
        /\ e = [qos |-> qos, dds |-> create_dds_qos(qos, writer)]
  BY DEF Endpoint
<1>2. qos.depth \in Nat /\ qos.depth # 0 /\ qos.depth <= INT32_MAX
  BY <1>1, ThreadsAreDistinct DEF qos_is_supported
<1>3. ToInt32(qos.depth) = qos.depth
  BY <1>2, DepthsAreKept
<1>4. e.dds = [depth |-> qos.depth,
               reliable |-> qos.reliability = "reliable",
               transient_local |-> qos.durability = "transient_local",
               service_depth |->
                    IF writer /\ qos.durability = "transient_local"
                    THEN qos.depth ELSE 1]
  BY <1>1, <1>3 DEF create_dds_qos
<1>5. e.qos = qos
  BY <1>1
<1>6. /\ e.dds.depth = qos.depth
      /\ e.dds.reliable = (qos.reliability = "reliable")
      /\ e.dds.transient_local = (qos.durability = "transient_local")
  BY <1>4
<1>7. e.dds.service_depth = IF writer /\ qos.durability = "transient_local"
                            THEN qos.depth ELSE 1
  BY <1>4
<1>8. e.dds.service_depth \in Nat \ {0}
  BY <1>2, <1>7
<1>9. writer /\ qos.durability = "transient_local" =>
            e.dds.service_depth = qos.depth
  BY <1>7
<1> QED BY <1>2, <1>5, <1>6, <1>8, <1>9, Zenon

-----------------------------------------------------------------------------
(* Histories *)

\* LastOf drops k leading entries, none unless more than n are there.
LEMMA LastOfListing ==
    ASSUME NEW S, NEW s \in Seq(S), NEW n \in Nat \ {0}
    PROVE  \E k \in 0 .. Len(s) :
            /\ LastOf(s, n) \in Seq(S)
            /\ Len(LastOf(s, n)) = Len(s) - k
            /\ \A i \in 1 .. Len(s) - k : LastOf(s, n)[i] = s[i + k]
            /\ k # 0 => Len(s) - k = n
<1>1. PICK l \in Nat : l = Len(s)
  OBVIOUS
<1>2. PICK k \in 0 .. l :
        k = (IF l > n THEN l - n ELSE 0) /\ (k # 0 => l - k = n)
  BY <1>1
<1>3. LastOf(s, n) = SubSeq(s, k + 1, l)
  BY <1>1, <1>2 DEF LastOf
<1>4. \A i \in k + 1 .. l : s[i] \in S
  BY <1>1, <1>2
<1>5. /\ SubSeq(s, k + 1, l) \in Seq(S)
      /\ Len(SubSeq(s, k + 1, l)) = IF k + 1 <= l THEN l - (k + 1) + 1 ELSE 0
      /\ \A i \in 1 .. l - (k + 1) + 1 :
            SubSeq(s, k + 1, l)[i] = s[(k + 1) + i - 1]
  <2>1. k + 1 \in Int /\ l \in Int
    BY <1>1, <1>2
  <2> QED BY <1>4, <2>1, SubSeqProperties
<1>6. Len(SubSeq(s, k + 1, l)) = l - k
  BY <1>2, <1>5
<1>7. \A i \in 1 .. l - k : SubSeq(s, k + 1, l)[i] = s[i + k]
  <2> SUFFICES ASSUME NEW i \in 1 .. l - k
               PROVE  SubSeq(s, k + 1, l)[i] = s[i + k]
    OBVIOUS
  <2>1. i \in 1 .. l - (k + 1) + 1 /\ (k + 1) + i - 1 = i + k
    BY <1>2
  <2> QED BY <1>5, <2>1
<1> QED BY <1>1, <1>2, <1>3, <1>5, <1>6, <1>7

\* Increasing positions up to m leave room for the later ones.
LEMMA IncreasingLeavesRoom ==
    ASSUME NEW s \in Seq(Nat), NEW m \in Nat, Increasing(s),
           \A i \in 1 .. Len(s) : s[i] <= m
    PROVE  \A i \in 1 .. Len(s) : s[i] + (Len(s) - i) <= m
<1>1. PICK l \in Nat : l = Len(s)
  OBVIOUS
<1>2. \A i \in 1 .. l : s[i] \in Nat /\ s[i] <= m
  BY <1>1
<1> DEFINE P == {k \in 0 .. l : k < l => s[l - k] + k <= m}
<1>3. 0 \in P
  BY <1>1, <1>2
<1>4. ASSUME NEW k \in 0 .. l, k # l, k \in P PROVE k + 1 \in P
  <2> SUFFICES ASSUME k + 1 < l PROVE s[l - (k + 1)] + (k + 1) <= m
    BY <1>4
  <2>1. PICK i \in 1 .. l : i = l - (k + 1)
    BY <1>4
  <2>2. PICK j \in 1 .. l : j = l - k
    BY <1>4
  <2>3. s[j] + k <= m
    BY <1>4, <2>2
  <2>4. s[i] < s[j] /\ s[i] \in Nat /\ s[j] \in Nat
    <3>1. i < j
      BY <2>1, <2>2
    <3> HIDE DEF P
    <3>2. s[i] < s[j]
      BY <1>1, <3>1 DEF Increasing
    <3> QED BY <1>2, <3>2
  <2>5. s[i] + (k + 1) <= m
    BY <2>3, <2>4
  <2> QED BY <2>1, <2>5
<1>5. \A k \in 0 .. l : k \in P
  <2> HIDE DEF P
  <2> QED BY <1>3, <1>4, UpTo, Zenon
<1> SUFFICES ASSUME NEW i \in 1 .. l PROVE s[i] + (l - i) <= m
  BY <1>1
<1>6. l - i \in 0 .. l /\ l - i < l /\ l - (l - i) = i
  OBVIOUS
<1>7. l - i \in P
  BY <1>5, <1>6
<1> QED BY <1>6, <1>7

\* Keeping the last d of increasing positions up to m keeps those among the
\* last d of all, and their order.
LEMMA LastOfKeeps ==
    ASSUME NEW s \in Seq(Nat), NEW m \in Nat, NEW d \in Nat \ {0},
           Increasing(s), Range(s) \subseteq 1 .. m
    PROVE  /\ LastOf(s, d) \in Seq(Nat)
           /\ Increasing(LastOf(s, d))
           /\ Range(LastOf(s, d)) \subseteq Range(s)
           /\ \A x \in Range(s) : m - x < d => x \in Range(LastOf(s, d))
<1>0. /\ Range(s) = {s[i] : i \in 1 .. Len(s)}
      /\ \A i \in 1 .. Len(s) : s[i] \in 1 .. m
  BY RangeOfSequence
<1>1. PICK k \in 0 .. Len(s) :
            /\ LastOf(s, d) \in Seq(Nat)
            /\ Len(LastOf(s, d)) = Len(s) - k
            /\ \A i \in 1 .. Len(s) - k : LastOf(s, d)[i] = s[i + k]
            /\ k # 0 => Len(s) - k = d
  BY LastOfListing
<1>2. PICK r \in Seq(Nat) :
            /\ r = LastOf(s, d)
            /\ Len(r) = Len(s) - k
            /\ \A i \in 1 .. Len(s) - k : r[i] = s[i + k]
  BY <1>1
<1>3. PICK l \in Nat : l = Len(s) /\ k \in 0 .. l
  BY <1>1
<1>4. \A i \in 1 .. Len(r) : i + k \in 1 .. l /\ r[i] = s[i + k]
  BY <1>2, <1>3
<1>5. Increasing(r)
  <2> SUFFICES ASSUME NEW i \in 1 .. Len(r), NEW j \in 1 .. Len(r), i < j
               PROVE  r[i] < r[j]
    BY DEF Increasing
  <2>1. i + k \in 1 .. l /\ j + k \in 1 .. l /\ i + k < j + k
    BY <1>3, <1>4
  <2>2. s[i + k] < s[j + k]
    BY <1>3, <2>1 DEF Increasing
  <2> QED BY <1>4, <2>2
<1>6. \A i \in 1 .. Len(r) : \E j \in 1 .. Len(s) : r[i] = s[j]
  BY <1>3, <1>4
<1>7. ASSUME NEW j \in 1 .. Len(s), m - s[j] < d
      PROVE  \E i \in 1 .. Len(r) : r[i] = s[j]
  <2>0. s[j] \in Nat /\ j \in 1 .. l
    BY <1>3
  <2>1. s[j] + (l - j) <= m
    <3>1. \A i \in 1 .. Len(s) : s[i] <= m
      BY <1>0
    <3> QED BY <1>3, <3>1, IncreasingLeavesRoom
  <2>2. j - k \in 1 .. Len(r) /\ (j - k) + k = j
    <3>1. CASE k = 0
      BY <1>2, <1>3, <2>0, <3>1
    <3>2. CASE k # 0
      <4>1. l - k = d
        BY <1>1, <1>3, <3>2
      <4>2. l - j < d
        BY <1>7, <2>0, <2>1
      <4> QED BY <1>2, <1>3, <2>0, <4>1, <4>2
    <3> QED BY <3>1, <3>2
  <2>3. r[j - k] = s[j]
    BY <1>4, <2>2
  <2> QED BY <2>2, <2>3
<1>8. Range(r) = {r[i] : i \in 1 .. Len(r)}
  BY RangeOfSequence
<1>9. Range(r) \subseteq Range(s)
  BY <1>0, <1>6, <1>8
<1>10. \A x \in Range(s) : m - x < d => x \in Range(r)
  BY <1>0, <1>7, <1>8
<1> QED BY <1>2, <1>5, <1>9, <1>10

\* A later position goes to the end.
LEMMA AppendIncreasing ==
    ASSUME NEW s \in Seq(Nat), NEW x \in Nat, Increasing(s),
           \A a \in Range(s) : a < x
    PROVE  /\ Append(s, x) \in Seq(Nat)
           /\ Increasing(Append(s, x))
           /\ Range(Append(s, x)) = Range(s) \cup {x}
<1>1. PICK l \in Nat : l = Len(s)
  OBVIOUS
<1>2. PICK r \in Seq(Nat) :
        /\ r = Append(s, x) /\ Len(r) = l + 1 /\ r[l + 1] = x
        /\ \A i \in 1 .. l : r[i] = s[i]
  <2>1. /\ Append(s, x) \in Seq(Nat) /\ Len(Append(s, x)) = Len(s) + 1
        /\ \A i \in 1 .. Len(s) : Append(s, x)[i] = s[i]
        /\ Append(s, x)[Len(s) + 1] = x
    BY AppendProperties
  <2> QED BY <1>1, <2>1
<1>3. Range(s) = {s[i] : i \in 1 .. l}
  BY <1>1, RangeOfSequence
<1>4. Increasing(r)
  <2> SUFFICES ASSUME NEW i \in 1 .. Len(r), NEW j \in 1 .. Len(r), i < j
               PROVE  r[i] < r[j]
    BY DEF Increasing
  <2>1. i \in 1 .. l
    BY <1>2
  <2>2. CASE j = l + 1
    BY <1>2, <1>3, <2>1, <2>2
  <2>3. CASE j # l + 1
    <3>1. j \in 1 .. l
      BY <1>2, <2>3
    <3> QED BY <1>1, <1>2, <2>1, <3>1 DEF Increasing
  <2> QED BY <2>2, <2>3
<1>5. Range(r) = Range(s) \cup {x}
  <2>1. Range(Append(s, x)) = Range(s) \cup {x}
    BY AppendRange
  <2> QED BY <1>2, <2>1
<1> QED BY <1>2, <1>4, <1>5

\* The first position leaves.
LEMMA TailIncreasing ==
    ASSUME NEW s \in Seq(Nat), s # <<>>, Increasing(s)
    PROVE  /\ Head(s) \in Nat /\ Tail(s) \in Seq(Nat)
           /\ Increasing(Tail(s))
           /\ Range(s) = Range(Tail(s)) \cup {Head(s)}
           /\ \A a \in Range(Tail(s)) : Head(s) < a
<1>1. PICK l \in Nat : l = Len(s) /\ l > 0
  OBVIOUS
<1>2. PICK r \in Seq(Nat) :
        /\ r = Tail(s) /\ Len(r) = l - 1
        /\ \A i \in 1 .. l - 1 : r[i] = s[i + 1]
  <2>1. /\ Tail(s) \in Seq(Nat) /\ Len(Tail(s)) = Len(s) - 1
        /\ \A i \in 1 .. Len(Tail(s)) : Tail(s)[i] = s[i + 1]
    BY HeadTailProperties
  <2> QED BY <1>1, <2>1
<1>3. Head(s) = s[1] /\ s[1] \in Nat
  BY <1>1
<1>4. Range(s) = {s[i] : i \in 1 .. l} /\ Range(r) = {r[i] : i \in 1 .. l - 1}
  <2>1. Range(s) = {s[i] : i \in 1 .. Len(s)}
    BY RangeOfSequence
  <2>2. Range(r) = {r[i] : i \in 1 .. Len(r)}
    BY RangeOfSequence
  <2> QED BY <1>1, <1>2, <2>1, <2>2
<1>5. \A i \in 1 .. l - 1 : i + 1 \in 1 .. l /\ r[i] = s[i + 1] /\ s[1] < r[i]
  <2> SUFFICES ASSUME NEW i \in 1 .. l - 1
               PROVE  i + 1 \in 1 .. l /\ r[i] = s[i + 1] /\ s[1] < r[i]
    OBVIOUS
  <2>1. i + 1 \in 1 .. l /\ 1 \in 1 .. l /\ 1 < i + 1 /\ r[i] = s[i + 1]
    BY <1>1, <1>2
  <2>2. s[1] < s[i + 1]
    BY <1>1, <2>1 DEF Increasing
  <2> QED BY <2>1, <2>2
<1>6. Increasing(r)
  <2> SUFFICES ASSUME NEW i \in 1 .. Len(r), NEW j \in 1 .. Len(r), i < j
               PROVE  r[i] < r[j]
    BY DEF Increasing
  <2>1. i + 1 \in 1 .. l /\ j + 1 \in 1 .. l /\ i + 1 < j + 1
    BY <1>1, <1>2
  <2>2. s[i + 1] < s[j + 1]
    BY <1>1, <2>1 DEF Increasing
  <2> QED BY <1>2, <2>2
<1>7. Range(s) = Range(r) \cup {s[1]}
  <2>1. \A i \in 1 .. l : i = 1 \/ (i - 1 \in 1 .. l - 1 /\ (i - 1) + 1 = i)
    BY <1>1
  <2>2. \A i \in 1 .. l : i = 1 \/ \E j \in 1 .. l - 1 : s[i] = r[j]
    <3> SUFFICES ASSUME NEW i \in 1 .. l, i # 1
                 PROVE  \E j \in 1 .. l - 1 : s[i] = r[j]
      OBVIOUS
    <3>1. PICK j \in 1 .. l - 1 : j + 1 = i
      BY <2>1
    <3> QED BY <1>5, <3>1
  <2>3. 1 \in 1 .. l
    BY <1>1
  <2>4. ASSUME NEW v \in Range(s) PROVE v \in Range(r) \cup {s[1]}
    <3>1. PICK i \in 1 .. l : v = s[i]
      BY <1>4
    <3>2. CASE i = 1
      BY <3>1, <3>2
    <3>3. CASE i # 1
      <4>1. PICK j \in 1 .. l - 1 : s[i] = r[j]
        BY <2>2, <3>3
      <4> QED BY <1>4, <3>1, <4>1
    <3> QED BY <3>2, <3>3
  <2>5. ASSUME NEW v \in Range(r) \cup {s[1]} PROVE v \in Range(s)
    BY <1>4, <1>5, <2>3
  <2> QED BY <2>4, <2>5
<1> QED BY <1>2, <1>3, <1>4, <1>5, <1>6, <1>7

-----------------------------------------------------------------------------
(* The threads *)

\* A thread that Continue moves on holds the lock of its endpoint.
LEMMA ContinueMeans ==
    ASSUME CallTypes, NEW t \in Threads, NEW pc \in Phases,
           NEW message \in Nat \cup {NULL}, NEW sample \in Nat \cup {NULL},
           Continue(t, pc, message, sample)
    PROVE  /\ call' \in [Threads -> [pc : Phases, message : Nat \cup {NULL}]]
           /\ call'[t].pc = pc /\ call'[t].message = message
           /\ \A u \in Threads \ {t} : call'[u] = call[u]
           /\ dds_sample' \in [Sides -> Nat \cup {NULL}]
           /\ dds_sample'[SideOf(t)] = sample
           /\ sample_lock' \in [Sides -> Threads \cup {NULL}]
           /\ sample_lock'[SideOf(t)] = t
           /\ \A side \in Sides \ {SideOf(t)} :
                /\ dds_sample'[side] = dds_sample[side]
                /\ sample_lock'[side] = sample_lock[side]
<1>1. SideOf(t) \in Sides
  BY DEF SideOf, Sides
<1>2. call' = [call EXCEPT ![t] = [pc |-> pc, message |-> message]]
  BY DEF Continue
<1>3. [pc |-> pc, message |-> message]
            \in [pc : Phases, message : Nat \cup {NULL}]
  OBVIOUS
<1>4. /\ call' \in [Threads -> [pc : Phases, message : Nat \cup {NULL}]]
      /\ call'[t] = [pc |-> pc, message |-> message]
      /\ \A u \in Threads \ {t} : call'[u] = call[u]
  BY <1>2, <1>3 DEF CallTypes
<1>5. call'[t].pc = pc /\ call'[t].message = message
  BY <1>4
<1>6. /\ dds_sample' = [dds_sample EXCEPT ![SideOf(t)] = sample]
      /\ sample_lock' = [sample_lock EXCEPT ![SideOf(t)] = t]
  BY DEF Continue
<1>7. /\ dds_sample' \in [Sides -> Nat \cup {NULL}]
      /\ dds_sample'[SideOf(t)] = sample
      /\ \A side \in Sides \ {SideOf(t)} : dds_sample'[side] = dds_sample[side]
  BY <1>1, <1>6 DEF CallTypes
<1>8. /\ sample_lock' \in [Sides -> Threads \cup {NULL}]
      /\ sample_lock'[SideOf(t)] = t
      /\ \A side \in Sides \ {SideOf(t)} :
            sample_lock'[side] = sample_lock[side]
  BY <1>1, <1>6 DEF CallTypes
<1> QED BY <1>4, <1>5, <1>7, <1>8

\* A thread that returns leaves the lock clear.
LEMMA ReturnMeans ==
    ASSUME CallTypes, NEW t \in Threads, Return(t)
    PROVE  /\ call' \in [Threads -> [pc : Phases, message : Nat \cup {NULL}]]
           /\ call'[t].pc = "idle" /\ call'[t].message = NULL
           /\ \A u \in Threads \ {t} : call'[u] = call[u]
           /\ UNCHANGED dds_sample
           /\ sample_lock' \in [Sides -> Threads \cup {NULL}]
           /\ \A side \in Sides \ {SideOf(t)} :
                sample_lock'[side] = sample_lock[side]
<1>1. SideOf(t) \in Sides
  BY DEF SideOf, Sides
<1>2. /\ Idle \in [pc : Phases, message : Nat \cup {NULL}]
      /\ Idle.pc = "idle" /\ Idle.message = NULL
  BY DEF Idle, Phases
<1>3. /\ call' = [call EXCEPT ![t] = Idle] /\ UNCHANGED dds_sample
      /\ sample_lock' = [sample_lock EXCEPT ![SideOf(t)] = NULL]
  BY DEF Return
<1>4. /\ call' \in [Threads -> [pc : Phases, message : Nat \cup {NULL}]]
      /\ call'[t] = Idle
      /\ \A u \in Threads \ {t} : call'[u] = call[u]
  BY <1>2, <1>3 DEF CallTypes
<1>5. /\ sample_lock' \in [Sides -> Threads \cup {NULL}]
      /\ \A side \in Sides \ {SideOf(t)} :
            sample_lock'[side] = sample_lock[side]
  BY <1>1, <1>3 DEF CallTypes
<1> QED BY <1>2, <1>3, <1>4, <1>5

\* Who is where.
LEMMA PhaseTellsSide ==
    ASSUME CallTypes, NEW t \in Threads
    PROVE  /\ SideOf(t) \in Sides
           /\ call[t].pc = "converted" =>
                    t \in PublishingThreads /\ SideOf(t) = "publisher"
           /\ call[t].pc = "converting" =>
                    t \in TakingThreads /\ SideOf(t) = "subscription"
<1>1. PublishingThreads \cap TakingThreads = {}
  BY ThreadsAreDistinct
<1> QED BY <1>1 DEF CallTypes, PublisherType, TakerType, SideOf, Sides, Threads

\* What a step of one thread must see to for the types of all.
LEMMA OneThreadType ==
    ASSUME CallTypes, NEW t \in Threads,
           call' \in [Threads -> [pc : Phases, message : Nat \cup {NULL}]],
           dds_sample' \in [Sides -> Nat \cup {NULL}],
           sample_lock' \in [Sides -> Threads \cup {NULL}],
           \A u \in Threads \ {t} : call'[u] = call[u],
           t \in PublishingThreads => PublisherType(t)',
           t \in TakingThreads => TakerType(t)'
    PROVE  CallTypes'
<1>1. ASSUME NEW u \in PublishingThreads PROVE PublisherType(u)'
  <2>1. CASE u # t
    BY <2>1 DEF CallTypes, PublisherType, Threads
  <2> QED BY <2>1
<1>2. ASSUME NEW u \in TakingThreads PROVE TakerType(u)'
  <2>1. CASE u # t
    BY <2>1 DEF CallTypes, TakerType, Threads
  <2> QED BY <2>1
<1> QED BY <1>1, <1>2 DEF CallTypes

\* The part of MutexInv that is about thread u.
MutexOf(u) ==
    /\ Critical(u) => sample_lock[SideOf(u)] = u
    /\ call[u].pc = "converted" => dds_sample["publisher"] = call[u].message
    /\ call[u].pc = "converting" => dds_sample["subscription"] \in Nat

\* A step of t that leaves the other endpoint alone does not disturb u, unless
\* u is in the critical section of the same endpoint.
LEMMA OtherThreadMutex ==
    ASSUME CallTypes, NEW t \in Threads, NEW u \in Threads, u # t, MutexOf(u),
           lock_sample(t) \/ sample_lock[SideOf(t)] = t,
           call'[u] = call[u],
           \A side \in Sides \ {SideOf(t)} :
                /\ dds_sample'[side] = dds_sample[side]
                /\ sample_lock'[side] = sample_lock[side]
    PROVE  MutexOf(u)'
<1>1. CASE ~Critical(u)
  BY <1>1 DEF MutexOf, Critical
<1>2. CASE Critical(u)
  <2>1. u # NULL
    BY ThreadsAreDistinct
  <2>2. SideOf(u) # SideOf(t)
    BY <1>2, <2>1 DEF MutexOf, lock_sample
  <2>3. SideOf(u) \in Sides \ {SideOf(t)}
    BY <2>2, PhaseTellsSide
  <2> QED BY <2>3, PhaseTellsSide DEF MutexOf, Critical
<1> QED BY <1>1, <1>2

\* Continue keeps the threads apart, from the lock onwards.
LEMMA ContinueKeeps ==
    ASSUME ThreadInv, NEW t \in Threads, NEW pc \in Phases,
           NEW message \in Nat \cup {NULL}, NEW sample \in Nat \cup {NULL},
           Continue(t, pc, message, sample), lock_sample(t) \/ Critical(t),
           t \in PublishingThreads =>
                pc \in {"locked", "converted"} /\ message \in Nat,
           t \in TakingThreads => pc \in {"locked", "converting"},
           pc = "converted" => sample = message,
           pc = "converting" => sample \in Nat
    PROVE  ThreadInv'
<1>0. CallTypes /\ \A u \in Threads : MutexOf(u)
  BY DEF ThreadInv, MutexInv, MutexOf
<1>1. /\ call' \in [Threads -> [pc : Phases, message : Nat \cup {NULL}]]
      /\ call'[t].pc = pc /\ call'[t].message = message
      /\ \A u \in Threads \ {t} : call'[u] = call[u]
  BY <1>0, ContinueMeans
<1>2. /\ dds_sample' \in [Sides -> Nat \cup {NULL}]
      /\ dds_sample'[SideOf(t)] = sample
      /\ sample_lock' \in [Sides -> Threads \cup {NULL}]
      /\ sample_lock'[SideOf(t)] = t
      /\ \A side \in Sides \ {SideOf(t)} :
            /\ dds_sample'[side] = dds_sample[side]
            /\ sample_lock'[side] = sample_lock[side]
  <2>1. CallTypes
    BY <1>0
  <2> QED BY <2>1, ContinueMeans
<1>3. CallTypes'
  <2>1. t \in PublishingThreads => PublisherType(t)'
    BY <1>1 DEF PublisherType
  <2>2. t \in TakingThreads => TakerType(t)'
    BY <1>1 DEF TakerType
  <2> QED BY <1>0, <1>1, <1>2, <2>1, <2>2, OneThreadType
<1>4. lock_sample(t) \/ sample_lock[SideOf(t)] = t
  BY <1>0 DEF MutexOf
<1>5. ASSUME NEW u \in Threads PROVE MutexOf(u)'
  <2>1. CASE u # t
    BY <1>0, <1>1, <1>2, <1>4, <2>1, OtherThreadMutex
  <2>2. CASE u = t
    <3>1. /\ pc = "converted" => SideOf(t) = "publisher"
          /\ pc = "converting" => SideOf(t) = "subscription"
      BY ThreadsAreDistinct DEF SideOf, Threads
    <3> QED BY <1>1, <1>2, <2>2, <3>1 DEF MutexOf
  <2> QED BY <2>1, <2>2
<1> QED BY <1>3, <1>5 DEF ThreadInv, MutexInv, MutexOf

\* So does returning.
LEMMA ReturnKeeps ==
    ASSUME ThreadInv, NEW t \in Threads, Return(t), Critical(t)
    PROVE  ThreadInv'
<1>0. CallTypes /\ \A u \in Threads : MutexOf(u)
  BY DEF ThreadInv, MutexInv, MutexOf
<1>1. /\ call' \in [Threads -> [pc : Phases, message : Nat \cup {NULL}]]
      /\ call'[t].pc = "idle" /\ call'[t].message = NULL
      /\ \A u \in Threads \ {t} : call'[u] = call[u]
  BY <1>0, ReturnMeans
<1>2. /\ UNCHANGED dds_sample
      /\ sample_lock' \in [Sides -> Threads \cup {NULL}]
      /\ \A side \in Sides \ {SideOf(t)} :
            sample_lock'[side] = sample_lock[side]
  BY <1>0, ReturnMeans
<1>3. CallTypes'
  <2>1. PublisherType(t)' /\ TakerType(t)'
    BY <1>1 DEF PublisherType, TakerType
  <2>2. dds_sample' \in [Sides -> Nat \cup {NULL}]
    BY <1>0, <1>2 DEF CallTypes
  <2> QED BY <1>0, <1>1, <1>2, <2>1, <2>2, OneThreadType
<1>4. sample_lock[SideOf(t)] = t
  BY <1>0 DEF MutexOf
<1>5. ASSUME NEW u \in Threads PROVE MutexOf(u)'
  <2>1. CASE u # t
    BY <1>0, <1>1, <1>2, <1>4, <2>1, OtherThreadMutex
  <2>2. CASE u = t
    BY <1>1, <2>2 DEF MutexOf, Critical
  <2> QED BY <2>1, <2>2
<1> QED BY <1>3, <1>5 DEF ThreadInv, MutexInv, MutexOf

\* A call that begins is not in the critical section.
LEMMA BeginKeeps ==
    ASSUME ThreadInv, NEW t \in Threads,
           call' \in [Threads -> [pc : Phases, message : Nat \cup {NULL}]],
           call'[t].pc = "lock",
           t \in PublishingThreads => call'[t].message \in Nat,
           \A u \in Threads \ {t} : call'[u] = call[u],
           UNCHANGED <<sample_lock, dds_sample>>
    PROVE  ThreadInv'
<1>0. CallTypes /\ \A u \in Threads : MutexOf(u)
  BY DEF ThreadInv, MutexInv, MutexOf
<1>1. CallTypes'
  <2>1. t \in PublishingThreads => PublisherType(t)'
    BY DEF PublisherType
  <2>2. t \in TakingThreads => TakerType(t)'
    BY DEF TakerType
  <2>3. /\ dds_sample' \in [Sides -> Nat \cup {NULL}]
        /\ sample_lock' \in [Sides -> Threads \cup {NULL}]
    BY <1>0 DEF CallTypes
  <2> QED BY <1>0, <2>1, <2>2, <2>3, OneThreadType
<1>2. ASSUME NEW u \in Threads PROVE MutexOf(u)'
  <2>1. CASE u # t
    BY <1>0, <2>1 DEF MutexOf, Critical
  <2>2. CASE u = t
    BY <2>2 DEF MutexOf, Critical
  <2> QED BY <2>1, <2>2
<1> QED BY <1>1, <1>2 DEF ThreadInv, MutexInv, MutexOf

\* And no thread moves in the steps of DDS.
LEMMA StillKeeps ==
    ASSUME ThreadInv, UNCHANGED <<sample_lock, dds_sample, call>>
    PROVE  ThreadInv'
BY DEF ThreadInv, CallTypes, MutexInv, Critical, PublisherType, TakerType

-----------------------------------------------------------------------------
(* Counting the messages *)

\* The number of messages is a number.
LEMMA PublishedIsNatural ==
    ASSUME TypeInv, CountInv
    PROVE  /\ Published = Len(written) + Cardinality(refused)
                            + Cardinality(Busy)
           /\ Len(written) \in Nat /\ Cardinality(refused) \in Nat
           /\ Cardinality(Busy) \in Nat /\ Published \in Nat
<1>1. Published = Len(written) + Cardinality(refused) + Cardinality(Busy)
  BY DEF Published, Busy
<1>2. Cardinality(refused) \in Nat
  BY FS_CardinalityType DEF CountInv
<1>3. Cardinality(Busy) \in Nat
  BY FS_CardinalityType DEF CountInv
<1>4. Len(written) \in Nat
  BY DEF TypeInv
<1> QED BY <1>1, <1>2, <1>3, <1>4

\* A step that begins, ends and moves no message.
NoMessageMoves ==
    /\ UNCHANGED <<written, refused>>
    /\ \A u \in PublishingThreads :
        /\ call'[u].pc = "idle" <=> call[u].pc = "idle"
        /\ call'[u].message = call[u].message

\* Such a step keeps the count.
LEMMA QuietCounts ==
    ASSUME CountInv, NoMessageMoves
    PROVE  CountInv'
<1>1. Busy' = Busy /\ \A t \in Busy : call'[t].message = call[t].message
  BY DEF Busy, NoMessageMoves
<1>2. Published' = Published
  BY <1>1 DEF Published, Busy, NoMessageMoves
<1>3. UNCHANGED <<written, refused>>
  BY DEF NoMessageMoves
<1> QED BY <1>1, <1>2, <1>3 DEF CountInv

\* Thread t begins to publish the next message.
LEMMA BeginCounts ==
    ASSUME TypeInv, CountInv, NEW t \in PublishingThreads, t \notin Busy,
           call'[t].pc = "lock", call'[t].message = Published + 1,
           \A u \in Threads \ {t} : call'[u] = call[u],
           UNCHANGED <<written, refused>>
    PROVE  CountInv'
<1>1. Busy' = Busy \cup {t}
  BY DEF Busy, Threads
<1>2. /\ IsFiniteSet(Busy')
      /\ Cardinality(Busy') = Cardinality(Busy) + 1
  BY <1>1, FS_AddElement DEF CountInv
<1>3. PICK p \in Nat : p = Published /\ Published' = p + 1
  <2>1. Published' = Len(written) + Cardinality(refused) + Cardinality(Busy')
    BY DEF Published, Busy
  <2> QED BY <1>2, <2>1, PublishedIsNatural
<1>4. \A u \in Busy : u # t /\ call'[u] = call[u]
  BY DEF Busy, Threads
<1>5. 1 .. p + 1 = (1 .. p) \cup {p + 1} /\ p + 1 \notin 1 .. p
  OBVIOUS
<1>6. ASSUME NEW u \in Busy'
      PROVE  /\ call'[u].message \in (1 .. p + 1) \ refused
             /\ \A v \in Busy' : v # u => call'[v].message # call'[u].message
             /\ \A i \in 1 .. Len(written) : written[i] # call'[u].message
  <2>0. /\ \A v \in Busy :
            /\ call'[v].message \in (1 .. p) \ refused
            /\ \A w \in Busy : w # v => call'[w].message # call'[v].message
            /\ \A i \in 1 .. Len(written) : written[i] # call'[v].message
        /\ refused \subseteq 1 .. p
        /\ \A i \in 1 .. Len(written) : written[i] \in 1 .. p
    BY <1>3, <1>4 DEF CountInv
  <2>1. CASE u \in Busy
    BY <1>1, <1>3, <1>5, <2>0, <2>1
  <2>2. CASE u = t
    BY <1>1, <1>3, <1>5, <2>0, <2>2
  <2> QED BY <1>1, <2>1, <2>2
<1>7. ASSUME NEW n \in 1 .. p + 1
      PROVE  \/ n \in refused
             \/ \E i \in 1 .. Len(written) : written[i] = n
             \/ \E u \in Busy' : call'[u].message = n
  <2>1. CASE n \in 1 .. p
    BY <1>1, <1>3, <1>4, <2>1 DEF CountInv
  <2>2. CASE n = p + 1
    BY <1>1, <1>3, <2>2
  <2> QED BY <1>5, <2>1, <2>2
<1>8. /\ refused \subseteq 1 .. p + 1
      /\ \A i \in 1 .. Len(written) : written[i] \in (1 .. p + 1) \ refused
  BY <1>3, <1>5 DEF CountInv
<1> QED BY <1>2, <1>3, <1>6, <1>7, <1>8 DEF CountInv

\* Thread t returns, and takes no message along.
LEMMA EndBusy ==
    ASSUME CountInv, NEW t \in Busy, call'[t].pc = "idle",
           \A u \in Threads \ {t} : call'[u] = call[u]
    PROVE  /\ Busy' = Busy \ {t}
           /\ IsFiniteSet(Busy')
           /\ Cardinality(Busy') = Cardinality(Busy) - 1
           /\ \A u \in Busy' : u \in Busy /\ u # t /\ call'[u] = call[u]
<1>1. Busy' = Busy \ {t}
  BY DEF Busy, Threads
<1>2. IsFiniteSet(Busy') /\ Cardinality(Busy') = Cardinality(Busy) - 1
  BY <1>1, FS_RemoveElement DEF CountInv
<1>3. \A u \in Busy' : u \in Busy /\ u # t /\ call'[u] = call[u]
  BY <1>1 DEF Busy, Threads
<1> QED BY <1>1, <1>2, <1>3

\* Thread t has written its message.
LEMMA WriteCounts ==
    ASSUME TypeInv, CountInv, NEW t \in Busy, call'[t].pc = "idle",
           \A u \in Threads \ {t} : call'[u] = call[u],
           written' = Append(written, call[t].message), UNCHANGED refused
    PROVE  CountInv'
<1>1. /\ Busy' = Busy \ {t} /\ IsFiniteSet(Busy')
      /\ Cardinality(Busy') = Cardinality(Busy) - 1
      /\ \A u \in Busy' : u \in Busy /\ u # t /\ call'[u] = call[u]
  BY EndBusy
<1>2. PICK m \in Nat : m = call[t].message /\ m \in (1 .. Published) \ refused
  BY PublishedIsNatural DEF CountInv
<1>3. PICK l \in Nat : l = Len(written)
  BY DEF TypeInv
<1>4. /\ Len(written') = l + 1 /\ written'[l + 1] = m
      /\ \A i \in 1 .. l : written'[i] = written[i]
  BY <1>2, <1>3, AppendProperties DEF TypeInv
<1>5. Published' = Published
  <2>1. Published' = Len(written') + Cardinality(refused) + Cardinality(Busy')
    BY DEF Published, Busy
  <2> QED BY <1>1, <1>3, <1>4, <2>1, PublishedIsNatural
<1>6. 1 .. l + 1 = (1 .. l) \cup {l + 1} /\ l + 1 \notin 1 .. l
  OBVIOUS
<1>7. \A i \in 1 .. l : written[i] \in (1 .. Published) \ refused /\ written[i] # m
  BY <1>2, <1>3 DEF CountInv
<1>8. ASSUME NEW i \in 1 .. l + 1
      PROVE  /\ written'[i] \in (1 .. Published) \ refused
             /\ \A j \in 1 .. l + 1 : i # j => written'[i] # written'[j]
  <2>1. \A j \in 1 .. l : \A k \in 1 .. l : j # k => written[j] # written[k]
    BY <1>3 DEF CountInv
  <2>2. CASE i \in 1 .. l
    BY <1>4, <1>6, <1>7, <2>1, <2>2
  <2>3. CASE i = l + 1
    BY <1>2, <1>4, <1>6, <1>7, <2>3
  <2> QED BY <1>6, <2>2, <2>3
<1>9. ASSUME NEW u \in Busy'
      PROVE  /\ call'[u].message \in (1 .. Published) \ refused
             /\ \A v \in Busy' : v # u => call'[v].message # call'[u].message
             /\ \A i \in 1 .. l + 1 : written'[i] # call'[u].message
  <2>1. u \in Busy /\ u # t /\ call'[u] = call[u]
    BY <1>1
  <2>2. call[u].message # m
    BY <1>2, <2>1 DEF CountInv
  <2>3. \A i \in 1 .. l : written[i] # call[u].message
    BY <1>3, <2>1 DEF CountInv
  <2>4. \A i \in 1 .. l + 1 : written'[i] # call'[u].message
    BY <1>4, <1>6, <2>1, <2>2, <2>3
  <2>5. \A v \in Busy' : v # u => call'[v].message # call'[u].message
    BY <1>1, <2>1 DEF CountInv
  <2>6. call'[u].message \in (1 .. Published) \ refused
    BY <2>1 DEF CountInv
  <2> QED BY <2>4, <2>5, <2>6
<1>10. ASSUME NEW n \in 1 .. Published
       PROVE  \/ n \in refused
              \/ \E i \in 1 .. l + 1 : written'[i] = n
              \/ \E u \in Busy' : call'[u].message = n
  <2>1. CASE n = m
    BY <1>4, <1>6, <2>1
  <2>2. CASE \E i \in 1 .. l : written[i] = n
    BY <1>4, <1>6, <2>2
  <2>3. ASSUME NEW u \in Busy, call[u].message = n, n # m
        PROVE  \E v \in Busy' : call'[v].message = n
    <3>1. u # t
      BY <1>2, <2>3
    <3> QED BY <1>1, <2>3, <3>1
  <2> QED BY <1>3, <2>1, <2>2, <2>3 DEF CountInv
<1>11. refused \subseteq 1 .. Published /\ IsFiniteSet(refused)
  BY DEF CountInv
<1>12. Len(written') = l + 1 /\ refused' = refused
  BY <1>4
<1>13. /\ \A i \in 1 .. Len(written') :
            written'[i] \in (1 .. Published') \ refused'
       /\ \A i, j \in 1 .. Len(written') : i # j => written'[i] # written'[j]
  BY <1>5, <1>8, <1>12
<1>14. \A u \in Busy' :
        /\ call'[u].message \in (1 .. Published') \ refused'
        /\ \A v \in Busy' : v # u => call'[v].message # call'[u].message
        /\ \A i \in 1 .. Len(written') : written'[i] # call'[u].message
  BY <1>5, <1>9, <1>12
<1>15. \A n \in 1 .. Published' :
        \/ n \in refused'
        \/ \E i \in 1 .. Len(written') : written'[i] = n
        \/ \E u \in Busy' : call'[u].message = n
  BY <1>5, <1>10, <1>12
<1> QED BY <1>1, <1>5, <1>11, <1>12, <1>13, <1>14, <1>15, Zenon DEF CountInv

\* The message of thread t is refused.
LEMMA RefuseCounts ==
    ASSUME TypeInv, CountInv, NEW t \in Busy, call'[t].pc = "idle",
           \A u \in Threads \ {t} : call'[u] = call[u],
           refused' = refused \cup {call[t].message}, UNCHANGED written
    PROVE  CountInv'
<1>1. /\ Busy' = Busy \ {t} /\ IsFiniteSet(Busy')
      /\ Cardinality(Busy') = Cardinality(Busy) - 1
      /\ \A u \in Busy' : u \in Busy /\ u # t /\ call'[u] = call[u]
  BY EndBusy
<1>2. PICK m \in Nat : m = call[t].message /\ m \in (1 .. Published) \ refused
  BY PublishedIsNatural DEF CountInv
<1>3. /\ IsFiniteSet(refused')
      /\ Cardinality(refused') = Cardinality(refused) + 1
  BY <1>2, FS_AddElement DEF CountInv
<1>4. Published' = Published
  <2>1. Published' = Len(written) + Cardinality(refused') + Cardinality(Busy')
    BY DEF Published, Busy
  <2> QED BY <1>1, <1>3, <2>1, PublishedIsNatural
<1>5. refused' = refused \cup {m}
  BY <1>2
<1>6. \A i \in 1 .. Len(written) : written[i] \in (1 .. Published) \ refused'
  BY <1>2, <1>5 DEF CountInv
<1>7. ASSUME NEW u \in Busy'
      PROVE  /\ call'[u].message \in (1 .. Published) \ refused'
             /\ \A v \in Busy' : v # u => call'[v].message # call'[u].message
             /\ \A i \in 1 .. Len(written) : written[i] # call'[u].message
  <2>1. u \in Busy /\ u # t /\ call'[u] = call[u]
    BY <1>1
  <2>2. call[u].message # m /\ call[u].message \in (1 .. Published) \ refused
    BY <1>2, <2>1 DEF CountInv
  <2>3. \A i \in 1 .. Len(written) : written[i] # call[u].message
    BY <2>1 DEF CountInv
  <2>4. \A v \in Busy' : v # u => call'[v].message # call'[u].message
    BY <1>1, <2>1 DEF CountInv
  <2> QED BY <1>5, <2>1, <2>2, <2>3, <2>4
<1>8. ASSUME NEW n \in 1 .. Published
      PROVE  \/ n \in refused'
             \/ \E i \in 1 .. Len(written) : written[i] = n
             \/ \E u \in Busy' : call'[u].message = n
  <2>1. ASSUME NEW u \in Busy, call[u].message = n, n # m
        PROVE  \E v \in Busy' : call'[v].message = n
    <3>1. u # t
      BY <1>2, <2>1
    <3> QED BY <1>1, <2>1, <3>1
  <2> QED BY <1>5, <2>1 DEF CountInv
<1>9. refused' \subseteq 1 .. Published
  BY <1>2, <1>5 DEF CountInv
<1>10. \A i, j \in 1 .. Len(written) : i # j => written[i] # written[j]
  BY DEF CountInv
<1> QED BY <1>1, <1>3, <1>4, <1>6, <1>7, <1>8, <1>9, <1>10 DEF CountInv

-----------------------------------------------------------------------------
(* The way of the positions *)

\* What ReliableKeepsLast promises, taken apart.
Reliable == joined # NULL /\ subscription.qos.reliability = "reliable"
Since == IF subscription.qos.durability = "transient_local"
         THEN joined - publisher.qos.depth ELSE joined
Depth == IF publisher.qos.depth < subscription.qos.depth
         THEN publisher.qos.depth ELSE subscription.qos.depth
Present == Range(wire) \cup Range(cache) \cup consumed
Promise ==
    \A i \in 1 .. Len(written) :
        i > Since /\ Len(written) - i < Depth => i \in Present

\* It says just that.
LEMMA PromiseMeans == ReliableKeepsLast <=> (Reliable => Promise)
<1>1. rmw_subscription_count_matched_publishers = 1 <=> joined # NULL
  BY DEF rmw_subscription_count_matched_publishers
<1> QED BY <1>1 DEF ReliableKeepsLast, Reliable, Promise, Since, Depth, Present,
                    rmw_publisher_get_actual_qos,
                    rmw_subscription_get_actual_qos

\* What is known of matched endpoints.
LEMMA Matched ==
    ASSUME TypeInv, OrderInv, joined # NULL
    PROVE  /\ joined \in Nat
           /\ publisher \in Endpoint(TRUE) /\ subscription \in Endpoint(FALSE)
           /\ publisher.qos.depth \in Nat \ {0}
           /\ subscription.qos.depth \in Nat \ {0}
           /\ publisher.dds.depth = publisher.qos.depth
           /\ subscription.dds.depth = subscription.qos.depth
           /\ subscription.dds.reliable <=>
                subscription.qos.reliability = "reliable"
           /\ Since \in Int /\ Depth \in Nat
           /\ Depth <= publisher.qos.depth /\ Depth <= subscription.qos.depth
<1>1. /\ joined \in Nat
      /\ publisher \in Endpoint(TRUE) /\ subscription \in Endpoint(FALSE)
  BY DEF TypeInv, OrderInv
<1>2. /\ publisher.qos.depth \in Nat \ {0}
      /\ publisher.dds.depth = publisher.qos.depth
  BY <1>1, EndpointMeans
<1>3. /\ subscription.qos.depth \in Nat \ {0}
      /\ subscription.dds.depth = subscription.qos.depth
      /\ subscription.dds.reliable <=>
            subscription.qos.reliability = "reliable"
  BY <1>1, EndpointMeans
<1>4. /\ Since \in Int /\ Depth \in Nat
      /\ Depth <= publisher.qos.depth /\ Depth <= subscription.qos.depth
  BY <1>1, <1>2, <1>3 DEF Since, Depth
<1> QED BY <1>1, <1>2, <1>3, <1>4

\* The positions of the reader and of DDS, as sets.
LEMMA PositionsAreNatural ==
    ASSUME TypeInv, OrderInv
    PROVE  /\ Len(written) \in Nat
           /\ Range(wire) \subseteq Nat /\ Range(cache) \subseteq Nat
           /\ consumed \subseteq Nat
<1>1. Range(wire) \subseteq Nat
  BY RangeOfSequence DEF TypeInv
<1>2. Range(cache) \subseteq Nat
  BY RangeOfSequence DEF TypeInv
<1> QED BY <1>1, <1>2 DEF TypeInv

\* Steps that move nothing.
LEMMA StillOrdered ==
    ASSUME OrderInv, ReliableKeepsLast,
           UNCHANGED <<written, joined, wire, cache, consumed>>,
           joined # NULL => UNCHANGED endpoints
    PROVE  OrderInv' /\ ReliableKeepsLast'
<1>1. OrderInv'
  BY DEF OrderInv, Increasing, endpoints
<1>2. Reliable' => Promise'
  BY PromiseMeans
     DEF Reliable, Promise, Since, Depth, Present, endpoints
<1> QED BY <1>1, <1>2, PromiseMeans, PTL

\* The positions of all messages, in order.
LEMMA PositionsListing ==
    ASSUME TypeInv
    PROVE  /\ Positions \in Seq(Nat) /\ Increasing(Positions)
           /\ Range(Positions) = 1 .. Len(written)
<1>1. PICK l \in Nat : l = Len(written)
  BY DEF TypeInv
<1>2. PICK s \in Seq(Nat) :
        s = Positions /\ Len(s) = l /\ \A i \in 1 .. l : s[i] = i
  <2>1. Positions = [i \in 1 .. l |-> i]
    BY <1>1 DEF Positions
  <2>2. [i \in 1 .. l |-> i] \in Seq(Nat)
    <3>1. [i \in 1 .. l |-> i] \in [1 .. l -> Nat]
      OBVIOUS
    <3> QED BY <3>1
  <2>3. Len([i \in 1 .. l |-> i]) = l
    BY <2>2
  <2> QED BY <2>1, <2>2, <2>3
<1>3. Range(s) = {s[i] : i \in 1 .. Len(s)}
  BY RangeOfSequence
<1>4. Range(s) = 1 .. l
  BY <1>2, <1>3
<1>5. Increasing(s)
  BY <1>2 DEF Increasing
<1> QED BY <1>1, <1>2, <1>4, <1>5

\* A late reader is sent what it is owed.
LEMMA MatchOrdered ==
    ASSUME TypeInv, OrderInv, Match
    PROVE  TypeInv' /\ OrderInv' /\ ReliableKeepsLast'
<1>1. /\ publisher # NULL /\ subscription # NULL /\ joined = NULL
      /\ subscription.dds.transient_local => publisher.dds.transient_local
      /\ joined' = Len(written)
      /\ wire' = IF subscription.dds.transient_local
                 THEN LastOf(Positions, publisher.dds.service_depth) ELSE <<>>
      /\ UNCHANGED <<endpoints, faults, written, cache, invalid, history>>
  BY DEF Match
<1>2. cache = <<>> /\ consumed = {}
  BY <1>1 DEF OrderInv
<1>3. PICK m \in Nat : m = Len(written)
  BY DEF TypeInv
<1>4. publisher \in Endpoint(TRUE) /\ subscription \in Endpoint(FALSE)
  BY <1>1 DEF TypeInv
<1>5. PICK d \in Nat \ {0} : d = publisher.dds.service_depth
  BY <1>4, EndpointMeans
<1>6. /\ wire' \in Seq(Nat) /\ Increasing(wire') /\ Range(wire') \subseteq 1 .. m
      /\ subscription.dds.transient_local =>
            \A x \in 1 .. m : m - x < d => x \in Range(wire')
  <2>1. CASE subscription.dds.transient_local
    <3>1. PICK s \in Seq(Nat) :
            s = Positions /\ Increasing(s) /\ Range(s) = 1 .. m
      BY <1>3, PositionsListing
    <3>2. /\ LastOf(s, d) \in Seq(Nat)
          /\ Increasing(LastOf(s, d))
          /\ Range(LastOf(s, d)) \subseteq Range(s)
          /\ \A x \in Range(s) : m - x < d => x \in Range(LastOf(s, d))
      BY <3>1, LastOfKeeps
    <3>3. wire' = LastOf(s, d)
      BY <1>1, <1>5, <2>1, <3>1
    <3> QED BY <3>1, <3>2, <3>3
  <2>2. CASE ~subscription.dds.transient_local
    <3>1. wire' = <<>>
      BY <1>1, <2>2
    <3>2. <<>> \in Seq(Nat) /\ Range(<<>>) = {} /\ Increasing(<<>>)
      BY DEF Range, Increasing
    <3> QED BY <2>2, <3>1, <3>2
  <2> QED BY <2>1, <2>2
<1>7. TypeInv'
  BY <1>1, <1>3, <1>6 DEF TypeInv, endpoints, history
<1>8. Range(cache) = {}
  BY <1>2 DEF Range
<1>9. joined' # NULL
  BY <1>1, <1>3, ThreadsAreDistinct
<1>10. OrderInv'
  BY <1>1, <1>2, <1>3, <1>6, <1>8, <1>9 DEF OrderInv, Increasing, endpoints, history
<1>11. Reliable' => Promise'
  <2> SUFFICES ASSUME NEW i \in 1 .. m, i > Since', m - i < Depth'
               PROVE  i \in Range(wire')
    BY <1>1, <1>3 DEF Promise, Present
  <2>1. CASE subscription.qos.durability = "transient_local"
    <3>1. /\ subscription.dds.transient_local
          /\ d = publisher.qos.depth
      BY <1>1, <1>4, <1>5, <2>1, EndpointMeans
    <3>2. Since' = m - d
      BY <1>1, <1>3, <2>1, <3>1 DEF Since, endpoints
    <3>3. m - i < d
      BY <3>2
    <3> QED BY <1>6, <3>1, <3>3
  <2>2. CASE subscription.qos.durability # "transient_local"
    <3>1. Since' = m
      BY <1>1, <1>3, <2>2 DEF Since, endpoints
    <3> QED BY <3>1
  <2> QED BY <2>1, <2>2
<1> QED BY <1>7, <1>10, <1>11, PromiseMeans, PTL

\* The reader keeps the last samples of its depth.
LEMMA DeliverOrdered ==
    ASSUME TypeInv, OrderInv, ReliableKeepsLast, Deliver
    PROVE  TypeInv' /\ OrderInv' /\ ReliableKeepsLast'
<1>1. /\ wire # <<>>
      /\ cache' = LastOf(Append(cache, Head(wire)), subscription.dds.depth)
      /\ invalid' = FALSE /\ wire' = Tail(wire)
      /\ UNCHANGED <<endpoints, faults, written, joined, history>>
  BY DEF Deliver
<1>2. joined # NULL
  BY <1>1 DEF OrderInv
<1>3. PICK d \in Nat \ {0} :
        d = subscription.dds.depth /\ d = subscription.qos.depth
  BY <1>2, Matched
<1>4. PICK m \in Nat : m = Len(written)
  BY DEF TypeInv
<1>5. /\ Range(wire) \subseteq 1 .. m /\ Range(cache) \subseteq 1 .. m
      /\ consumed \subseteq 1 .. m
      /\ Increasing(wire) /\ Increasing(cache)
      /\ \A a \in Range(cache), b \in Range(wire) : a < b
      /\ \A c \in consumed : \A a \in Range(cache) \cup Range(wire) : c < a
  BY <1>4 DEF OrderInv
<1>6. PICK h \in Nat :
        /\ h = Head(wire) /\ Tail(wire) \in Seq(Nat) /\ Increasing(Tail(wire))
        /\ Range(wire) = Range(Tail(wire)) \cup {h}
        /\ \A a \in Range(Tail(wire)) : h < a
  BY <1>1, <1>5, TailIncreasing DEF TypeInv
<1>7. PICK s \in Seq(Nat) :
        /\ s = Append(cache, h) /\ Increasing(s)
        /\ Range(s) = Range(cache) \cup {h}
  <2>1. cache \in Seq(Nat) /\ \A a \in Range(cache) : a < h
    BY <1>5, <1>6 DEF TypeInv
  <2> QED BY <1>5, <2>1, AppendIncreasing
<1>8. Range(s) \subseteq 1 .. m
  BY <1>5, <1>6, <1>7
<1>9. /\ LastOf(s, d) \in Seq(Nat)
      /\ Increasing(LastOf(s, d))
      /\ Range(LastOf(s, d)) \subseteq Range(s)
      /\ \A x \in Range(s) : m - x < d => x \in Range(LastOf(s, d))
  BY <1>7, <1>8, LastOfKeeps
<1>10. cache' = LastOf(s, d)
  BY <1>1, <1>3, <1>6, <1>7
<1>11. TypeInv'
  BY <1>1, <1>6, <1>9, <1>10 DEF TypeInv, endpoints, history
<1>12. /\ \A a \in Range(cache'), b \in Range(wire') : a < b
       /\ \A c \in consumed : \A a \in Range(cache') \cup Range(wire') : c < a
       /\ Range(wire') \cup Range(cache') \cup consumed \subseteq 1 .. m
  BY <1>1, <1>5, <1>6, <1>7, <1>9, <1>10
<1>13. Increasing(wire') /\ Increasing(cache')
  BY <1>1, <1>6, <1>9, <1>10
<1>14. UNCHANGED <<publisher, subscription, written, joined, consumed>>
  BY <1>1 DEF endpoints, history
<1>15. OrderInv'
  BY <1>2, <1>4, <1>12, <1>13, <1>14 DEF OrderInv, Increasing
<1>16. Reliable' => Promise'
  <2> SUFFICES ASSUME Reliable, NEW i \in 1 .. m, i > Since, m - i < Depth
               PROVE  i \in Present'
    BY <1>4, <1>14 DEF Reliable, Promise, Since, Depth
  <2>1. i \in Present
    BY <1>4, PromiseMeans DEF Promise
  <2>2. m - i < d
    BY <1>2, <1>3, Matched
  <2> QED BY <1>1, <1>6, <1>7, <1>9, <1>10, <1>14, <2>1, <2>2 DEF Present
<1> QED BY <1>11, <1>15, <1>16, PromiseMeans, PTL

\* Only a best-effort reader loses samples on the way.
LEMMA LoseOrdered ==
    ASSUME TypeInv, OrderInv, Lose
    PROVE  TypeInv' /\ OrderInv' /\ ReliableKeepsLast'
<1>1. /\ wire # <<>> /\ ~subscription.dds.reliable /\ wire' = Tail(wire)
      /\ UNCHANGED <<endpoints, faults, written, joined, cache, invalid,
                     history>>
  BY DEF Lose
<1>2. joined # NULL
  BY <1>1 DEF OrderInv
<1>3. /\ Tail(wire) \in Seq(Nat) /\ Increasing(Tail(wire))
      /\ Range(Tail(wire)) \subseteq Range(wire)
  BY <1>1, TailIncreasing DEF TypeInv, OrderInv
<1>4. TypeInv'
  BY <1>1, <1>3 DEF TypeInv, endpoints, history
<1>5. UNCHANGED <<publisher, subscription, written, joined, cache, consumed>>
  BY <1>1 DEF endpoints, history
<1>6. Increasing(wire') /\ Range(wire') \subseteq Range(wire)
  BY <1>1, <1>3
<1>7. OrderInv'
  BY <1>2, <1>5, <1>6 DEF OrderInv, Increasing
<1>8. ~Reliable'
  BY <1>1, <1>2, <1>5, Matched DEF Reliable
<1> QED BY <1>4, <1>7, <1>8, PromiseMeans, PTL

\* A written message is the last position; a reliable writer repeats its last
\* messages.
LEMMA WriteOrdered ==
    ASSUME TypeInv, OrderInv, ReliableKeepsLast, NEW message \in Nat,
           written' = Append(written, message), Send(Len(written) + 1),
           UNCHANGED <<endpoints, faults, joined, cache, invalid, history>>
    PROVE  TypeInv' /\ OrderInv' /\ ReliableKeepsLast'
<1>1. PICK m \in Nat : m = Len(written)
  BY DEF TypeInv
<1>2. written' \in Seq(Nat) /\ Len(written') = m + 1
  BY <1>1, AppendProperties DEF TypeInv
<1>3. /\ Range(wire) \subseteq 1 .. m /\ Range(cache) \subseteq 1 .. m
      /\ consumed \subseteq 1 .. m
      /\ Increasing(wire) /\ Increasing(cache)
      /\ \A a \in Range(cache), b \in Range(wire) : a < b
      /\ \A c \in consumed : \A a \in Range(cache) \cup Range(wire) : c < a
  BY <1>1 DEF OrderInv
<1>4. PICK s \in Seq(Nat) :
        /\ s = Append(wire, m + 1) /\ Increasing(s)
        /\ Range(s) = Range(wire) \cup {m + 1}
  <2>1. wire \in Seq(Nat) /\ m + 1 \in Nat /\ \A a \in Range(wire) : a < m + 1
    BY <1>3 DEF TypeInv
  <2> QED BY <1>3, <2>1, AppendIncreasing
<1>5. Range(s) \subseteq 1 .. m + 1
  BY <1>3, <1>4
<1>6. UNCHANGED <<publisher, subscription, joined, cache, consumed>>
  BY DEF endpoints, history
<1>7. CASE joined = NULL
  <2>1. UNCHANGED wire
    BY <1>7 DEF Send, rmw_publisher_count_matched_subscriptions
  <2>2. TypeInv'
    BY <1>2, <2>1 DEF TypeInv, endpoints, history
  <2>3. 1 .. m \subseteq 1 .. m + 1
    OBVIOUS
  <2>4. Range(wire') \cup Range(cache') \cup consumed' \subseteq 1 .. Len(written')
    BY <1>2, <1>3, <1>6, <2>1, <2>3
  <2>5. OrderInv'
    BY <1>3, <1>6, <1>7, <2>1, <2>4 DEF OrderInv, Increasing
  <2>6. ~Reliable'
    BY <1>6, <1>7 DEF Reliable
  <2> QED BY <2>2, <2>5, <2>6, PromiseMeans, PTL
<1>8. CASE joined # NULL
  <2>1. PICK d \in Nat \ {0} :
            d = publisher.dds.depth /\ d = publisher.qos.depth
    BY <1>8, Matched
  <2>2. /\ LastOf(s, d) \in Seq(Nat)
        /\ Increasing(LastOf(s, d))
        /\ Range(LastOf(s, d)) \subseteq Range(s)
        /\ \A x \in Range(s) : (m + 1) - x < d => x \in Range(LastOf(s, d))
    <3>1. m + 1 \in Nat
      OBVIOUS
    <3> QED BY <1>4, <1>5, <3>1, LastOfKeeps
  <2>3. wire' = IF subscription.dds.reliable THEN LastOf(s, d) ELSE s
    BY <1>1, <1>4, <1>8, <2>1
       DEF Send, rmw_publisher_count_matched_subscriptions
  <2>4. /\ wire' \in Seq(Nat) /\ Increasing(wire')
        /\ Range(wire') \subseteq Range(wire) \cup {m + 1}
        /\ subscription.dds.reliable =>
            \A x \in Range(wire) \cup {m + 1} :
                (m + 1) - x < d => x \in Range(wire')
    BY <1>4, <2>2, <2>3
  <2>5. TypeInv'
    BY <1>2, <2>4 DEF TypeInv, endpoints, history
  <2>6. Range(wire') \cup Range(cache') \cup consumed' \subseteq 1 .. Len(written')
    <3>1. 1 .. m \subseteq 1 .. m + 1 /\ m + 1 \in 1 .. m + 1
      OBVIOUS
    <3> QED BY <1>2, <1>3, <1>6, <2>4, <3>1
  <2>7. /\ \A a \in Range(cache), b \in Range(wire') : a < b
        /\ \A c \in consumed : \A a \in Range(cache) \cup Range(wire') : c < a
    BY <1>3, <2>4
  <2>8. OrderInv'
    BY <1>3, <1>6, <1>8, <2>4, <2>6, <2>7 DEF OrderInv, Increasing
  <2>9. Reliable' => Promise'
    <3> SUFFICES ASSUME Reliable, NEW i \in 1 .. m + 1, i > Since,
                        (m + 1) - i < Depth
                 PROVE  i \in Present'
      BY <1>2, <1>6 DEF Reliable, Promise, Since, Depth
    <3>1. Depth \in Nat /\ Depth <= d /\ subscription.dds.reliable
      BY <1>8, <2>1, Matched DEF Reliable
    <3>2. (m + 1) - i < d
      BY <3>1
    <3>3. CASE i = m + 1
      BY <2>4, <3>1, <3>2, <3>3 DEF Present
    <3>4. CASE i # m + 1
      <4>1. i \in 1 .. m /\ m - i < Depth
        BY <3>1, <3>4
      <4>2. i \in Present
        BY <1>1, <4>1, PromiseMeans DEF Promise
      <4> QED BY <1>6, <2>4, <3>1, <3>2, <4>2 DEF Present
    <3> QED BY <3>3, <3>4
  <2> QED BY <2>5, <2>8, <2>9, PromiseMeans, PTL
<1> QED BY <1>7, <1>8

\* A position that is taken has been delivered.
LEMMA TakeOrdered ==
    ASSUME TypeInv, OrderInv, ReliableKeepsLast, cache # <<>>,
           consumed' = consumed \cup {Head(cache)}, cache' = Tail(cache),
           UNCHANGED <<endpoints, faults, written, joined, wire, invalid,
                       taken, refused>>
    PROVE  TypeInv' /\ OrderInv' /\ ReliableKeepsLast'
<1>1. joined # NULL
  BY DEF OrderInv
<1>2. PICK h \in Nat :
        /\ h = Head(cache) /\ Tail(cache) \in Seq(Nat)
        /\ Increasing(Tail(cache))
        /\ Range(cache) = Range(Tail(cache)) \cup {h}
        /\ \A a \in Range(Tail(cache)) : h < a
  BY TailIncreasing DEF TypeInv, OrderInv
<1>3. consumed' = consumed \cup {h}
  BY <1>2
<1>4. UNCHANGED <<publisher, subscription>>
  BY DEF endpoints
<1>5. TypeInv'
  BY <1>2, <1>3, <1>4 DEF TypeInv
<1>6. /\ Range(wire) \cup Range(cache') \cup consumed' \subseteq 1 .. Len(written)
      /\ \A a \in Range(cache'), b \in Range(wire) : a < b
      /\ \A c \in consumed' : \A a \in Range(cache') \cup Range(wire) : c < a
  BY <1>2, <1>3 DEF OrderInv
<1>7. Increasing(cache')
  BY <1>2
<1>8. OrderInv'
  BY <1>1, <1>4, <1>6, <1>7 DEF OrderInv, Increasing
<1>9. Present' = Present
  BY <1>2, <1>3 DEF Present
<1>10. Reliable' => Promise'
  BY <1>4, <1>9, PromiseMeans DEF Reliable, Promise, Since, Depth
<1> QED BY <1>5, <1>8, <1>10, PromiseMeans, PTL

-----------------------------------------------------------------------------
(* What is taken *)

\* Position a holds the i-th message that was taken.
Holds(a, i) == written[a] = taken[i]

\* The position that thread t is converting is later than those taken.
ConvertingInv(t) ==
    call[t].pc = "converting" =>
        \E c \in consumed :
            /\ written[c] = dds_sample["subscription"]
            /\ \A i \in 1 .. Len(taken) : \E a \in consumed : a < c /\ Holds(a, i)

\* TakenInv, taken apart.
LEMMA TakenMeans ==
    TakenInv <=>
        /\ \A i \in 1 .. Len(taken) : \E a \in consumed : Holds(a, i)
        /\ TakesAreOrdered
        /\ \A t \in TakingThreads : ConvertingInv(t)
BY DEF TakenInv, Holds, ConvertingInv

\* Steps that take nothing: messages may be written and threads may move, as
\* long as the sample stays under a conversion.
LEMMA StillTaken ==
    ASSUME TypeInv, OrderInv, TakenInv, UNCHANGED <<consumed, taken>>,
           \A a \in 1 .. Len(written) : written'[a] = written[a],
           Len(written') \in Nat, Len(written') >= Len(written),
           \A t \in TakingThreads : call'[t].pc = "converting" =>
                call[t].pc = "converting"
                /\ dds_sample'["subscription"] = dds_sample["subscription"]
    PROVE  TakenInv'
<1>1. /\ consumed \subseteq 1 .. Len(written)
      /\ 1 .. Len(written) \subseteq 1 .. Len(written')
  <2>1. Len(written) \in Nat
    BY DEF TypeInv
  <2> QED BY <2>1 DEF OrderInv
<1>2. \A a \in consumed : \A i \in 1 .. Len(taken) : Holds(a, i) => Holds(a, i)'
  BY <1>1 DEF Holds
<1>3. \A i \in 1 .. Len(taken') : \E a \in consumed' : Holds(a, i)'
  <2>1. \A i \in 1 .. Len(taken) : \E a \in consumed : Holds(a, i)
    BY TakenMeans
  <2> QED BY <1>2, <2>1
<1>4. TakesAreOrdered'
  <2>1. TakesAreOrdered
    BY TakenMeans
  <2> SUFFICES ASSUME NEW i \in 1 .. Len(taken'), NEW j \in 1 .. Len(taken'), i < j
               PROVE  \E a, b \in 1 .. Len(written') :
                        a < b /\ written'[a] = taken'[i] /\ written'[b] = taken'[j]
    BY DEF TakesAreOrdered
  <2>2. PICK a \in 1 .. Len(written), b \in 1 .. Len(written) :
            a < b /\ written[a] = taken[i] /\ written[b] = taken[j]
    BY <2>1 DEF TakesAreOrdered
  <2> QED BY <1>1, <2>2
<1>5. ASSUME NEW t \in TakingThreads PROVE ConvertingInv(t)'
  <2> SUFFICES ASSUME call'[t].pc = "converting"
               PROVE  \E c \in consumed :
                        /\ written'[c] = dds_sample'["subscription"]
                        /\ \A i \in 1 .. Len(taken) :
                            \E a \in consumed : a < c /\ Holds(a, i)'
    BY DEF ConvertingInv
  <2>1. PICK c \in consumed :
            /\ written[c] = dds_sample["subscription"]
            /\ \A i \in 1 .. Len(taken) :
                \E a \in consumed : a < c /\ Holds(a, i)
    BY TakenMeans DEF ConvertingInv
  <2>2. written'[c] = dds_sample'["subscription"]
    BY <1>1, <2>1
  <2> QED BY <1>2, <2>1, <2>2
<1> QED BY <1>3, <1>4, <1>5 DEF TakenInv, Holds, ConvertingInv

\* dds_take hands out a position later than those before it.
LEMMA TakeTaken ==
    ASSUME TypeInv, OrderInv, TakenInv, NEW h \in 1 .. Len(written),
           \A c \in consumed : c < h, consumed' = consumed \cup {h},
           UNCHANGED <<written, taken>>, dds_sample'["subscription"] = written[h]
    PROVE  TakenInv'
<1>1. \A a \in consumed : \A i \in 1 .. Len(taken) : Holds(a, i) => Holds(a, i)'
  BY DEF Holds
<1>2. \A i \in 1 .. Len(taken) : \E a \in consumed : a < h /\ Holds(a, i)'
  BY <1>1, TakenMeans
<1>3. \A i \in 1 .. Len(taken') : \E a \in consumed' : Holds(a, i)'
  BY <1>2
<1>4. TakesAreOrdered'
  <2>1. TakesAreOrdered
    BY TakenMeans
  <2> QED BY <2>1 DEF TakesAreOrdered
<1>5. ASSUME NEW t \in TakingThreads PROVE ConvertingInv(t)'
  <2>1. h \in consumed' /\ written'[h] = dds_sample'["subscription"]
    OBVIOUS
  <2>2. \A i \in 1 .. Len(taken') : \E a \in consumed' : a < h /\ Holds(a, i)'
    BY <1>2
  <2> QED BY <2>1, <2>2 DEF ConvertingInv
<1> QED BY <1>3, <1>4, <1>5 DEF TakenInv, Holds, ConvertingInv

\* The messages of s are in w, in this order.
OrderedIn(s, w) ==
    \A i, j \in 1 .. Len(s) :
        i < j => \E a, b \in 1 .. Len(w) : a < b /\ w[a] = s[i] /\ w[b] = s[j]

\* A later message goes to the end.
LEMMA AppendOrdered ==
    ASSUME NEW s \in Seq(Nat), NEW w, NEW c \in 1 .. Len(w), NEW x \in Nat,
           w[c] = x, OrderedIn(s, w),
           \A i \in 1 .. Len(s) : \E a \in 1 .. Len(w) : a < c /\ w[a] = s[i]
    PROVE  OrderedIn(Append(s, x), w)
<1>1. PICK l \in Nat : l = Len(s)
  OBVIOUS
<1>2. PICK r \in Seq(Nat) :
        /\ r = Append(s, x) /\ Len(r) = l + 1 /\ r[l + 1] = x
        /\ \A i \in 1 .. l : r[i] = s[i]
  <2>1. /\ Append(s, x) \in Seq(Nat) /\ Len(Append(s, x)) = Len(s) + 1
        /\ \A i \in 1 .. Len(s) : Append(s, x)[i] = s[i]
        /\ Append(s, x)[Len(s) + 1] = x
    BY AppendProperties
  <2> QED BY <1>1, <2>1
<1>4. OrderedIn(r, w)
  <2> SUFFICES ASSUME NEW i \in 1 .. Len(r), NEW j \in 1 .. Len(r), i < j
               PROVE  \E a, b \in 1 .. Len(w) :
                        a < b /\ w[a] = r[i] /\ w[b] = r[j]
    BY DEF OrderedIn
  <2>0. i \in 1 .. l + 1 /\ j \in 1 .. l + 1
    BY <1>2
  <2>1. i \in 1 .. l
    BY <2>0
  <2>2. CASE j \in 1 .. l
    BY <1>1, <1>2, <2>1, <2>2 DEF OrderedIn
  <2>3. CASE j = l + 1
    BY <1>1, <1>2, <2>1, <2>3
  <2> QED BY <2>0, <2>2, <2>3
<1> QED BY <1>2, <1>4

\* rmw_take returns the message it converted.
LEMMA ConvertTaken ==
    ASSUME TypeInv, OrderInv, TakenInv, NEW t \in TakingThreads,
           call[t].pc = "converting", NEW x \in Nat,
           x = dds_sample["subscription"], taken' = Append(taken, x),
           \A u \in TakingThreads : call'[u].pc # "converting",
           UNCHANGED <<written, consumed>>
    PROVE  TakenInv'
<1>1. PICK l \in Nat : l = Len(taken)
  BY DEF TypeInv
<1>2. /\ Len(taken') = l + 1 /\ taken'[l + 1] = x
      /\ \A i \in 1 .. l : taken'[i] = taken[i]
  BY <1>1, AppendProperties DEF TypeInv
<1>3. PICK c \in consumed :
        /\ written[c] = x
        /\ \A i \in 1 .. l : \E a \in consumed : a < c /\ Holds(a, i)
  BY <1>1, TakenMeans DEF ConvertingInv
<1>4. \A i \in 1 .. l + 1 : i \in 1 .. l \/ i = l + 1
  OBVIOUS
<1>5. \A a \in consumed : \A i \in 1 .. l : Holds(a, i) => Holds(a, i)'
  BY <1>2 DEF Holds
<1>6. Holds(c, l + 1)'
  BY <1>2, <1>3 DEF Holds
<1>7. \A i \in 1 .. Len(taken') : \E a \in consumed' : Holds(a, i)'
  BY <1>2, <1>3, <1>4, <1>5, <1>6
<1>8. TakesAreOrdered'
  <2>1. OrderedIn(taken, written) /\ taken \in Seq(Nat)
    BY TakenMeans DEF TakesAreOrdered, OrderedIn, TypeInv
  <2>2. consumed \subseteq 1 .. Len(written)
    BY DEF OrderInv
  <2>3. \A i \in 1 .. Len(taken) :
            \E a \in 1 .. Len(written) : a < c /\ written[a] = taken[i]
    BY <1>1, <1>3, <2>2 DEF Holds
  <2>4. OrderedIn(Append(taken, x), written)
    BY <1>3, <2>1, <2>2, <2>3, AppendOrdered
  <2>5. OrderedIn(taken', written')
    BY <2>4
  <2> QED BY <2>5 DEF TakesAreOrdered, OrderedIn
<1>9. \A u \in TakingThreads : ConvertingInv(u)'
  BY DEF ConvertingInv
<1> QED BY <1>7, <1>8, <1>9 DEF TakenInv, Holds, ConvertingInv

-----------------------------------------------------------------------------
(* The steps *)

\* Initially there is nothing.
LEMMA DataInvInitially == Init => DataInv
<1> SUFFICES ASSUME Init PROVE DataInv
  OBVIOUS
<1>1. <<>> \in Seq(Nat) /\ Range(<<>>) = {} /\ Len(<<>>) = 0
  BY DEF Range
<1>2. TypeInv
  BY <1>1 DEF Init, TypeInv
<1>3. \A t \in Threads : call[t] = Idle /\ call[t].pc = "idle"
                         /\ call[t].message = NULL
  BY DEF Init, Idle
<1>4. CallTypes
  <2>1. Idle \in [pc : Phases, message : Nat \cup {NULL}]
    BY DEF Idle, Phases
  <2>2. call \in [Threads -> [pc : Phases, message : Nat \cup {NULL}]]
    BY <2>1 DEF Init
  <2>3. /\ sample_lock \in [Sides -> Threads \cup {NULL}]
        /\ dds_sample \in [Sides -> Nat \cup {NULL}]
    BY DEF Init, Sides
  <2> QED BY <1>3, <2>2, <2>3 DEF CallTypes, PublisherType, TakerType, Threads
<1>5. MutexInv
  BY <1>3 DEF MutexInv, Critical
<1>6. CountInv
  <2>1. Busy = {} /\ refused = {} /\ written = <<>>
    BY <1>3 DEF Init, Busy, Threads
  <2>2. IsFiniteSet(Busy) /\ IsFiniteSet(refused)
        /\ Cardinality(Busy) = 0 /\ Cardinality(refused) = 0
    BY <2>1, FS_EmptySet
  <2>3. Published = 0
    BY <1>1, <2>1, <2>2 DEF Published, Busy
  <2> QED BY <1>1, <2>1, <2>2, <2>3 DEF CountInv
<1>7. OrderInv
  BY <1>1 DEF Init, OrderInv, Increasing
<1>8. TakenInv
  BY <1>1, <1>3 DEF Init, TakenInv, TakesAreOrdered, Threads
<1>9. ReliableKeepsLast
  BY PromiseMeans DEF Init, Reliable
<1> QED BY <1>2, <1>4, <1>5, <1>6, <1>7, <1>8, <1>9 DEF DataInv, ThreadInv

\* Steps of DDS leave the threads and what they did alone.
LEMMA DdsStep ==
    ASSUME DataInv,
           UNCHANGED <<sample_lock, dds_sample, call, written, history>>
    PROVE  ThreadInv' /\ CountInv' /\ TakenInv'
<1>1. ThreadInv'
  BY StillKeeps DEF DataInv
<1>2. CountInv'
  <2>1. NoMessageMoves
    BY DEF NoMessageMoves, history
  <2> QED BY <2>1, QuietCounts DEF DataInv
<1>3. TakenInv'
  <2>1. Len(written) \in Nat
    BY DEF DataInv, TypeInv
  <2>2. UNCHANGED <<consumed, taken>>
    BY DEF history
  <2> QED BY <2>1, <2>2, StillTaken DEF DataInv
<1> QED BY <1>1, <1>2, <1>3

\* Steps of threads that leave DDS alone.
LEMMA NoDdsStep ==
    ASSUME DataInv, UNCHANGED <<endpoints, dds, consumed, taken>>,
           faults' \in Nat, refused' \subseteq Nat
    PROVE  TypeInv' /\ OrderInv' /\ ReliableKeepsLast'
<1>1. TypeInv'
  BY DEF DataInv, TypeInv, endpoints, dds
<1>2. UNCHANGED <<written, joined, wire, cache, consumed>>
  BY DEF dds
<1> QED BY <1>1, <1>2, StillOrdered DEF DataInv

\* A taking thread moves no message.
LEMMA TakerMovesNoMessage ==
    ASSUME NEW t \in TakingThreads, \A u \in Threads \ {t} : call'[u] = call[u],
           UNCHANGED <<written, refused>>
    PROVE  NoMessageMoves
<1>1. \A u \in PublishingThreads : u \in Threads \ {t}
  BY ThreadsAreDistinct DEF Threads
<1> QED BY <1>1 DEF NoMessageMoves

\* A step that only ends or begins calls, or clears a sample nobody is
\* converting, takes nothing.
LEMMA NothingTaken ==
    ASSUME DataInv, UNCHANGED <<written, consumed, taken>>,
           \A t \in TakingThreads : call'[t].pc = "converting" =>
                call[t].pc = "converting"
                /\ dds_sample'["subscription"] = dds_sample["subscription"]
    PROVE  TakenInv'
<1>1. Len(written) \in Nat
  BY DEF DataInv, TypeInv
<1> QED BY <1>1, StillTaken DEF DataInv

\* rmw_create_publisher and rmw_create_subscription.
LEMMA CreateStep ==
    ASSUME DataInv, NEW qos \in Profiles,
           CreatePublisher(qos) \/ CreateSubscription(qos)
    PROVE  DataInv'
<1>0. TypeInv /\ OrderInv
  BY DEF DataInv
<1>1. UNCHANGED <<sample_lock, dds_sample, call, faults, dds, history>>
  BY DEF CreatePublisher, CreateSubscription
<1>2. ThreadInv' /\ CountInv' /\ TakenInv'
  BY <1>1, DdsStep DEF dds
<1>3. joined = NULL
  BY <1>0 DEF CreatePublisher, CreateSubscription, OrderInv
<1>4. OrderInv' /\ ReliableKeepsLast'
  BY <1>1, <1>3, StillOrdered DEF DataInv, dds, history
<1>5. TypeInv'
  <2>1. ASSUME CreatePublisher(qos)
        PROVE  publisher' \in Endpoint(TRUE) /\ UNCHANGED subscription
    BY <2>1 DEF CreatePublisher, Endpoint
  <2>2. ASSUME CreateSubscription(qos)
        PROVE  subscription' \in Endpoint(FALSE) /\ UNCHANGED publisher
    BY <2>2 DEF CreateSubscription, Endpoint
  <2>3. /\ publisher' \in {NULL} \cup Endpoint(TRUE)
        /\ subscription' \in {NULL} \cup Endpoint(FALSE)
    BY <1>0, <2>1, <2>2 DEF TypeInv
  <2> QED BY <1>0, <1>1, <2>3 DEF TypeInv, dds, history
<1> QED BY <1>2, <1>4, <1>5 DEF DataInv

\* What DDS does by itself.
LEMMA DdsSteps ==
    ASSUME DataInv, Match \/ Deliver \/ Lose \/ OtherWriterLeaves
    PROVE  DataInv'
<1>0. TypeInv /\ OrderInv /\ ReliableKeepsLast
  BY DEF DataInv
<1>1. UNCHANGED <<sample_lock, dds_sample, call, written, history>>
  BY DEF Match, Deliver, Lose, OtherWriterLeaves
<1>2. ThreadInv' /\ CountInv' /\ TakenInv'
  BY <1>1, DdsStep
<1>3. TypeInv' /\ OrderInv' /\ ReliableKeepsLast'
  <2>1. CASE Match
    BY <1>0, <2>1, MatchOrdered
  <2>2. CASE Deliver
    BY <1>0, <2>2, DeliverOrdered
  <2>3. CASE Lose
    BY <1>0, <2>3, LoseOrdered
  <2>4. CASE OtherWriterLeaves
    <3>1. /\ faults' \in Nat /\ invalid' \in BOOLEAN
          /\ UNCHANGED <<endpoints, written, joined, wire, cache, history>>
      BY <1>0, <2>4 DEF OtherWriterLeaves, Fault, TypeInv
    <3>2. TypeInv'
      BY <1>0, <3>1 DEF TypeInv, endpoints, history
    <3>3. OrderInv' /\ ReliableKeepsLast'
      BY <1>0, <3>1, StillOrdered DEF history
    <3> QED BY <3>2, <3>3
  <2> QED BY <2>1, <2>2, <2>3, <2>4
<1> QED BY <1>2, <1>3 DEF DataInv

\* rmw_publish begins.
LEMMA PublishStep ==
    ASSUME DataInv, NEW t \in Threads, rmw_publish(t)
    PROVE  DataInv'
<1>0. TypeInv /\ ThreadInv /\ CallTypes /\ CountInv
  BY DEF DataInv, ThreadInv
<1>1. /\ t \in PublishingThreads /\ call[t].pc = "idle"
      /\ call' = [call EXCEPT ![t] = [pc |-> "lock", message |-> Published + 1]]
      /\ UNCHANGED <<endpoints, sample_lock, dds_sample, faults, dds, history>>
  BY DEF rmw_publish
<1>2. PICK p \in Nat : p = Published
  BY <1>0, PublishedIsNatural
<1>3. [pc |-> "lock", message |-> Published + 1]
            \in [pc : Phases, message : Nat \cup {NULL}]
  BY <1>2 DEF Phases
<1>4. /\ call' \in [Threads -> [pc : Phases, message : Nat \cup {NULL}]]
      /\ call'[t] = [pc |-> "lock", message |-> Published + 1]
      /\ \A u \in Threads \ {t} : call'[u] = call[u]
  BY <1>0, <1>1, <1>3 DEF CallTypes
<1>5. call'[t].pc = "lock" /\ call'[t].message = Published + 1
  BY <1>4
<1>6. ThreadInv'
  BY <1>0, <1>1, <1>2, <1>4, <1>5, BeginKeeps
<1>7. CountInv'
  <2>1. t \notin Busy
    BY <1>1 DEF Busy
  <2> QED BY <1>0, <1>1, <1>4, <1>5, <2>1, BeginCounts DEF dds, history
<1>8. TypeInv' /\ OrderInv' /\ ReliableKeepsLast'
  BY <1>0, <1>1, NoDdsStep DEF TypeInv, history
<1>9. TakenInv'
  <2>1. \A u \in TakingThreads : u \in Threads \ {t}
    BY <1>1, ThreadsAreDistinct DEF Threads
  <2> QED BY <1>1, <1>4, <2>1, NothingTaken DEF dds, history
<1> QED BY <1>6, <1>7, <1>8, <1>9 DEF DataInv

\* rmw_take begins.
LEMMA TakeBeginStep ==
    ASSUME DataInv, NEW t \in Threads, rmw_take(t)
    PROVE  DataInv'
<1>0. TypeInv /\ ThreadInv /\ CallTypes /\ CountInv
  BY DEF DataInv, ThreadInv
<1>1. /\ t \in TakingThreads
      /\ call' = [call EXCEPT ![t].pc = "lock"]
      /\ UNCHANGED <<endpoints, sample_lock, dds_sample, faults, dds, history>>
  BY DEF rmw_take
<1>2. /\ call' \in [Threads -> [pc : Phases, message : Nat \cup {NULL}]]
      /\ call'[t].pc = "lock"
      /\ \A u \in Threads \ {t} : call'[u] = call[u]
  BY <1>0, <1>1 DEF CallTypes, Phases
<1>3. t \notin PublishingThreads
  BY <1>1, ThreadsAreDistinct
<1>4. ThreadInv'
  BY <1>0, <1>1, <1>2, <1>3, BeginKeeps
<1>5. CountInv'
  BY <1>0, <1>1, <1>2, TakerMovesNoMessage, QuietCounts DEF dds, history
<1>6. TypeInv' /\ OrderInv' /\ ReliableKeepsLast'
  BY <1>0, <1>1, NoDdsStep DEF TypeInv, history
<1>7. TakenInv'
  <2>1. \A u \in TakingThreads : call'[u].pc = "converting" =>
                call[u].pc = "converting"
                /\ dds_sample'["subscription"] = dds_sample["subscription"]
    BY <1>1, <1>2 DEF Threads
  <2> QED BY <1>1, <2>1, NothingTaken DEF dds, history
<1> QED BY <1>4, <1>5, <1>6, <1>7 DEF DataInv

\* lock_sample and memset.
LEMMA LockStep ==
    ASSUME DataInv, NEW t \in Threads, LockAndClear(t)
    PROVE  DataInv'
<1>0. TypeInv /\ ThreadInv /\ CallTypes /\ MutexInv /\ CountInv
  BY DEF DataInv, ThreadInv
<1>1. PICK message \in Nat \cup {NULL} : message = call[t].message
  BY <1>0 DEF CallTypes
<1>2. /\ call[t].pc = "lock" /\ lock_sample(t)
      /\ Continue(t, "locked", message, NULL)
      /\ UNCHANGED <<faults, dds, history>>
  BY <1>1 DEF LockAndClear
<1>3. "locked" \in Phases /\ NULL \in Nat \cup {NULL}
  BY DEF Phases
<1>4. t \in PublishingThreads => message \in Nat
  BY <1>0, <1>1, <1>2 DEF CallTypes, PublisherType
<1>5. ThreadInv'
  BY <1>0, <1>2, <1>3, <1>4, ContinueKeeps
<1>6. /\ call'[t].pc = "locked" /\ call'[t].message = message
      /\ \A u \in Threads \ {t} : call'[u] = call[u]
  <2>1. PICK pc \in Phases, sample \in Nat \cup {NULL} :
            pc = "locked" /\ sample = NULL
    BY <1>3
  <2>2. Continue(t, pc, message, sample)
    BY <1>2, <2>1
  <2> QED BY <1>0, <2>1, <2>2, ContinueMeans
<1>7. CountInv'
  <2>1. NoMessageMoves
    <3>1. ASSUME NEW u \in PublishingThreads
          PROVE  /\ call'[u].pc = "idle" <=> call[u].pc = "idle"
                 /\ call'[u].message = call[u].message
      BY <1>1, <1>2, <1>6 DEF Threads
    <3> QED BY <1>2, <3>1 DEF NoMessageMoves, dds, history
  <2> QED BY <1>0, <2>1, QuietCounts
<1>8. UNCHANGED endpoints
  BY <1>2 DEF Continue
<1>9. TypeInv' /\ OrderInv' /\ ReliableKeepsLast'
  BY <1>0, <1>2, <1>8, NoDdsStep DEF TypeInv, history
<1>10. ASSUME NEW u \in TakingThreads, call'[u].pc = "converting"
       PROVE  call[u].pc = "converting"
              /\ dds_sample'["subscription"] = dds_sample["subscription"]
  <2>1. u \in Threads /\ u # t /\ call[u].pc = "converting"
    BY <1>6, <1>10 DEF Threads
  <2>2. SideOf(u) = "subscription" /\ sample_lock["subscription"] = u
        /\ u # NULL
    BY <1>0, <2>1, PhaseTellsSide, ThreadsAreDistinct DEF MutexInv, Critical
  <2>3. SideOf(t) = "publisher"
    BY <1>2, <2>2 DEF lock_sample, SideOf
  <2>4. \A side \in Sides \ {SideOf(t)} : dds_sample'[side] = dds_sample[side]
    BY <1>0, <1>2, <1>3, ContinueMeans
  <2> QED BY <2>1, <2>3, <2>4 DEF Sides
<1>11. TakenInv'
  BY <1>2, <1>10, NothingTaken DEF dds, history
<1> QED BY <1>5, <1>7, <1>9, <1>11 DEF DataInv

\* A call that returns takes nothing by itself.
LEMMA ReturnTakesNothing ==
    ASSUME DataInv, NEW t \in Threads, Return(t),
           UNCHANGED <<written, consumed, taken>>
    PROVE  TakenInv'
<1>0. CallTypes
  BY DEF DataInv, ThreadInv
<1>1. /\ call'[t].pc = "idle" /\ UNCHANGED dds_sample
      /\ \A u \in Threads \ {t} : call'[u] = call[u]
  BY <1>0, ReturnMeans
<1>2. \A u \in TakingThreads : call'[u].pc = "converting" =>
            call[u].pc = "converting"
            /\ dds_sample'["subscription"] = dds_sample["subscription"]
  BY <1>1 DEF Threads
<1> QED BY <1>2, NothingTaken

\* rmw_publish fails: the conversion or dds_write returned an error.
LEMMA RefuseStep ==
    ASSUME DataInv, NEW t \in PublishingThreads, Critical(t), Fault, Return(t),
           refused' = refused \cup {call[t].message},
           UNCHANGED <<dds, consumed, taken>>
    PROVE  DataInv'
<1>0. TypeInv /\ ThreadInv /\ CallTypes /\ CountInv /\ t \in Threads
  BY DEF DataInv, ThreadInv, Threads
<1>1. ThreadInv'
  BY <1>0, ReturnKeeps
<1>2. /\ call'[t].pc = "idle"
      /\ \A u \in Threads \ {t} : call'[u] = call[u]
  BY <1>0, ReturnMeans
<1>3. t \in Busy /\ call[t].message \in Nat
  BY <1>0 DEF Busy, Critical, CallTypes, PublisherType
<1>4. CountInv'
  BY <1>0, <1>2, <1>3, RefuseCounts DEF dds
<1>5. faults' \in Nat /\ refused' \subseteq Nat /\ UNCHANGED endpoints
  <2>1. faults' \in Nat
    BY <1>0 DEF Fault, TypeInv
  <2>2. refused' \subseteq Nat
    BY <1>0, <1>3 DEF TypeInv
  <2>3. UNCHANGED endpoints
    BY DEF Return
  <2> QED BY <2>1, <2>2, <2>3
<1>6. TypeInv' /\ OrderInv' /\ ReliableKeepsLast'
  BY <1>5, NoDdsStep
<1>7. TakenInv'
  BY <1>0, ReturnTakesNothing DEF dds
<1> QED BY <1>1, <1>4, <1>6, <1>7 DEF DataInv

\* ros_to_dds, and its failure.
LEMMA ToDdsStep ==
    ASSUME DataInv, NEW t \in Threads, ros_to_dds(t)
    PROVE  DataInv'
<1>0. TypeInv /\ ThreadInv /\ CallTypes /\ CountInv
  BY DEF DataInv, ThreadInv
<1>1. /\ t \in PublishingThreads /\ call[t].pc = "locked"
      /\ UNCHANGED <<dds, consumed, taken>>
  BY DEF ros_to_dds
<1>2. PICK message \in Nat : message = call[t].message
  BY <1>0, <1>1 DEF CallTypes, PublisherType
<1>3. Critical(t)
  BY <1>1 DEF Critical
<1>4. CASE /\ Continue(t, "converted", call[t].message, call[t].message)
           /\ UNCHANGED <<faults, refused>>
  <2>1. PICK pc \in Phases, sample \in Nat \cup {NULL} :
            pc = "converted" /\ sample = message
    BY DEF Phases
  <2>2. Continue(t, pc, message, sample) /\ message \in Nat \cup {NULL}
    BY <1>2, <1>4, <2>1
  <2>3. t \notin TakingThreads
    BY <1>1, ThreadsAreDistinct
  <2>4. ThreadInv'
    BY <1>0, <1>3, <2>1, <2>2, <2>3, ContinueKeeps
  <2>5. /\ call'[t].pc = "converted" /\ call'[t].message = message
        /\ \A u \in Threads \ {t} : call'[u] = call[u]
        /\ \A side \in Sides \ {SideOf(t)} : dds_sample'[side] = dds_sample[side]
    BY <1>0, <2>1, <2>2, ContinueMeans
  <2>6. CountInv'
    <3>1. ASSUME NEW u \in PublishingThreads
          PROVE  /\ call'[u].pc = "idle" <=> call[u].pc = "idle"
                 /\ call'[u].message = call[u].message
      BY <1>1, <1>2, <2>5 DEF Threads
    <3>2. NoMessageMoves
      BY <1>1, <1>4, <3>1 DEF NoMessageMoves, dds
    <3> QED BY <1>0, <3>2, QuietCounts
  <2>7. TypeInv' /\ OrderInv' /\ ReliableKeepsLast'
    <3>1. UNCHANGED endpoints
      BY <1>4 DEF Continue
    <3> QED BY <1>0, <1>1, <1>4, <3>1, NoDdsStep DEF TypeInv
  <2>8. TakenInv'
    <3>1. \A u \in TakingThreads : call'[u] = call[u]
      BY <2>3, <2>5 DEF Threads
    <3>2. dds_sample'["subscription"] = dds_sample["subscription"]
      BY <1>1, <2>5 DEF SideOf, Sides
    <3> QED BY <1>1, <3>1, <3>2, NothingTaken DEF dds
  <2> QED BY <2>4, <2>6, <2>7, <2>8 DEF DataInv
<1>5. CASE ConversionFails(t) /\ refused' = refused \cup {call[t].message}
  BY <1>1, <1>3, <1>5, RefuseStep DEF ConversionFails
<1> QED BY <1>4, <1>5 DEF ros_to_dds

\* dds_write.
LEMMA WriteStep ==
    ASSUME DataInv, NEW t \in Threads, Write(t)
    PROVE  DataInv'
<1>0. /\ TypeInv /\ ThreadInv /\ CallTypes /\ MutexInv /\ CountInv /\ OrderInv
      /\ ReliableKeepsLast /\ TakenInv
  BY DEF DataInv, ThreadInv
<1>1. /\ call[t].pc = "converted" /\ Return(t)
      /\ written' = Append(written, dds_sample["publisher"])
      /\ Send(Len(written) + 1)
      /\ UNCHANGED <<faults, joined, cache, invalid, history>>
  BY DEF Write
<1>2. t \in PublishingThreads /\ t \in Busy /\ Critical(t)
  BY <1>0, <1>1, PhaseTellsSide DEF Busy, Critical
<1>3. PICK message \in Nat :
        message = call[t].message /\ message = dds_sample["publisher"]
  <2>1. call[t].message \in Nat
    BY <1>0, <1>1, <1>2 DEF CallTypes, PublisherType
  <2> QED BY <1>0, <1>1, <2>1 DEF MutexInv
<1>4. ThreadInv'
  BY <1>0, <1>1, <1>2, ReturnKeeps
<1>5. /\ call'[t].pc = "idle" /\ UNCHANGED dds_sample
      /\ \A u \in Threads \ {t} : call'[u] = call[u]
  BY <1>0, <1>1, ReturnMeans
<1>6. CountInv'
  BY <1>0, <1>1, <1>2, <1>3, <1>5, WriteCounts DEF history
<1>7. TypeInv' /\ OrderInv' /\ ReliableKeepsLast'
  <2>1. UNCHANGED endpoints
    BY <1>1 DEF Return
  <2>2. written' = Append(written, message)
    BY <1>1, <1>3
  <2> QED BY <1>0, <1>1, <1>3, <2>1, <2>2, WriteOrdered
<1>8. TakenInv'
  <2>1. PICK m \in Nat : m = Len(written)
    BY <1>0 DEF TypeInv
  <2>2. /\ Len(written') = m + 1
        /\ \A a \in 1 .. m : written'[a] = written[a]
    BY <1>0, <1>1, <1>3, <2>1, AppendProperties DEF TypeInv
  <2>3. \A u \in TakingThreads : call'[u].pc = "converting" =>
            call[u].pc = "converting"
            /\ dds_sample'["subscription"] = dds_sample["subscription"]
    BY <1>5 DEF Threads
  <2>4. Len(written') \in Nat /\ Len(written') >= Len(written)
    BY <2>1, <2>2
  <2>5. UNCHANGED <<consumed, taken>>
    BY <1>1 DEF history
  <2> QED BY <1>0, <2>1, <2>2, <2>3, <2>4, <2>5, StillTaken
<1> QED BY <1>4, <1>6, <1>7, <1>8 DEF DataInv

\* dds_write fails.
LEMMA WriteFailsStep ==
    ASSUME DataInv, NEW t \in Threads, WriteFails(t)
    PROVE  DataInv'
<1>1. t \in PublishingThreads /\ Critical(t)
  BY PhaseTellsSide DEF DataInv, ThreadInv, WriteFails, Critical
<1> QED BY <1>1, RefuseStep DEF WriteFails

\* rmw_take returns without a message: a fault, or no data.
LEMMA TakeNothingStep ==
    ASSUME DataInv, NEW t \in TakingThreads, Critical(t), Return(t),
           faults' \in Nat, invalid' \in BOOLEAN,
           UNCHANGED <<written, joined, wire, cache, history>>
    PROVE  DataInv'
<1>0. TypeInv /\ ThreadInv /\ CallTypes /\ CountInv /\ t \in Threads
  BY DEF DataInv, ThreadInv, Threads
<1>1. ThreadInv'
  BY <1>0, ReturnKeeps
<1>2. \A u \in Threads \ {t} : call'[u] = call[u]
  BY <1>0, ReturnMeans
<1>3. CountInv'
  BY <1>0, <1>2, TakerMovesNoMessage, QuietCounts DEF history
<1>4. UNCHANGED endpoints
  BY DEF Return
<1>5. TypeInv'
  BY <1>0, <1>4 DEF TypeInv, endpoints, history
<1>6. OrderInv' /\ ReliableKeepsLast'
  BY <1>4, StillOrdered DEF DataInv, history
<1>7. TakenInv'
  BY <1>0, ReturnTakesNothing DEF history
<1> QED BY <1>1, <1>3, <1>5, <1>6, <1>7 DEF DataInv

\* dds_take of one sample.
LEMMA TakeSampleStep ==
    ASSUME DataInv, NEW t \in TakingThreads, Critical(t), dds_take(t),
           UNCHANGED <<faults, written, joined, wire, taken, refused>>
    PROVE  DataInv'
<1>0. /\ TypeInv /\ ThreadInv /\ CallTypes /\ CountInv /\ OrderInv
      /\ TakenInv /\ ReliableKeepsLast /\ t \in Threads
  BY DEF DataInv, ThreadInv, Threads
<1>1. /\ cache # <<>>
      /\ Continue(t, "converting", NULL, written[Head(cache)])
      /\ consumed' = consumed \cup {Head(cache)} /\ cache' = Tail(cache)
      /\ UNCHANGED invalid
  BY DEF dds_take
<1>2. PICK h \in 1 .. Len(written) : h = Head(cache) /\ \A c \in consumed : c < h
  <2>1. Range(cache) = Range(Tail(cache)) \cup {Head(cache)}
    BY <1>0, <1>1, TailIncreasing DEF TypeInv, OrderInv
  <2> QED BY <1>0, <2>1 DEF OrderInv
<1>3. PICK pc \in Phases, message \in Nat \cup {NULL}, sample \in Nat \cup {NULL} :
            pc = "converting" /\ message = NULL /\ sample = written[h]
            /\ sample \in Nat
  <2>0. written \in Seq(Nat)
    BY <1>0 DEF TypeInv
  <2>1. written[h] \in Nat
    BY <2>0
  <2>2. "converting" \in Phases
    BY DEF Phases
  <2> QED BY <2>1, <2>2
<1>4. Continue(t, pc, message, sample)
  BY <1>1, <1>2, <1>3
<1>5. t \notin PublishingThreads
  BY ThreadsAreDistinct
<1>6. ThreadInv'
  BY <1>0, <1>3, <1>4, <1>5, ContinueKeeps
<1>7. /\ dds_sample'[SideOf(t)] = sample
      /\ \A u \in Threads \ {t} : call'[u] = call[u]
  BY <1>0, <1>3, <1>4, ContinueMeans
<1>8. CountInv'
  BY <1>0, <1>7, TakerMovesNoMessage, QuietCounts
<1>9. TypeInv' /\ OrderInv' /\ ReliableKeepsLast'
  <2>1. UNCHANGED endpoints
    BY <1>1 DEF Continue
  <2> QED BY <1>0, <1>1, <2>1, TakeOrdered
<1>10. TakenInv'
  <2>1. dds_sample'["subscription"] = written[h]
    BY <1>3, <1>5, <1>7 DEF SideOf
  <2>2. consumed' = consumed \cup {h}
    BY <1>1, <1>2
  <2> QED BY <1>0, <1>2, <2>1, <2>2, TakeTaken
<1> QED BY <1>6, <1>8, <1>9, <1>10 DEF DataInv

\* dds_take.
LEMMA TakeStep ==
    ASSUME DataInv, NEW t \in Threads, Take(t)
    PROVE  DataInv'
<1>0. TypeInv
  BY DEF DataInv
<1>1. /\ t \in TakingThreads /\ Critical(t)
      /\ UNCHANGED <<written, joined, wire, taken, refused>>
  BY DEF Take, Critical
<1>2. CASE dds_take(t) /\ UNCHANGED faults
  BY <1>1, <1>2, TakeSampleStep
<1>3. CASE dds_take_nothing(t) /\ UNCHANGED faults
  <2>1. /\ Return(t) /\ invalid' \in BOOLEAN /\ faults' \in Nat
        /\ UNCHANGED <<cache, history>>
    BY <1>0, <1>1, <1>3 DEF dds_take_nothing, history, TypeInv
  <2> QED BY <1>1, <2>1, TakeNothingStep
<1>4. CASE Fault /\ Return(t) /\ UNCHANGED <<cache, invalid, consumed>>
  <2>1. /\ invalid' \in BOOLEAN /\ faults' \in Nat
        /\ UNCHANGED <<cache, history>>
    BY <1>0, <1>1, <1>4 DEF Fault, history, TypeInv
  <2> QED BY <1>1, <1>4, <2>1, TakeNothingStep
<1> QED BY <1>2, <1>3, <1>4 DEF Take

\* dds_to_ros, and its failure.
LEMMA ToRosStep ==
    ASSUME DataInv, NEW t \in Threads, dds_to_ros(t)
    PROVE  DataInv'
<1>0. /\ TypeInv /\ ThreadInv /\ CallTypes /\ MutexInv /\ CountInv /\ OrderInv
      /\ TakenInv /\ ReliableKeepsLast
  BY DEF DataInv, ThreadInv
<1>1. /\ call[t].pc = "converting" /\ Return(t)
      /\ UNCHANGED <<dds, consumed, refused>>
  BY DEF dds_to_ros, ConversionFails
<1>2. t \in TakingThreads /\ Critical(t) /\ SideOf(t) = "subscription"
  BY <1>0, <1>1, PhaseTellsSide DEF Critical
<1>3. CASE taken' = Append(taken, dds_sample["subscription"])
           /\ UNCHANGED faults
  <2>1. PICK x \in Nat : x = dds_sample["subscription"]
    BY <1>0, <1>1 DEF MutexInv
  <2>2. ThreadInv'
    BY <1>0, <1>1, <1>2, ReturnKeeps
  <2>3. /\ call'[t].pc = "idle"
        /\ \A u \in Threads \ {t} : call'[u] = call[u]
    BY <1>0, <1>1, ReturnMeans
  <2>4. CountInv'
    BY <1>0, <1>1, <1>2, <2>3, TakerMovesNoMessage, QuietCounts DEF dds
  <2>5. UNCHANGED endpoints
    BY <1>1 DEF Return
  <2>6. TypeInv'
    <3>1. taken' \in Seq(Nat)
      <4>1. taken \in Seq(Nat)
        BY <1>0 DEF TypeInv
      <4>2. Append(taken, x) \in Seq(Nat)
        BY <4>1, AppendProperties
      <4> QED BY <1>3, <2>1, <4>2
    <3> QED BY <1>0, <1>1, <1>3, <2>5, <3>1 DEF TypeInv, endpoints, dds
  <2>7. OrderInv' /\ ReliableKeepsLast'
    BY <1>0, <1>1, <2>5, StillOrdered DEF dds
  <2>8. ASSUME NEW u \in TakingThreads PROVE call'[u].pc # "converting"
    <3>1. CASE u = t
      BY <2>3, <3>1
    <3>2. CASE u # t
      <4>1. u \in Threads /\ call'[u] = call[u]
        BY <2>3, <3>2 DEF Threads
      <4>2. sample_lock["subscription"] = t
        BY <1>0, <1>2 DEF MutexInv
      <4> QED BY <1>0, <3>2, <4>1, <4>2, PhaseTellsSide DEF MutexInv, Critical
    <3> QED BY <3>1, <3>2
  <2>9. TakenInv'
    <3>1. taken' = Append(taken, x) /\ UNCHANGED <<written, consumed>>
      BY <1>1, <1>3, <2>1 DEF dds
    <3> QED BY <1>0, <1>1, <1>2, <2>1, <2>8, <3>1, ConvertTaken
  <2> QED BY <2>2, <2>4, <2>6, <2>7, <2>9 DEF DataInv
<1>4. CASE Fault /\ UNCHANGED taken
  <2>1. /\ invalid' \in BOOLEAN /\ faults' \in Nat
        /\ UNCHANGED <<written, joined, wire, cache, history>>
    BY <1>0, <1>1, <1>4 DEF Fault, history, dds, TypeInv
  <2> QED BY <1>1, <1>2, <2>1, TakeNothingStep
<1> QED BY <1>3, <1>4 DEF dds_to_ros, ConversionFails

-----------------------------------------------------------------------------
(* The theorems *)

\* Every step keeps the invariant.
LEMMA DataInvIsInductive == DataInv /\ [Next]_vars => DataInv'
<1> SUFFICES ASSUME DataInv, [Next]_vars PROVE DataInv'
  OBVIOUS
<1>1. ASSUME NEW qos \in Profiles, CreatePublisher(qos) \/ CreateSubscription(qos)
      PROVE  DataInv'
  BY <1>1, CreateStep
<1>2. CASE Match \/ Deliver \/ Lose \/ OtherWriterLeaves
  BY <1>2, DdsSteps
<1>3. ASSUME NEW t \in Threads,
             \/ rmw_publish(t) \/ rmw_take(t) \/ LockAndClear(t)
             \/ ros_to_dds(t) \/ Write(t) \/ WriteFails(t)
             \/ Take(t) \/ dds_to_ros(t)
      PROVE  DataInv'
  BY <1>3, PublishStep, TakeBeginStep, LockStep, ToDdsStep, WriteStep,
     WriteFailsStep, TakeStep, ToRosStep
<1>4. CASE UNCHANGED vars
  <2>1. ThreadInv' /\ CountInv' /\ TakenInv'
    BY <1>4, DdsStep DEF vars, dds
  <2>2. TypeInv' /\ OrderInv' /\ ReliableKeepsLast'
    <3>1. faults' \in Nat /\ refused' \subseteq Nat
      BY <1>4 DEF vars, history, DataInv, TypeInv
    <3> QED BY <1>4, <3>1, NoDdsStep DEF vars, history
  <2> QED BY <2>1, <2>2 DEF DataInv
<1> QED BY <1>1, <1>2, <1>3, <1>4 DEF Next

\* The invariant holds in every reachable state.
THEOREM DataInvAlways == Spec => []DataInv
<1>1. Init => DataInv
  BY DataInvInitially
<1>2. DataInv /\ [Next]_vars => DataInv'
  BY DataInvIsInductive
<1> QED BY <1>1, <1>2, PTL DEF Spec

\* What an invariant that counts says of the messages: those written are, each
\* once, the ones of the calls that neither failed nor are still in progress.
LEMMA CountedOnce ==
    ASSUME TypeInv, CallTypes, CountInv
    PROVE  PublishedExactlyOnce
<1>1. PICK m \in Nat : m = Len(written)
  BY DEF TypeInv
<1>2. written \in Seq(Nat) /\ DOMAIN written = 1 .. m
  BY <1>1 DEF TypeInv
<1>3. Range(written) = {written[i] : i \in 1 .. m}
  BY <1>1, <1>2, RangeOfSequence
<1>4. IsInjective(written)
  BY <1>1, <1>2 DEF CountInv, IsInjective
<1>5. \A t \in PublishingThreads :
        (t \in Busy \/ call[t].message = NULL) /\ NULL \notin 1 .. Published
  <2>1. NULL \notin Nat
    BY ThreadsAreDistinct
  <2> QED BY <2>1, PublishedIsNatural DEF CallTypes, PublisherType, Busy
<1>6. ASSUME NEW n \in 1 .. Published, n \notin refused,
             n \notin {call[t].message : t \in PublishingThreads}
      PROVE  n \in Range(written)
  <2>1. \A t \in Busy : call[t].message # n
    BY <1>6 DEF Busy
  <2> QED BY <1>1, <1>3, <1>6, <2>1 DEF CountInv
<1>7. ASSUME NEW i \in 1 .. m
      PROVE  /\ written[i] \in 1 .. Published /\ written[i] \notin refused
             /\ written[i] \notin {call[t].message : t \in PublishingThreads}
  <2>1. written[i] \in 1 .. Published /\ written[i] \notin refused
    BY <1>1 DEF CountInv
  <2>2. \A t \in Busy : call[t].message # written[i]
    BY <1>1 DEF CountInv
  <2> QED BY <1>5, <2>1, <2>2
<1> QED BY <1>3, <1>4, <1>6, <1>7 DEF PublishedExactlyOnce

\* Any number of threads that publish on one publisher keep out of each other's
\* sample: each message whose rmw_publish returned OK is written exactly once.
THEOREM MessagesArePublishedOnce == Spec => []PublishedExactlyOnce
<1>1. DataInv => PublishedExactlyOnce
  BY CountedOnce DEF DataInv, ThreadInv
<1> QED BY <1>1, DataInvAlways, PTL

\* Any number of threads that take from one subscription get different
\* messages, in the order in which they were written.
THEOREM TakesAlwaysOrdered == Spec => []TakesAreOrdered
<1>1. DataInv => TakesAreOrdered
  BY DEF DataInv, TakenInv
<1> QED BY <1>1, DataInvAlways, PTL

\* For all supported depths and whatever order of writing, delivering and
\* taking, a reliable subscription misses none of the last messages it is owed,
\* those retained before it matched included.
THEOREM ReliableAlwaysKeepsLast == Spec => []ReliableKeepsLast
<1>1. DataInv => ReliableKeepsLast
  BY DEF DataInv
<1> QED BY <1>1, DataInvAlways, PTL
=============================================================================
