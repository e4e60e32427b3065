--------------------------- MODULE RosGraphProofs ---------------------------
(***************************************************************************)
(* What is proved of the queries and of RosGraph, for every set of nodes   *)
(* and endpoints, every assignment of topics and types, every batch size   *)
(* and every number of allocations that fail.                              *)
(*                                                                         *)
(* A step of RosGraph is a step of GraphCache or leaves it alone, so the   *)
(* invariants of GraphCacheProofs carry over.  On top of them:             *)
(*   RemoteInv  the remote table, and what its snapshots list,             *)
(*   QueryInv   the passes of a query all see the same cache,              *)
(*   SeenInv    an answer is of the cache, or a change is not yet seen,    *)
(*   NodesInv   the cached nodes, or the last sample that waits, are what  *)
(*              the remote participant announced last,                     *)
(*   EndpointsInv  each endpoint that exists is cached, or the last sample *)
(*              about it that waits announces it,                          *)
(*   ListedInv  the endpoints that the last announcement lists exist.      *)
(* An endpoint that does not exist may stay cached, when DDS coalesces its *)
(* loss with its announcement; no node lists it, and no query reports it.  *)
(***************************************************************************)
EXTENDS RosGraph, GraphCacheProofs

-----------------------------------------------------------------------------
(* The inductive invariant *)

\* The remote participant's table, and the snapshots it wrote.
Kinds == {"reader", "writer"}

ListedNodes ==
    [name : RemoteNodes, readers : SUBSET Endpoints, writers : SUBSET Endpoints]

TableInv ==
    /\ members \subseteq RemoteNodes
    /\ IsFiniteSet(members)
    /\ Cardinality(members) <= GRAPH_MAX_NODES
    /\ owned \in [RemoteNodes -> [Kinds -> SUBSET Endpoints]]
    /\ remote # RemoteIdle => remote.endpoint \in Endpoints

\* contents holds the nodes of each snapshot.
Describes(listings, snaps) ==
    /\ listings \in Seq(Seq(ListedNodes))
    /\ listings # <<>>
    /\ Len(listings) = Len(snaps)
    /\ \A v \in 1 .. Len(listings) :
            /\ snaps[v].size = Len(listings[v])
            /\ snaps[v].size <= GRAPH_MAX_NODES
            /\ snaps[v].fits

RemoteInv ==
    /\ TableInv
    /\ Describes(contents, snapshots[Remote])
    /\ snapshots[Self] = <<>>
    /\ question \in Questions

\* The types filled in so far are those of the first topics.
AreTypesOf(types, names, c, nd) ==
    \A i \in 1 .. Len(types) :
        Range(types[i]) = Range(TypesOf(Visible(c), names[i], nd))

TypeNames ==
    {graph_type_output_name(TypeOf[e], nd) : e \in Endpoints, nd \in BOOLEAN}

\* A query between two passes has seen the cache as it still is.
PassesInv ==
    /\ question \in TopicQuestions
    /\ app.names = TopicNames(Cache, no_demangle)
    /\ app.types \in Seq(Seq(TypeNames))
    /\ Len(app.types) < Len(app.names)
    /\ AreTypesOf(app.types, app.names, Cache, no_demangle)

QueryInv ==
    /\ app = [pc |-> app.pc, names |-> app.names,
              counts |-> app.counts, types |-> app.types]
    /\ app.pc \in {"waiting", "asking", "count", "fill"}
    /\ app.pc = "waiting" => app = AppWaits
    /\ app.pc = "asking" => app = AppAsks
    /\ app.counts \in Seq(Nat)
    /\ app.pc \in {"count", "fill"} => PassesInv
    /\ app.pc = "fill" =>
        /\ app.counts # <<>>
        /\ Last(app.counts) = CountTypes(Cache, CurrentTopic, no_demangle)

\* The application's last answer is of the cache as it is, or a change has not
\* been looked at.
SeenInv ==
    app.pc = "waiting" /\ ~unseen => seen = AnswerFrom(CachedListing, Cache)

\* The last announcement of the remote participant is cached or on its way.
NodesInv ==
    IF Pending = <<>> THEN cached_nodes = SampleNodes(LastSample(Remote))
    ELSE Last(Pending) = LastSample(Remote)

\* The samples that reader r still has for the cache.
PendingOf(r) == batch[r] \o queue[r]

\* The last of the samples about key e is valid if live; if there is no sample
\* about it, the cache tells.
Tells(samples, e, live, cached) ==
    \/ \E i \in 1 .. Len(samples) :
        /\ samples[i].key = e
        /\ samples[i].valid = live
        /\ \A j \in i + 1 .. Len(samples) : samples[j].key # e
    \/ /\ cached = live
       /\ \A i \in 1 .. Len(samples) : samples[i].key # e

CachedGuids ==
    {cached_endpoints[i].guid : i \in 1 .. Len(cached_endpoints)}

\* Of an endpoint that exists, the last news that waits is its announcement, or
\* it is cached.  Nothing is said of one that does not exist.
IsKnown(e) == Tells(PendingOf(ReaderOf(e)), e, TRUE, e \in CachedGuids)

EndpointsInv ==
    /\ PendingOf("participant") = <<>>
    /\ \A e \in Endpoints : alive[e] => IsKnown(e)

\* The last announcement is the table, and every endpoint of the table exists
\* and has one owner.  The entity that is not yet announced, or not any more, is
\* owned by no node: destruction retracts before it deletes.
ListedInv ==
    /\ Last(contents) = Listing(members, owned)
    /\ \A n \in RemoteNodes, kind \in Kinds : \A e \in owned[n][kind] :
            /\ alive[e]
            /\ remote # RemoteIdle => e # remote.endpoint
            /\ \A m \in RemoteNodes, k \in Kinds :
                    e \in owned[m][k] => m = n /\ k = kind
    /\ remote # RemoteIdle => alive[remote.endpoint]

CarriedInv == TypeInv /\ CacheInv /\ OrderInv /\ ChangeIsSignalled
RosInv ==
    /\ CarriedInv /\ RemoteInv
    /\ QueryInv /\ SeenInv
    /\ NodesInv /\ EndpointsInv /\ ListedInv

-----------------------------------------------------------------------------
(* The loop that collects output *)

\* What Collected computes, up to the n-th turn.
IsCollected(f, s, n) ==
    f = [i \in 0 .. n |->
            IF i = 0 THEN <<>>
            ELSE IF s[i] \in Range(f[i - 1]) THEN f[i - 1]
            ELSE Append(f[i - 1], s[i])]

\* The recursion of Collected has a solution, so Collected satisfies it.
LEMMA CollectedEquation ==
    ASSUME NEW S, NEW s \in Seq(S)
    PROVE  IsCollected(Collected(s), s, Len(s))
<1> DEFINE P == {n \in 0 .. Len(s) : \E f : IsCollected(f, s, n)}
<1>1. Len(s) \in Nat
  OBVIOUS
<1>2. 0 \in P
  <2>1. IsCollected([i \in 0 .. 0 |-> <<>>], s, 0)
    BY DEF IsCollected
  <2> QED BY <1>1, <2>1
<1>3. ASSUME NEW n \in 0 .. Len(s), n # Len(s), n \in P
      PROVE  n + 1 \in P
  <2>1. PICK f : IsCollected(f, s, n)
    BY <1>3
  <2> DEFINE last == IF s[n + 1] \in Range(f[n]) THEN f[n]
                                                 ELSE Append(f[n], s[n + 1])
             g == [i \in 0 .. n + 1 |-> IF i = n + 1 THEN last ELSE f[i]]
  <2>2. ASSUME NEW i \in 0 .. n + 1
        PROVE  g[i] = IF i = 0 THEN <<>>
                      ELSE IF s[i] \in Range(g[i - 1]) THEN g[i - 1]
                      ELSE Append(g[i - 1], s[i])
    <3>1. CASE i = n + 1
      <4>1. i # 0 /\ i - 1 = n /\ n \in 0 .. n + 1 /\ n # n + 1
        BY <3>1
      <4>2. g[i] = last /\ g[n] = f[n]
        BY <3>1, <4>1
      <4> HIDE DEF g
      <4> QED BY <3>1, <4>1, <4>2
    <3>2. CASE i # n + 1
      <4>1. i \in 0 .. n /\ g[i] = f[i]
        BY <3>2
      <4>2. f[i] = IF i = 0 THEN <<>>
                   ELSE IF s[i] \in Range(f[i - 1]) THEN f[i - 1]
                   ELSE Append(f[i - 1], s[i])
        BY <2>1, <4>1 DEF IsCollected
      <4>3. i # 0 => i - 1 \in 0 .. n + 1 /\ i - 1 # n + 1
        BY <4>1
      <4>4. i # 0 => g[i - 1] = f[i - 1]
        BY <4>3
      <4> HIDE DEF g
      <4> QED BY <4>1, <4>2, <4>4
    <3> QED BY <3>1, <3>2
  <2>3. g = [i \in 0 .. n + 1 |-> g[i]]
    OBVIOUS
  <2> HIDE DEF g
  <2>4. IsCollected(g, s, n + 1)
    BY <2>2, <2>3 DEF IsCollected
  <2>5. n + 1 \in 0 .. Len(s)
    BY <1>3
  <2> QED BY <2>4, <2>5
<1>4. Len(s) \in P
  <2> HIDE DEF P
  <2>1. \A n \in 0 .. Len(s) : n # Len(s) /\ n \in P => n + 1 \in P
    BY <1>3
  <2>2. \A n \in 0 .. Len(s) : n \in P
    BY <1>1, <1>2, <2>1, UpTo, Zenon
  <2> QED BY <1>1, <2>2
<1>5. \E f : IsCollected(f, s, Len(s))
  BY <1>4
<1>6. Collected(s) = CHOOSE f : IsCollected(f, s, Len(s))
  BY DEF Collected, IsCollected
<1> QED BY <1>5, <1>6

\* The same, turn by turn.
LEMMA CollectedTurns ==
    ASSUME NEW S, NEW s \in Seq(S)
    PROVE  /\ Collected(s)[0] = <<>>
           /\ \A i \in 1 .. Len(s) :
                Collected(s)[i] = IF s[i] \in Range(Collected(s)[i - 1])
                                  THEN Collected(s)[i - 1]
                                  ELSE Append(Collected(s)[i - 1], s[i])
<1>1. PICK f : f = Collected(s) /\ IsCollected(f, s, Len(s))
  BY CollectedEquation
<1>2. f[0] = <<>>
  BY <1>1 DEF IsCollected
<1>3. ASSUME NEW i \in 1 .. Len(s)
      PROVE  f[i] = IF s[i] \in Range(f[i - 1]) THEN f[i - 1]
                                                ELSE Append(f[i - 1], s[i])
  <2>1. i \in 0 .. Len(s) /\ i # 0
    OBVIOUS
  <2> QED BY <1>1, <2>1 DEF IsCollected
<1> QED BY <1>1, <1>2, <1>3

\* No value is in the sequence twice.
NoneTwice(s) == \A i, j \in 1 .. Len(s) : s[i] = s[j] => i = j

\* The first occurrences among the first n.
FirstAmong(s, n) == {i \in 1 .. n : \A j \in 1 .. i - 1 : s[j] # s[i]}

\* c holds each value of the first n of s once.
Collects(c, s, n) ==
    /\ NoneTwice(c)
    /\ Range(c) = {s[i] : i \in 1 .. n}
    /\ Len(c) = Cardinality(FirstAmong(s, n))

\* One more turn.
LEMMA CollectsNext ==
    ASSUME NEW S, NEW s \in Seq(S), NEW n \in Nat, n + 1 \in 1 .. Len(s),
           NEW c \in Seq(S), Collects(c, s, n)
    PROVE  /\ s[n + 1] \in Range(c) => Collects(c, s, n + 1)
           /\ s[n + 1] \notin Range(c) =>
                Collects(Append(c, s[n + 1]), s, n + 1)
<1>0. /\ s[n + 1] \in S /\ Len(c) \in Nat /\ n + 1 \in 1 .. n + 1
      /\ \A i \in 1 .. n + 1 : i = n + 1 \/ i \in 1 .. n
      /\ \A i \in 1 .. n : i \in 1 .. n + 1
  OBVIOUS
<1>1. {s[i] : i \in 1 .. n + 1} = {s[i] : i \in 1 .. n} \cup {s[n + 1]}
  BY <1>0
<1>2. IsFiniteSet(FirstAmong(s, n))
  <2>1. IsFiniteSet(1 .. n)
    BY FS_Interval
  <2>2. FirstAmong(s, n) \in SUBSET (1 .. n)
    BY DEF FirstAmong
  <2> QED BY <2>1, <2>2, FS_Subset
<1>3. n + 1 \notin FirstAmong(s, n)
  BY DEF FirstAmong
<1>4. s[n + 1] \in Range(c) <=> \E j \in 1 .. n : s[j] = s[n + 1]
  <2>1. Range(c) = {s[i] : i \in 1 .. n}
    BY DEF Collects
  <2> QED BY <2>1
<1>5. (n + 1) - 1 = n
  OBVIOUS
<1>6. CASE s[n + 1] \in Range(c)
  <2>1. FirstAmong(s, n + 1) = FirstAmong(s, n)
    BY <1>0, <1>4, <1>5, <1>6 DEF FirstAmong
  <2>2. {s[i] : i \in 1 .. n + 1} = {s[i] : i \in 1 .. n}
    BY <1>1, <1>6 DEF Collects
  <2> QED BY <1>6, <2>1, <2>2 DEF Collects
<1>7. CASE s[n + 1] \notin Range(c)
  <2>1. FirstAmong(s, n + 1) = FirstAmong(s, n) \cup {n + 1}
    BY <1>0, <1>4, <1>5, <1>7 DEF FirstAmong
  <2>2. Cardinality(FirstAmong(s, n + 1)) = Cardinality(FirstAmong(s, n)) + 1
    BY <1>2, <1>3, <2>1, FS_AddElement
  <2>3. PICK d \in Seq(S) : d = Append(c, s[n + 1])
    <3>1. Append(c, s[n + 1]) \in Seq(S)
      BY <1>0
    <3> QED BY <3>1
  <2>4. /\ Len(d) = Len(c) + 1 /\ d[Len(c) + 1] = s[n + 1]
        /\ \A i \in 1 .. Len(c) : d[i] = c[i]
    BY <1>0, <2>3, AppendListing
  <2>5. Range(d) = Range(c) \cup {s[n + 1]}
    BY <1>0, <2>3, AppendRange
  <2>6. Range(c) = {c[i] : i \in 1 .. Len(c)}
    BY RangeOfSequence
  <2>7. NoneTwice(d)
    <3> SUFFICES ASSUME NEW i \in 1 .. Len(d), NEW j \in 1 .. Len(d),
                        d[i] = d[j]
                 PROVE  i = j
      BY DEF NoneTwice
    <3>1. /\ i = Len(c) + 1 \/ i \in 1 .. Len(c)
          /\ j = Len(c) + 1 \/ j \in 1 .. Len(c)
      BY <1>0, <2>4
    <3>2. \A k \in 1 .. Len(c) : d[k] # s[n + 1]
      BY <1>7, <2>4, <2>6
    <3> QED BY <2>4, <3>1, <3>2 DEF Collects, NoneTwice
  <2>8. Collects(d, s, n + 1)
    BY <1>1, <2>2, <2>4, <2>5, <2>7 DEF Collects
  <2> QED BY <1>7, <2>3, <2>8
<1> QED BY <1>6, <1>7

\* The loop yields each value once, and as many as there are first occurrences:
\* an array of that size is filled exactly.
LEMMA DistinctCollects ==
    ASSUME NEW S, NEW s \in Seq(S)
    PROVE  /\ Distinct(s) \in Seq(S)
           /\ NoneTwice(Distinct(s))
           /\ Range(Distinct(s)) = Range(s)
           /\ Len(Distinct(s)) = Cardinality(FirstOccurrences(s))
<1> DEFINE k == Collected(s)
           P == {n \in 0 .. Len(s) : k[n] \in Seq(S) /\ Collects(k[n], s, n)}
<1>1. /\ k[0] = <<>>
      /\ \A i \in 1 .. Len(s) :
            k[i] = IF s[i] \in Range(k[i - 1]) THEN k[i - 1]
                                               ELSE Append(k[i - 1], s[i])
  BY CollectedTurns
<1>2. Len(s) \in Nat
  OBVIOUS
<1> HIDE DEF k
<1>3. 0 \in P
  <2>1. <<>> \in Seq(S) /\ Len(<<>>) = 0
    OBVIOUS
  <2>2. FirstAmong(s, 0) = {}
    BY DEF FirstAmong
  <2>3. Range(<<>>) = {}
    BY DEF Range
  <2>4. {s[i] : i \in 1 .. 0} = {}
    OBVIOUS
  <2>5. Cardinality({}) = 0
    BY FS_EmptySet
  <2>6. NoneTwice(<<>>)
    BY <2>1 DEF NoneTwice
  <2>7. Collects(<<>>, s, 0)
    BY <2>1, <2>2, <2>3, <2>4, <2>5, <2>6 DEF Collects
  <2>8. 0 \in 0 .. Len(s)
    BY <1>2
  <2>9. k[0] \in Seq(S) /\ Collects(k[0], s, 0)
    BY <1>1, <2>1, <2>7, Zenon
  <2> QED BY <2>8, <2>9
<1>4. \A n \in 0 .. Len(s) : n # Len(s) /\ n \in P => n + 1 \in P
  <2> SUFFICES ASSUME NEW n \in 0 .. Len(s), n # Len(s), n \in P
               PROVE  n + 1 \in P
    OBVIOUS
  <2>1. PICK c \in Seq(S) : c = k[n] /\ Collects(c, s, n)
    OBVIOUS
  <2>2. /\ n + 1 \in 1 .. Len(s) /\ n + 1 \in 0 .. Len(s) /\ (n + 1) - 1 = n
        /\ n \in Nat
    BY <1>2
  <2>3. k[n + 1] = IF s[n + 1] \in Range(c) THEN c ELSE Append(c, s[n + 1])
    BY <1>1, <2>1, <2>2
  <2>4. Collects(k[n + 1], s, n + 1)
    BY <2>1, <2>2, <2>3, CollectsNext
  <2>5. s[n + 1] \in S
    BY <2>2
  <2>6. k[n + 1] \in Seq(S)
    BY <2>3, <2>5
  <2> QED BY <2>2, <2>4, <2>6
<1>5. \A n \in 0 .. Len(s) : n \in P
  <2> HIDE DEF P
  <2> QED BY <1>2, <1>3, <1>4, UpTo, Zenon
<1>6. k[Len(s)] \in Seq(S) /\ Collects(k[Len(s)], s, Len(s))
  <2>1. Len(s) \in 0 .. Len(s)
    BY <1>2
  <2> QED BY <1>5, <2>1
<1>7. Range(s) = {s[i] : i \in 1 .. Len(s)}
  BY RangeOfSequence
<1>8. FirstOccurrences(s) = FirstAmong(s, Len(s))
  BY DEF FirstOccurrences, FirstAmong
<1> QED BY <1>6, <1>7, <1>8 DEF Distinct, k, Collects

-----------------------------------------------------------------------------
(* The passes of rmw_get_topic_names_and_types *)

\* The values that remain are those in keep, all of them.
LEMMA CompactValues ==
    ASSUME NEW S, NEW s \in Seq(S), NEW keep
    PROVE  /\ Compact(s, keep) \in Seq(S)
           /\ Range(Compact(s, keep)) = {x \in Range(s) : x \in keep}
<1>1. PICK c \in Seq(S) : c = Compact(s, keep)
  BY CompactSelects
<1>2. PICK h : Selects(h, c, s, keep, Len(s))
  BY <1>1, CompactSelects
<1>3. /\ h \in [1 .. Len(c) -> 1 .. Len(s)]
      /\ \A j \in 1 .. Len(c) : c[j] = s[h[j]] /\ s[h[j]] \in keep
      /\ \A i \in 1 .. Len(s) : s[i] \in keep => \E j \in 1 .. Len(c) : h[j] = i
  BY <1>2 DEF Selects
<1>4. Range(s) = {s[i] : i \in 1 .. Len(s)}
  BY RangeOfSequence
<1>5. Range(c) = {c[i] : i \in 1 .. Len(c)}
  BY RangeOfSequence
<1>6. ASSUME NEW x \in Range(c)
      PROVE  x \in Range(s) /\ x \in keep
  BY <1>3, <1>4, <1>5
<1>7. ASSUME NEW x \in Range(s), x \in keep
      PROVE  x \in Range(c)
  <2>1. PICK i \in 1 .. Len(s) : x = s[i]
    BY <1>4
  <2>2. PICK j \in 1 .. Len(c) : h[j] = i
    BY <1>3, <1>7, <2>1
  <2> QED BY <1>3, <1>5, <2>1, <2>2
<1> QED BY <1>1, <1>6, <1>7

\* The visible endpoints are those a node lists.
LEMMA VisibleValues ==
    ASSUME NEW S, NEW c, c.endpoints \in Seq(S)
    PROVE  /\ Visible(c) \in Seq(S)
           /\ Range(Visible(c)) = {e \in Range(c.endpoints) :
                                    graph_cache_endpoint_is_associated(c, e)}
<1>1. PICK s \in Seq(S) : s = c.endpoints
  OBVIOUS
<1>2. PICK keep : keep = {e \in Range(s) :
                            graph_cache_endpoint_is_associated(c, e)}
  OBVIOUS
<1>3. Visible(c) = Compact(s, keep)
  BY <1>1, <1>2 DEF Visible
<1>4. Compact(s, keep) \in Seq(S)
      /\ Range(Compact(s, keep)) = {x \in Range(s) : x \in keep}
  BY CompactValues
<1> QED BY <1>1, <1>2, <1>3, <1>4

\* The endpoints in S have output types in T.
TypesIn(S, T, nd) ==
    \A e \in S : graph_type_output_name(e.type, nd) \in T

\* The output types of the endpoints on a topic.
TypesOn(endpoints, topic, nd) ==
    {graph_type_output_name(e.type, nd) :
        e \in {f \in endpoints : graph_endpoint_has_topic(f, topic, nd)}}

\* What the second and the third pass look at.
LEMMA TypesOfValues ==
    ASSUME NEW S, NEW s \in Seq(S), NEW topic, NEW nd, NEW T,
           TypesIn(S, T, nd)
    PROVE  /\ TypesOf(s, topic, nd) \in Seq(T)
           /\ Range(TypesOf(s, topic, nd)) = TypesOn(Range(s), topic, nd)
<1>1. PICK keep : keep = {e \in Range(s) :
                            graph_endpoint_has_topic(e, topic, nd)}
  OBVIOUS
<1>2. PICK on \in Seq(S) : on = Compact(s, keep)
  BY CompactValues
<1>3. Range(on) = {x \in Range(s) : x \in keep}
  BY <1>2, CompactValues
<1>4. Range(on) = {on[i] : i \in 1 .. Len(on)}
  BY RangeOfSequence
<1> DEFINE types == [i \in 1 .. Len(on) |->
                        graph_type_output_name(on[i].type, nd)]
<1>5. TypesOf(s, topic, nd) = types
  BY <1>1, <1>2 DEF TypesOf
<1>6. Len(on) \in Nat /\ \A i \in 1 .. Len(on) : on[i] \in S
  OBVIOUS
<1>7. types \in Seq(T) /\ Len(types) = Len(on)
  BY <1>6 DEF TypesIn
<1>8. Range(types) = {graph_type_output_name(on[i].type, nd) :
                        i \in 1 .. Len(on)}
  BY <1>6 DEF Range
<1>9. Range(types) = {graph_type_output_name(e.type, nd) : e \in Range(on)}
  BY <1>4, <1>8
<1>10. Range(on) = {f \in Range(s) : graph_endpoint_has_topic(f, topic, nd)}
  BY <1>1, <1>3
<1> HIDE DEF types
<1> QED BY <1>5, <1>7, <1>9, <1>10 DEF TypesOn

\* The endpoints of c are in S, and their output types in T.
HasTypes(c, S, T, nd) == c.endpoints \in Seq(S) /\ TypesIn(S, T, nd)

\* The third pass fills in as many types as the second counted, each type of
\* the topic once.
LEMMA FillCounts ==
    ASSUME NEW S, NEW c, NEW T, NEW nd, HasTypes(c, S, T, nd), NEW topic
    PROVE  /\ FillTypes(c, topic, nd) \in Seq(T)
           /\ Len(FillTypes(c, topic, nd)) = CountTypes(c, topic, nd)
           /\ CountTypes(c, topic, nd) \in Nat
           /\ Range(FillTypes(c, topic, nd)) =
                Range(TypesOf(Visible(c), topic, nd))
<1>1. PICK s \in Seq(S) : s = Visible(c)
  BY VisibleValues DEF HasTypes
<1>2. PICK types \in Seq(T) : types = TypesOf(s, topic, nd)
  BY TypesOfValues DEF HasTypes
<1>3. /\ Distinct(types) \in Seq(T)
      /\ Range(Distinct(types)) = Range(types)
      /\ Len(Distinct(types)) = Cardinality(FirstOccurrences(types))
  BY DistinctCollects
<1>4. Len(Distinct(types)) \in Nat
  BY <1>3
<1> QED BY <1>1, <1>2, <1>3, <1>4 DEF FillTypes, CountTypes

\* An endpoint has one output name or none.
LEMMA AtMostOneName ==
    ASSUME NEW e, NEW nd
    PROVE  \/ graph_topic_output_name(e, nd) = {}
           \/ \E name : graph_topic_output_name(e, nd) = {name}
<1>1. CASE e.topic = DiscoveryTopic
  BY <1>1 DEF graph_topic_output_name
<1>2. CASE e.topic # DiscoveryTopic /\ nd
  <2>1. graph_topic_output_name(e, nd) = {e.topic}
    BY <1>2 DEF graph_topic_output_name
  <2> QED BY <2>1
<1>3. CASE e.topic # DiscoveryTopic /\ ~nd /\ Head(e.topic) = "rt"
  <2>1. graph_topic_output_name(e, nd) = {Tail(e.topic)}
    BY <1>3 DEF graph_topic_output_name
  <2> QED BY <2>1
<1>4. CASE e.topic # DiscoveryTopic /\ ~nd /\ Head(e.topic) # "rt"
  <2>1. graph_topic_output_name(e, nd) = {}
    BY <1>4 DEF graph_topic_output_name
  <2> QED BY <2>1
<1> QED BY <1>1, <1>2, <1>3, <1>4

\* The output names of a set of endpoints.
NamesOf(endpoints, nd) ==
    UNION {graph_topic_output_name(e, nd) : e \in endpoints}

\* The first pass finds each name of a visible endpoint once.
LEMMA TopicNamesValues ==
    ASSUME NEW S, NEW c, c.endpoints \in Seq(S), NEW nd
    PROVE  /\ TopicNames(c, nd) \in Seq(NamesOf(S, nd))
           /\ NoneTwice(TopicNames(c, nd))
           /\ Range(TopicNames(c, nd)) = NamesOf(Range(Visible(c)), nd)
<1>1. PICK s \in Seq(S) : s = Visible(c)
  BY VisibleValues
<1>2. PICK keep : keep = {e \in Range(s) : graph_topic_output_name(e, nd) # {}}
  OBVIOUS
<1>3. PICK named \in Seq(S) : named = Compact(s, keep)
  BY CompactValues
<1>4. Range(named) = {x \in Range(s) : x \in keep}
  BY <1>3, CompactValues
<1>5. Range(named) = {named[i] : i \in 1 .. Len(named)}
  BY RangeOfSequence
<1> DEFINE name(e) == CHOOSE n \in graph_topic_output_name(e, nd) : TRUE
           names == [i \in 1 .. Len(named) |-> name(named[i])]
<1>6. TopicNames(c, nd) = Distinct(names)
  BY <1>1, <1>2, <1>3 DEF TopicNames
<1>7. ASSUME NEW e, graph_topic_output_name(e, nd) # {}
      PROVE  graph_topic_output_name(e, nd) = {name(e)}
  <2>1. PICK x : graph_topic_output_name(e, nd) = {x}
    BY <1>7, AtMostOneName
  <2>2. name(e) = x
    BY <2>1
  <2> QED BY <2>1, <2>2
<1>8. Len(named) \in Nat
  OBVIOUS
<1>9. ASSUME NEW i \in 1 .. Len(named)
      PROVE  named[i] \in S /\ graph_topic_output_name(named[i], nd) # {}
  BY <1>2, <1>4, <1>5
<1> HIDE DEF name
<1>10. \A i \in 1 .. Len(named) : names[i] \in NamesOf(S, nd)
  BY <1>7, <1>9 DEF NamesOf
<1>11. names \in Seq(NamesOf(S, nd)) /\ Len(names) = Len(named)
  BY <1>8, <1>10
<1>12. Range(names) = {name(e) : e \in Range(named)}
  BY <1>5, <1>8 DEF Range
<1> HIDE DEF names
<1>13. ASSUME NEW x \in Range(names)
       PROVE  x \in NamesOf(Range(s), nd)
  <2>1. PICK e \in Range(named) : x = name(e)
    BY <1>12
  <2>2. e \in Range(s) /\ graph_topic_output_name(e, nd) # {}
    BY <1>2, <1>4
  <2> QED BY <1>7, <2>1, <2>2 DEF NamesOf
<1>14. ASSUME NEW x \in NamesOf(Range(s), nd)
       PROVE  x \in Range(names)
  <2>1. PICK e \in Range(s) : x \in graph_topic_output_name(e, nd)
    BY DEF NamesOf
  <2>2. x = name(e)
    BY <1>7, <2>1
  <2>3. e \in Range(named)
    BY <1>2, <1>4, <2>1
  <2> QED BY <1>12, <2>2, <2>3
<1>15. /\ Distinct(names) \in Seq(NamesOf(S, nd))
       /\ NoneTwice(Distinct(names))
       /\ Range(Distinct(names)) = Range(names)
  BY <1>11, DistinctCollects
<1> QED BY <1>1, <1>6, <1>13, <1>14, <1>15

\* The types of the visible endpoints on a topic.
LEMMA TypesShown ==
    ASSUME NEW S, NEW c, c.endpoints \in Seq(S), NEW nd, NEW T,
           TypesIn(S, T, nd), NEW name
    PROVE  Range(TypesOf(Visible(c), name, nd)) =
                TypesOn(Range(Visible(c)), name, nd)
<1>1. PICK s \in Seq(S) : s = Visible(c)
  BY VisibleValues
<1>2. /\ TypesOf(s, name, nd) \in Seq(T)
      /\ Range(TypesOf(s, name, nd)) = TypesOn(Range(s), name, nd)
  BY TypesOfValues
<1> QED BY <1>1, <1>2

\* The numbers up to n.
LEMMA CountingSet ==
    ASSUME NEW n \in Nat
    PROVE  IsFiniteSet(1 .. n) /\ Cardinality(1 .. n) = n
BY FS_Interval

\* What a finished query returns.
AnswerSet(names, types) ==
    {[name |-> names[i], types |-> Range(types[i])] : i \in 1 .. Len(names)}

\* The topics a finished query returns are those of the reference definition,
\* one entry for each name.
LEMMA FinishedAnswer ==
    ASSUME NEW S, NEW c, NEW nd, NEW T, HasTypes(c, S, T, nd),
           NEW names, names = TopicNames(c, nd),
           NEW types, Len(types) = Len(names), AreTypesOf(types, names, c, nd)
    PROVE  /\ AnswerSet(names, types) = TopicsAndTypes(c, nd)
           /\ Cardinality(AnswerSet(names, types)) = Len(names)
<1> DEFINE shown == Range(Visible(c))
           of(name) == TypesOn(shown, name, nd)
           entry(name) == [name |-> name, types |-> of(name)]
           answer == {[name |-> names[i], types |-> Range(types[i])] :
                            i \in 1 .. Len(names)}
<1>0. c.endpoints \in Seq(S) /\ TypesIn(S, T, nd)
  BY DEF HasTypes
<1>1. /\ names \in Seq(NamesOf(S, nd)) /\ NoneTwice(names)
      /\ Range(names) = NamesOf(shown, nd)
  BY <1>0, TopicNamesValues
<1>2. Range(names) = {names[i] : i \in 1 .. Len(names)}
  BY <1>1, RangeOfSequence
<1>3. \A name : Range(TypesOf(Visible(c), name, nd)) = of(name)
  BY <1>0, TypesShown
<1>4. TopicsAndTypes(c, nd) = {entry(name) : name \in NamesOf(shown, nd)}
  BY DEF TopicsAndTypes, NamesOf, TypesOn
<1> HIDE DEF of
<1>5. \A i \in 1 .. Len(names) : Range(types[i]) = of(names[i])
  BY <1>3 DEF AreTypesOf
<1>6. answer = {entry(names[i]) : i \in 1 .. Len(names)}
  BY <1>5
<1>7. answer = TopicsAndTypes(c, nd)
  <2> HIDE DEF entry, answer, shown
  <2>1. answer = {entry(name) : name \in Range(names)}
    BY <1>2, <1>6
  <2> QED BY <1>1, <1>4, <2>1
<1> DEFINE f == [i \in 1 .. Len(names) |-> entry(names[i])]
<1>8. Len(names) \in Nat
  BY <1>1
<1>9. \A i, j \in 1 .. Len(names) : entry(names[i]) = entry(names[j]) => i = j
  <2> SUFFICES ASSUME NEW i \in 1 .. Len(names), NEW j \in 1 .. Len(names),
                      entry(names[i]) = entry(names[j])
               PROVE  i = j
    OBVIOUS
  <2>1. entry(names[i]).name = names[i] /\ entry(names[j]).name = names[j]
    OBVIOUS
  <2> QED BY <1>1, <2>1 DEF NoneTwice
<1> HIDE DEF entry
<1>10. f \in Bijection(1 .. Len(names), answer)
  <2>1. f \in [1 .. Len(names) -> answer]
    BY <1>6
  <2>2. \A x \in answer : \E i \in 1 .. Len(names) : f[i] = x
    BY <1>6
  <2>3. \A i, j \in 1 .. Len(names) : f[i] = f[j] => i = j
    BY <1>9
  <2> HIDE DEF f, answer
  <2> QED BY <2>1, <2>2, <2>3 DEF Bijection, Injection, Surjection, IsInjective
<1> HIDE DEF f, answer, shown
<1>11. IsFiniteSet(1 .. Len(names)) /\ Cardinality(1 .. Len(names)) = Len(names)
  <2>1. PICK n \in Nat : n = Len(names)
    BY <1>8
  <2> QED BY <2>1, CountingSet
<1>12. ExistsBijection(1 .. Len(names), answer)
  BY <1>10 DEF ExistsBijection
<1>13. Cardinality(answer) = Len(names)
  BY <1>11, <1>12, FS_Bijection
<1> QED BY <1>7, <1>13 DEF AnswerSet, answer

-----------------------------------------------------------------------------
(* The answers do not depend on the order of the endpoints *)

\* The endpoints that a node lists.
ListedEndpoints(c) ==
    {e \in Range(c.endpoints) : graph_cache_endpoint_is_associated(c, e)}

\* Two caches with the same nodes and the same listed endpoints, in any order.
SameGraph(c, d) ==
    /\ c.nodes = d.nodes
    /\ NoneTwice(c.endpoints) /\ NoneTwice(d.endpoints)
    /\ ListedEndpoints(c) = ListedEndpoints(d)

\* The same, of endpoints in S.
SameGraphOf(S, c, d) ==
    /\ SameGraph(c, d)
    /\ c.endpoints \in Seq(S) /\ d.endpoints \in Seq(S)

\* Counting places is counting values when none is there twice.
LEMMA CountByValue ==
    ASSUME NEW S, NEW s \in Seq(S), NoneTwice(s), NEW good
    PROVE  Cardinality({i \in 1 .. Len(s) : s[i] \in good}) =
                Cardinality({x \in Range(s) : x \in good})
<1> DEFINE K == {i \in 1 .. Len(s) : s[i] \in good}
           M == {x \in Range(s) : x \in good}
           f == [i \in K |-> s[i]]
<1>1. Range(s) = {s[i] : i \in 1 .. Len(s)}
  BY RangeOfSequence
<1>2. IsFiniteSet(K)
  <2>1. Len(s) \in Nat
    OBVIOUS
  <2>2. IsFiniteSet(1 .. Len(s))
    BY <2>1, FS_Interval
  <2>3. K \in SUBSET (1 .. Len(s))
    OBVIOUS
  <2> HIDE DEF K
  <2> QED BY <2>2, <2>3, FS_Subset
<1>3. f \in [K -> M] /\ \A x \in M : \E i \in K : f[i] = x
  BY <1>1
<1>4. \A i, j \in K : f[i] = f[j] => i = j
  BY DEF NoneTwice
<1> HIDE DEF f, K, M
<1>5. f \in Bijection(K, M)
  BY <1>3, <1>4 DEF Bijection, Injection, Surjection, IsInjective
<1>6. ExistsBijection(K, M)
  BY <1>5 DEF ExistsBijection
<1>7. Cardinality(M) = Cardinality(K)
  BY <1>2, <1>6, FS_Bijection
<1> QED BY <1>7 DEF K, M

\* An endpoint is associated or not according to the nodes.
LEMMA SameAssociation ==
    ASSUME NEW c, NEW d, c.nodes = d.nodes, NEW e
    PROVE  graph_cache_endpoint_is_associated(c, e) <=>
                graph_cache_endpoint_is_associated(d, e)
BY DEF graph_cache_endpoint_is_associated

\* graph_count_endpoints.
LEMMA SameCounts ==
    ASSUME NEW S, NEW c, NEW d, SameGraphOf(S, c, d), NEW topic, NEW writers
    PROVE  graph_count_endpoints(c, topic, writers) =
                graph_count_endpoints(d, topic, writers)
<1> DEFINE good == {e \in S : /\ graph_cache_endpoint_is_associated(c, e)
                              /\ e.writer = writers
                              /\ e.topic = <<"rt">> \o topic}
<1>1. PICK s \in Seq(S), t \in Seq(S) : s = c.endpoints /\ t = d.endpoints
  BY DEF SameGraphOf
<1>2. /\ NoneTwice(s) /\ NoneTwice(t) /\ c.nodes = d.nodes
      /\ ListedEndpoints(c) = ListedEndpoints(d)
  BY <1>1 DEF SameGraphOf, SameGraph
<1>3. {i \in 1 .. Len(s) : s[i] \in good} =
        {i \in 1 .. Len(c.endpoints) :
            /\ graph_cache_endpoint_is_associated(c, c.endpoints[i])
            /\ c.endpoints[i].writer = writers
            /\ c.endpoints[i].topic = <<"rt">> \o topic}
  BY <1>1
<1>4. {i \in 1 .. Len(t) : t[i] \in good} =
        {i \in 1 .. Len(d.endpoints) :
            /\ graph_cache_endpoint_is_associated(d, d.endpoints[i])
            /\ d.endpoints[i].writer = writers
            /\ d.endpoints[i].topic = <<"rt">> \o topic}
  BY <1>1, <1>2, SameAssociation
<1>5. {x \in Range(s) : x \in good} = {x \in Range(t) : x \in good}
  <2>1. \A x \in good : graph_cache_endpoint_is_associated(c, x)
    OBVIOUS
  <2>2. \A x \in good : graph_cache_endpoint_is_associated(d, x)
    BY <1>2, <2>1, SameAssociation
  <2> HIDE DEF good
  <2>3. \A x \in good : x \in Range(s) <=> x \in ListedEndpoints(c)
    BY <1>1, <2>1 DEF ListedEndpoints
  <2>4. \A x \in good : x \in Range(t) <=> x \in ListedEndpoints(d)
    BY <1>1, <2>2 DEF ListedEndpoints
  <2> QED BY <1>2, <2>3, <2>4
<1> HIDE DEF good
<1>6. Cardinality({i \in 1 .. Len(s) : s[i] \in good}) =
        Cardinality({x \in Range(s) : x \in good})
  BY <1>2, CountByValue
<1>7. Cardinality({i \in 1 .. Len(t) : t[i] \in good}) =
        Cardinality({x \in Range(t) : x \in good})
  BY <1>2, CountByValue
<1> QED BY <1>3, <1>4, <1>5, <1>6, <1>7 DEF graph_count_endpoints

\* The reference definition of rmw_get_topic_names_and_types.
LEMMA SameTopics ==
    ASSUME NEW S, NEW c, NEW d, SameGraphOf(S, c, d), NEW nd
    PROVE  TopicsAndTypes(c, nd) = TopicsAndTypes(d, nd)
<1>0. /\ c.endpoints \in Seq(S) /\ d.endpoints \in Seq(S)
      /\ ListedEndpoints(c) = ListedEndpoints(d)
  BY DEF SameGraphOf, SameGraph
<1>1. Range(Visible(c)) = ListedEndpoints(c)
  BY <1>0, VisibleValues DEF ListedEndpoints
<1>2. Range(Visible(d)) = ListedEndpoints(d)
  BY <1>0, VisibleValues DEF ListedEndpoints
<1>3. Range(Visible(c)) = Range(Visible(d))
  BY <1>0, <1>1, <1>2
<1> QED BY <1>3 DEF TopicsAndTypes

-----------------------------------------------------------------------------
(* The remote participant *)

\* A sequence of the elements of a finite set has each of them once.
LEMMA SetToSeqProps ==
    ASSUME NEW S, IsFiniteSet(S)
    PROVE  /\ SetToSeq(S) \in Seq(S)
           /\ Len(SetToSeq(S)) = Cardinality(S)
           /\ NoneTwice(SetToSeq(S))
           /\ Range(SetToSeq(S)) = S
<1>1. PICK n \in Nat : n = Cardinality(S)
  BY FS_CardinalityType
<1>2. \E f \in [1 .. n -> S] : IsInjective(f)
  <2>1. ExistsBijection(1 .. n, S)
    BY <1>1, FS_CardinalityType
  <2>2. PICK f \in Bijection(1 .. n, S) : TRUE
    BY <2>1 DEF ExistsBijection
  <2>3. f \in [1 .. n -> S] /\ IsInjective(f)
    BY <2>2 DEF Bijection, Injection, IsInjective
  <2> QED BY <2>3
<1>3. PICK g : g = SetToSeq(S)
  OBVIOUS
<1>4. g \in [1 .. n -> S] /\ IsInjective(g)
  BY <1>1, <1>2, <1>3 DEF SetToSeq
<1>5. IsFiniteSet(1 .. n) /\ Cardinality(1 .. n) = n
  BY CountingSet
<1>6. g \in Injection(1 .. n, S)
  BY <1>4 DEF Injection
<1>7. g \in Surjection(1 .. n, S)
  BY <1>1, <1>5, <1>6, FS_Injection
<1>8. g \in Seq(S) /\ Len(g) = n /\ DOMAIN g = 1 .. n
  BY <1>4
<1>9. NoneTwice(g)
  BY <1>4, <1>8 DEF NoneTwice, IsInjective
<1>10. Range(g) = S
  BY <1>4, <1>7, <1>8 DEF Range, Surjection
<1> QED BY <1>1, <1>3, <1>8, <1>9, <1>10

\* A snapshot lists as many nodes as there are members.
LEMMA ListingType ==
    ASSUME NEW m \in SUBSET RemoteNodes, IsFiniteSet(m),
           NEW o \in [RemoteNodes -> [Kinds -> SUBSET Endpoints]]
    PROVE  /\ Listing(m, o) \in Seq(ListedNodes)
           /\ Len(Listing(m, o)) = Cardinality(m)
<1>1. PICK order \in Seq(m) : order = SetToSeq(m)
  BY SetToSeqProps
<1>2. Len(order) = Cardinality(m)
  BY <1>1, SetToSeqProps
<1> DEFINE entry(i) == [name |-> order[i],
                        readers |-> o[order[i]]["reader"],
                        writers |-> o[order[i]]["writer"]]
           listing == [i \in 1 .. Len(order) |-> entry(i)]
<1>3. Listing(m, o) = listing
  BY <1>1 DEF Listing
<1>4. ASSUME NEW i \in 1 .. Len(order)
      PROVE  entry(i) \in ListedNodes
  <2>1. order[i] \in RemoteNodes
    BY <1>4
  <2>2. o[order[i]]["reader"] \in SUBSET Endpoints
        /\ o[order[i]]["writer"] \in SUBSET Endpoints
    BY <2>1 DEF Kinds
  <2> QED BY <2>1, <2>2 DEF ListedNodes
<1>5. Len(order) \in Nat
  OBVIOUS
<1> HIDE DEF entry
<1>6. listing \in Seq(ListedNodes) /\ Len(listing) = Len(order)
  BY <1>4, <1>5
<1> QED BY <1>2, <1>3, <1>6

\* GraphTable counts with the same Cardinality.
LEMMA TableCardinality ==
    ASSUME NEW S
    PROVE  Table!Cardinality(S) = Cardinality(S)
BY DEF Table!Cardinality, Cardinality

\* The remote participant writes a snapshot.
Publishes ==
    \E size \in 0 .. GRAPH_MAX_NODES, listing \in Seq(ListedNodes) :
        /\ Len(listing) = size
        /\ RemoteWrite(Remote, [size |-> size, fits |-> TRUE])
        /\ contents' = Append(contents, listing)

\* An operation on the table leaves it within its limits, so that what it
\* publishes is a snapshot that fits.
LEMMA TablePublishes ==
    ASSUME members' \subseteq RemoteNodes, IsFiniteSet(members'),
           Cardinality(members') <= GRAPH_MAX_NODES,
           owned' \in [RemoteNodes -> [Kinds -> SUBSET Endpoints]],
           graph_publish
    PROVE  Publishes
<1>1. PICK m \in SUBSET RemoteNodes,
           o \in [RemoteNodes -> [Kinds -> SUBSET Endpoints]] :
        m = members' /\ o = owned'
  OBVIOUS
<1>2. PICK size : size = Cardinality(m)
  OBVIOUS
<1>3. size \in 0 .. GRAPH_MAX_NODES
  <2>1. size \in Nat
    BY <1>1, <1>2, FS_CardinalityType
  <2> QED BY <1>1, <1>2, <2>1, TheGraphFits
<1>4. PICK listing \in Seq(ListedNodes) :
        listing = Listing(m, o) /\ Len(listing) = size
  BY <1>1, <1>2, ListingType
<1>5. /\ RemoteWrite(Remote, [size |-> size, fits |-> TRUE])
      /\ contents' = Append(contents, listing)
  BY <1>1, <1>2, <1>4 DEF graph_publish
<1> QED BY <1>3, <1>4, <1>5 DEF Publishes

\* KindOf is one of the two kinds.
LEMMA KindOfType ==
    ASSUME NEW e
    PROVE  KindOf(e) \in Kinds
BY DEF KindOf, Kinds

\* The remote participant publishes a table that is within its limits, or one
\* of its endpoints comes or goes.
RemoteMoves ==
    /\ TableInv'
    /\ \/ Publishes
       \/ /\ UNCHANGED contents
          /\ \E e \in Endpoints : EndpointAppears(e) \/ EndpointIsLost(e)

\* Its steps do one or the other.
LEMMA RemoteStepMoves ==
    ASSUME TableInv, RemoteStep
    PROVE  RemoteMoves
<1>0. /\ members \subseteq RemoteNodes /\ IsFiniteSet(members)
      /\ Cardinality(members) <= GRAPH_MAX_NODES
      /\ owned \in [RemoteNodes -> [Kinds -> SUBSET Endpoints]]
      /\ remote # RemoteIdle => remote.endpoint \in Endpoints
  BY DEF TableInv
<1>1. ASSUME members' \subseteq RemoteNodes, IsFiniteSet(members'),
             Cardinality(members') <= GRAPH_MAX_NODES,
             owned' \in [RemoteNodes -> [Kinds -> SUBSET Endpoints]],
             remote' # RemoteIdle => remote'.endpoint \in Endpoints,
             graph_publish
      PROVE  RemoteMoves
  BY <1>1, TablePublishes DEF RemoteMoves, TableInv, RemoteIdle
<1>2. ASSUME NEW n \in RemoteNodes, RemoteCreateNode(n)
      PROVE  RemoteMoves
  <2>1. /\ n \notin members /\ Table!Cardinality(members) < GRAPH_MAX_NODES
        /\ members' = members \cup {n} /\ owned' = owned /\ remote' = remote
        /\ graph_publish
    BY <1>2 DEF RemoteCreateNode, Table!AddNode
  <2>2. Cardinality(members) < GRAPH_MAX_NODES
    BY <2>1, TableCardinality
  <2>3. /\ IsFiniteSet(members \cup {n})
        /\ Cardinality(members \cup {n}) = Cardinality(members) + 1
    BY <1>0, <2>1, FS_AddElement
  <2>4. Cardinality(members) \in Nat /\ GRAPH_MAX_NODES \in Nat
    BY <1>0, FS_CardinalityType, TheGraphFits, LimitsArePositive
  <2>5. Cardinality(members \cup {n}) <= GRAPH_MAX_NODES
    BY <2>2, <2>3, <2>4
  <2>6. members \cup {n} \subseteq RemoteNodes
    BY <1>0
  <2> QED BY <1>0, <1>1, <2>1, <2>3, <2>5, <2>6
<1>3. ASSUME NEW n \in RemoteNodes, RemoteDestroyNode(n)
      PROVE  RemoteMoves
  <2>1. /\ n \in members /\ members' = members \ {n}
        /\ owned' = owned /\ remote' = remote /\ graph_publish
    BY <1>3 DEF RemoteDestroyNode, Table!RemoveNode
  <2>2. /\ IsFiniteSet(members \ {n})
        /\ Cardinality(members \ {n}) = Cardinality(members) - 1
    BY <1>0, <2>1, FS_RemoveElement
  <2>3. Cardinality(members) \in Nat /\ GRAPH_MAX_NODES \in Nat
    BY <1>0, FS_CardinalityType, TheGraphFits, LimitsArePositive
  <2>4. Cardinality(members \ {n}) <= GRAPH_MAX_NODES
    BY <1>0, <2>2, <2>3
  <2>5. members \ {n} \subseteq RemoteNodes
    BY <1>0
  <2> QED BY <1>0, <1>1, <2>1, <2>2, <2>4, <2>5
<1>4. ASSUME NEW e \in Endpoints, RemoteCreateEndpoint(e)
      PROVE  RemoteMoves
  <2>1. /\ EndpointAppears(e) /\ UNCHANGED <<members, owned, contents>>
        /\ remote' = [pc |-> "created", endpoint |-> e]
    BY <1>4 DEF RemoteCreateEndpoint
  <2>2. remote'.endpoint \in Endpoints
    BY <2>1
  <2>3. TableInv'
    BY <1>0, <2>1, <2>2 DEF TableInv
  <2> QED BY <2>1, <2>3 DEF RemoteMoves
<1>5. ASSUME NEW n \in RemoteNodes, RemoteAnnounceEndpoint(n)
      PROVE  RemoteMoves
  <2>1. remote # RemoteIdle
    BY <1>5 DEF RemoteAnnounceEndpoint, RemoteIdle
  <2>2. PICK e \in Endpoints, kind \in Kinds :
            e = remote.endpoint /\ kind = KindOf(e)
    BY <1>0, <2>1, KindOfType
  <2>3. /\ members' = members
        /\ owned' = [owned EXCEPT ![n][kind] = @ \cup {e}]
        /\ remote' = RemoteIdle /\ graph_publish
    BY <1>5, <2>2 DEF RemoteAnnounceEndpoint, Table!AddEndpoint
  <2>4. [owned EXCEPT ![n][kind] = @ \cup {e}]
            \in [RemoteNodes -> [Kinds -> SUBSET Endpoints]]
    BY <1>0
  <2> QED BY <1>0, <1>1, <2>3, <2>4
<1>6. ASSUME NEW n \in RemoteNodes, NEW e \in Endpoints,
             RemoteRetractEndpoint(n, e)
      PROVE  RemoteMoves
  <2>1. PICK kind \in Kinds : kind = KindOf(e)
    BY KindOfType
  <2>2. /\ members' = members
        /\ owned' = [owned EXCEPT ![n][kind] = @ \ {e}]
        /\ remote' = [pc |-> "retracted", endpoint |-> e] /\ graph_publish
    BY <1>6, <2>1 DEF RemoteRetractEndpoint, Table!RemoveEndpoint
  <2>3. [owned EXCEPT ![n][kind] = @ \ {e}]
            \in [RemoteNodes -> [Kinds -> SUBSET Endpoints]]
    BY <1>0
  <2>4. remote'.endpoint \in Endpoints
    BY <2>2
  <2> QED BY <1>0, <1>1, <2>2, <2>3, <2>4
<1>7. CASE RemoteDeleteEndpoint
  <2>1. /\ remote # RemoteIdle /\ EndpointIsLost(remote.endpoint)
        /\ remote' = RemoteIdle /\ UNCHANGED <<members, owned, contents>>
    BY <1>7 DEF RemoteDeleteEndpoint
  <2>2. TableInv'
    BY <1>0, <2>1 DEF TableInv, RemoteIdle
  <2> QED BY <1>0, <2>1, <2>2 DEF RemoteMoves
<1> QED BY <1>2, <1>3, <1>4, <1>5, <1>6, <1>7 DEF RemoteStep

-----------------------------------------------------------------------------
(* The steps of RosGraph *)

\* The five kinds of steps.
LEMMA RosSteps ==
    ASSUME TableInv, [RosNext]_allVars
    PROVE  \/ RemoteMoves /\ UNCHANGED <<question, appVars>>
           \/ \E r \in Readers : Receiver(r)
           \/ GraphGuardWakes /\ UNCHANGED <<remoteVars, question>>
           \/ /\ Query \/ AllocationFails
              /\ UNCHANGED <<vars, remoteVars, question>>
           \/ UNCHANGED allVars
<1>1. CASE RemoteStep /\ UNCHANGED <<question, appVars>>
  BY <1>1, RemoteStepMoves
<1>2. CASE Application
  BY <1>2 DEF Application
<1> QED BY <1>1, <1>2 DEF RosNext

\* There are two participants.
LEMMA TwoParticipants ==
    /\ Remote \in Remotes /\ Remote \in Participants /\ Self \in Participants
    /\ Remote # Self
    /\ Participants = {Remote, Self}
BY OneRemoteParticipant, KeysAreDistinct DEF Participants

\* A snapshot of the remote participant is one it may write.
LEMMA PublishesWrites ==
    ASSUME Publishes
    PROVE  \E s \in Snapshots :
                /\ RemoteWrite(Remote, s)
                /\ s.fits /\ s.size \in 0 .. GRAPH_MAX_NODES
                /\ \E listing \in Seq(ListedNodes) :
                        /\ Len(listing) = s.size
                        /\ contents' = Append(contents, listing)
<1>1. PICK size \in 0 .. GRAPH_MAX_NODES, listing \in Seq(ListedNodes) :
        /\ Len(listing) = size
        /\ RemoteWrite(Remote, [size |-> size, fits |-> TRUE])
        /\ contents' = Append(contents, listing)
  BY DEF Publishes
<1>2. PICK s \in [size : 0 .. GRAPH_MAX_NODES, fits : {TRUE}] :
        s = [size |-> size, fits |-> TRUE]
  OBVIOUS
<1>3. s \in Snapshots
  BY <1>2, TheGraphFits
<1>4. s.fits /\ s.size = size /\ RemoteWrite(Remote, s)
  BY <1>1, <1>2
<1> QED BY <1>1, <1>3, <1>4

\* Every step is a step of GraphCache, or leaves it alone.
LEMMA RosStep ==
    ASSUME TableInv, [RosNext]_allVars
    PROVE  [Next]_vars
<1>1. CASE RemoteMoves
  <2>1. CASE Publishes
    BY <2>1, PublishesWrites, TwoParticipants DEF Next, Environment
  <2> QED BY <1>1, <2>1 DEF RemoteMoves, Next, Environment
<1>2. ASSUME NEW r \in Readers, Receiver(r)
      PROVE  Next
  <2>1. r \in Actors
    BY DEF Actors
  <2> QED BY <1>2, <2>1 DEF Receiver, Next, Listener
<1>3. CASE GraphGuardWakes
  BY <1>3 DEF GraphGuardWakes, Next
<1>4. CASE UNCHANGED allVars
  BY <1>4 DEF allVars
<1> QED BY <1>1, <1>2, <1>3, <1>4, RosSteps

\* What is left alone outside the remote participant.
LEMMA SnapshotsStay ==
    ASSUME NEW r \in Readers, Receiver(r)
    PROVE  UNCHANGED snapshots
<1>1. CASE Handle(r)
  BY <1>1, HandleMoves
<1>2. CASE dds_take(r)
  BY <1>2 DEF dds_take
<1>3. CASE graph_cache_signal(r)
  BY <1>3 DEF graph_cache_signal, dds
<1> QED BY <1>1, <1>2, <1>3 DEF Receiver

\* One more snapshot, with its contents.
LEMMA DescribesNext ==
    ASSUME NEW listings, NEW snaps \in Seq(Snapshots), Describes(listings, snaps),
           NEW listing \in Seq(ListedNodes), NEW s \in Snapshots,
           s.fits, s.size \in 0 .. GRAPH_MAX_NODES, Len(listing) = s.size
    PROVE  Describes(Append(listings, listing), Append(snaps, s))
<1>1. PICK old \in Seq(Seq(ListedNodes)) : old = listings
  BY DEF Describes
<1>2. PICK new \in Seq(Seq(ListedNodes)), sn \in Seq(Snapshots) :
        new = Append(old, listing) /\ sn = Append(snaps, s)
  <2>1. Append(old, listing) \in Seq(Seq(ListedNodes))
    OBVIOUS
  <2>2. Append(snaps, s) \in Seq(Snapshots)
    OBVIOUS
  <2> QED BY <2>1, <2>2
<1>3. /\ Len(new) = Len(old) + 1 /\ new[Len(old) + 1] = listing /\ new # <<>>
      /\ \A i \in 1 .. Len(old) : new[i] = old[i]
  <2>1. PICK T : T = Seq(ListedNodes)
    OBVIOUS
  <2>2. PICK o \in Seq(T), l \in T : o = old /\ l = listing
    BY <2>1, Zenon
  <2>3. Append(o, l) # <<>>
    BY AppendListing
  <2>4. Len(Append(o, l)) = Len(o) + 1
    BY AppendListing
  <2>5. Append(o, l)[Len(o) + 1] = l
    BY AppendListing
  <2>6. \A i \in 1 .. Len(o) : Append(o, l)[i] = o[i]
    BY AppendListing
  <2> QED BY <1>2, <2>2, <2>3, <2>4, <2>5, <2>6
<1>4. /\ Len(sn) = Len(snaps) + 1 /\ sn[Len(snaps) + 1] = s
      /\ \A i \in 1 .. Len(snaps) : sn[i] = snaps[i]
  BY <1>2, AppendListing
<1>5. Len(old) = Len(snaps) /\ Len(old) \in Nat
  BY <1>1 DEF Describes
<1>6. ASSUME NEW v \in 1 .. Len(new)
      PROVE  /\ sn[v].size = Len(new[v]) /\ sn[v].size <= GRAPH_MAX_NODES
             /\ sn[v].fits
  <2>1. CASE v \in 1 .. Len(old)
    BY <1>1, <1>3, <1>4, <1>5, <2>1 DEF Describes
  <2>2. CASE v \notin 1 .. Len(old)
    <3>1. v = Len(old) + 1
      BY <1>3, <1>5, <2>2
    <3>2. sn[v] = s /\ new[v] = listing
      BY <1>3, <1>4, <1>5, <3>1
    <3>3. s.size <= GRAPH_MAX_NODES
      OBVIOUS
    <3> QED BY <3>2, <3>3
  <2> QED BY <2>1, <2>2
<1>7. Describes(new, sn)
  BY <1>3, <1>4, <1>5, <1>6 DEF Describes
<1> QED BY <1>1, <1>2, <1>7

\* Every step keeps RemoteInv.
LEMMA NextRemote ==
    ASSUME TypeInv, RemoteInv, [RosNext]_allVars
    PROVE  RemoteInv'
<1>0. /\ TableInv /\ snapshots \in [Participants -> Seq(Snapshots)]
      /\ Describes(contents, snapshots[Remote]) /\ snapshots[Self] = <<>>
      /\ question \in Questions
  BY DEF RemoteInv, TypeInv, DdsType
<1>1. ASSUME UNCHANGED <<remoteVars, snapshots, question>>
      PROVE  RemoteInv'
  <2>1. UNCHANGED <<members, owned, contents, remote, snapshots, question>>
    BY <1>1 DEF remoteVars
  <2>2. TableInv'
    BY <1>0, <2>1 DEF TableInv, RemoteIdle
  <2>3. Describes(contents, snapshots[Remote])'
    BY <1>0, <2>1 DEF Describes
  <2> QED BY <1>0, <2>1, <2>2, <2>3 DEF RemoteInv, Questions, TopicQuestions
<1>2. CASE RemoteMoves /\ UNCHANGED <<question, appVars>>
  <2>1. TableInv'
    BY <1>2 DEF RemoteMoves
  <2>2. CASE Publishes
    <3>1. PICK s \in Snapshots :
                /\ RemoteWrite(Remote, s)
                /\ s.fits /\ s.size \in 0 .. GRAPH_MAX_NODES
                /\ \E listing \in Seq(ListedNodes) :
                        /\ Len(listing) = s.size
                        /\ contents' = Append(contents, listing)
      BY <2>2, PublishesWrites
    <3>2. PICK listing \in Seq(ListedNodes) :
                Len(listing) = s.size /\ contents' = Append(contents, listing)
      BY <3>1
    <3>3. snapshots' = [snapshots EXCEPT ![Remote] = Append(@, s)]
      BY <3>1 DEF RemoteWrite, Write
    <3>4. /\ snapshots'[Remote] = Append(snapshots[Remote], s)
          /\ snapshots'[Self] = <<>>
      BY <1>0, <3>3, TwoParticipants
    <3>5. PICK snaps \in Seq(Snapshots) :
                snaps = snapshots[Remote]
      BY <1>0, TwoParticipants
    <3>6. Describes(Append(contents, listing), Append(snaps, s))
      BY <1>0, <3>1, <3>2, <3>5, DescribesNext
    <3>7. Describes(contents, snapshots[Remote])'
      BY <3>2, <3>4, <3>5, <3>6 DEF Describes
    <3> QED BY <1>0, <1>2, <2>1, <3>4, <3>7 DEF RemoteInv, Questions,
                                                TopicQuestions
  <2>3. CASE /\ UNCHANGED contents
             /\ \E e \in Endpoints : EndpointAppears(e) \/ EndpointIsLost(e)
    <3>1. UNCHANGED <<contents, snapshots, question>>
      BY <1>2, <2>3 DEF EndpointAppears, EndpointIsLost
    <3>2. Describes(contents, snapshots[Remote])'
      BY <1>0, <3>1 DEF Describes
    <3> QED BY <1>0, <2>1, <3>1, <3>2 DEF RemoteInv, Questions, TopicQuestions
  <2> QED BY <1>2, <2>2, <2>3 DEF RemoteMoves
<1>3. ASSUME NEW r \in Readers, Receiver(r)
      PROVE  RemoteInv'
  BY <1>1, <1>3, SnapshotsStay DEF Receiver
<1>4. CASE GraphGuardWakes /\ UNCHANGED <<remoteVars, question>>
  BY <1>1, <1>4 DEF GraphGuardWakes, TakeGraphGuard, dds
<1>5. CASE UNCHANGED <<vars, remoteVars, question>>
  BY <1>1, <1>5 DEF vars, dds
<1>6. CASE UNCHANGED allVars
  BY <1>5, <1>6 DEF allVars
<1> QED BY <1>0, <1>2, <1>3, <1>4, <1>5, <1>6, RosSteps

-----------------------------------------------------------------------------
(* The cache as the queries see it *)

\* A cached node is one that a snapshot of the remote participant lists.
LEMMA CachedNames ==
    ASSUME TypeInv, OrderInv, RemoteInv, NEW n \in cached_nodes
    PROVE  /\ n.participant_guid = Remote
           /\ n.name[1] \in 1 .. Len(contents)
           /\ n.name[2] \in 1 .. Len(contents[n.name[1]])
<1>1. PICK p \in Participants : p = n.participant_guid
  BY DEF TypeInv, CacheType, CachedNode
<1>2. n \in NodesOf(p)
  BY <1>1 DEF NodesOf
<1>3. PICK s \in GraphSample :
        s.gid = p /\ Genuine(s, snapshots) /\ NodesOf(p) = SampleNodes(s)
  BY <1>2 DEF OrderInv, IsOneSnapshot
<1>4. s.version \in 1 .. Len(snapshots[p]) /\ s.size = snapshots[p][s.version].size
  BY <1>3 DEF Genuine
<1>5. p = Remote
  <2>1. p # Self
    BY <1>4 DEF RemoteInv
  <2> QED BY <2>1, TwoParticipants
<1>6. Len(contents) = Len(snapshots[Remote])
      /\ s.size = Len(contents[s.version])
  BY <1>4, <1>5 DEF RemoteInv, Describes
<1>7. PICK i \in 1 .. s.size :
        n = [participant_guid |-> s.gid, name |-> <<s.version, i>>]
  BY <1>2, <1>3 DEF SampleNodes
<1>8. n.name[1] = s.version /\ n.name[2] = i
  BY <1>7
<1> QED BY <1>1, <1>4, <1>5, <1>6, <1>8

\* A new snapshot does not change what the older ones list.
LEMMA CacheStays ==
    ASSUME TypeInv, OrderInv, RemoteInv, UNCHANGED cache,
           UNCHANGED contents \/ Publishes
    PROVE  Cache' = Cache /\ CachedListing' = CachedListing
<1>1. UNCHANGED <<cached_nodes, cached_endpoints>>
  BY DEF cache
<1>2. ASSUME NEW n \in cached_nodes
      PROVE  contents'[n.name[1]] = contents[n.name[1]]
  <2>1. CASE Publishes
    <3>1. PICK listing \in Seq(ListedNodes) :
            contents' = Append(contents, listing)
      BY <2>1 DEF Publishes
    <3>2. PICK old \in Seq(Seq(ListedNodes)) : old = contents
      BY DEF RemoteInv, Describes
    <3>3. \A v \in 1 .. Len(old) : Append(old, listing)[v] = old[v]
      BY AppendListing
    <3>4. n.name[1] \in 1 .. Len(old)
      BY <3>2, CachedNames
    <3> QED BY <3>1, <3>2, <3>3, <3>4
  <2> QED BY <2>1
<1>3. CachedListing' = CachedListing
  BY <1>1, <1>2 DEF CachedListing
<1>4. Cache' = Cache
  <2>1. Cache'.nodes = Cache.nodes
    BY <1>3 DEF Cache
  <2> QED BY <1>1, <1>3 DEF Cache
<1> QED BY <1>3, <1>4

\* What the queries know of an endpoint.
Infos == {EndpointInfo(e) : e \in Endpoints}

\* The endpoints of Cache.
LEMMA CacheEndpoints ==
    ASSUME CacheType
    PROVE  /\ Cache.endpoints \in Seq(Infos)
           /\ Len(Cache.endpoints) = Len(cached_endpoints)
           /\ \A i \in 1 .. Len(cached_endpoints) :
                Cache.endpoints[i] = EndpointInfo(cached_endpoints[i].guid)
<1>1. PICK s \in Seq(CachedEndpoint) : s = cached_endpoints
  BY DEF CacheType
<1>2. Len(s) \in Nat /\ \A i \in 1 .. Len(s) : s[i].guid \in Endpoints
  <2>1. \A x \in CachedEndpoint : x.guid \in Endpoints
    BY DEF CachedEndpoint
  <2> QED BY <2>1
<1> DEFINE infos == [i \in 1 .. Len(s) |-> EndpointInfo(s[i].guid)]
<1>3. \A i \in 1 .. Len(s) : EndpointInfo(s[i].guid) \in Infos
  BY <1>2 DEF Infos
<1>4. Cache.endpoints = infos
  BY <1>1 DEF Cache
<1>5. infos \in Seq(Infos) /\ Len(infos) = Len(s)
  BY <1>2, <1>3
<1>6. \A i \in 1 .. Len(s) : infos[i] = EndpointInfo(s[i].guid)
  OBVIOUS
<1> HIDE DEF infos
<1> QED BY <1>1, <1>4, <1>5, <1>6

\* Their output types.
LEMMA InfosTyped ==
    ASSUME NEW nd \in BOOLEAN
    PROVE  TypesIn(Infos, TypeNames, nd)
<1>1. ASSUME NEW e \in Endpoints
      PROVE  graph_type_output_name(EndpointInfo(e).type, nd) \in TypeNames
  <2>1. EndpointInfo(e).type = TypeOf[e]
    BY DEF EndpointInfo
  <2> QED BY <2>1 DEF TypeNames
<1> QED BY <1>1 DEF TypesIn, Infos

-----------------------------------------------------------------------------
(* The queries *)

\* A step that the query in progress does not notice.
LEMMA QueryUndisturbed ==
    ASSUME QueryInv, UNCHANGED <<app, question>>,
           CacheIsUnlocked \/ Cache' = Cache
    PROVE  QueryInv'
<1>1. CASE CacheIsUnlocked
  BY <1>1 DEF QueryInv, CacheIsUnlocked, AppWaits, AppAsks
<1>2. CASE Cache' = Cache
  <2>1. CurrentTopic' = CurrentTopic /\ no_demangle' = no_demangle
    BY DEF CurrentTopic, no_demangle
  <2>2. PassesInv => PassesInv'
    BY <1>2, <2>1 DEF PassesInv, AreTypesOf, TopicQuestions, TypeNames
  <2> QED BY <1>2, <2>1, <2>2 DEF QueryInv, AppWaits, AppAsks
<1> QED BY <1>1, <1>2

\* The application has its answer, or asks.
LEMMA QueryEnds ==
    ASSUME app' = AppWaits \/ app' = AppAsks
    PROVE  QueryInv'
<1>1. <<>> \in Seq(Nat)
  OBVIOUS
<1>2. AppAsks = [pc |-> "asking", names |-> <<>>, counts |-> <<>>,
                 types |-> <<>>]
  BY DEF AppAsks, AppWaits
<1>3. /\ app'.pc \in {"waiting", "asking"} /\ app'.counts = <<>>
      /\ app' = [pc |-> app'.pc, names |-> app'.names,
                 counts |-> app'.counts, types |-> app'.types]
      /\ app'.pc = "waiting" => app' = AppWaits
      /\ app'.pc = "asking" => app' = AppAsks
  BY <1>2 DEF AppWaits
<1> QED BY <1>1, <1>3 DEF QueryInv, AppWaits, AppAsks

\* The loop over the topics goes on with the next topic, or ends with the
\* right answer.
LEMMA NextTopicKeeps ==
    ASSUME CacheType, QueryInv, question \in TopicQuestions,
           Cache' = Cache, UNCHANGED question,
           NEW names, names = TopicNames(Cache, no_demangle),
           NEW types \in Seq(Seq(TypeNames)), Len(types) <= Len(names),
           AreTypesOf(types, names, Cache, no_demangle),
           NextTopic(names, types)
    PROVE  /\ QueryInv'
           /\ app'.pc = "waiting" =>
                /\ seen' = TopicsAndTypes(Cache, no_demangle)
                /\ Cardinality(seen') = Len(names)
<1>0. PICK c : c = Cache
  OBVIOUS
<1>1. PICK nd \in BOOLEAN : nd = no_demangle
  BY DEF no_demangle
<1>2. HasTypes(c, Infos, TypeNames, nd)
  BY <1>0, <1>1, CacheEndpoints, InfosTyped DEF HasTypes
<1>3. CASE Len(types) = Len(names)
  <2>1. Len(types) \in Nat
    OBVIOUS
  <2>2. Answer(AnswerSet(names, types))
    BY <1>3, <2>1 DEF NextTopic, AnswerSet
  <2>3. app' = AppWaits /\ seen' = AnswerSet(names, types)
    BY <2>2 DEF Answer
  <2>4. names = TopicNames(c, nd) /\ AreTypesOf(types, names, c, nd)
    BY <1>0, <1>1
  <2>5. /\ AnswerSet(names, types) = TopicsAndTypes(c, nd)
        /\ Cardinality(AnswerSet(names, types)) = Len(names)
    BY <1>2, <1>3, <2>4, FinishedAnswer
  <2> QED BY <1>0, <1>1, <2>3, <2>5, QueryEnds
<1>4. CASE Len(types) # Len(names)
  <2>1. /\ app' = [app EXCEPT !.pc = "count", !.names = names, !.types = types]
        /\ Len(types) < Len(names)
    BY <1>4 DEF NextTopic
  <2>2. app = [pc |-> app.pc, names |-> app.names,
               counts |-> app.counts, types |-> app.types]
    BY DEF QueryInv
  <2>3. app' = [pc |-> "count", names |-> names, counts |-> app.counts,
                types |-> types]
    BY <2>1, <2>2
  <2>4. /\ app'.pc = "count" /\ app'.names = names /\ app'.types = types
        /\ app'.counts = app.counts
        /\ app' = [pc |-> app'.pc, names |-> app'.names,
                   counts |-> app'.counts, types |-> app'.types]
    BY <2>3
  <2>5. no_demangle' = no_demangle
    BY DEF no_demangle
  <2>6. PassesInv'
    BY <2>1, <2>4, <2>5 DEF PassesInv, AreTypesOf, TopicQuestions, TypeNames
  <2>7. app.counts \in Seq(Nat)
    BY DEF QueryInv
  <2> QED BY <2>4, <2>6, <2>7 DEF QueryInv
<1> QED BY <1>3, <1>4

\* What AnswerFrom says of each question.
LEMMA AnswerCases ==
    ASSUME NEW l, NEW c
    PROVE  /\ question = "nodes" =>
                AnswerFrom(l, c) = {listed.name : listed \in l}
           /\ question = "publishers" =>
                AnswerFrom(l, c) = graph_count_endpoints(c, AskedTopic, TRUE)
           /\ question = "subscribers" =>
                AnswerFrom(l, c) = graph_count_endpoints(c, AskedTopic, FALSE)
           /\ question \in TopicQuestions =>
                AnswerFrom(l, c) = TopicsAndTypes(c, no_demangle)
BY DEF AnswerFrom, TopicQuestions

\* A step inside a query keeps QueryInv; when the query returns, the answer is
\* that of the cache.
LEMMA QueryAnswers ==
    ASSUME CacheType, QueryInv, Query, Cache' = Cache, UNCHANGED question
    PROVE  /\ QueryInv'
           /\ app'.pc = "waiting" => seen' = AnswerFrom(CachedListing, Cache)
           /\ app.pc = "fill" /\ app'.pc = "waiting" =>
                /\ seen' = TopicsAndTypes(Cache, no_demangle)
                /\ Cardinality(seen') = Len(app.names)
<1>0. AppWaits.pc = "waiting" /\ AppAsks.pc = "asking"
  BY DEF AppWaits, AppAsks
<1>1. CASE rmw_get_node_names
  <2>1. /\ question = "nodes" /\ app' = AppWaits /\ app.pc = "asking"
        /\ seen' = {listed.name : listed \in CachedListing}
    BY <1>1 DEF rmw_get_node_names, Answer
  <2> QED BY <2>1, QueryEnds, AnswerCases
<1>2. CASE rmw_count_publishers
  <2>1. /\ question = "publishers" /\ app' = AppWaits /\ app.pc = "asking"
        /\ seen' = graph_count_endpoints(Cache, AskedTopic, TRUE)
    BY <1>2 DEF rmw_count_publishers, Answer
  <2> QED BY <2>1, QueryEnds, AnswerCases
<1>3. CASE rmw_count_subscribers
  <2>1. /\ question = "subscribers" /\ app' = AppWaits /\ app.pc = "asking"
        /\ seen' = graph_count_endpoints(Cache, AskedTopic, FALSE)
    BY <1>3 DEF rmw_count_subscribers, Answer
  <2> QED BY <2>1, QueryEnds, AnswerCases
<1>4. CASE rmw_get_topic_names_and_types
  <2>1. PICK names : names = TopicNames(Cache, no_demangle)
    OBVIOUS
  <2>2. PICK types \in Seq(Seq(TypeNames)) : types = <<>>
    <3>1. <<>> \in Seq(Seq(TypeNames))
      OBVIOUS
    <3> QED BY <3>1
  <2>3. /\ question \in TopicQuestions /\ NextTopic(names, types)
        /\ app.pc = "asking"
    BY <1>0, <1>4, <2>1, <2>2 DEF rmw_get_topic_names_and_types
  <2>4. Len(types) <= Len(names)
    <3>1. PICK c : c = Cache
      OBVIOUS
    <3>2. PICK nd \in BOOLEAN : nd = no_demangle
      BY DEF no_demangle
    <3>3. c.endpoints \in Seq(Infos)
      BY <3>1, CacheEndpoints
    <3>4. TopicNames(c, nd) \in Seq(NamesOf(Infos, nd))
      BY <3>3, TopicNamesValues
    <3>5. Len(names) \in Nat
      BY <2>1, <3>1, <3>2, <3>4
    <3> QED BY <2>2, <3>5
  <2>5. AreTypesOf(types, names, Cache, no_demangle)
    BY <2>2 DEF AreTypesOf
  <2>6. /\ QueryInv'
        /\ app'.pc = "waiting" => seen' = TopicsAndTypes(Cache, no_demangle)
    BY <2>1, <2>3, <2>4, <2>5, NextTopicKeeps
  <2> QED BY <2>3, <2>6, AnswerCases
<1> DEFINE topic == CurrentTopic
<1>5. ASSUME app.pc \in {"count", "fill"}
      PROVE  /\ PassesInv
             /\ FillTypes(Cache, topic, no_demangle) \in Seq(TypeNames)
             /\ CountTypes(Cache, topic, no_demangle) \in Nat
             /\ Range(FillTypes(Cache, topic, no_demangle)) =
                    Range(TypesOf(Visible(Cache), topic, no_demangle))
             /\ app = [pc |-> app.pc, names |-> app.names,
                       counts |-> app.counts, types |-> app.types]
             /\ app.counts \in Seq(Nat)
  <2>1. PICK c : c = Cache
    OBVIOUS
  <2>2. PICK nd \in BOOLEAN : nd = no_demangle
    BY DEF no_demangle
  <2>3. HasTypes(c, Infos, TypeNames, nd)
    BY <2>1, <2>2, CacheEndpoints, InfosTyped DEF HasTypes
  <2>4. PICK t : t = CurrentTopic
    OBVIOUS
  <2>5. /\ FillTypes(c, t, nd) \in Seq(TypeNames)
        /\ Len(FillTypes(c, t, nd)) = CountTypes(c, t, nd)
        /\ CountTypes(c, t, nd) \in Nat
        /\ Range(FillTypes(c, t, nd)) = Range(TypesOf(Visible(c), t, nd))
    BY <2>3, FillCounts
  <2> QED BY <1>5, <2>1, <2>2, <2>4, <2>5 DEF QueryInv
<1>6. CASE CountPass
  <2>1. app.pc = "count"
    BY <1>6 DEF CountPass
  <2>2. PICK n \in Nat, old \in Seq(Nat) :
            n = CountTypes(Cache, topic, no_demangle) /\ old = app.counts
    BY <1>5, <2>1
  <2>3. app' = [app EXCEPT !.pc = "fill", !.counts = Append(old, n)]
    BY <1>6, <2>2 DEF CountPass
  <2>4. app' = [pc |-> "fill", names |-> app.names,
                counts |-> Append(old, n), types |-> app.types]
    BY <1>5, <2>1, <2>3
  <2>5. /\ app'.pc = "fill" /\ app'.names = app.names /\ app'.types = app.types
        /\ app'.counts = Append(old, n)
        /\ app' = [pc |-> app'.pc, names |-> app'.names,
                   counts |-> app'.counts, types |-> app'.types]
    BY <2>4
  <2>6. /\ Append(old, n) \in Seq(Nat) /\ Append(old, n) # <<>>
        /\ Last(Append(old, n)) = n
    BY DEF Last
  <2>7. no_demangle' = no_demangle /\ topic' = topic
    BY <2>5 DEF no_demangle, CurrentTopic
  <2>8. PassesInv'
    BY <1>5, <2>1, <2>5, <2>7 DEF PassesInv, AreTypesOf, TopicQuestions,
                                  TypeNames
  <2>9. Last(app.counts)' = CountTypes(Cache, topic, no_demangle)'
    BY <2>2, <2>5, <2>6, <2>7
  <2> QED BY <2>1, <2>5, <2>6, <2>8, <2>9 DEF QueryInv
<1>7. CASE FillPass
  <2>1. app.pc = "fill"
    BY <1>7 DEF FillPass
  <2>2. PICK names, t : names = app.names /\ t = topic
    OBVIOUS
  <2>3. PICK old \in Seq(Seq(TypeNames)), new \in Seq(TypeNames) :
            old = app.types /\ new = FillTypes(Cache, topic, no_demangle)
    BY <1>5, <2>1 DEF PassesInv
  <2>4. PICK types \in Seq(Seq(TypeNames)) : types = Append(old, new)
    <3>1. Append(old, new) \in Seq(Seq(TypeNames))
      OBVIOUS
    <3> QED BY <3>1
  <2>5. /\ Len(types) = Len(old) + 1 /\ types[Len(old) + 1] = new
        /\ \A i \in 1 .. Len(old) : types[i] = old[i]
    BY <2>4, AppendListing
  <2>6. /\ names = TopicNames(Cache, no_demangle) /\ question \in TopicQuestions
        /\ Len(old) < Len(names) /\ AreTypesOf(old, names, Cache, no_demangle)
        /\ names[Len(old) + 1] = t
    BY <1>5, <2>1, <2>2, <2>3 DEF PassesInv, CurrentTopic
  <2>7. Len(types) <= Len(names)
    <3>1. PICK c : c = Cache
      OBVIOUS
    <3>2. PICK nd \in BOOLEAN : nd = no_demangle
      BY DEF no_demangle
    <3>3. c.endpoints \in Seq(Infos)
      BY <3>1, CacheEndpoints
    <3>4. TopicNames(c, nd) \in Seq(NamesOf(Infos, nd))
      BY <3>3, TopicNamesValues
    <3>5. Len(names) \in Nat /\ Len(old) \in Nat
      BY <2>6, <3>1, <3>2, <3>4
    <3> QED BY <2>5, <2>6, <3>5
  <2>8. AreTypesOf(types, names, Cache, no_demangle)
    <3> SUFFICES ASSUME NEW i \in 1 .. Len(types)
                 PROVE  Range(types[i]) =
                            Range(TypesOf(Visible(Cache), names[i], no_demangle))
      BY DEF AreTypesOf
    <3>1. CASE i \in 1 .. Len(old)
      BY <2>5, <2>6, <3>1 DEF AreTypesOf
    <3>2. CASE i = Len(old) + 1
      BY <1>5, <2>1, <2>2, <2>3, <2>5, <2>6, <3>2
    <3>3. Len(old) \in Nat
      OBVIOUS
    <3> QED BY <2>5, <3>1, <3>2, <3>3
  <2>9. NextTopic(names, types)
    BY <1>7, <2>2, <2>3, <2>4 DEF FillPass
  <2>10. /\ QueryInv'
         /\ app'.pc = "waiting" =>
                /\ seen' = TopicsAndTypes(Cache, no_demangle)
                /\ Cardinality(seen') = Len(names)
    BY <2>6, <2>7, <2>8, <2>9, NextTopicKeeps
  <2> QED BY <2>2, <2>6, <2>10, AnswerCases
<1> QED BY <1>1, <1>2, <1>3, <1>4, <1>6, <1>7 DEF Query

-----------------------------------------------------------------------------
(* Every step keeps what the application has seen *)

\* What a listener leaves alone outside Handle.
LEMMA ReceiverKeeps ==
    ASSUME NEW r \in Readers, Receiver(r)
    PROVE  /\ UNCHANGED <<members, owned, contents, remote, question, app,
                          failures, seen>>
           /\ (CacheIsUnlocked /\ Handle(r)) \/ UNCHANGED <<cache, unseen>>
<1>1. UNCHANGED <<members, owned, contents, remote, question, app, failures,
                  seen>>
  BY DEF Receiver, remoteVars, appVars
<1>2. dds_take(r) => UNCHANGED <<cache, unseen>>
  BY DEF dds_take
<1>3. graph_cache_signal(r) => UNCHANGED <<cache, unseen>>
  BY DEF graph_cache_signal
<1> QED BY <1>1, <1>2, <1>3 DEF Receiver

\* A step of the remote participant leaves the cache alone.
LEMMA RemoteLeavesCache ==
    ASSUME RemoteMoves
    PROVE  UNCHANGED <<cache, unseen>> /\ (UNCHANGED contents \/ Publishes)
<1>1. CASE Publishes
  BY <1>1 DEF Publishes, RemoteWrite
<1> QED BY <1>1 DEF RemoteMoves, EndpointAppears, EndpointIsLost

\* Every step keeps QueryInv.
LEMMA NextQuery ==
    ASSUME TypeInv, OrderInv, RemoteInv, QueryInv, [RosNext]_allVars
    PROVE  QueryInv'
<1>0. TableInv /\ CacheType
  BY DEF RemoteInv, TypeInv
<1>1. CASE RemoteMoves /\ UNCHANGED <<question, appVars>>
  <2>1. Cache' = Cache
    BY <1>1, RemoteLeavesCache, CacheStays
  <2> QED BY <1>1, <2>1, QueryUndisturbed DEF appVars
<1>2. ASSUME NEW r \in Readers, Receiver(r)
      PROVE  QueryInv'
  <2>1. UNCHANGED <<contents, app, question>>
    BY <1>2, ReceiverKeeps
  <2>2. CASE CacheIsUnlocked
    BY <2>1, <2>2, QueryUndisturbed
  <2>3. CASE UNCHANGED cache
    <3>1. Cache' = Cache
      BY <2>1, <2>3, CacheStays
    <3> QED BY <2>1, <3>1, QueryUndisturbed
  <2> QED BY <1>2, <2>2, <2>3, ReceiverKeeps
<1>3. CASE GraphGuardWakes
  BY <1>3, QueryEnds DEF GraphGuardWakes
<1>4. CASE AllocationFails
  BY <1>4, QueryEnds DEF AllocationFails
<1>5. ASSUME UNCHANGED <<vars, remoteVars>>
      PROVE  Cache' = Cache
  <2>1. UNCHANGED cache /\ UNCHANGED contents
    BY <1>5 DEF vars, remoteVars
  <2> QED BY <2>1, CacheStays
<1>6. CASE Query /\ UNCHANGED <<vars, remoteVars, question>>
  BY <1>0, <1>5, <1>6, QueryAnswers
<1>7. CASE UNCHANGED allVars
  <2>1. UNCHANGED <<vars, remoteVars, app, question>>
    BY <1>7 DEF allVars, appVars
  <2> QED BY <1>5, <2>1, QueryUndisturbed
<1> QED BY <1>0, <1>1, <1>2, <1>3, <1>4, <1>6, <1>7, RosSteps

\* A change of the cache is a change the application has not seen.
LEMMA HandleIsUnseen ==
    ASSUME TypeInv, NEW r \in Readers, Handle(r), ~unseen'
    PROVE  UNCHANGED cache /\ ~unseen
<1>2. ASSUME NEW actor, Unlock(actor) \/ Refuse
      PROVE  UNCHANGED cache /\ ~unseen
  <2>1. CASE Unlock(actor)
    <3>1. unseen' = (unseen \/ cache' # cache)
      BY <2>1 DEF Unlock
    <3> QED BY <3>1, Zenon
  <2>2. CASE Refuse
    BY <2>2 DEF Refuse
  <2> QED BY <1>2, <2>1, <2>2
<1>3. CASE r = "graph" /\ graph_data_available
  BY <1>2, <1>3, OperationSignals DEF graph_data_available
<1>4. CASE r = "participant" /\ participant_data_available
  BY <1>2, <1>4, OperationSignals DEF participant_data_available
<1>5. CASE r \in EndpointReaders /\ endpoint_data_available(r)
  BY <1>2, <1>5, OperationSignals DEF endpoint_data_available
<1> QED BY <1>3, <1>4, <1>5 DEF Handle

\* The answer depends on the question, the listing and the cache.
LEMMA AnswerStays ==
    ASSUME UNCHANGED question, Cache' = Cache, CachedListing' = CachedListing
    PROVE  AnswerFrom(CachedListing, Cache)' = AnswerFrom(CachedListing, Cache)
BY DEF AnswerFrom, no_demangle

\* Every step keeps SeenInv.
LEMMA NextSeen ==
    ASSUME TypeInv, OrderInv, RemoteInv, QueryInv, SeenInv, [RosNext]_allVars
    PROVE  SeenInv'
<1>0. TableInv /\ CacheType
  BY DEF RemoteInv, TypeInv
<1>1. ASSUME UNCHANGED <<app, seen, question>>, UNCHANGED cache,
             UNCHANGED contents \/ Publishes, ~unseen' => ~unseen
      PROVE  SeenInv'
  <2>1. Cache' = Cache /\ CachedListing' = CachedListing
    BY <1>1, CacheStays
  <2>2. AnswerFrom(CachedListing, Cache)' = AnswerFrom(CachedListing, Cache)
    BY <1>1, <2>1, AnswerStays
  <2> QED BY <1>1, <2>2 DEF SeenInv
<1>2. CASE RemoteMoves /\ UNCHANGED <<question, appVars>>
  <2>1. /\ UNCHANGED cache /\ (UNCHANGED contents \/ Publishes)
        /\ unseen' = unseen
    BY <1>2, RemoteLeavesCache
  <2>2. UNCHANGED <<app, seen, question>>
    BY <1>2 DEF appVars
  <2> QED BY <1>1, <2>1, <2>2
<1>3. ASSUME NEW r \in Readers, Receiver(r)
      PROVE  SeenInv'
  <2>1. UNCHANGED <<contents, app, seen, question>>
    BY <1>3, ReceiverKeeps
  <2>2. CASE Handle(r)
    <3>1. CASE ~unseen'
      BY <1>1, <2>1, <2>2, <3>1, HandleIsUnseen
    <3>2. CASE unseen'
      BY <3>2 DEF SeenInv
    <3> QED BY <3>1, <3>2
  <2>3. CASE UNCHANGED <<cache, unseen>>
    BY <1>1, <2>1, <2>3
  <2> QED BY <1>3, <2>2, <2>3, ReceiverKeeps
<1>4. CASE GraphGuardWakes \/ AllocationFails
  <2>1. app' = AppAsks
    BY <1>4 DEF GraphGuardWakes, AllocationFails
  <2>2. app'.pc # "waiting"
    BY <2>1 DEF AppAsks, AppWaits
  <2> QED BY <2>2 DEF SeenInv
<1>5. CASE Query /\ UNCHANGED <<vars, remoteVars, question>>
  <2>1. UNCHANGED cache /\ UNCHANGED <<contents, question>>
    BY <1>5 DEF vars, remoteVars
  <2>2. Cache' = Cache /\ CachedListing' = CachedListing
    BY <2>1, CacheStays
  <2>3. app'.pc = "waiting" => seen' = AnswerFrom(CachedListing, Cache)
    BY <1>0, <1>5, <2>1, <2>2, QueryAnswers
  <2>4. AnswerFrom(CachedListing, Cache)' = AnswerFrom(CachedListing, Cache)
    BY <2>1, <2>2, AnswerStays
  <2> QED BY <2>3, <2>4 DEF SeenInv
<1>6. CASE UNCHANGED allVars
  <2>1. UNCHANGED <<app, seen, question, contents, unseen>> /\ UNCHANGED cache
    BY <1>6 DEF allVars, vars, remoteVars, appVars
  <2> QED BY <1>1, <2>1
<1> QED BY <1>0, <1>2, <1>3, <1>4, <1>5, <1>6, RosSteps

-----------------------------------------------------------------------------
(* The initial state *)

\* A subset of the endpoints.
LEMMA EndpointsFinite ==
    ASSUME NEW D \in SUBSET Endpoints
    PROVE  /\ IsFiniteSet(D)
           /\ Cardinality(D) \in Nat
           /\ Cardinality(D) <= GRAPH_CACHE_MAX_ENDPOINTS
<1>1. IsFiniteSet(Endpoints)
  BY TheGraphFits
<1>2. IsFiniteSet(D) /\ Cardinality(D) <= Cardinality(Endpoints)
  BY <1>1, FS_Subset
<1>3. Cardinality(D) \in Nat /\ Cardinality(Endpoints) \in Nat
  BY <1>1, <1>2, FS_CardinalityType
<1> QED BY <1>2, <1>3, TheGraphFits, LimitsArePositive

\* The cache entries of a set of endpoints.
EntriesOf(D) == {CachedAs(e) : e \in D}

\* They fit into the cache, each once.
LEMMA EntriesAreProper ==
    ASSUME NEW D \in SUBSET Endpoints
    PROVE  /\ SetToSeq(EntriesOf(D)) \in Seq(CachedEndpoint)
           /\ ProperEntries(SetToSeq(EntriesOf(D)))
           /\ Range(SetToSeq(EntriesOf(D))) = EntriesOf(D)
<1> DEFINE f == [e \in D |-> CachedAs(e)]
<1>1. PICK S : S = EntriesOf(D)
  OBVIOUS
<1>2. f \in Surjection(D, S)
  BY <1>1 DEF Surjection, EntriesOf
<1> HIDE DEF f
<1>3. /\ IsFiniteSet(D) /\ Cardinality(D) \in Nat
      /\ Cardinality(D) <= GRAPH_CACHE_MAX_ENDPOINTS
  BY EndpointsFinite
<1>4. IsFiniteSet(S) /\ Cardinality(S) <= Cardinality(D)
  BY <1>2, <1>3, FS_Surjection
<1>5. S \subseteq CachedEndpoint /\ \A x \in S : x = CachedAs(x.guid)
  BY <1>1, CachedAsType DEF EntriesOf, CachedAs
<1>6. PICK s \in Seq(S) :
        /\ s = SetToSeq(S) /\ Len(s) = Cardinality(S) /\ NoneTwice(s)
        /\ Range(s) = S
  BY <1>4, SetToSeqProps
<1>7. s \in Seq(CachedEndpoint)
  BY <1>5
<1>8. Len(s) <= GRAPH_CACHE_MAX_ENDPOINTS
  <2>1. Len(s) \in Nat
    OBVIOUS
  <2> QED BY <1>3, <1>4, <1>6, <2>1, LimitsArePositive
<1>9. \A i \in 1 .. Len(s) : s[i] = CachedAs(s[i].guid)
  BY <1>5
<1>10. ASSUME NEW i \in 1 .. Len(s), NEW j \in 1 .. Len(s),
              s[i].guid = s[j].guid
       PROVE  i = j
  <2>1. s[i] = s[j]
    BY <1>9, <1>10
  <2> QED BY <1>6, <2>1 DEF NoneTwice
<1>11. ProperEntries(s)
  BY <1>8, <1>9, <1>10 DEF ProperEntries
<1> QED BY <1>1, <1>6, <1>7, <1>11

\* The remote participant has one node and has announced it.
LEMMA InitRemote == RosInit => RemoteInv
<1> SUFFICES ASSUME RosInit PROVE RemoteInv
  OBVIOUS
<1>0. GRAPH_MAX_NODES \in Nat /\ 1 <= GRAPH_MAX_NODES
  BY TheGraphFits, LimitsArePositive
<1>1. members = {FirstNode} /\ FirstNode \in RemoteNodes
  BY OneRemoteParticipant DEF RosInit
<1>2. IsFiniteSet(members) /\ Cardinality(members) = 1
  BY <1>1, FS_Singleton
<1>3. owned \in [RemoteNodes -> [Kinds -> SUBSET Endpoints]]
  BY OneRemoteParticipant DEF RosInit, Kinds
<1>4. TableInv
  BY <1>0, <1>1, <1>2, <1>3 DEF TableInv, RosInit
<1>5. PICK m \in SUBSET RemoteNodes,
           o \in [RemoteNodes -> [Kinds -> SUBSET Endpoints]] :
        m = members /\ o = owned
  BY <1>1, <1>3
<1>6. PICK listing \in Seq(ListedNodes) :
        listing = Listing(m, o) /\ Len(listing) = 1
  BY <1>2, <1>5, ListingType
<1>7. PICK s : s = [size |-> 1, fits |-> TRUE]
  OBVIOUS
<1>8. contents = <<listing>> /\ snapshots[Remote] = <<s>>
      /\ snapshots[Self] = <<>>
  BY <1>5, <1>6, <1>7, TwoParticipants DEF RosInit
<1>9. Describes(<<listing>>, <<s>>)
  <2>1. /\ <<listing>> \in Seq(Seq(ListedNodes)) /\ Len(<<listing>>) = 1
        /\ <<listing>>[1] = listing /\ Len(<<s>>) = 1 /\ <<s>>[1] = s
        /\ <<listing>> # <<>>
    OBVIOUS
  <2>2. s.size = 1 /\ s.fits
    BY <1>7
  <2>3. ASSUME NEW v \in 1 .. Len(<<listing>>)
        PROVE  /\ <<s>>[v].size = Len(<<listing>>[v])
               /\ <<s>>[v].size <= GRAPH_MAX_NODES /\ <<s>>[v].fits
    <3>1. v = 1
      BY <2>1
    <3>2. <<s>>[v] = s /\ <<listing>>[v] = listing
      BY <3>1
    <3> QED BY <1>0, <1>6, <2>2, <3>2
  <2> QED BY <2>1, <2>3 DEF Describes
<1> QED BY <1>4, <1>8, <1>9 DEF RemoteInv, RosInit

\* Nothing waits, and the first node is cached.
LEMMA InitCached ==
    ASSUME RosInit
    PROVE  /\ \A r \in Readers : batch[r] = <<>> /\ queue[r] = <<>>
           /\ LastSample(Remote) \in GraphSample
           /\ LastSample(Remote) = [gid |-> Remote, version |-> 1, size |-> 1,
                                    fits |-> TRUE]
           /\ Genuine(LastSample(Remote), snapshots)
           /\ cached_nodes = SampleNodes(LastSample(Remote))
           /\ cached_nodes = {[participant_guid |-> Remote, name |-> <<1, 1>>]}
<1>1. /\ snapshots[Remote] = <<[size |-> 1, fits |-> TRUE]>>
      /\ Remote \in Participants
  BY TwoParticipants DEF RosInit
<1>2. LastSample(Remote) = [gid |-> Remote, version |-> 1, size |-> 1,
                            fits |-> TRUE]
  <2>1. /\ Len(snapshots[Remote]) = 1
        /\ Last(snapshots[Remote]) = [size |-> 1, fits |-> TRUE]
    BY <1>1 DEF Last
  <2>2. /\ Last(snapshots[Remote]).size = 1
        /\ Last(snapshots[Remote]).fits = TRUE
    BY <2>1
  <2> QED BY <2>1, <2>2 DEF LastSample
<1>3. LastSample(Remote) \in GraphSample
  BY <1>1, <1>2 DEF GraphSample
<1>4. Genuine(LastSample(Remote), snapshots)
  <2>1. PICK s : s = LastSample(Remote)
    OBVIOUS
  <2>2. s.gid = Remote /\ s.version = 1 /\ s.size = 1 /\ s.fits = TRUE
    BY <1>2, <2>1
  <2>3. PICK new : new = [size |-> 1, fits |-> TRUE]
    OBVIOUS
  <2>4. /\ Len(snapshots[Remote]) = 1 /\ snapshots[Remote][1] = new
        /\ new.size = 1 /\ new.fits = TRUE
    BY <1>1, <2>3
  <2>5. s.fits = new.fits
    BY <2>2, <2>4, Zenon
  <2>6. /\ s.version \in 1 .. Len(snapshots[s.gid])
        /\ snapshots[s.gid][s.version] = new
    BY <2>2, <2>4
  <2>7. Genuine(s, snapshots)
    BY <2>2, <2>4, <2>5, <2>6, Zenon DEF Genuine
  <2> QED BY <2>1, <2>7
<1>5. cached_nodes = SampleNodes(LastSample(Remote))
  BY DEF RosInit
<1>6. SampleNodes(LastSample(Remote)) =
        {[participant_guid |-> Remote, name |-> <<1, 1>>]}
  <2>1. PICK s : s = LastSample(Remote)
    OBVIOUS
  <2>2. s.gid = Remote /\ s.version = 1 /\ s.size = 1
    BY <1>2, <2>1
  <2>3. 1 .. 1 = {1}
    OBVIOUS
  <2>4. SampleNodes(s) = {[participant_guid |-> Remote, name |-> <<1, i>>] :
                            i \in {1}}
    BY <2>2, <2>3 DEF SampleNodes
  <2> QED BY <2>1, <2>4
<1> QED BY <1>2, <1>3, <1>4, <1>5, <1>6 DEF RosInit

\* The invariants of GraphCache hold.
LEMMA InitCarried == RosInit => CarriedInv
<1> SUFFICES ASSUME RosInit PROVE CarriedInv
  OBVIOUS
<1>0. PICK n \in CachedNode : n = [participant_guid |-> Remote, name |-> <<1, 1>>]
  <2>1. [participant_guid |-> Remote, name |-> <<1, 1>>] \in CachedNode
    BY TwoParticipants DEF CachedNode
  <2> QED BY <2>1
<1>1. cached_nodes = {n} /\ n.participant_guid = Remote
  BY <1>0, InitCached
<1>2. DdsType
  <2>1. alive \in [Keys -> BOOLEAN] /\ appearances \in [Keys -> Nat]
    BY DEF RosInit
  <2>2. [size |-> 1, fits |-> TRUE] \in Snapshots
    <3>1. 1 \in 0 .. GRAPH_MAX_NODES
      BY TheGraphFits, LimitsArePositive
    <3>2. [size |-> 1, fits |-> TRUE]
            \in [size : 0 .. GRAPH_MAX_NODES, fits : {TRUE}]
      BY <3>1
    <3> QED BY <3>2, TheGraphFits
  <2>3. <<[size |-> 1, fits |-> TRUE]>> \in Seq(Snapshots)
        /\ <<>> \in Seq(Snapshots)
    BY <2>2
  <2>4. snapshots \in [Participants -> Seq(Snapshots)]
    BY <2>3 DEF RosInit
  <2>5. HoldsSamples(queue) /\ HoldsSamples(batch)
    BY DEF RosInit, HoldsSamples
  <2>6. IsFiniteSet({e \in Endpoints : alive[e]})
    <3>1. PICK D \in SUBSET Endpoints : D = {e \in Endpoints : alive[e]}
      OBVIOUS
    <3> QED BY <3>1, EndpointsFinite
  <2> QED BY <2>1, <2>4, <2>5, <2>6 DEF DdsType
<1>3. LocalType
  BY DEF RosInit, LocalType, LocalKnows, LocalIdle, LocalPhases
<1>4. PICK D \in SUBSET Endpoints : D = FirstEndpoints
  BY OneRemoteParticipant
<1>5. cached_endpoints = SetToSeq(EntriesOf(D))
  BY <1>4 DEF RosInit, EntriesOf
<1>6. /\ cached_endpoints \in Seq(CachedEndpoint)
      /\ ProperEntries(cached_endpoints)
  BY <1>5, EntriesAreProper
<1>7. CacheType /\ SignalType
  BY <1>1, <1>6 DEF RosInit, CacheType, SignalType
<1>8. NodeInv
  <2>1. cached_participants = {Remote, Self}
    BY TwoParticipants DEF RosInit
  <2>2. IsFiniteSet({Remote}) /\ Cardinality({Remote}) = 1
    BY FS_Singleton
  <2>3. Self \notin {Remote} /\ {Remote} \cup {Self} = {Remote, Self}
    BY TwoParticipants
  <2>4. /\ IsFiniteSet({Remote} \cup {Self})
        /\ Cardinality({Remote} \cup {Self}) = Cardinality({Remote}) + 1
    BY <2>2, <2>3, FS_AddElement
  <2>5. /\ IsFiniteSet(cached_participants)
        /\ Cardinality(cached_participants) <= GRAPH_CACHE_MAX_PARTICIPANTS
    BY <2>1, <2>2, <2>3, <2>4, TheGraphFits, LimitsArePositive
  <2>6. IsFiniteSet({n}) /\ Cardinality({n}) = 1
    BY FS_Singleton
  <2> QED BY <1>1, <2>1, <2>5, <2>6, LimitsArePositive
          DEF NodeInv, NodesHaveParticipant
<1>9. Pending = <<>>
  BY InitCached DEF Pending, Readers
<1>10. OrderInv
  <2>1. InOrder(Pending, snapshots) /\ NoneIsOlder(cached_nodes, Pending)
    BY <1>9 DEF InOrder, NoneIsOlder
  <2>2. ASSUME NEW p \in Participants, NodesOf(p) # {}
        PROVE  IsOneSnapshot(NodesOf(p), p, snapshots)
    <3>1. p = Remote /\ NodesOf(p) = cached_nodes
      BY <1>1, <2>2 DEF NodesOf
    <3>2. PICK s \in GraphSample : s = LastSample(Remote)
      BY InitCached
    <3>3. s.gid = Remote /\ s.fits /\ Genuine(s, snapshots)
          /\ cached_nodes = SampleNodes(s)
      BY <3>2, InitCached
    <3> QED BY <3>1, <3>3 DEF IsOneSnapshot
  <2> QED BY <2>1, <2>2 DEF OrderInv
<1>11. ChangeIsSignalled
  BY DEF RosInit, ChangeIsSignalled
<1> QED BY <1>2, <1>3, <1>6, <1>7, <1>8, <1>10, <1>11
        DEF CarriedInv, TypeInv, CacheInv

\* The application waits, and has not looked yet.
LEMMA InitQuery == RosInit => QueryInv /\ SeenInv
<1> SUFFICES ASSUME RosInit PROVE QueryInv /\ SeenInv
  OBVIOUS
<1>1. app = AppWaits /\ unseen
  BY DEF RosInit
<1>2. <<>> \in Seq(Nat)
  OBVIOUS
<1>3. QueryInv
  BY <1>1, <1>2 DEF QueryInv, AppWaits
<1> QED BY <1>1, <1>3 DEF SeenInv

-----------------------------------------------------------------------------
(* What the passes of a query see *)

\* Every step keeps the invariants of GraphCache.
LEMMA NextCarried ==
    ASSUME CarriedInv, RemoteInv, [RosNext]_allVars
    PROVE  CarriedInv'
<1>1. TypeInv /\ CacheInv /\ OrderInv /\ ChangeIsSignalled
  BY DEF CarriedInv
<1>2. [Next]_vars
  BY RosStep DEF RemoteInv
<1>3. TypeInv'
  BY <1>1, <1>2, NextType
<1>4. CacheInv'
  BY <1>1, <1>2, NextCacheInv
<1>5. OrderInv'
  BY <1>1, <1>2, NextOrder
<1>6. ChangeIsSignalled'
  BY <1>1, <1>2, NextSignalled
<1> QED BY <1>3, <1>4, <1>5, <1>6 DEF CarriedInv

\* The cache, the remote participant and the application.
SightInv == CarriedInv /\ RemoteInv /\ QueryInv /\ SeenInv

\* Every step keeps all of them.
LEMMA NextSight ==
    ASSUME SightInv, [RosNext]_allVars
    PROVE  SightInv'
<1>1. /\ CarriedInv /\ RemoteInv /\ QueryInv /\ SeenInv
      /\ TypeInv /\ OrderInv
  BY DEF SightInv, CarriedInv
<1>2. CarriedInv'
  BY <1>1, NextCarried
<1>3. RemoteInv'
  BY <1>1, NextRemote
<1>4. QueryInv'
  BY <1>1, NextQuery
<1>5. SeenInv'
  BY <1>1, NextSeen
<1> QED BY <1>2, <1>3, <1>4, <1>5 DEF SightInv

\* They hold in every reachable state.
THEOREM SightInvAlways == RosSpec => []SightInv
<1>1. RosInit => SightInv
  BY InitCarried, InitRemote, InitQuery DEF SightInv
<1>2. SightInv /\ [RosNext]_allVars => SightInv'
  BY NextSight
<1> QED BY <1>1, <1>2, PTL DEF RosSpec

\* rmw_get_topic_names_and_types fills exactly the slots it counted, whatever
\* the listeners and the remote participant do between its passes.
THEOREM FillNeverOverruns == RosSpec => []FillMatchesCount
<1>1. ASSUME SightInv
      PROVE  FillMatchesCount
  <2> SUFFICES ASSUME app.pc = "fill"
               PROVE  Len(FillTypes(Cache, CurrentTopic, no_demangle)) =
                            Last(app.counts)
    BY DEF FillMatchesCount
  <2>1. CacheType /\ Last(app.counts) =
                        CountTypes(Cache, CurrentTopic, no_demangle)
    BY <1>1 DEF SightInv, CarriedInv, TypeInv, QueryInv
  <2>2. PICK c : c = Cache
    OBVIOUS
  <2>3. PICK t : t = CurrentTopic
    OBVIOUS
  <2>4. PICK nd \in BOOLEAN : nd = no_demangle
    BY DEF no_demangle
  <2>5. HasTypes(c, Infos, TypeNames, nd)
    BY <2>1, <2>2, CacheEndpoints, InfosTyped DEF HasTypes
  <2>6. /\ FillTypes(c, t, nd) \in Seq(TypeNames)
        /\ Len(FillTypes(c, t, nd)) = CountTypes(c, t, nd)
    BY <2>5, FillCounts
  <2> QED BY <2>1, <2>2, <2>3, <2>4, <2>6
<1> QED BY <1>1, SightInvAlways, PTL

\* A finished answer of rmw_get_topic_names_and_types is the cache as it is
\* when the query returns, each topic once with all its types.
THEOREM FinishedAnswersAreExact == RosSpec => AnswersAreExact
<1>1. ASSUME SightInv, [RosNext]_allVars
      PROVE  [app.pc = "fill" /\ app'.pc = "waiting" =>
                /\ seen' = TopicsAndTypes(Cache, no_demangle)
                /\ Cardinality(seen') = Len(app.names)]_allVars
  <2> SUFFICES ASSUME app.pc = "fill", app'.pc = "waiting"
               PROVE  /\ seen' = TopicsAndTypes(Cache, no_demangle)
                      /\ Cardinality(seen') = Len(app.names)
    OBVIOUS
  <2>0. /\ TableInv /\ CacheType /\ TypeInv /\ OrderInv /\ RemoteInv
        /\ QueryInv
    BY <1>1 DEF SightInv, RemoteInv, CarriedInv, TypeInv
  <2>1. app' # app
    OBVIOUS
  <2>2. CASE AllocationFails \/ GraphGuardWakes
    BY <2>2 DEF AllocationFails, GraphGuardWakes, AppAsks, AppWaits
  <2>3. CASE Query /\ UNCHANGED <<vars, remoteVars, question>>
    <3>1. UNCHANGED cache /\ UNCHANGED <<contents, question>>
      BY <2>3 DEF vars, remoteVars
    <3>2. Cache' = Cache
      BY <2>0, <3>1, CacheStays
    <3> QED BY <2>0, <2>3, <3>1, <3>2, QueryAnswers
  <2>4. ASSUME NEW r \in Readers, Receiver(r)
        PROVE  FALSE
    BY <2>1, <2>4 DEF Receiver, appVars
  <2> QED BY <1>1, <2>0, <2>1, <2>2, <2>3, <2>4, RosSteps DEF allVars, appVars
<1> QED BY <1>1, SightInvAlways, PTL DEF RosSpec, AnswersAreExact

-----------------------------------------------------------------------------
(* The nodes that are cached or on their way *)

\* The participant listener has nothing to do: the remote participant stays.
LEMMA ParticipantListenerRests ==
    ASSUME DdsType, EndpointsInv
    PROVE  batch["participant"] = <<>> /\ queue["participant"] = <<>>
<1>1. PICK T : T = ReaderSample("participant")
  OBVIOUS
<1>2. PICK b \in Seq(T), q \in Seq(T) :
        b = batch["participant"] /\ q = queue["participant"]
  BY <1>1 DEF DdsType, HoldsSamples, Readers
<1>3. b \o q = <<>>
  BY <1>2 DEF EndpointsInv, PendingOf
<1>4. Len(b \o q) = Len(b) + Len(q) /\ Len(b) \in Nat /\ Len(q) \in Nat
  OBVIOUS
<1>5. Len(b) = 0 /\ Len(q) = 0
  BY <1>3, <1>4
<1> QED BY <1>2, <1>5

\* All cached nodes are the remote participant's.
LEMMA AllNodesAreRemote ==
    ASSUME TypeInv, OrderInv, RemoteInv
    PROVE  NodesOf(Remote) = cached_nodes
BY CachedNames DEF NodesOf

\* There is room for the remote participant's last snapshot.
LEMMA LastSnapshotFits ==
    ASSUME TypeInv, CacheInv, OrderInv, RemoteInv
    PROVE  /\ LastSample(Remote) \in GraphSample
           /\ LastSample(Remote).gid = Remote
           /\ SnapshotFits(LastSample(Remote))
<1>1. PICK snaps \in Seq(Snapshots) : snaps = snapshots[Remote]
  BY TwoParticipants DEF TypeInv, DdsType
<1>2. /\ Describes(contents, snaps)
      /\ snapshots \in [Participants -> Seq(Snapshots)]
  BY <1>1 DEF RemoteInv, TypeInv, DdsType
<1>3. PICK v \in 1 .. Len(snaps) : v = Len(snaps)
  <2>1. contents # <<>> /\ Len(contents) = Len(snaps)
        /\ contents \in Seq(Seq(ListedNodes))
    BY <1>2 DEF Describes
  <2>2. Len(snaps) \in Nat /\ Len(snaps) # 0
    BY <2>1
  <2> QED BY <2>2
<1>4. /\ snaps[v].size <= GRAPH_MAX_NODES /\ snaps[v].fits
      /\ snapshots[Remote] # <<>>
  BY <1>1, <1>2, <1>3 DEF Describes
<1>5. PICK s \in GraphSample : s = LastSample(Remote)
  BY <1>2, <1>4, LastSampleType, TwoParticipants
<1>6. s.gid = Remote /\ s.size = snaps[v].size /\ s.fits = snaps[v].fits
  BY <1>1, <1>3, <1>5 DEF LastSample, Last
<1>7. s.size \in Nat /\ s.size <= GRAPH_CACHE_MAX_NODES
  <2>1. s.size \in Nat
    BY DEF GraphSample
  <2> QED BY <1>4, <1>6, <2>1, TheGraphFits, LimitsArePositive
<1>8. Cardinality(cached_nodes) - Cardinality(NodesOf(s.gid)) + s.size
        <= GRAPH_CACHE_MAX_NODES
  <2>1. Cardinality(cached_nodes) \in Nat
    BY FS_CardinalityType DEF CacheInv, NodeInv
  <2>2. NodesOf(s.gid) = cached_nodes
    BY <1>6, AllNodesAreRemote
  <2> QED BY <1>7, <2>1, <2>2, LimitsArePositive
<1>9. ParticipantFits(Remote)
  <2> SUFFICES ASSUME Remote \notin cached_participants
               PROVE  Cardinality(cached_participants)
                            # GRAPH_CACHE_MAX_PARTICIPANTS
    BY DEF ParticipantFits
  <2>1. cached_participants \subseteq {Self}
    BY TwoParticipants DEF TypeInv, CacheType
  <2>2. IsFiniteSet({Self}) /\ Cardinality({Self}) = 1
    BY FS_Singleton
  <2>3. cached_participants \in SUBSET {Self}
    BY <2>1
  <2>4. Cardinality(cached_participants) <= 1
    BY <2>2, <2>3, FS_Subset
  <2>5. Cardinality(cached_participants) \in Nat
    BY FS_CardinalityType DEF CacheInv, NodeInv
  <2> QED BY <2>4, <2>5, TheGraphFits, LimitsArePositive
<1>10. SnapshotFits(s)
  BY <1>4, <1>6, <1>7, <1>8, <1>9 DEF SnapshotFits
<1> QED BY <1>5, <1>6, <1>10

\* The last announcement is cached when nothing waits, else it waits last.
NodesTold(samples, last, nodes) ==
    IF samples = <<>> THEN nodes = SampleNodes(last)
    ELSE samples[Len(samples)] = last

\* NodesInv, in these terms.
LEMMA NodesInvTold == NodesInv <=> NodesTold(Pending, LastSample(Remote), cached_nodes)
BY DEF NodesInv, NodesTold, Last

\* The tail ends with the last sample, or nothing is left.
LEMMA TailEnds ==
    ASSUME NEW S, NEW s \in Seq(S), s # <<>>
    PROVE  /\ Tail(s) # <<>> => Tail(s)[Len(Tail(s))] = s[Len(s)]
           /\ Tail(s) = <<>> => s[Len(s)] = s[1]
<1>1. PICK t \in Seq(S) : /\ t = Tail(s) /\ Len(t) = Len(s) - 1
                          /\ \A i \in 1 .. Len(t) : t[i] = s[i + 1]
  <2>1. /\ Tail(s) \in Seq(S) /\ Len(Tail(s)) = Len(s) - 1
        /\ \A i \in 1 .. Len(Tail(s)) : Tail(s)[i] = s[i + 1]
    BY HeadTailProperties
  <2> QED BY <2>1, Zenon
<1>2. Len(s) \in Nat /\ Len(t) \in Nat
  OBVIOUS
<1>3. CASE t # <<>>
  <2>1. Len(t) \in 1 .. Len(t) /\ Len(t) + 1 = Len(s)
    BY <1>1, <1>2, <1>3
  <2>2. t[Len(t)] = s[Len(s)]
    BY <1>1, <2>1
  <2> QED BY <1>1, <1>3, <2>2
<1>4. CASE t = <<>>
  <2>1. Len(s) = 1
    BY <1>1, <1>2, <1>4
  <2> QED BY <1>1, <1>4, <2>1
<1> QED BY <1>3, <1>4

\* The remote participant announces its nodes.
LEMMA PublishTells ==
    ASSUME TypeInv, RemoteInv, Publishes
    PROVE  NodesTold(Pending', LastSample(Remote)', cached_nodes')
<1>0. DdsType /\ snapshots \in [Participants -> Seq(Snapshots)]
  BY DEF TypeInv, DdsType
<1>1. PICK s \in Snapshots : RemoteWrite(Remote, s)
  BY PublishesWrites
<1>2. Write(Remote, s) /\ UNCHANGED batch
  BY <1>1 DEF RemoteWrite
<1>3. PICK old \in Seq(Snapshots) : old = snapshots[Remote]
  BY <1>0, TwoParticipants
<1>4. /\ snapshots'[Remote] = Append(old, s)
      /\ Append(old, s) \in Seq(Snapshots)
      /\ Len(Append(old, s)) = Len(old) + 1
      /\ Append(old, s)[Len(old) + 1] = s /\ Len(old) \in Nat
  <2>1. snapshots'[Remote] = Append(old, s)
    BY <1>0, <1>2, <1>3, TwoParticipants DEF Write
  <2> QED BY <2>1, AppendListing
<1>5. PICK sample \in GraphSample :
        sample = [gid |-> Remote, version |-> Len(old) + 1,
                  size |-> s.size, fits |-> s.fits]
  <2>1. s.size \in Nat /\ s.fits \in BOOLEAN
    BY BoundsAreNaturals
  <2>2. [gid |-> Remote, version |-> Len(old) + 1,
         size |-> s.size, fits |-> s.fits] \in GraphSample
    BY <1>4, <2>1, TwoParticipants DEF GraphSample
  <2> QED BY <2>2
<1>6. LastSample(Remote)' = sample
  <2>1. Last(snapshots'[Remote]) = s
    BY <1>4 DEF Last
  <2> QED BY <1>4, <1>5, <2>1 DEF LastSample
<1>7. queue'["graph"] = Append(queue["graph"], sample)
  BY <1>0, <1>2, <1>3, <1>5 DEF Write, DdsType, HoldsSamples, Readers
<1>8. Pending' = Append(Pending, sample)
  BY <1>0, <1>2, <1>7, PendingAppend
<1>9. PICK p \in Seq(GraphSample) : p = Pending
  BY <1>0, PendingParts
<1>10. /\ Append(p, sample) # <<>>
       /\ Append(p, sample)[Len(Append(p, sample))] = sample
  OBVIOUS
<1> QED BY <1>6, <1>8, <1>9, <1>10 DEF NodesTold

\* The graph listener handles the oldest announcement.
LEMMA GraphListenerTells ==
    ASSUME TypeInv, CacheInv, OrderInv, RemoteInv, NodesInv,
           graph_data_available
    PROVE  NodesTold(Pending', LastSample(Remote), cached_nodes')
<1>0. DdsType /\ HoldsSamples(batch) /\ "graph" \in Readers
  BY DEF TypeInv, DdsType, Readers
<1>1. /\ batch["graph"] # <<>>
      /\ batch' = [batch EXCEPT !["graph"] = Tail(batch["graph"])]
      /\ UNCHANGED queue
  BY DEF graph_data_available, NextSample, dds
<1>2. batch'["graph"] = Tail(batch["graph"])
  BY <1>0, <1>1 DEF HoldsSamples
<1>3. Pending # <<>> /\ Pending' = Tail(Pending)
  BY <1>0, <1>1, <1>2, PendingTail
<1>4. PICK p \in Seq(GraphSample) : p = Pending
  BY <1>0, PendingParts
<1>5. PICK last \in GraphSample : last = LastSample(Remote)
  BY LastSnapshotFits
<1>6. p[Len(p)] = last
  BY <1>3, <1>4, <1>5, NodesInvTold DEF NodesTold
<1>7. CASE Tail(p) # <<>>
  BY <1>3, <1>4, <1>5, <1>6, <1>7, TailEnds DEF NodesTold
<1>8. CASE Tail(p) = <<>>
  <2>1. last = p[1]
    BY <1>3, <1>4, <1>6, <1>8, TailEnds
  <2>2. last = Head(batch["graph"])
    BY <1>0, <1>1, <1>4, <2>1, PendingParts
  <2>3. last.gid = Remote /\ SnapshotFits(last)
    BY <1>5, LastSnapshotFits
  <2>4. graph_cache_apply_snapshot("graph", last)
    BY <2>2, <2>3, TwoParticipants DEF graph_data_available
  <2>5. cached_nodes' = (cached_nodes \ NodesOf(Remote)) \cup SampleNodes(last)
    BY <2>3, <2>4 DEF graph_cache_apply_snapshot
  <2>6. cached_nodes' = SampleNodes(last)
    BY <2>5, AllNodesAreRemote
  <2> QED BY <1>3, <1>4, <1>5, <1>8, <2>6 DEF NodesTold
<1> QED BY <1>7, <1>8

\* Every step keeps NodesInv.
LEMMA NextNodes ==
    ASSUME CarriedInv, RemoteInv, NodesInv, EndpointsInv, [RosNext]_allVars
    PROVE  NodesInv'
<1>0. /\ TypeInv /\ CacheInv /\ OrderInv /\ TableInv /\ DdsType
      /\ HoldsSamples(batch) /\ HoldsSamples(queue) /\ "graph" \in Readers
  BY DEF CarriedInv, RemoteInv, TypeInv, DdsType, Readers
<1>1. NodesTold(Pending, LastSample(Remote), cached_nodes)
  BY NodesInvTold
<1>2. ASSUME NodesTold(Pending', LastSample(Remote)', cached_nodes')
      PROVE  NodesInv'
  BY <1>2 DEF NodesInv, NodesTold, Last, SampleNodes
<1>3. ASSUME UNCHANGED <<snapshots, cached_nodes>>, Pending' = Pending
      PROVE  NodesInv'
  <2>1. LastSample(Remote)' = LastSample(Remote)
    BY <1>3 DEF LastSample
  <2> QED BY <1>1, <1>2, <1>3, <2>1
<1>4. CASE RemoteMoves
  <2>1. CASE Publishes
    BY <1>0, <1>2, <2>1, PublishTells
  <2>2. ASSUME NEW e \in Endpoints, EndpointAppears(e) \/ EndpointIsLost(e)
        PROVE  NodesInv'
    <3>1. UNCHANGED <<snapshots, batch, cached_nodes>>
      BY <2>2 DEF EndpointAppears, EndpointIsLost, cache
    <3>2. queue' = Appeared(queue, e) \/ \E keys : queue' = Lost(queue, keys)
      BY <2>2 DEF EndpointAppears, EndpointIsLost
    <3>3. queue'["graph"] = queue["graph"]
      BY <1>0, <3>2, NewsPassesBy DEF Keys
    <3>4. Pending' = Pending
      BY <3>1, <3>3 DEF Pending
    <3> QED BY <1>3, <3>1, <3>4
  <2> QED BY <1>4, <2>1, <2>2 DEF RemoteMoves
<1>5. ASSUME NEW r \in Readers, Receiver(r)
      PROVE  NodesInv'
  <2>1. CASE dds_take(r)
    <3>1. UNCHANGED <<snapshots, cached_nodes>>
      BY <2>1 DEF dds_take, cache
    <3>2. Pending' = Pending
      BY <1>0, <2>1, PendingTake
    <3> QED BY <1>3, <3>1, <3>2
  <2>2. CASE graph_cache_signal(r)
    BY <1>3, <2>2 DEF graph_cache_signal, dds, cache, Pending
  <2>3. CASE r = "graph" /\ graph_data_available
    <3>1. UNCHANGED snapshots
      BY <2>3 DEF graph_data_available, NextSample, dds
    <3>2. LastSample(Remote)' = LastSample(Remote)
      BY <3>1 DEF LastSample
    <3> QED BY <1>0, <1>2, <2>3, <3>2, GraphListenerTells
  <2>4. CASE r = "participant" /\ participant_data_available
    <3>1. batch["participant"] # <<>>
      BY <2>4 DEF participant_data_available, NextSample
    <3> QED BY <1>0, <3>1, ParticipantListenerRests
  <2>5. CASE r \in EndpointReaders /\ endpoint_data_available(r)
    <3>1. UNCHANGED cached_nodes
      BY <2>5 DEF endpoint_data_available, graph_cache_upsert_endpoint,
                  graph_cache_remove_endpoint_guid, Refuse, cache
    <3>2. Handle(r) /\ r # "graph"
      BY <2>5 DEF Handle, EndpointReaders
    <3>3. /\ batch' = [batch EXCEPT ![r] = Tail(batch[r])]
          /\ UNCHANGED <<snapshots, queue>>
      BY <3>2, HandleMoves
    <3>4. batch'["graph"] = batch["graph"]
      BY <1>0, <3>2, <3>3 DEF HoldsSamples
    <3>5. Pending' = Pending
      BY <3>3, <3>4 DEF Pending
    <3> QED BY <1>3, <3>1, <3>3, <3>5
  <2> QED BY <1>5, <2>1, <2>2, <2>3, <2>4, <2>5 DEF Receiver, Handle
<1>6. CASE GraphGuardWakes
  BY <1>3, <1>6 DEF GraphGuardWakes, TakeGraphGuard, dds, cache, Pending
<1>7. CASE UNCHANGED vars
  BY <1>3, <1>7 DEF vars, dds, cache, Pending
<1>8. CASE UNCHANGED allVars
  BY <1>7, <1>8 DEF allVars
<1> QED BY <1>0, <1>4, <1>5, <1>6, <1>7, <1>8, RosSteps

-----------------------------------------------------------------------------
(* What the waiting samples tell of an endpoint *)

\* t holds the samples s[h[1]], s[h[2]], ..., among them all that are about e.
Follows(h, t, s, e) ==
    /\ h \in [1 .. Len(t) -> 1 .. Len(s)]
    /\ \A i, j \in 1 .. Len(t) : i < j => h[i] < h[j]
    /\ \A j \in 1 .. Len(t) :
            t[j].key = s[h[j]].key /\ t[j].valid = s[h[j]].valid
    /\ \A i \in 1 .. Len(s) : s[i].key = e => \E j \in 1 .. Len(t) : h[j] = i

\* Then t tells the same of e.
LEMMA FollowsTells ==
    ASSUME NEW s, NEW t, Len(s) \in Nat, Len(t) \in Nat, NEW e, NEW h,
           Follows(h, t, s, e), NEW live, NEW cached, Tells(s, e, live, cached)
    PROVE  Tells(t, e, live, cached)
<1>1. CASE /\ cached = live
           /\ \A i \in 1 .. Len(s) : s[i].key # e
  BY <1>1 DEF Tells, Follows
<1>2. ASSUME NEW i \in 1 .. Len(s), s[i].key = e, s[i].valid = live,
             \A j \in i + 1 .. Len(s) : s[j].key # e
      PROVE  Tells(t, e, live, cached)
  <2>1. PICK j \in 1 .. Len(t) : h[j] = i
    BY <1>2 DEF Follows
  <2>2. t[j].key = e /\ t[j].valid = live
    BY <1>2, <2>1 DEF Follows
  <2>3. ASSUME NEW k \in j + 1 .. Len(t)
        PROVE  t[k].key # e
    <3>1. k \in 1 .. Len(t) /\ j < k
      OBVIOUS
    <3>2. h[j] < h[k] /\ h[k] \in 1 .. Len(s)
      BY <3>1 DEF Follows
    <3>3. h[k] \in i + 1 .. Len(s)
      BY <2>1, <3>2
    <3> QED BY <1>2, <3>1, <3>3 DEF Follows
  <2> QED BY <2>2, <2>3 DEF Tells
<1> QED BY <1>1, <1>2 DEF Tells

\* The same samples before both.
LEMMA FollowsAfter ==
    ASSUME NEW S, NEW b \in Seq(S), NEW q \in Seq(S), NEW t \in Seq(S),
           NEW e, NEW h, Follows(h, t, q, e)
    PROVE  \E g : Follows(g, b \o t, b \o q, e)
<1> DEFINE m == Len(b)
           g == [j \in 1 .. m + Len(t) |-> IF j <= m THEN j ELSE m + h[j - m]]
<1>1. m \in Nat /\ Len(q) \in Nat /\ Len(t) \in Nat
  OBVIOUS
<1>2. PICK x \in Seq(S) :
        /\ x = b \o q /\ Len(x) = m + Len(q)
        /\ \A i \in 1 .. m + Len(q) : x[i] = IF i <= m THEN b[i] ELSE q[i - m]
  <2>1. /\ b \o q \in Seq(S) /\ Len(b \o q) = m + Len(q)
        /\ \A i \in 1 .. m + Len(q) :
            (b \o q)[i] = IF i <= m THEN b[i] ELSE q[i - m]
    BY ConcatProperties
  <2> QED BY <2>1, Zenon
<1>3. PICK y \in Seq(S) :
        /\ y = b \o t /\ Len(y) = m + Len(t)
        /\ \A i \in 1 .. m + Len(t) : y[i] = IF i <= m THEN b[i] ELSE t[i - m]
  <2>1. /\ b \o t \in Seq(S) /\ Len(b \o t) = m + Len(t)
        /\ \A i \in 1 .. m + Len(t) :
            (b \o t)[i] = IF i <= m THEN b[i] ELSE t[i - m]
    BY ConcatProperties
  <2> QED BY <2>1, Zenon
<1>4. /\ \A j \in 1 .. Len(t) : h[j] \in 1 .. Len(q)
      /\ \A i, j \in 1 .. Len(t) : i < j => h[i] < h[j]
      /\ \A j \in 1 .. Len(t) :
            t[j].key = q[h[j]].key /\ t[j].valid = q[h[j]].valid
      /\ \A i \in 1 .. Len(q) :
            q[i].key = e => \E j \in 1 .. Len(t) : h[j] = i
  BY DEF Follows
<1> HIDE DEF m
<1>5. ASSUME NEW j \in 1 .. m + Len(t)
      PROVE  /\ j <= m => g[j] = j
             /\ ~(j <= m) => /\ j - m \in 1 .. Len(t) /\ g[j] = m + h[j - m]
                             /\ h[j - m] \in 1 .. Len(q)
  BY <1>1, <1>4
<1>6. g \in [1 .. m + Len(t) -> 1 .. m + Len(q)]
  <2>1. ASSUME NEW j \in 1 .. m + Len(t)
        PROVE  g[j] \in 1 .. m + Len(q)
    BY <1>1, <1>5
  <2> QED BY <2>1
<1> HIDE DEF g
<1>7. ASSUME NEW i \in 1 .. m + Len(t), NEW j \in 1 .. m + Len(t), i < j
      PROVE  g[i] < g[j]
  <2>1. CASE j <= m
    BY <1>1, <1>5, <1>7, <2>1
  <2>2. CASE i <= m /\ ~(j <= m)
    <3>1. g[i] = i
      BY <1>5, <2>2
    <3>2. g[j] = m + h[j - m] /\ h[j - m] \in 1 .. Len(q)
      BY <1>5, <2>2
    <3> QED BY <1>1, <2>2, <3>1, <3>2
  <2>3. CASE ~(i <= m) /\ ~(j <= m)
    <3>1. i - m < j - m
      BY <1>1, <1>7
    <3>2. h[i - m] < h[j - m]
      BY <1>4, <1>5, <2>3, <3>1
    <3> QED BY <1>1, <1>5, <2>3, <3>2
  <2> QED BY <1>1, <1>7, <2>1, <2>2, <2>3
<1>8. ASSUME NEW j \in 1 .. m + Len(t)
      PROVE  y[j].key = x[g[j]].key /\ y[j].valid = x[g[j]].valid
  <2>1. g[j] \in 1 .. m + Len(q)
    BY <1>6
  <2>2. CASE j <= m
    <3>1. g[j] = j
      BY <1>5, <2>2
    <3>2. y[j] = b[j] /\ x[j] = b[j]
      BY <1>2, <1>3, <2>1, <2>2, <3>1
    <3> QED BY <3>1, <3>2
  <2>3. CASE ~(j <= m)
    <3>1. /\ j - m \in 1 .. Len(t) /\ g[j] = m + h[j - m]
          /\ h[j - m] \in 1 .. Len(q)
      BY <1>5, <2>3
    <3>2. y[j] = t[j - m]
      BY <1>3, <2>3
    <3>3. ~(g[j] <= m) /\ g[j] - m = h[j - m]
      BY <1>1, <3>1
    <3>4. x[g[j]] = q[g[j] - m]
      BY <1>2, <2>1, <3>3
    <3> QED BY <1>4, <3>1, <3>2, <3>3, <3>4
  <2> QED BY <2>2, <2>3
<1>9. ASSUME NEW i \in 1 .. m + Len(q), x[i].key = e
      PROVE  \E j \in 1 .. m + Len(t) : g[j] = i
  <2>1. CASE i <= m
    <3>1. i \in 1 .. m + Len(t)
      BY <1>1, <2>1
    <3> QED BY <1>5, <2>1, <3>1
  <2>2. CASE ~(i <= m)
    <3>1. i - m \in 1 .. Len(q) /\ x[i] = q[i - m]
      BY <1>1, <1>2, <2>2
    <3>2. PICK k \in 1 .. Len(t) : h[k] = i - m
      BY <1>4, <1>9, <3>1
    <3>3. m + k \in 1 .. m + Len(t) /\ ~(m + k <= m) /\ (m + k) - m = k
      BY <1>1
    <3>4. g[m + k] = m + h[k]
      BY <1>5, <3>3
    <3>5. g[m + k] = i
      BY <1>1, <3>2, <3>4
    <3> QED BY <3>3, <3>5
  <2> QED BY <2>1, <2>2
<1>10. Follows(g, y, x, e)
  BY <1>2, <1>3, <1>6, <1>7, <1>8, <1>9 DEF Follows
<1> QED BY <1>2, <1>3, <1>10

\* A sample more.
LEMMA TellsNews ==
    ASSUME NEW S, NEW s \in Seq(S), NEW x \in S, NEW e, NEW live, NEW cached
    PROVE  /\ x.key = e /\ x.valid = live =>
                Tells(Append(s, x), e, live, cached)
           /\ x.key # e /\ Tells(s, e, live, cached) =>
                Tells(Append(s, x), e, live, cached)
<1>1. PICK t \in Seq(S) : t = Append(s, x)
  <2>1. Append(s, x) \in Seq(S)
    OBVIOUS
  <2> QED BY <2>1
<1>2. /\ Len(t) = Len(s) + 1 /\ t[Len(s) + 1] = x /\ Len(s) \in Nat
      /\ \A i \in 1 .. Len(s) : t[i] = s[i]
  BY <1>1, AppendListing
<1>3. ASSUME x.key = e, x.valid = live
      PROVE  Tells(t, e, live, cached)
  <2>1. Len(s) + 1 \in 1 .. Len(t)
    BY <1>2
  <2>2. \A j \in (Len(s) + 1) + 1 .. Len(t) : t[j].key # e
    BY <1>2
  <2> QED BY <1>2, <1>3, <2>1, <2>2 DEF Tells
<1>4. ASSUME x.key # e, Tells(s, e, live, cached)
      PROVE  Tells(t, e, live, cached)
  <2>1. \A j \in 1 .. Len(t) : j \in 1 .. Len(s) \/ t[j] = x
    BY <1>2
  <2>2. CASE cached = live /\ \A i \in 1 .. Len(s) : s[i].key # e
    BY <1>2, <1>4, <2>1, <2>2 DEF Tells
  <2>3. ASSUME NEW i \in 1 .. Len(s), s[i].key = e, s[i].valid = live,
               \A j \in i + 1 .. Len(s) : s[j].key # e
        PROVE  Tells(t, e, live, cached)
    <3>1. i \in 1 .. Len(t) /\ t[i] = s[i]
      BY <1>2
    <3>2. ASSUME NEW j \in i + 1 .. Len(t)
          PROVE  t[j].key # e
      <4>1. j \in 1 .. Len(t)
        OBVIOUS
      <4>2. CASE j \in 1 .. Len(s)
        BY <1>2, <2>3, <4>2
      <4> QED BY <1>4, <2>1, <4>1, <4>2
    <3> QED BY <2>3, <3>1, <3>2 DEF Tells
  <2> QED BY <1>4, <2>2, <2>3 DEF Tells
<1> QED BY <1>1, <1>3, <1>4

\* The oldest sample is applied.
LEMMA TellsRest ==
    ASSUME NEW S, NEW s \in Seq(S), s # <<>>, NEW e, NEW live, NEW cached,
           NEW next, Tells(s, e, live, cached),
           s[1].key = e => next = s[1].valid,
           s[1].key # e => next = cached
    PROVE  Tells(Tail(s), e, live, next)
<1>1. PICK t \in Seq(S) : /\ t = Tail(s) /\ Len(t) = Len(s) - 1
                          /\ \A i \in 1 .. Len(t) : t[i] = s[i + 1]
  <2>1. /\ Tail(s) \in Seq(S) /\ Len(Tail(s)) = Len(s) - 1
        /\ \A i \in 1 .. Len(Tail(s)) : Tail(s)[i] = s[i + 1]
    BY HeadTailProperties
  <2> QED BY <2>1, Zenon
<1>2. Len(s) \in Nat /\ Len(t) \in Nat /\ 1 \in 1 .. Len(s)
  OBVIOUS
<1>3. CASE cached = live /\ \A i \in 1 .. Len(s) : s[i].key # e
  <2>1. next = live
    BY <1>2, <1>3
  <2>2. \A i \in 1 .. Len(t) : i + 1 \in 1 .. Len(s)
    BY <1>1, <1>2
  <2>3. \A i \in 1 .. Len(t) : t[i].key # e
    BY <1>1, <1>3, <2>2
  <2> QED BY <1>1, <2>1, <2>3 DEF Tells
<1>4. ASSUME NEW i \in 1 .. Len(s), s[i].key = e, s[i].valid = live,
             \A j \in i + 1 .. Len(s) : s[j].key # e
      PROVE  Tells(t, e, live, next)
  <2>1. CASE i = 1
    <3>1. next = live
      BY <1>4, <2>1
    <3>2. \A j \in 1 .. Len(t) : j + 1 \in i + 1 .. Len(s)
      BY <1>1, <1>2, <2>1
    <3>3. \A j \in 1 .. Len(t) : t[j].key # e
      BY <1>1, <1>4, <3>2
    <3> QED BY <3>1, <3>3 DEF Tells
  <2>2. CASE i # 1
    <3>1. PICK k \in 1 .. Len(t) : k = i - 1 /\ k + 1 = i
      <4>1. i - 1 \in 1 .. Len(t) /\ (i - 1) + 1 = i
        BY <1>1, <1>2, <2>2
      <4> QED BY <4>1
    <3>2. t[k].key = e /\ t[k].valid = live
      BY <1>1, <1>4, <3>1
    <3>3. \A j \in k + 1 .. Len(t) : j \in 1 .. Len(t) /\ j + 1 \in i + 1 .. Len(s)
      BY <1>1, <1>2, <3>1
    <3>4. \A j \in k + 1 .. Len(t) : t[j].key # e
      BY <1>1, <1>4, <3>3
    <3> QED BY <3>2, <3>4 DEF Tells
  <2> QED BY <2>1, <2>2
<1> QED BY <1>1, <1>3, <1>4 DEF Tells

\* News of key k replaces the samples of k only.
LEMMA WithoutFollows ==
    ASSUME NEW S, NEW q \in Seq(S), NEW k, NEW e, e # k
    PROVE  /\ Without(q, k) \in Seq(S)
           /\ \E h : Follows(h, Without(q, k), q, e)
<1>1. PICK keep : keep = {x \in Range(q) : x.key # k}
  OBVIOUS
<1>2. PICK c \in Seq(S) : c = Compact(q, keep)
  BY CompactSelects
<1>3. PICK h : Selects(h, c, q, keep, Len(q))
  BY <1>2, CompactSelects
<1>4. Range(q) = {q[i] : i \in 1 .. Len(q)}
  BY RangeOfSequence
<1>5. \A i \in 1 .. Len(q) : q[i].key = e => q[i] \in keep
  BY <1>1, <1>4
<1>6. Follows(h, c, q, e)
  BY <1>3, <1>5 DEF Follows, Selects
<1> QED BY <1>1, <1>2, <1>6 DEF Without

\* m tells the same as q, sample by sample.
SameNews(m, q) ==
    /\ Len(m) = Len(q)
    /\ \A i \in 1 .. Len(q) : m[i].key = q[i].key /\ m[i].valid = q[i].valid

\* So it follows q for every endpoint.
LEMMA SameNewsFollows ==
    ASSUME NEW m, NEW q, Len(q) \in Nat, SameNews(m, q), NEW e
    PROVE  \E h : Follows(h, m, q, e)
<1> DEFINE h == [i \in 1 .. Len(q) |-> i]
<1>1. Follows(h, m, q, e)
  BY DEF Follows, SameNews
<1> QED BY <1>1

\* The reader's samples change, the batch before them does not.
LEMMA ChangedTold ==
    ASSUME NEW S, NEW b \in Seq(S), NEW q \in Seq(S), NEW m \in Seq(S), NEW e,
           \E h : Follows(h, m, q, e),
           NEW live, NEW cached, Tells(b \o q, e, live, cached)
    PROVE  Tells(b \o m, e, live, cached)
<1>1. PICK h : Follows(h, m, q, e)
  OBVIOUS
<1>2. PICK g : Follows(g, b \o m, b \o q, e)
  BY <1>1, FollowsAfter
<1>3. Len(b \o m) \in Nat /\ Len(b \o q) \in Nat
  <2>1. b \o m \in Seq(S) /\ b \o q \in Seq(S)
    OBVIOUS
  <2> QED BY <2>1
<1> QED BY <1>2, <1>3, FollowsTells

\* A new sample comes last.
LEMMA NewsTold ==
    ASSUME NEW S, NEW b \in Seq(S), NEW q \in Seq(S), NEW m \in Seq(S),
           NEW x \in S, NEW e, NEW live, NEW cached,
           x.key = e => x.valid = live,
           x.key # e => /\ Tells(b \o q, e, live, cached)
                        /\ \E h : Follows(h, m, q, e)
    PROVE  Tells(b \o Append(m, x), e, live, cached)
<1>1. PICK s \in Seq(S) : s = b \o m
  <2>1. b \o m \in Seq(S)
    OBVIOUS
  <2> QED BY <2>1
<1>2. b \o Append(m, x) = Append(s, x)
  <2>1. <<x>> \in Seq(S)
    OBVIOUS
  <2>2. Append(m, x) = m \o <<x>> /\ Append(s, x) = s \o <<x>>
    BY AppendIsConcat
  <2>3. (b \o m) \o <<x>> = b \o (m \o <<x>>)
    BY <2>1, ConcatAssociative
  <2> QED BY <1>1, <2>2, <2>3
<1>3. CASE x.key = e
  BY <1>2, <1>3, TellsNews
<1>4. CASE x.key # e
  <2>1. Tells(s, e, live, cached)
    BY <1>1, <1>4, ChangedTold
  <2> QED BY <1>2, <1>4, <2>1, TellsNews
<1> QED BY <1>3, <1>4

\* The loss of endpoint k in the queues: the waiting samples still tell the
\* same of every endpoint, and the loss may be a sample of its own.
LEMMA LossInQueues ==
    ASSUME NEW q, HoldsSamples(q), NEW k \in Endpoints,
           NEW r \in Readers, r # "graph"
    PROVE  \E m \in Seq(ReaderSample(r)) :
                /\ SameNews(m, q[r])
                /\ \/ Lost(q, {k})[r] = m
                   \/ /\ r = ReaderOf(k)
                      /\ Lost(q, {k})[r] =
                            Append(m, [key |-> k, valid |-> FALSE,
                                       alive |-> FALSE])
<1> DEFINE told == {key \in {k} : ReaderOf(key) = r
                        /\ ~(CoalesceLoss /\ \E i \in 1 .. Len(q[r]) :
                                                q[r][i].key = key)}
           marked == [i \in 1 .. Len(q[r]) |->
                        IF q[r][i].key \in {k}
                        THEN [q[r][i] EXCEPT !.alive = FALSE] ELSE q[r][i]]
           losses == {[key |-> key, valid |-> FALSE, alive |-> FALSE] :
                        key \in told}
<1>1. Lost(q, {k})[r] = marked \o SetToSeq(losses)
  BY DEF Lost
<1>2. PICK S : S = ReaderSample(r)
  OBVIOUS
<1>3. q[r] \in Seq(S) /\ Len(q[r]) \in Nat
  BY <1>2 DEF HoldsSamples
<1>4. ASSUME NEW s \in S
      PROVE  /\ [s EXCEPT !.alive = FALSE] \in S
             /\ [s EXCEPT !.alive = FALSE].key = s.key
             /\ [s EXCEPT !.alive = FALSE].valid = s.valid
  BY <1>2 DEF ReaderSample, BuiltinSample
<1>5. \A i \in 1 .. Len(q[r]) : q[r][i] \in S
  BY <1>3
<1>6. marked \in Seq(S) /\ Len(marked) = Len(q[r])
  BY <1>3, <1>4, <1>5
<1>7. ASSUME NEW i \in 1 .. Len(q[r])
      PROVE  marked[i].key = q[r][i].key /\ marked[i].valid = q[r][i].valid
  <2>1. marked[i] = q[r][i] \/ marked[i] = [q[r][i] EXCEPT !.alive = FALSE]
    OBVIOUS
  <2> QED BY <1>4, <1>5, <2>1
<1>8. SameNews(marked, q[r])
  <2> HIDE DEF marked
  <2> QED BY <1>6, <1>7 DEF SameNews
<1>9. \/ told = {}
      \/ told = {k} /\ r = ReaderOf(k)
  OBVIOUS
<1>10. PICK m \in Seq(S) : m = marked
  BY <1>6
<1> HIDE DEF marked, told
<1>11. CASE told = {k} /\ r = ReaderOf(k)
  <2>1. PICK x : x = [key |-> k, valid |-> FALSE, alive |-> FALSE]
    OBVIOUS
  <2>2. losses = {x}
    BY <1>11, <2>1
  <2>3. IsFiniteSet({x}) /\ Cardinality({x}) = 1
    BY FS_Singleton
  <2>4. PICK s \in Seq({x}) : s = SetToSeq({x}) /\ Len(s) = 1
    BY <2>3, SetToSeqProps
  <2>5. s[1] = x
    BY <2>4
  <2>6. s = <<x>>
    BY <2>4, <2>5
  <2>7. x \in S
    <3>1. k \in Keys /\ ReaderOf(k) = r
      BY <1>11 DEF Keys
    <3> QED BY <1>2, <2>1, <3>1, NewSample
  <2>8. m \o <<x>> = Append(m, x)
    BY <2>7, AppendIsConcat
  <2> QED BY <1>1, <1>2, <1>8, <1>10, <1>11, <2>1, <2>2, <2>4, <2>6, <2>8
<1>12. CASE told = {}
  <2>1. losses = {}
    BY <1>12
  <2>2. PICK E : E = {}
    OBVIOUS
  <2>3. IsFiniteSet(E) /\ Cardinality(E) = 0
    BY <2>2, FS_EmptySet
  <2>4. SetToSeq(E) \in Seq(E) /\ Len(SetToSeq(E)) = 0
    BY <2>3, SetToSeqProps
  <2>5. SetToSeq(E) = <<>>
    BY <2>4
  <2>6. m \o <<>> = m
    BY ConcatEmptySeq
  <2> QED BY <1>1, <1>2, <1>8, <1>10, <2>1, <2>2, <2>5, <2>6
<1> QED BY <1>9, <1>11, <1>12

-----------------------------------------------------------------------------
(* The endpoints that are cached or on their way *)

\* The endpoints of a sequence of entries.
GuidsOf(s) == {s[i].guid : i \in 1 .. Len(s)}

\* An endpoint that is not cached finds room.
LEMMA RoomForEndpoint ==
    ASSUME NEW s \in Seq(CachedEndpoint), ProperEntries(s),
           NEW k \in Endpoints, k \notin GuidsOf(s)
    PROVE  Len(s) < GRAPH_CACHE_MAX_ENDPOINTS
<1> DEFINE f == [i \in 1 .. Len(s) |-> s[i].guid]
<1>1. PICK n \in Nat : n = Len(s)
  OBVIOUS
<1>2. PICK D \in SUBSET Endpoints : D = Endpoints \ {k}
  OBVIOUS
<1>3. \A i \in 1 .. n : s[i].guid \in D
  <2>1. \A x \in CachedEndpoint : x.guid \in Endpoints
    BY DEF CachedEndpoint
  <2>2. \A i \in 1 .. n : s[i].guid # k
    BY <1>1 DEF GuidsOf
  <2> QED BY <1>1, <1>2, <2>1, <2>2
<1>4. f \in [1 .. n -> D]
  BY <1>1, <1>3
<1>5. \A i, j \in 1 .. n : f[i] = f[j] => i = j
  BY <1>1 DEF ProperEntries
<1> HIDE DEF f
<1>6. f \in Injection(1 .. n, D)
  BY <1>4, <1>5 DEF Injection, IsInjective
<1>7. IsFiniteSet(1 .. n) /\ Cardinality(1 .. n) = n
  BY CountingSet
<1>8. IsFiniteSet(Endpoints) /\ Cardinality(Endpoints) \in Nat
  <2>1. IsFiniteSet(Endpoints)
    BY TheGraphFits
  <2> QED BY <2>1, FS_CardinalityType
<1>9. IsFiniteSet(D) /\ Cardinality(D) = Cardinality(Endpoints) - 1
  BY <1>2, <1>8, FS_RemoveElement
<1>10. Cardinality(1 .. n) <= Cardinality(D)
  BY <1>6, <1>9, FS_Injection
<1>11. n <= Cardinality(Endpoints) - 1
  BY <1>7, <1>9, <1>10
<1> QED BY <1>1, <1>8, <1>11, TheGraphFits, LimitsArePositive

\* graph_cache_upsert_endpoint writes the entry it found.
LEMMA ReplacedGuids ==
    ASSUME NEW s \in Seq(CachedEndpoint), NEW i \in 1 .. Len(s),
           NEW x, x.guid = s[i].guid
    PROVE  GuidsOf([s EXCEPT ![i] = x]) = GuidsOf(s)
<1>1. PICK t : t = [s EXCEPT ![i] = x]
  OBVIOUS
<1>2. /\ Len(t) = Len(s)
      /\ \A j \in 1 .. Len(s) : t[j] = IF j = i THEN x ELSE s[j]
  BY <1>1
<1>3. \A j \in 1 .. Len(s) : t[j].guid = s[j].guid
  BY <1>2
<1>4. GuidsOf(t) = GuidsOf(s)
  BY <1>2, <1>3 DEF GuidsOf
<1> QED BY <1>1, <1>4

\* It adds an entry.
LEMMA AppendedGuids ==
    ASSUME NEW s \in Seq(CachedEndpoint), NEW x \in CachedEndpoint
    PROVE  GuidsOf(Append(s, x)) = GuidsOf(s) \cup {x.guid}
<1>1. PICK t : t = Append(s, x)
  OBVIOUS
<1>2. /\ Len(t) = Len(s) + 1 /\ t[Len(s) + 1] = x /\ Len(s) \in Nat
      /\ \A i \in 1 .. Len(s) : t[i] = s[i]
  BY <1>1, AppendListing
<1>3. 1 .. Len(t) = (1 .. Len(s)) \cup {Len(s) + 1}
  BY <1>2
<1>4. GuidsOf(t) = GuidsOf(s) \cup {x.guid}
  BY <1>2, <1>3 DEF GuidsOf
<1> QED BY <1>1, <1>4

\* graph_cache_remove_endpoint_guid removes the only entry.
LEMMA RemovedGuids ==
    ASSUME NEW s \in Seq(CachedEndpoint), ProperEntries(s),
           NEW i \in 1 .. Len(s)
    PROVE  GuidsOf(RemoveAt(s, i)) = GuidsOf(s) \ {s[i].guid}
<1>1. PICK t : t = RemoveAt(s, i)
  OBVIOUS
<1>2. /\ Len(t) = Len(s) - 1 /\ Len(s) \in Nat
      /\ \A j \in 1 .. Len(s) - 1 : t[j] = IF j < i THEN s[j] ELSE s[j + 1]
  BY <1>1, RemoveAtListing
<1>3. \A j, k \in 1 .. Len(s) : s[j].guid = s[k].guid => j = k
  BY DEF ProperEntries
<1>4. ASSUME NEW g \in GuidsOf(t)
      PROVE  g \in GuidsOf(s) \ {s[i].guid}
  <2>1. PICK j \in 1 .. Len(s) - 1 : g = t[j].guid
    BY <1>2 DEF GuidsOf
  <2>2. PICK k \in 1 .. Len(s) : t[j] = s[k] /\ k # i
    <3>1. CASE j < i
      BY <1>2, <3>1
    <3>2. CASE ~(j < i)
      <4>1. j + 1 \in 1 .. Len(s) /\ j + 1 # i /\ t[j] = s[j + 1]
        BY <1>2, <3>2
      <4> QED BY <4>1
    <3> QED BY <3>1, <3>2
  <2>3. g = s[k].guid /\ s[k].guid # s[i].guid
    BY <1>3, <2>1, <2>2
  <2> QED BY <2>3 DEF GuidsOf
<1>5. ASSUME NEW g \in GuidsOf(s), g # s[i].guid
      PROVE  g \in GuidsOf(t)
  <2>1. PICK k \in 1 .. Len(s) : g = s[k].guid
    BY DEF GuidsOf
  <2>2. k # i
    BY <1>5, <2>1
  <2>3. PICK j \in 1 .. Len(s) - 1 : t[j] = s[k]
    <3>1. CASE k < i
      <4>1. k \in 1 .. Len(s) - 1 /\ t[k] = s[k]
        BY <1>2, <3>1
      <4> QED BY <4>1
    <3>2. CASE ~(k < i)
      <4>1. k - 1 \in 1 .. Len(s) - 1 /\ ~(k - 1 < i) /\ (k - 1) + 1 = k
        BY <1>2, <2>2, <3>2
      <4>2. t[k - 1] = s[k]
        BY <1>2, <4>1
      <4> QED BY <4>1, <4>2
    <3> QED BY <3>1, <3>2
  <2> QED BY <1>2, <2>1, <2>3 DEF GuidsOf
<1> QED BY <1>1, <1>4, <1>5

\* An endpoint listener does to the cache what the oldest sample tells: no
\* endpoint is refused.
LEMMA EndpointListenerActs ==
    ASSUME TypeInv, CacheInv, NEW r \in EndpointReaders,
           endpoint_data_available(r)
    PROVE  \E k \in Endpoints :
                /\ k = Head(batch[r]).key
                /\ k \in CachedGuids' <=> Head(batch[r]).valid
                /\ \A e \in Endpoints \ {k} :
                        e \in CachedGuids' <=> e \in CachedGuids
<1>0. /\ r \in Readers /\ HoldsSamples(batch)
      /\ ProperEntries(cached_endpoints)
      /\ cached_endpoints \in Seq(CachedEndpoint)
  BY DEF Readers, TypeInv, DdsType, CacheType, CacheInv
<1>1. batch[r] # <<>>
  BY DEF endpoint_data_available, NextSample
<1>2. PICK s : s = Head(batch[r])
  OBVIOUS
<1>3. PICK k \in Endpoints : k = s.key
  BY <1>0, <1>1, <1>2, HeadSample, SampleKeys
<1>4. OwnerOf[k] # Self
  BY OneRemoteParticipant, TwoParticipants
<1>5. \/ s.valid /\ graph_cache_upsert_endpoint(r, k)
      \/ ~s.valid /\ graph_cache_remove_endpoint_guid(r, k)
  BY <1>2, <1>3, <1>4 DEF endpoint_data_available
<1>6. PICK old \in Seq(CachedEndpoint) : old = cached_endpoints
  BY <1>0
<1>7. PICK i : i = graph_cache_find_endpoint_locked(k)
  OBVIOUS
<1>8. /\ IsCached(k) => i \in 1 .. Len(old) /\ old[i].guid = k
      /\ ~IsCached(k) => \A j \in 1 .. Len(old) : old[j].guid # k
  BY <1>0, <1>6, <1>7, FindEndpoint
<1>9. CachedGuids = GuidsOf(old) /\ CachedGuids' = GuidsOf(cached_endpoints')
  BY <1>6 DEF CachedGuids, GuidsOf
<1>10. IsCached(k) <=> k \in GuidsOf(old)
  BY <1>8 DEF GuidsOf
<1>11. PICK x \in CachedEndpoint : x = CachedAs(k) /\ x.guid = k
  BY CachedAsType DEF CachedAs
<1>12. CASE s.valid /\ graph_cache_upsert_endpoint(r, k)
  <2>1. EndpointFits(k)
    <3>1. ASSUME ~IsCached(k)
          PROVE  Len(old) # GRAPH_CACHE_MAX_ENDPOINTS
      <4>1. Len(old) < GRAPH_CACHE_MAX_ENDPOINTS
        BY <1>0, <1>6, <1>10, <3>1, RoomForEndpoint
      <4> QED BY <4>1, LimitsArePositive
    <3> QED BY <1>6, <3>1, TheGraphFits DEF EndpointFits
  <2>2. cached_endpoints' = IF IsCached(k) THEN [old EXCEPT ![i] = x]
                                           ELSE Append(old, x)
    BY <1>6, <1>7, <1>11, <1>12, <2>1 DEF graph_cache_upsert_endpoint
  <2>3. GuidsOf(cached_endpoints') = GuidsOf(old) \cup {k}
    <3>1. CASE IsCached(k)
      <4>1. GuidsOf([old EXCEPT ![i] = x]) = GuidsOf(old)
        BY <1>8, <1>11, <3>1, ReplacedGuids
      <4> QED BY <1>10, <2>2, <3>1, <4>1
    <3>2. CASE ~IsCached(k)
      BY <1>11, <2>2, <3>2, AppendedGuids
    <3> QED BY <3>1, <3>2
  <2> QED BY <1>2, <1>3, <1>9, <1>12, <2>3
<1>13. CASE ~s.valid /\ graph_cache_remove_endpoint_guid(r, k)
  <2>1. cached_endpoints' = IF IsCached(k) THEN RemoveAt(old, i) ELSE old
    BY <1>6, <1>7, <1>13 DEF graph_cache_remove_endpoint_guid
  <2>2. GuidsOf(cached_endpoints') = GuidsOf(old) \ {k}
    <3>1. CASE IsCached(k)
      <4>1. GuidsOf(RemoveAt(old, i)) = GuidsOf(old) \ {old[i].guid}
        BY <1>0, <1>6, <1>8, <3>1, RemovedGuids
      <4> QED BY <1>8, <2>1, <3>1, <4>1
    <3>2. CASE ~IsCached(k)
      BY <1>10, <2>1, <3>2
    <3> QED BY <3>1, <3>2
  <2> QED BY <1>2, <1>3, <1>9, <1>13, <2>2
<1> QED BY <1>5, <1>12, <1>13

\* The two parts of what a reader still has for the cache.
LEMMA PendingOfParts ==
    ASSUME DdsType, NEW r \in Readers
    PROVE  /\ batch[r] \in Seq(ReaderSample(r))
           /\ queue[r] \in Seq(ReaderSample(r))
           /\ PendingOf(r) \in Seq(ReaderSample(r))
<1>1. /\ batch[r] \in Seq(ReaderSample(r))
      /\ queue[r] \in Seq(ReaderSample(r))
  BY DEF DdsType, HoldsSamples
<1>2. PICK S : S = ReaderSample(r)
  OBVIOUS
<1>3. PICK b \in Seq(S), q \in Seq(S) : b = batch[r] /\ q = queue[r]
  BY <1>1, <1>2
<1>4. b \o q \in Seq(S)
  OBVIOUS
<1> QED BY <1>1, <1>2, <1>3, <1>4 DEF PendingOf

\* Taking a batch moves samples from one part to the other.
LEMMA TakeLeavesPending ==
    ASSUME DdsType, NEW r \in Readers, dds_take(r), NEW o \in Readers
    PROVE  PendingOf(o)' = PendingOf(o)
<1>0. HoldsSamples(batch) /\ HoldsSamples(queue)
  BY DEF DdsType
<1>1. CASE o # r
  <2>1. batch'[o] = batch[o] /\ queue'[o] = queue[o]
    BY <1>0, <1>1, TakeMoves DEF HoldsSamples
  <2> QED BY <2>1 DEF PendingOf
<1>2. CASE o = r
  <2>1. PICK S : S = ReaderSample(r)
    OBVIOUS
  <2>2. PICK q \in Seq(S) : q = queue[r]
    BY <2>1, PendingOfParts
  <2>3. PICK n \in 0 .. Len(q) : n = BatchSize(r)
    BY <2>2, TakeMoves
  <2>4. /\ batch[r] = <<>>
        /\ batch'[r] = SubSeq(q, 1, n)
        /\ queue'[r] = SubSeq(q, n + 1, Len(q))
    BY <1>0, <2>2, <2>3, TakeMoves DEF HoldsSamples
  <2>5. /\ 1 \in 1 .. Len(q) + 1 /\ n \in 1 - 1 .. Len(q)
        /\ Len(q) \in n .. Len(q)
    <3>1. Len(q) \in Nat
      OBVIOUS
    <3> QED BY <3>1
  <2>6. SubSeq(q, 1, n) \o SubSeq(q, n + 1, Len(q)) = SubSeq(q, 1, Len(q))
    BY <2>5, ConcatAdjacentSubSeq
  <2>7. SubSeq(q, 1, Len(q)) = q /\ <<>> \o q = q
    BY SubSeqFull, ConcatEmptySeq
  <2> QED BY <1>2, <2>2, <2>4, <2>6, <2>7 DEF PendingOf
<1> QED BY <1>1, <1>2

\* An endpoint's news comes through an endpoint reader.
LEMMA ReaderOfEndpoint ==
    ASSUME NEW e \in Endpoints
    PROVE  /\ e \in Keys
           /\ ReaderOf(e) \in EndpointReaders
           /\ ReaderOf(e) \in Readers
           /\ ReaderOf(e) # "graph" /\ ReaderOf(e) # "participant"
<1>1. e \notin Participants
  BY KeysAreDistinct
<1> QED BY <1>1 DEF Keys, ReaderOf, EndpointReaders, Readers

\* A step that leaves the endpoints, their cache and their readers alone.
LEMMA EndpointsUntouched ==
    ASSUME EndpointsInv, UNCHANGED <<alive, cached_endpoints>>,
           \A r \in Readers \ {"graph"} : PendingOf(r)' = PendingOf(r)
    PROVE  EndpointsInv'
<1>1. PendingOf("participant")' = <<>>
  BY DEF EndpointsInv, Readers
<1>2. ASSUME NEW e \in Endpoints, alive'[e]
      PROVE  IsKnown(e)'
  <2>1. PICK r \in Readers \ {"graph"} : r = ReaderOf(e)
    BY ReaderOfEndpoint
  <2>2. PendingOf(r)' = PendingOf(r) /\ CachedGuids' = CachedGuids
    BY DEF CachedGuids
  <2>3. Tells(PendingOf(r), e, TRUE, e \in CachedGuids)
    BY <1>2, <2>1 DEF EndpointsInv, IsKnown
  <2>4. Tells(PendingOf(r)', e, TRUE, e \in CachedGuids')
    BY <2>2, <2>3
  <2> QED BY <2>1, <2>4 DEF IsKnown, Tells, PendingOf
<1> QED BY <1>1, <1>2 DEF EndpointsInv

\* News of an endpoint, or of its loss.
LEMMA EndpointNews ==
    ASSUME TypeInv, EndpointsInv, NEW k \in Endpoints,
           EndpointAppears(k) \/ EndpointIsLost(k)
    PROVE  EndpointsInv'
<1>0. /\ DdsType /\ HoldsSamples(queue) /\ alive \in [Keys -> BOOLEAN]
      /\ k \in Keys
  BY DEF TypeInv, DdsType, Keys
<1>1. PICK live \in BOOLEAN :
        /\ alive' = [alive EXCEPT ![k] = live]
        /\ UNCHANGED <<batch, cached_endpoints>>
        /\ live => queue' = Appeared(queue, k)
        /\ ~live => queue' = Lost(queue, {k})
  <2>1. CASE EndpointAppears(k)
    BY <2>1 DEF EndpointAppears, cache
  <2>2. CASE EndpointIsLost(k)
    BY <2>2 DEF EndpointIsLost, cache
  <2> QED BY <2>1, <2>2
<1>2. alive'[k] = live /\ \A e \in Endpoints \ {k} : alive'[e] = alive[e]
  BY <1>0, <1>1 DEF Keys
<1>3. CachedGuids' = CachedGuids
  BY <1>1 DEF CachedGuids
<1>4. ASSUME NEW r \in Readers, r # "graph", r # ReaderOf(k)
      PROVE  \E m \in Seq(ReaderSample(r)) :
                SameNews(m, queue[r]) /\ queue'[r] = m
  <2>1. CASE live
    <3>1. queue'[r] = queue[r]
      BY <1>0, <1>1, <1>4, <2>1 DEF Appeared, HoldsSamples
    <3>2. queue[r] \in Seq(ReaderSample(r)) /\ SameNews(queue[r], queue[r])
      BY <1>0 DEF HoldsSamples, SameNews
    <3> QED BY <3>1, <3>2
  <2>2. CASE ~live
    <3>1. PICK q : q = queue
      OBVIOUS
    <3>2. HoldsSamples(q) /\ queue' = Lost(q, {k})
      BY <1>0, <1>1, <2>2, <3>1
    <3>3. PICK m \in Seq(ReaderSample(r)) :
            SameNews(m, q[r]) /\ Lost(q, {k})[r] = m
      BY <1>4, <3>2, LossInQueues
    <3> QED BY <3>1, <3>2, <3>3
  <2> QED BY <2>1, <2>2
<1>5. PICK r \in Readers : r = ReaderOf(k) /\ r # "graph" /\ r # "participant"
  BY ReaderOfEndpoint
<1>6. PICK S : S = ReaderSample(r)
  OBVIOUS
<1>7. PICK x \in S, m \in Seq(S) :
        /\ x.key = k /\ x.valid = live
        /\ queue'[r] = Append(m, x) \/ (queue'[r] = m /\ ~live)
        /\ \A e : e # k => \E h : Follows(h, m, queue[r], e)
  <2>1. queue[r] \in Seq(S) /\ Len(queue[r]) \in Nat
    BY <1>0, <1>6 DEF HoldsSamples
  <2>2. CASE live
    <3>1. PICK x : x = [key |-> k, valid |-> TRUE, alive |-> TRUE]
      OBVIOUS
    <3>2. x \in S /\ x.key = k /\ x.valid = live
      BY <1>0, <1>5, <1>6, <2>2, <3>1, NewSample
    <3>3. PICK q \in Seq(S) : q = queue[r]
      BY <2>1
    <3>4. queue'[r] = Append(Without(q, k), x)
      BY <1>0, <1>1, <1>5, <2>2, <3>1, <3>3 DEF Appeared, HoldsSamples
    <3>5. \A e : e # k => /\ Without(q, k) \in Seq(S)
                          /\ \E h : Follows(h, Without(q, k), q, e)
      BY WithoutFollows
    <3>6. Without(q, k) \in Seq(S)
      <4>1. PICK keep : Without(q, k) = Compact(q, keep)
        BY DEF Without
      <4> QED BY <4>1, CompactSelects
    <3> QED BY <2>2, <3>2, <3>3, <3>4, <3>5, <3>6
  <2>3. CASE ~live
    <3>1. PICK x : x = [key |-> k, valid |-> FALSE, alive |-> FALSE]
      OBVIOUS
    <3>2. x \in S /\ x.key = k /\ x.valid = live
      BY <1>0, <1>5, <1>6, <2>3, <3>1, NewSample
    <3>3. PICK m \in Seq(S) :
            /\ SameNews(m, queue[r])
            /\ queue'[r] = Append(m, x) \/ queue'[r] = m
      <4>1. PICK q : q = queue
        OBVIOUS
      <4>2. HoldsSamples(q) /\ queue' = Lost(q, {k})
        BY <1>0, <1>1, <2>3, <4>1
      <4>3. PICK m \in Seq(ReaderSample(r)) :
                /\ SameNews(m, q[r])
                /\ \/ Lost(q, {k})[r] = m
                   \/ /\ r = ReaderOf(k)
                      /\ Lost(q, {k})[r] =
                            Append(m, [key |-> k, valid |-> FALSE,
                                       alive |-> FALSE])
        BY <1>5, <4>2, LossInQueues, Zenon
      <4> QED BY <1>6, <3>1, <4>1, <4>2, <4>3
    <3>4. \A e : \E h : Follows(h, m, queue[r], e)
      BY <2>1, <3>3, SameNewsFollows
    <3> QED BY <2>3, <3>2, <3>3, <3>4
  <2> QED BY <2>2, <2>3
<1>8. PendingOf("participant")' = <<>>
  <2>1. "participant" \in Readers /\ "participant" # "graph"
    BY DEF Readers
  <2>2. PICK o \in Readers : o = "participant"
    BY <2>1
  <2>3. PICK n \in Seq(ReaderSample(o)) : SameNews(n, queue[o]) /\ queue'[o] = n
    BY <1>4, <1>5, <2>1, <2>2
  <2>4. batch[o] = <<>> /\ queue[o] = <<>>
    BY <1>0, <2>2, ParticipantListenerRests
  <2>5. n = <<>>
    <3>1. Len(n) = 0
      BY <2>3, <2>4 DEF SameNews
    <3> QED BY <3>1
  <2> QED BY <1>1, <2>2, <2>3, <2>4, <2>5 DEF PendingOf
<1>9. ASSUME NEW e \in Endpoints, ReaderOf(e) = r, alive'[e]
      PROVE  Tells(PendingOf(r)', e, TRUE, e \in CachedGuids')
  <2>1. PICK b \in Seq(S), q \in Seq(S) : b = batch[r] /\ q = queue[r]
    BY <1>0, <1>6, PendingOfParts
  <2>2. PICK yes, in : yes = TRUE /\ in = (e \in CachedGuids)
    OBVIOUS
  <2>3. ASSUME e # k
        PROVE  Tells(b \o q, e, yes, in) /\ \E h : Follows(h, m, q, e)
    <3>1. Tells(PendingOf(r), e, TRUE, e \in CachedGuids)
      BY <1>2, <1>9, <2>3 DEF EndpointsInv, IsKnown
    <3>2. PendingOf(r) = b \o q
      BY <2>1 DEF PendingOf
    <3> QED BY <1>7, <2>1, <2>2, <2>3, <3>1, <3>2
  <2>4. CASE queue'[r] = Append(m, x)
    <3>1. e = k => live
      BY <1>2, <1>9
    <3>2. x.key = e => x.valid = yes
      BY <1>1, <1>7, <2>2, <3>1
    <3>3. Tells(b \o Append(m, x), e, yes, in)
      BY <1>7, <2>3, <3>2, NewsTold
    <3>4. PendingOf(r)' = b \o Append(m, x)
      BY <1>1, <2>1, <2>4 DEF PendingOf
    <3> QED BY <1>3, <2>2, <3>3, <3>4
  <2>5. CASE queue'[r] = m /\ ~live
    <3>1. e # k
      BY <1>2, <1>9, <2>5
    <3>2. Tells(b \o m, e, yes, in)
      BY <2>3, <3>1, ChangedTold
    <3>3. PendingOf(r)' = b \o m
      BY <1>1, <2>1, <2>5 DEF PendingOf
    <3> QED BY <1>3, <2>2, <3>2, <3>3
  <2> QED BY <1>7, <2>4, <2>5
<1>10. ASSUME NEW e \in Endpoints, NEW o \in Readers,
              o = ReaderOf(e), o # r, alive'[e]
       PROVE  Tells(PendingOf(o)', e, TRUE, e \in CachedGuids')
  <2>1. o # "graph" /\ e # k /\ alive[e]
    BY <1>2, <1>5, <1>10, ReaderOfEndpoint
  <2>2. PICK T : T = ReaderSample(o)
    OBVIOUS
  <2>3. PICK b \in Seq(T), q \in Seq(T) : b = batch[o] /\ q = queue[o]
    BY <1>0, <2>2, PendingOfParts
  <2>4. PICK n \in Seq(T) : SameNews(n, q) /\ queue'[o] = n
    BY <1>4, <1>5, <1>10, <2>1, <2>2, <2>3
  <2>5. \E h : Follows(h, n, q, e)
    <3>1. Len(q) \in Nat
      OBVIOUS
    <3> QED BY <2>4, <3>1, SameNewsFollows
  <2>6. Tells(b \o q, e, TRUE, e \in CachedGuids)
    BY <1>10, <2>1, <2>3 DEF EndpointsInv, IsKnown, PendingOf
  <2>7. Tells(b \o n, e, TRUE, e \in CachedGuids)
    BY <2>5, <2>6, ChangedTold
  <2>8. PendingOf(o)' = b \o n
    BY <1>1, <2>3, <2>4 DEF PendingOf
  <2> QED BY <1>3, <2>7, <2>8
<1>11. ASSUME NEW e \in Endpoints, alive'[e]
       PROVE  IsKnown(e)'
  <2>1. PICK o \in Readers : o = ReaderOf(e)
    BY ReaderOfEndpoint
  <2>2. Tells(PendingOf(o)', e, TRUE, e \in CachedGuids')
    BY <1>9, <1>10, <1>11, <2>1
  <2> QED BY <2>1, <2>2 DEF IsKnown, Tells, PendingOf
<1> QED BY <1>8, <1>11 DEF EndpointsInv

\* An endpoint listener handles its oldest sample.
LEMMA EndpointHandled ==
    ASSUME TypeInv, CacheInv, EndpointsInv, NEW r \in EndpointReaders,
           endpoint_data_available(r)
    PROVE  EndpointsInv'
<1>0. /\ DdsType /\ HoldsSamples(batch) /\ r \in Readers
      /\ r # "graph" /\ r # "participant"
  BY DEF TypeInv, DdsType, Readers, EndpointReaders
<1>1. Handle(r)
  BY DEF Handle
<1>2. /\ batch[r] # <<>>
      /\ batch' = [batch EXCEPT ![r] = Tail(batch[r])]
      /\ UNCHANGED <<alive, queue>>
  BY <1>0, <1>1, HandleMoves
<1>3. PICK k \in Endpoints :
        /\ k = Head(batch[r]).key
        /\ k \in CachedGuids' <=> Head(batch[r]).valid
        /\ \A e \in Endpoints \ {k} : e \in CachedGuids' <=> e \in CachedGuids
  BY EndpointListenerActs
<1>4. PICK s \in ReaderSample(r) : s = Head(batch[r])
  BY <1>0, <1>2, HeadSample
<1>5. s.valid \in BOOLEAN /\ s.key = k /\ ReaderOf(k) = r
  <2>1. s.key = k
    BY <1>3, <1>4
  <2>2. s.valid \in BOOLEAN /\ (s.key \in Endpoints => ReaderOf(s.key) = r)
    BY <1>0, <1>4 DEF ReaderSample, BuiltinSample
  <2> QED BY <2>1, <2>2
<1>6. ASSUME NEW o \in Readers, o # r
      PROVE  PendingOf(o)' = PendingOf(o)
  <2>1. batch'[o] = batch[o] /\ queue'[o] = queue[o]
    BY <1>0, <1>2, <1>6 DEF HoldsSamples
  <2> QED BY <2>1 DEF PendingOf
<1>7. PendingOf("participant")' = <<>>
  BY <1>0, <1>6 DEF EndpointsInv, Readers
<1>8. PICK p \in Seq(ReaderSample(r)) :
        /\ p = PendingOf(r) /\ p # <<>> /\ p[1] = s /\ PendingOf(r)' = Tail(p)
  <2>1. PICK S : S = ReaderSample(r)
    OBVIOUS
  <2>2. PICK b \in Seq(S), q \in Seq(S) : b = batch[r] /\ q = queue[r]
    BY <1>0, <2>1, PendingOfParts
  <2>3. b # <<>> /\ batch'[r] = Tail(b) /\ queue'[r] = q
    BY <1>0, <1>2, <2>2 DEF HoldsSamples
  <2>4. b \o q # <<>> /\ (b \o q)[1] = Head(b) /\ Tail(b) \o q = Tail(b \o q)
    BY <2>3, ConcatTail
  <2>5. b \o q \in Seq(S)
    OBVIOUS
  <2>6. PendingOf(r) = b \o q /\ PendingOf(r)' = Tail(b) \o q
    BY <2>2, <2>3 DEF PendingOf
  <2> QED BY <1>4, <2>1, <2>2, <2>4, <2>5, <2>6
<1>9. ASSUME NEW e \in Endpoints, ReaderOf(e) = r, alive[e]
      PROVE  Tells(PendingOf(r)', e, TRUE, e \in CachedGuids')
  <2>1. Tells(p, e, TRUE, e \in CachedGuids)
    BY <1>8, <1>9 DEF EndpointsInv, IsKnown
  <2>2. PICK old \in BOOLEAN, next \in BOOLEAN :
            old = (e \in CachedGuids) /\ next = (e \in CachedGuids')
    <3>1. (e \in CachedGuids) \in BOOLEAN /\ (e \in CachedGuids') \in BOOLEAN
      OBVIOUS
    <3> QED BY <3>1, Zenon
  <2>3. Tells(p, e, TRUE, old)
    BY <2>1, <2>2
  <2>4. p[1].key = e => next = p[1].valid
    <3>1. p[1].key = e => (e \in CachedGuids' <=> p[1].valid)
      BY <1>3, <1>4, <1>8
    <3>2. p[1].valid \in BOOLEAN
      BY <1>5, <1>8
    <3> QED BY <2>2, <3>1, <3>2
  <2>5. p[1].key # e => next = old
    <3>1. p[1].key # e => (e \in CachedGuids' <=> e \in CachedGuids)
      BY <1>3, <1>4, <1>8
    <3> QED BY <2>2, <3>1
  <2>6. Tells(Tail(p), e, TRUE, next)
    BY <1>8, <2>3, <2>4, <2>5, TellsRest
  <2> QED BY <1>8, <2>2, <2>6
<1>10. ASSUME NEW e \in Endpoints, NEW o \in Readers, o = ReaderOf(e), o # r, alive[e]
       PROVE  Tells(PendingOf(o)', e, TRUE, e \in CachedGuids')
  <2>1. e # k
    BY <1>5, <1>10
  <2>2. (e \in CachedGuids') = (e \in CachedGuids)
    BY <1>3, <2>1
  <2>3. Tells(PendingOf(o), e, TRUE, e \in CachedGuids)
    BY <1>10 DEF EndpointsInv, IsKnown
  <2> QED BY <1>6, <1>10, <2>2, <2>3
<1>11. ASSUME NEW e \in Endpoints, alive'[e]
       PROVE  IsKnown(e)'
  <2>1. PICK o \in Readers : o = ReaderOf(e)
    BY ReaderOfEndpoint
  <2>2. Tells(PendingOf(o)', e, TRUE, e \in CachedGuids')
    BY <1>2, <1>9, <1>10, <1>11, <2>1
  <2> QED BY <2>1, <2>2 DEF IsKnown, Tells, PendingOf
<1> QED BY <1>7, <1>11 DEF EndpointsInv

\* Every step keeps EndpointsInv.
LEMMA NextEndpoints ==
    ASSUME CarriedInv, RemoteInv, EndpointsInv, [RosNext]_allVars
    PROVE  EndpointsInv'
<1>0. /\ TypeInv /\ CacheInv /\ TableInv /\ DdsType
      /\ HoldsSamples(batch) /\ HoldsSamples(queue) /\ "graph" \in Readers
  BY DEF CarriedInv, RemoteInv, TypeInv, DdsType, Readers
<1>1. ASSUME UNCHANGED <<alive, cached_endpoints, batch, queue>>
      PROVE  EndpointsInv'
  <2>1. \A r \in Readers \ {"graph"} : PendingOf(r)' = PendingOf(r)
    BY <1>1 DEF PendingOf
  <2> QED BY <1>1, <2>1, EndpointsUntouched
<1>2. CASE RemoteMoves
  <2>1. CASE Publishes
    <3>1. PICK s \in Snapshots : RemoteWrite(Remote, s)
      BY <2>1, PublishesWrites
    <3>2. UNCHANGED <<alive, cached_endpoints, batch>>
      BY <3>1 DEF RemoteWrite, cache
    <3>3. PICK x : queue' = [queue EXCEPT !["graph"] = x]
      BY <3>1 DEF RemoteWrite, Write
    <3>4. \A r \in Readers \ {"graph"} : PendingOf(r)' = PendingOf(r)
      BY <1>0, <3>2, <3>3 DEF PendingOf, HoldsSamples
    <3> QED BY <3>2, <3>4, EndpointsUntouched
  <2>2. ASSUME NEW e \in Endpoints, EndpointAppears(e) \/ EndpointIsLost(e)
        PROVE  EndpointsInv'
    BY <1>0, <2>2, EndpointNews
  <2> QED BY <1>2, <2>1, <2>2 DEF RemoteMoves
<1>3. ASSUME NEW r \in Readers, Receiver(r)
      PROVE  EndpointsInv'
  <2>1. CASE dds_take(r)
    <3>1. UNCHANGED <<alive, cached_endpoints>>
      BY <2>1 DEF dds_take, cache
    <3>2. \A o \in Readers \ {"graph"} : PendingOf(o)' = PendingOf(o)
      BY <1>0, <2>1, TakeLeavesPending
    <3> QED BY <3>1, <3>2, EndpointsUntouched
  <2>2. CASE graph_cache_signal(r)
    BY <1>1, <2>2 DEF graph_cache_signal, dds, cache
  <2>3. CASE r = "graph" /\ graph_data_available
    <3>1. UNCHANGED cached_endpoints
      BY <2>3 DEF graph_data_available, graph_cache_apply_snapshot, Refuse, cache
    <3>2. Handle(r)
      BY <2>3 DEF Handle
    <3>3. /\ batch' = [batch EXCEPT ![r] = Tail(batch[r])]
          /\ UNCHANGED <<alive, queue>>
      BY <3>2, HandleMoves
    <3>4. \A o \in Readers \ {"graph"} : PendingOf(o)' = PendingOf(o)
      BY <1>0, <2>3, <3>3 DEF PendingOf, HoldsSamples
    <3> QED BY <3>1, <3>3, <3>4, EndpointsUntouched
  <2>4. CASE r = "participant" /\ participant_data_available
    <3>1. batch["participant"] # <<>>
      BY <2>4 DEF participant_data_available, NextSample
    <3> QED BY <1>0, <3>1, ParticipantListenerRests
  <2>5. CASE r \in EndpointReaders /\ endpoint_data_available(r)
    BY <1>0, <2>5, EndpointHandled
  <2> QED BY <1>3, <2>1, <2>2, <2>3, <2>4, <2>5 DEF Receiver, Handle
<1>4. CASE GraphGuardWakes
  BY <1>1, <1>4 DEF GraphGuardWakes, TakeGraphGuard, dds, cache
<1>5. CASE UNCHANGED vars
  BY <1>1, <1>5 DEF vars, dds, cache
<1>6. CASE UNCHANGED allVars
  BY <1>5, <1>6 DEF allVars
<1> QED BY <1>0, <1>2, <1>3, <1>4, <1>5, <1>6, RosSteps

-----------------------------------------------------------------------------
(* The endpoints that the last announcement lists *)

\* What ListedInv says of the endpoints, for a table and the endpoints alive.
IsOwnedAlive(owns, lives, moving) ==
    /\ \A n \in RemoteNodes, kind \in Kinds : \A e \in owns[n][kind] :
            /\ lives[e]
            /\ moving # RemoteIdle => e # moving.endpoint
            /\ \A m \in RemoteNodes, k \in Kinds :
                    e \in owns[m][k] => m = n /\ k = kind
    /\ moving # RemoteIdle => lives[moving.endpoint]

\* ListedInv, in these terms.
LEMMA ListedInvParts ==
    ListedInv <=> /\ Last(contents) = Listing(members, owned)
                  /\ IsOwnedAlive(owned, alive, remote)
BY DEF ListedInv, IsOwnedAlive

\* A snapshot lists the table as it then is.
LEMMA PublishLists ==
    ASSUME RemoteInv, graph_publish
    PROVE  Last(contents)' = Listing(members', owned') /\ UNCHANGED alive
<1>1. PICK T : T = Seq(ListedNodes)
  OBVIOUS
<1>2. PICK old \in Seq(T) : old = contents
  BY <1>1 DEF RemoteInv, Describes
<1>3. PICK l : l = Listing(members', owned')
  OBVIOUS
<1>4. contents' = Append(old, l) /\ UNCHANGED alive
  BY <1>2, <1>3 DEF graph_publish, RemoteWrite
<1>5. Last(Append(old, l)) = l
  BY DEF Last
<1> QED BY <1>3, <1>4, <1>5 DEF Last

\* The remote participant keeps the order: an entity exists before a node owns
\* it, and is deleted when none does any more.
LEMMA RemoteStepLists ==
    ASSUME TypeInv, RemoteInv, ListedInv, RemoteStep
    PROVE  ListedInv'
<1>0. /\ owned \in [RemoteNodes -> [Kinds -> SUBSET Endpoints]]
      /\ alive \in [Keys -> BOOLEAN] /\ Endpoints \subseteq Keys
      /\ remote # RemoteIdle => remote.endpoint \in Endpoints
      /\ Last(contents) = Listing(members, owned)
      /\ IsOwnedAlive(owned, alive, remote)
  BY ListedInvParts DEF RemoteInv, TableInv, TypeInv, DdsType, Keys
<1>1. ASSUME Last(contents)' = Listing(members', owned'),
             IsOwnedAlive(owned', alive', remote')
      PROVE  ListedInv'
  BY <1>1 DEF ListedInv, IsOwnedAlive, Listing, RemoteIdle, Last
<1>2. ASSUME UNCHANGED <<members, owned, contents>>
      PROVE  Last(contents)' = Listing(members', owned')
  BY <1>0, <1>2
<1>3. ASSUME NEW n \in RemoteNodes, RemoteCreateNode(n) \/ RemoteDestroyNode(n)
      PROVE  ListedInv'
  <2>1. owned' = owned /\ remote' = remote /\ graph_publish
    BY <1>3 DEF RemoteCreateNode, RemoteDestroyNode, Table!AddNode,
                Table!RemoveNode
  <2> QED BY <1>0, <1>1, <2>1, PublishLists
<1>4. ASSUME NEW e \in Endpoints, RemoteCreateEndpoint(e)
      PROVE  ListedInv'
  <2>1. /\ ~alive[e] /\ alive' = [alive EXCEPT ![e] = TRUE]
        /\ remote = RemoteIdle
        /\ UNCHANGED <<members, owned, contents>>
    BY <1>4 DEF RemoteCreateEndpoint, EndpointAppears
  <2>2. remote' # RemoteIdle /\ remote'.endpoint = e
    BY <1>4 DEF RemoteCreateEndpoint, RemoteIdle
  <2>3. IsOwnedAlive(owned', alive', remote')
    BY <1>0, <2>1, <2>2 DEF IsOwnedAlive
  <2> QED BY <1>1, <1>2, <2>1, <2>3
<1>5. ASSUME NEW n \in RemoteNodes, RemoteAnnounceEndpoint(n)
      PROVE  ListedInv'
  <2>1. remote # RemoteIdle
    BY <1>5 DEF RemoteAnnounceEndpoint, RemoteIdle
  <2>2. PICK e \in Endpoints, kind \in Kinds :
            e = remote.endpoint /\ kind = KindOf(e)
    BY <1>0, <2>1, KindOfType
  <2>3. /\ owned' = [owned EXCEPT ![n][kind] = @ \cup {e}]
        /\ remote' = RemoteIdle /\ graph_publish
    BY <1>5, <2>2 DEF RemoteAnnounceEndpoint, Table!AddEndpoint
  <2>4. Last(contents)' = Listing(members', owned') /\ alive' = alive
    BY <2>3, PublishLists
  <2>5. /\ alive[e]
        /\ \A m \in RemoteNodes, k \in Kinds : e \notin owned[m][k]
    BY <1>0, <2>1, <2>2 DEF IsOwnedAlive
  <2>6. \A m \in RemoteNodes, k \in Kinds :
            owned'[m][k] = IF m = n /\ k = kind THEN owned[m][k] \cup {e}
                                                 ELSE owned[m][k]
    BY <1>0, <2>3
  <2>7. IsOwnedAlive(owned', alive', remote')
    BY <1>0, <2>3, <2>4, <2>5, <2>6 DEF IsOwnedAlive
  <2> QED BY <1>1, <2>4, <2>7
<1>6. ASSUME NEW n \in RemoteNodes, NEW e \in Endpoints,
             RemoteRetractEndpoint(n, e)
      PROVE  ListedInv'
  <2>1. PICK kind \in Kinds : kind = KindOf(e)
    BY KindOfType
  <2>2. /\ remote = RemoteIdle /\ e \in owned[n][kind]
        /\ owned' = [owned EXCEPT ![n][kind] = @ \ {e}]
        /\ remote' = [pc |-> "retracted", endpoint |-> e] /\ graph_publish
    BY <1>6, <2>1 DEF RemoteRetractEndpoint, Table!RemoveEndpoint
  <2>3. Last(contents)' = Listing(members', owned') /\ alive' = alive
    BY <2>2, PublishLists
  <2>4. remote' # RemoteIdle /\ remote'.endpoint = e
    BY <2>2 DEF RemoteIdle
  <2>5. \A m \in RemoteNodes, k \in Kinds :
            owned'[m][k] = IF m = n /\ k = kind THEN owned[m][k] \ {e}
                                                 ELSE owned[m][k]
    BY <1>0, <2>2
  <2>6. IsOwnedAlive(owned', alive', remote')
    BY <1>0, <2>2, <2>3, <2>4, <2>5 DEF IsOwnedAlive
  <2> QED BY <1>1, <2>3, <2>6
<1>7. CASE RemoteDeleteEndpoint
  <2>1. PICK e \in Endpoints : e = remote.endpoint
    BY <1>0, <1>7 DEF RemoteDeleteEndpoint
  <2>2. /\ remote # RemoteIdle /\ remote' = RemoteIdle
        /\ alive' = [alive EXCEPT ![e] = FALSE]
        /\ UNCHANGED <<members, owned, contents>>
    BY <1>7, <2>1 DEF RemoteDeleteEndpoint, EndpointIsLost
  <2>3. IsOwnedAlive(owned', alive', remote')
    BY <1>0, <2>1, <2>2 DEF IsOwnedAlive
  <2> QED BY <1>1, <1>2, <2>2, <2>3
<1> QED BY <1>3, <1>4, <1>5, <1>6, <1>7 DEF RemoteStep

\* Every step keeps ListedInv.
LEMMA NextListed ==
    ASSUME TypeInv, RemoteInv, ListedInv, [RosNext]_allVars
    PROVE  ListedInv'
<1>1. ASSUME UNCHANGED <<alive, remoteVars>>
      PROVE  ListedInv'
  <2>1. UNCHANGED <<alive, members, owned, contents, remote>>
    BY <1>1 DEF remoteVars
  <2> QED BY <2>1 DEF ListedInv, Listing, RemoteIdle, Last
<1>2. CASE RemoteStep
  BY <1>2, RemoteStepLists
<1>3. ASSUME NEW r \in Readers, Receiver(r)
      PROVE  ListedInv'
  <2>1. UNCHANGED alive
    <3>1. CASE Handle(r)
      BY <3>1, HandleMoves
    <3>2. CASE dds_take(r)
      BY <3>2 DEF dds_take
    <3>3. CASE graph_cache_signal(r)
      BY <3>3 DEF graph_cache_signal, dds
    <3> QED BY <1>3, <3>1, <3>2, <3>3 DEF Receiver
  <2> QED BY <1>1, <1>3, <2>1 DEF Receiver
<1>4. CASE Application
  BY <1>1, <1>4 DEF Application, GraphGuardWakes, TakeGraphGuard, vars, dds
<1>5. CASE AllocationFails /\ UNCHANGED <<vars, remoteVars, question>>
  BY <1>1, <1>5 DEF vars, dds
<1>6. CASE UNCHANGED allVars
  BY <1>1, <1>6 DEF allVars, vars, dds
<1> QED BY <1>2, <1>3, <1>4, <1>5, <1>6 DEF RosNext

\* At first the first node owns the first endpoints.
LEMMA InitListed == RosInit => ListedInv
<1> SUFFICES ASSUME RosInit PROVE ListedInv
  OBVIOUS
<1>1. \A n \in RemoteNodes, kind \in Kinds :
        owned[n][kind] =
            {e \in FirstEndpoints : n = FirstNode /\ KindOf(e) = kind}
  BY DEF RosInit, Kinds
<1>2. \A e \in FirstEndpoints : alive[e]
  BY OneRemoteParticipant DEF RosInit, Keys
<1>3. remote = RemoteIdle /\ Last(contents) = Listing(members, owned)
  <2>1. PICK l : l = Listing(members, owned)
    OBVIOUS
  <2>2. contents = <<l>>
    BY <2>1 DEF RosInit
  <2>3. Last(<<l>>) = l
    BY DEF Last
  <2> QED BY <2>1, <2>2, <2>3 DEF RosInit
<1> QED BY <1>1, <1>2, <1>3 DEF ListedInv

-----------------------------------------------------------------------------
(* The whole invariant *)

\* At first the cache holds the first node and the first endpoints, and no
\* sample waits.
LEMMA InitTold == RosInit => NodesInv /\ EndpointsInv
<1> SUFFICES ASSUME RosInit PROVE NodesInv /\ EndpointsInv
  OBVIOUS
<1>1. \A r \in Readers : batch[r] = <<>> /\ queue[r] = <<>>
  BY InitCached
<1>2. \A r \in Readers : PendingOf(r) = <<>>
  BY <1>1 DEF PendingOf
<1>3. NodesInv
  <2>1. Pending = <<>>
    BY <1>1 DEF Pending, Readers
  <2> QED BY <2>1, InitCached DEF NodesInv
<1>4. PICK D \in SUBSET Endpoints : D = FirstEndpoints
  BY OneRemoteParticipant
<1>5. CachedGuids = D
  <2>1. PICK s \in Seq(CachedEndpoint) :
            s = cached_endpoints /\ Range(s) = EntriesOf(D)
    <3>1. cached_endpoints = SetToSeq(EntriesOf(D))
      BY <1>4 DEF RosInit, EntriesOf
    <3> QED BY <3>1, EntriesAreProper
  <2>2. Range(s) = {s[i] : i \in 1 .. Len(s)}
    BY RangeOfSequence
  <2>3. CachedGuids = {x.guid : x \in Range(s)}
    BY <2>1, <2>2 DEF CachedGuids
  <2>4. \A e \in D : CachedAs(e).guid = e
    BY DEF CachedAs
  <2> QED BY <2>1, <2>3, <2>4 DEF EntriesOf
<1>6. ASSUME NEW e \in Endpoints, alive[e]
      PROVE  IsKnown(e)
  <2>1. PendingOf(ReaderOf(e)) = <<>>
    BY <1>2, ReaderOfEndpoint
  <2>2. e \in Keys /\ e \notin Participants
    BY KeysAreDistinct DEF Keys
  <2>3. alive[e] = (e \in Participants \cup FirstEndpoints)
    BY <2>2 DEF RosInit
  <2>4. e \in CachedGuids
    BY <1>4, <1>5, <1>6, <2>2, <2>3
  <2> QED BY <2>1, <2>4 DEF IsKnown, Tells
<1>7. PendingOf("participant") = <<>>
  BY <1>2 DEF Readers
<1> QED BY <1>3, <1>6, <1>7 DEF EndpointsInv

\* RosInv holds in every reachable state.
THEOREM RosInvAlways == RosSpec => []RosInv
<1>1. RosInit => RosInv
  BY InitCarried, InitRemote, InitQuery, InitTold, InitListed DEF RosInv
<1>2. RosInv /\ [RosNext]_allVars => RosInv'
  <2> SUFFICES ASSUME RosInv, [RosNext]_allVars PROVE RosInv'
    OBVIOUS
  <2>1. /\ CarriedInv /\ RemoteInv /\ TableInv /\ NodesInv /\ EndpointsInv
        /\ ListedInv /\ SightInv
    BY DEF RosInv, SightInv, RemoteInv
  <2>2. SightInv'
    BY <2>1, NextSight
  <2>3. NodesInv'
    BY <2>1, NextNodes
  <2>4. EndpointsInv'
    BY <2>1, NextEndpoints
  <2>5. ListedInv'
    BY <2>1, NextListed DEF CarriedInv
  <2> QED BY <2>2, <2>3, <2>4, <2>5 DEF RosInv, SightInv
<1> QED BY <1>1, <1>2, PTL DEF RosSpec

-----------------------------------------------------------------------------
(* What the application knows when things settle *)

\* No sample waits anywhere.
AllIsHandled == \A r \in Readers : queue[r] = <<>> /\ batch[r] = <<>>

\* Then the cached nodes are those of the last announcement.
LEMMA ListingIsAnnounced ==
    ASSUME TypeInv, RemoteInv, NodesInv, AllIsHandled
    PROVE  CachedListing = Announced
<1>1. Pending = <<>>
  BY DEF Pending, AllIsHandled, Readers
<1>2. cached_nodes = SampleNodes(LastSample(Remote))
  BY <1>1 DEF NodesInv
<1>3. PICK snaps \in Seq(Snapshots) : snaps = snapshots[Remote]
  BY TwoParticipants DEF TypeInv, DdsType
<1>4. Describes(contents, snaps)
  BY <1>3 DEF RemoteInv
<1>5. PICK all \in Seq(Seq(ListedNodes)) :
        all = contents /\ all # <<>> /\ Len(all) = Len(snaps)
  BY <1>4 DEF Describes
<1>6. PICK v \in 1 .. Len(all) : v = Len(all)
  <2>1. Len(all) \in Nat /\ Len(all) # 0
    BY <1>5
  <2> QED BY <2>1
<1>7. PICK last \in Seq(ListedNodes) : last = all[v]
  OBVIOUS
<1>8. snaps[v].size = Len(last)
  BY <1>4, <1>5, <1>7 DEF Describes
<1>9. PICK sample : sample = LastSample(Remote)
  OBVIOUS
<1>10. sample.gid = Remote /\ sample.version = v /\ sample.size = Len(last)
  <2>1. Last(snaps).size = Len(last)
    BY <1>5, <1>6, <1>8 DEF Last
  <2> QED BY <1>3, <1>5, <1>6, <1>9, <2>1 DEF LastSample
<1>11. cached_nodes = {[participant_guid |-> Remote, name |-> <<v, i>>] :
                            i \in 1 .. Len(last)}
  BY <1>2, <1>9, <1>10 DEF SampleNodes
<1>12. CachedListing = {last[i] : i \in 1 .. Len(last)}
  <2> DEFINE entry(n) == contents[n.name[1]][n.name[2]]
  <2>1. CachedListing = {entry(n) : n \in cached_nodes}
    BY DEF CachedListing
  <2>2. ASSUME NEW i \in 1 .. Len(last),
               NEW n, n = [participant_guid |-> Remote, name |-> <<v, i>>]
        PROVE  entry(n) = last[i]
    <3>1. n.name[1] = v /\ n.name[2] = i
      BY <2>2
    <3> QED BY <1>5, <1>7, <3>1
  <2> HIDE DEF entry
  <2>3. ASSUME NEW n \in cached_nodes
        PROVE  entry(n) \in {last[i] : i \in 1 .. Len(last)}
    <3>1. PICK i \in 1 .. Len(last) :
            n = [participant_guid |-> Remote, name |-> <<v, i>>]
      BY <1>11
    <3> QED BY <2>2, <3>1
  <2>4. ASSUME NEW i \in 1 .. Len(last)
        PROVE  \E n \in cached_nodes : last[i] = entry(n)
    <3>1. PICK n : n = [participant_guid |-> Remote, name |-> <<v, i>>]
      OBVIOUS
    <3>2. n \in cached_nodes
      BY <1>11, <3>1
    <3> QED BY <2>2, <3>1, <3>2
  <2> QED BY <2>1, <2>3, <2>4, Zenon
<1>13. Range(last) = {last[i] : i \in 1 .. Len(last)}
  BY RangeOfSequence
<1>14. Announced = Range(last)
  BY <1>5, <1>6, <1>7 DEF Announced, Last
<1> QED BY <1>12, <1>13, <1>14

\* The endpoints that exist in DDS.
LiveEndpoints == {f \in Endpoints : alive[f]}

\* Then every endpoint that exists is cached.
LEMMA LiveAreCached ==
    ASSUME EndpointsInv, AllIsHandled
    PROVE  LiveEndpoints \subseteq CachedGuids
<1> SUFFICES ASSUME NEW e \in Endpoints, alive[e] PROVE e \in CachedGuids
  BY DEF LiveEndpoints
<1>1. PendingOf(ReaderOf(e)) = <<>>
  BY ReaderOfEndpoint DEF PendingOf, AllIsHandled
<1>2. Tells(PendingOf(ReaderOf(e)), e, TRUE, e \in CachedGuids)
  BY DEF EndpointsInv, IsKnown
<1>3. (e \in CachedGuids) = TRUE
  BY <1>1, <1>2 DEF Tells
<1> QED BY <1>3

\* An endpoint that a node of the last announcement lists exists.
LEMMA AnnouncedAreLive ==
    ASSUME RemoteInv, ListedInv, NEW listed \in Announced
    PROVE  listed.readers \cup listed.writers \subseteq LiveEndpoints
<1>1. TableInv /\ members \in SUBSET RemoteNodes
  BY DEF RemoteInv, TableInv
<1>2. PICK order \in Seq(members) : order = SetToSeq(members)
  BY <1>1, SetToSeqProps DEF TableInv
<1>3. PICK l : l = Listing(members, owned)
  OBVIOUS
<1>4. PICK i \in 1 .. Len(order) :
        /\ listed.readers = owned[order[i]]["reader"]
        /\ listed.writers = owned[order[i]]["writer"]
  <2>1. l = [i \in 1 .. Len(order) |->
                [name |-> order[i],
                 readers |-> owned[order[i]]["reader"],
                 writers |-> owned[order[i]]["writer"]]]
    BY <1>2, <1>3 DEF Listing
  <2>2. Announced = Range(l)
    BY <1>3 DEF ListedInv, Announced
  <2>3. PICK i \in 1 .. Len(order) : listed = l[i]
    BY <2>1, <2>2 DEF Range
  <2> QED BY <2>1, <2>3
<1>5. order[i] \in RemoteNodes /\ "reader" \in Kinds /\ "writer" \in Kinds
  BY <1>1 DEF Kinds
<1>6. ASSUME NEW n \in RemoteNodes, NEW kind \in Kinds
      PROVE  owned[n][kind] \subseteq LiveEndpoints
  BY <1>1 DEF ListedInv, LiveEndpoints, TableInv
<1> QED BY <1>4, <1>5, <1>6

\* Then the cache is the real graph, up to the order of the endpoints and to
\* endpoints that no node lists.
LEMMA CacheIsReal ==
    ASSUME TypeInv, CacheInv, RemoteInv, NodesInv, EndpointsInv, ListedInv,
           AllIsHandled
    PROVE  SameGraphOf(Infos, Cache, Real)
<1>0. CacheType /\ DdsType /\ ProperEntries(cached_endpoints)
  BY DEF TypeInv, CacheInv
<1>1. PICK D \in SUBSET Endpoints : D = LiveEndpoints
  BY DEF LiveEndpoints
<1>2. PICK R : R = {EndpointInfo(e) : e \in D}
  OBVIOUS
<1>3. R \subseteq Infos
  BY <1>2 DEF Infos
<1>4. Cache.nodes = Real.nodes
  <2>1. CachedListing = Announced
    BY ListingIsAnnounced
  <2> QED BY <2>1 DEF Cache, Real
<1>5. Real.endpoints = SetToSeq(R)
  BY <1>1, <1>2 DEF Real, LiveEndpoints
<1>6. IsFiniteSet(R)
  <2>1. IsFiniteSet(D)
    BY EndpointsFinite
  <2> DEFINE f == [e \in D |-> EndpointInfo(e)]
  <2>2. f \in Surjection(D, R)
    BY <1>2 DEF Surjection
  <2> HIDE DEF f
  <2> QED BY <2>1, <2>2, FS_Surjection
<1>7. PICK t \in Seq(R) : t = Real.endpoints /\ NoneTwice(t) /\ Range(t) = R
  BY <1>5, <1>6, SetToSeqProps
<1>8. t \in Seq(Infos)
  BY <1>3
<1>9. PICK s \in Seq(CachedEndpoint) : s = cached_endpoints
  BY <1>0 DEF CacheType
<1>10. PICK c \in Seq(Infos) :
        /\ c = Cache.endpoints /\ Len(c) = Len(s)
        /\ \A i \in 1 .. Len(s) : c[i] = EndpointInfo(s[i].guid)
  BY <1>0, <1>9, CacheEndpoints
<1>11. NoneTwice(c)
  <2> SUFFICES ASSUME NEW i \in 1 .. Len(c), NEW j \in 1 .. Len(c), c[i] = c[j]
               PROVE  i = j
    BY DEF NoneTwice
  <2>1. EndpointInfo(s[i].guid).guid = s[i].guid
        /\ EndpointInfo(s[j].guid).guid = s[j].guid
    BY DEF EndpointInfo
  <2>2. s[i].guid = s[j].guid
    BY <1>10, <2>1
  <2> QED BY <1>0, <1>9, <1>10, <2>2 DEF ProperEntries
<1>12. ASSUME NEW x \in Infos,
              graph_cache_endpoint_is_associated(Cache, x)
       PROVE  x \in Range(c) /\ x \in R
  <2>1. PICK e \in Endpoints : x = EndpointInfo(e)
    BY DEF Infos
  <2>2. x.guid = e
    BY <2>1 DEF EndpointInfo
  <2>3. PICK listed \in CachedListing : e \in listed.readers \cup listed.writers
    BY <1>12, <2>2 DEF graph_cache_endpoint_is_associated, Cache, ListedNode
  <2>4. e \in D
    BY <1>1, <2>3, ListingIsAnnounced, AnnouncedAreLive
  <2>5. PICK i \in 1 .. Len(s) : e = s[i].guid
    BY <1>1, <1>9, <2>4, LiveAreCached DEF CachedGuids
  <2>6. Range(c) = {c[j] : j \in 1 .. Len(c)}
    BY RangeOfSequence
  <2>7. x = c[i]
    BY <1>10, <2>1, <2>5
  <2> QED BY <1>2, <1>10, <2>1, <2>4, <2>6, <2>7
<1>13. Range(c) \subseteq Infos
  <2>1. Range(c) = {c[j] : j \in 1 .. Len(c)}
    BY RangeOfSequence
  <2> QED BY <2>1
<1>14. ListedEndpoints(Cache) =
        {x \in Infos : graph_cache_endpoint_is_associated(Cache, x)}
  BY <1>10, <1>12, <1>13 DEF ListedEndpoints
<1>15. ListedEndpoints(Real) =
        {x \in Infos : graph_cache_endpoint_is_associated(Cache, x)}
  <2>1. \A x : graph_cache_endpoint_is_associated(Real, x)
                    <=> graph_cache_endpoint_is_associated(Cache, x)
    BY <1>4, SameAssociation
  <2> QED BY <1>3, <1>7, <1>12, <2>1 DEF ListedEndpoints
<1> QED BY <1>4, <1>7, <1>8, <1>10, <1>11, <1>14, <1>15
        DEF SameGraphOf, SameGraph

\* So it answers every question right.
LEMMA RightFromCache ==
    ASSUME TypeInv, CacheInv, RemoteInv, NodesInv, EndpointsInv, ListedInv,
           AllIsHandled
    PROVE  AnswerFrom(CachedListing, Cache) = RightAnswer
<1>1. PICK l, a, c, d :
        l = CachedListing /\ a = Announced /\ c = Cache /\ d = Real
  OBVIOUS
<1>2. l = a
  BY <1>1, ListingIsAnnounced
<1>3. SameGraphOf(Infos, c, d)
  BY <1>1, CacheIsReal
<1>4. RightAnswer = AnswerFrom(a, d)
  BY <1>1 DEF RightAnswer
<1>5. CASE question = "nodes"
  BY <1>1, <1>2, <1>4, <1>5, AnswerCases
<1>6. ASSUME NEW writers
      PROVE  graph_count_endpoints(c, AskedTopic, writers) =
                graph_count_endpoints(d, AskedTopic, writers)
  <2>1. PICK topic : topic = AskedTopic
    OBVIOUS
  <2>2. graph_count_endpoints(c, topic, writers) =
            graph_count_endpoints(d, topic, writers)
    BY <1>3, SameCounts
  <2> QED BY <2>1, <2>2
<1>7. CASE question \in {"publishers", "subscribers"}
  <2>1. graph_count_endpoints(c, AskedTopic, TRUE) =
            graph_count_endpoints(d, AskedTopic, TRUE)
    BY <1>6, Zenon
  <2>2. graph_count_endpoints(c, AskedTopic, FALSE) =
            graph_count_endpoints(d, AskedTopic, FALSE)
    BY <1>6, Zenon
  <2> QED BY <1>1, <1>4, <1>7, <2>1, <2>2, AnswerCases
<1>8. CASE question \in TopicQuestions
  <2>1. PICK nd : nd = no_demangle
    OBVIOUS
  <2>2. TopicsAndTypes(c, nd) = TopicsAndTypes(d, nd)
    BY <1>3, SameTopics
  <2> QED BY <1>1, <1>4, <1>8, <2>1, <2>2, AnswerCases
<1>9. question \in Questions
  BY DEF RemoteInv
<1> QED BY <1>5, <1>7, <1>8, <1>9 DEF Questions

\* An application that queries whenever the graph guard condition wakes it has
\* the right answer each time things settle, for any number of endpoints,
\* topics, types, batches and failed allocations, and whether DDS gives a loss a
\* sample of its own or coalesces it with an announcement that was not taken:
\* discovery in any order, the listeners, the cache, the guard condition and the
\* passes of the query lose nothing and show nothing that is gone.
THEOREM SettledAnswersAreRight == RosSpec => []SettledAnswerIsRight
<1>1. RosInv => SettledAnswerIsRight
  <2> SUFFICES ASSUME RosInv, Settled PROVE seen = RightAnswer
    BY DEF SettledAnswerIsRight
  <2>1. /\ TypeInv /\ CacheInv /\ ChangeIsSignalled /\ RemoteInv
        /\ QueryInv /\ SeenInv /\ NodesInv /\ EndpointsInv /\ ListedInv
    BY DEF RosInv, CarriedInv
  <2>2. AllIsHandled
    BY DEF Settled, AllIsHandled
  <2>3. ~unseen
    BY <2>1 DEF Settled, ChangeIsSignalled
  <2>4. app.pc = "waiting"
    BY <2>1 DEF Settled, QueryInv
  <2>5. seen = AnswerFrom(CachedListing, Cache)
    BY <2>1, <2>3, <2>4 DEF SeenInv
  <2>6. AnswerFrom(CachedListing, Cache) = RightAnswer
    BY <2>1, <2>2, RightFromCache
  <2> QED BY <2>5, <2>6
<1> QED BY <1>1, RosInvAlways, PTL
=============================================================================
