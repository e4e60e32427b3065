-------------------------- MODULE LifecycleProofs --------------------------
(***************************************************************************)
(* What is proved of Lifecycle for any number of nodes, publishers,        *)
(* subscriptions, guard conditions, wait sets and calls in progress.       *)
(*                                                                         *)
(* TableOK is what a create function, its clean-up code and the destroy    *)
(* function must have in common; it is proved of each kind of object.  The *)
(* rest, ObjectInv and TreeInv, is proved from TableOK alone.              *)
(***************************************************************************)
EXTENDS Lifecycle, SequenceLemmas

Phases == {"absent", "creating", "live", "releasing"}

Resources ==
    {"discovery", "security", "enclave", "graph_topic", "graph_writer",
     "graph_reader", "participant_reader", "publication_reader",
     "subscription_reader", "impl", "domain", "participant", "graph_guard",
     "node", "node_data", "name", "namespace", "graph_node", "handle",
     "topic_name", "endpoint", "dds_topic_name", "dds_qos", "dds_sample",
     "dds_topic", "dds_entity", "condition", "graph_endpoint",
     "cache_endpoint", "guard_condition", "data", "entity", "wait_set",
     "attached", "triggered", "waitset"}

GraphEntries == {"graph_endpoint", "cache_endpoint"}

\* b may be released after a: it is not a, did not go with it, and is not an
\* entry that a backs.
MayFollow(a, b) ==
    /\ b # a /\ b \notin Children(a)
    /\ a = "dds_entity" => b \notin GraphEntries
    /\ a = "graph_endpoint" => b # "cache_endpoint"

InOrder(s) == \A i, j \in 1 .. Len(s) : i < j => MayFollow(s[i], s[j])

\* Releasing the resources of s takes care of x.
Covers(s, x) == \E k \in 1 .. Len(s) : x = s[k] \/ x \in Children(s[k])

\* What the first n steps of a create function acquire.
Prefix(acquires, n) == UNION {acquires[i] : i \in 1 .. n}

\* The clean-up code releases what any step but the last acquires, by itself or
\* with a parent that an earlier step acquired.
UnwindsCover(acquires, unwinds) ==
    \A n \in 1 .. Len(acquires) - 1 : \A x \in acquires[n] :
        \/ \E k \in 1 .. Len(unwinds) : unwinds[k] = x
        \/ \E m \in 1 .. n - 1, k \in 1 .. Len(unwinds) :
            unwinds[k] \in acquires[m] /\ x \in Children(unwinds[k])

\* The destroy function releases what a live object has, and nothing else.
DestroysCover(acquires, destroys) ==
    /\ \A n \in 1 .. Len(acquires) : \A x \in acquires[n] \ Temporaries :
        Covers(destroys, x)
    /\ \A k \in 1 .. Len(destroys) :
        /\ destroys[k] \notin Temporaries
        /\ \E n \in 1 .. Len(acquires) : destroys[k] \in acquires[n]

\* An endpoint enters the graph after its DDS entity exists, and the cache
\* after the graph.
EntersGraphLast(acquires) ==
    \A n \in 1 .. Len(acquires) :
        /\ acquires[n] \cap GraphEntries # {} =>
            \E m \in 1 .. n - 1 : "dds_entity" \in acquires[m]
        /\ "cache_endpoint" \in acquires[n] =>
            \E m \in 1 .. n - 1 : "graph_endpoint" \in acquires[m]

TableOK(acquires, unwinds, destroys) ==
    /\ acquires \in Seq(SUBSET Resources) /\ acquires # <<>>
    /\ unwinds \in Seq(Resources) /\ destroys \in Seq(Resources)
    /\ \E x \in Resources : acquires[Len(acquires)] = {x}
    /\ UnwindsCover(acquires, unwinds) /\ InOrder(unwinds)
    /\ DestroysCover(acquires, destroys) /\ InOrder(destroys)
    /\ EntersGraphLast(acquires)

TypeInv ==
    /\ phase \in [Objects -> Phases]
    /\ step \in [Objects -> Nat]
    /\ held \in [Objects -> SUBSET Resources]
    /\ todo \in [Objects -> Seq(Resources)]

\* An endpoint in the graph is backed.
Backed(resources) ==
    /\ resources \cap GraphEntries # {} => "dds_entity" \in resources
    /\ "cache_endpoint" \in resources => "graph_endpoint" \in resources

\* What is still to release is held, is released in order and is all there is.
ReleaseOK(h, t) ==
    /\ InOrder(t)
    /\ Range(t) \subseteq h
    /\ \A x \in h : Covers(t, x)

\* An object o in phase p, at step n, holding h, with t still to release.
ObjectOK(o, p, n, h, t) ==
    /\ p = "absent" => h = {}
    /\ p = "creating" =>
        n \in 1 .. Len(Acquires(o)) + 1 /\ h = Prefix(Acquires(o), n - 1)
    /\ p = "live" => h = Prefix(Acquires(o), Len(Acquires(o))) \ Temporaries
    /\ IF p = "releasing" THEN ReleaseOK(h, t) ELSE t = <<>>
    /\ Backed(h)

ObjectInv ==
    \A o \in Objects : ObjectOK(o, phase[o], step[o], held[o], todo[o])

\* No object outlives the context; no endpoint is in the graph, or on its way
\* there, without its node.
TreeInv ==
    /\ \A o \in Objects \ {Context} :
        phase[o] # "absent" => phase[Context] = "live"
    /\ \A e \in EndpointObjects :
        phase[e] = "creating" \/ "graph_endpoint" \in held[e] =>
            phase[NodeOf[e]] = "live"

LifeInv == TypeInv /\ ObjectInv /\ TreeInv

-----------------------------------------------------------------------------
(* The tables *)

\* rmw_create_node and rmw_destroy_node.
LEMMA NodeTable == TableOK(NodeAcquires, NodeUnwinds, NodeDestroys)
<1>1. /\ NodeAcquires \in Seq(SUBSET Resources) /\ NodeAcquires # <<>>
      /\ \E x \in Resources : NodeAcquires[Len(NodeAcquires)] = {x}
  BY DEF NodeAcquires, Resources
<1>2. NodeUnwinds \in Seq(Resources) /\ NodeDestroys \in Seq(Resources)
  BY DEF NodeUnwinds, NodeDestroys, Resources
<1>3. UnwindsCover(NodeAcquires, NodeUnwinds)
  BY DEF UnwindsCover, NodeAcquires, NodeUnwinds, Children
<1>4. InOrder(NodeUnwinds) /\ InOrder(NodeDestroys)
  BY DEF InOrder, MayFollow, Children, GraphEntries, NodeUnwinds, NodeDestroys
<1>5. DestroysCover(NodeAcquires, NodeDestroys)
  BY DEF DestroysCover, Covers, Temporaries, NodeAcquires, NodeDestroys, Children
<1>6. EntersGraphLast(NodeAcquires)
  BY DEF EntersGraphLast, GraphEntries, NodeAcquires
<1> QED BY <1>1, <1>2, <1>3, <1>4, <1>5, <1>6 DEF TableOK

\* rmw_create_publisher and rmw_destroy_publisher.
LEMMA PublisherTable == TableOK(PublisherAcquires, EndpointUnwinds, PublisherDestroys)
<1>1. /\ PublisherAcquires \in Seq(SUBSET Resources) /\ PublisherAcquires # <<>>
      /\ \E x \in Resources : PublisherAcquires[Len(PublisherAcquires)] = {x}
  BY DEF PublisherAcquires, Resources
<1>2. EndpointUnwinds \in Seq(Resources) /\ PublisherDestroys \in Seq(Resources)
  BY DEF EndpointUnwinds, PublisherDestroys, Resources
<1>3. UnwindsCover(PublisherAcquires, EndpointUnwinds)
  BY DEF UnwindsCover, PublisherAcquires, EndpointUnwinds, Children
<1>4. InOrder(EndpointUnwinds) /\ InOrder(PublisherDestroys)
  BY DEF InOrder, MayFollow, Children, GraphEntries, EndpointUnwinds, PublisherDestroys
<1>5. DestroysCover(PublisherAcquires, PublisherDestroys)
  BY DEF DestroysCover, Covers, Temporaries, PublisherAcquires, PublisherDestroys, Children
<1>6. EntersGraphLast(PublisherAcquires)
  BY DEF EntersGraphLast, GraphEntries, PublisherAcquires
<1> QED BY <1>1, <1>2, <1>3, <1>4, <1>5, <1>6 DEF TableOK

\* rmw_create_subscription and rmw_destroy_subscription.
LEMMA SubscriptionTable == TableOK(SubscriptionAcquires, EndpointUnwinds, SubscriptionDestroys)
<1>1. /\ SubscriptionAcquires \in Seq(SUBSET Resources) /\ SubscriptionAcquires # <<>>
      /\ \E x \in Resources : SubscriptionAcquires[Len(SubscriptionAcquires)] = {x}
  BY DEF SubscriptionAcquires, Resources
<1>2. EndpointUnwinds \in Seq(Resources) /\ SubscriptionDestroys \in Seq(Resources)
  BY DEF EndpointUnwinds, SubscriptionDestroys, Resources
<1>3. UnwindsCover(SubscriptionAcquires, EndpointUnwinds)
  BY DEF UnwindsCover, SubscriptionAcquires, EndpointUnwinds, Children
<1>4. InOrder(EndpointUnwinds) /\ InOrder(SubscriptionDestroys)
  BY DEF InOrder, MayFollow, Children, GraphEntries, EndpointUnwinds, SubscriptionDestroys
<1>5. DestroysCover(SubscriptionAcquires, SubscriptionDestroys)
  BY DEF DestroysCover, Covers, Temporaries, SubscriptionAcquires, SubscriptionDestroys, Children
<1>6. EntersGraphLast(SubscriptionAcquires)
  BY DEF EntersGraphLast, GraphEntries, SubscriptionAcquires
<1> QED BY <1>1, <1>2, <1>3, <1>4, <1>5, <1>6 DEF TableOK

\* rmw_create_guard_condition and rmw_destroy_guard_condition.
LEMMA GuardTable == TableOK(GuardAcquires, GuardUnwinds, GuardDestroys)
<1>1. /\ GuardAcquires \in Seq(SUBSET Resources) /\ GuardAcquires # <<>>
      /\ \E x \in Resources : GuardAcquires[Len(GuardAcquires)] = {x}
  BY DEF GuardAcquires, Resources
<1>2. GuardUnwinds \in Seq(Resources) /\ GuardDestroys \in Seq(Resources)
  BY DEF GuardUnwinds, GuardDestroys, Resources
<1>3. UnwindsCover(GuardAcquires, GuardUnwinds)
  BY DEF UnwindsCover, GuardAcquires, GuardUnwinds, Children
<1>4. InOrder(GuardUnwinds) /\ InOrder(GuardDestroys)
  BY DEF InOrder, MayFollow, Children, GraphEntries, GuardUnwinds, GuardDestroys
<1>5. DestroysCover(GuardAcquires, GuardDestroys)
  BY DEF DestroysCover, Covers, Temporaries, GuardAcquires, GuardDestroys, Children
<1>6. EntersGraphLast(GuardAcquires)
  BY DEF EntersGraphLast, GraphEntries, GuardAcquires
<1> QED BY <1>1, <1>2, <1>3, <1>4, <1>5, <1>6 DEF TableOK

\* rmw_create_wait_set and rmw_destroy_wait_set.
LEMMA WaitSetTable == TableOK(WaitSetAcquires, WaitSetUnwinds, WaitSetDestroys)
<1>1. /\ WaitSetAcquires \in Seq(SUBSET Resources) /\ WaitSetAcquires # <<>>
      /\ \E x \in Resources : WaitSetAcquires[Len(WaitSetAcquires)] = {x}
  BY DEF WaitSetAcquires, Resources
<1>2. WaitSetUnwinds \in Seq(Resources) /\ WaitSetDestroys \in Seq(Resources)
  BY DEF WaitSetUnwinds, WaitSetDestroys, Resources
<1>3. UnwindsCover(WaitSetAcquires, WaitSetUnwinds)
  BY DEF UnwindsCover, WaitSetAcquires, WaitSetUnwinds, Children
<1>4. InOrder(WaitSetUnwinds) /\ InOrder(WaitSetDestroys)
  BY DEF InOrder, MayFollow, Children, GraphEntries, WaitSetUnwinds, WaitSetDestroys
<1>5. DestroysCover(WaitSetAcquires, WaitSetDestroys)
  BY DEF DestroysCover, Covers, Temporaries, WaitSetAcquires, WaitSetDestroys, Children
<1>6. EntersGraphLast(WaitSetAcquires)
  BY DEF EntersGraphLast, GraphEntries, WaitSetAcquires
<1> QED BY <1>1, <1>2, <1>3, <1>4, <1>5, <1>6 DEF TableOK

\* The steps of rmw_init, written out.
ContextSteps ==
    << {}, {"impl"}, {"domain"}, {"participant"}, {"graph_topic"},
       {"graph_writer"}, {"graph_guard"}, {"graph_reader"},
       {"participant_reader"}, {"publication_reader"},
       {"subscription_reader"}, {"discovery"}, {"security"}, {"enclave"} >>

\* rmw_init runs the steps of the functions it calls.
LEMMA ContextStepsOfInit == ContextAcquires = ContextSteps
<1> DEFINE s == ContextAcquires
<1>1. s \in Seq(SUBSET Resources)
  <2>1. /\ DomainIdAcquires \in Seq(SUBSET Resources)
        /\ GraphWriterAcquires \in Seq(SUBSET Resources)
        /\ GraphReadersAcquires \in Seq(SUBSET Resources)
        /\ OptionsAcquires \in Seq(SUBSET Resources)
        /\ << {"impl"}, {"domain"}, {"participant"} >> \in Seq(SUBSET Resources)
        /\ << {"graph_guard"} >> \in Seq(SUBSET Resources)
    BY DEF DomainIdAcquires, GraphWriterAcquires, GraphReadersAcquires,
           OptionsAcquires, Resources
  <2> QED BY <2>1 DEF ContextAcquires
<1>2. Len(s) = 14
  BY DEF ContextAcquires, DomainIdAcquires, GraphWriterAcquires,
         GraphReadersAcquires, OptionsAcquires
<1>3. /\ s[1] = {} /\ s[2] = {"impl"} /\ s[3] = {"domain"}
      /\ s[4] = {"participant"} /\ s[5] = {"graph_topic"}
      /\ s[6] = {"graph_writer"} /\ s[7] = {"graph_guard"}
      /\ s[8] = {"graph_reader"} /\ s[9] = {"participant_reader"}
      /\ s[10] = {"publication_reader"} /\ s[11] = {"subscription_reader"}
      /\ s[12] = {"discovery"} /\ s[13] = {"security"} /\ s[14] = {"enclave"}
  BY DEF ContextAcquires, DomainIdAcquires, GraphWriterAcquires,
         GraphReadersAcquires, OptionsAcquires
<1> HIDE DEF s
<1>4. s = ContextSteps
  BY <1>1, <1>2, <1>3 DEF ContextSteps
<1> QED BY <1>4 DEF s

\* Its clean-up code and rmw_context_fini, written out.
LEMMA ContextReleases ==
    /\ ContextUnwinds = <<"discovery", "security", "enclave", "participant",
                          "domain", "impl">>
    /\ ContextDestroys = <<"participant", "domain", "discovery", "security",
                           "enclave", "impl">>
<1> DEFINE s == ContextUnwinds
           t == ContextDestroys
<1>1. s \in Seq(Resources) /\ t \in Seq(Resources)
  <2>1. /\ OptionsReleases \in Seq(Resources)
        /\ <<"participant", "domain", "impl">> \in Seq(Resources)
        /\ <<"participant", "domain">> \in Seq(Resources)
        /\ <<"impl">> \in Seq(Resources)
    BY DEF OptionsReleases, Resources
  <2> QED BY <2>1 DEF ContextUnwinds, ContextDestroys
<1>2. /\ Len(s) = 6 /\ s[1] = "discovery" /\ s[2] = "security"
      /\ s[3] = "enclave" /\ s[4] = "participant" /\ s[5] = "domain"
      /\ s[6] = "impl"
  BY DEF ContextUnwinds, OptionsReleases
<1>3. /\ Len(t) = 6 /\ t[1] = "participant" /\ t[2] = "domain"
      /\ t[3] = "discovery" /\ t[4] = "security" /\ t[5] = "enclave"
      /\ t[6] = "impl"
  BY DEF ContextDestroys, OptionsReleases
<1> HIDE DEF s, t
<1>4. s = <<"discovery", "security", "enclave", "participant", "domain", "impl">>
  BY <1>1, <1>2
<1>5. t = <<"participant", "domain", "discovery", "security", "enclave", "impl">>
  BY <1>1, <1>3
<1> QED BY <1>4, <1>5 DEF s, t

\* rmw_init and rmw_context_fini.
LEMMA ContextTable == TableOK(ContextAcquires, ContextUnwinds, ContextDestroys)
<1> DEFINE u == <<"discovery", "security", "enclave", "participant", "domain",
                  "impl">>
           d == <<"participant", "domain", "discovery", "security", "enclave",
                  "impl">>
<1>1. /\ ContextSteps \in Seq(SUBSET Resources) /\ ContextSteps # <<>>
      /\ \E x \in Resources : ContextSteps[Len(ContextSteps)] = {x}
  BY DEF ContextSteps, Resources
<1>2. u \in Seq(Resources) /\ d \in Seq(Resources)
  BY DEF Resources
<1>3. UnwindsCover(ContextSteps, u)
  BY DEF UnwindsCover, ContextSteps, Children
<1>4. InOrder(u) /\ InOrder(d)
  BY DEF InOrder, MayFollow, Children, GraphEntries
<1>5. DestroysCover(ContextSteps, d)
  BY DEF DestroysCover, Covers, Temporaries, ContextSteps, Children
<1>6. EntersGraphLast(ContextSteps)
  BY DEF EntersGraphLast, GraphEntries, ContextSteps
<1>7. TableOK(ContextSteps, u, d)
  BY <1>1, <1>2, <1>3, <1>4, <1>5, <1>6 DEF TableOK
<1> QED BY <1>7, ContextStepsOfInit, ContextReleases

\* Every object has a kind, and every kind a good table.
LEMMA Tables ==
    ASSUME NEW o \in Objects
    PROVE  TableOK(Acquires(o), Unwinds(o), Destroys(o))
<1>1. Kinds = {"context", "node", "publisher", "subscription", "guard",
               "wait_set"}
  BY DEF Kinds, Instances
<1>2. \E kind \in Kinds : o \in Instances[kind]
  BY DEF Objects, Range, Kinds
<1>3. KindOf(o) \in Kinds
  BY <1>2 DEF KindOf
<1> DEFINE kind == KindOf(o)
<1>4. CASE kind = "context"
  BY <1>4, ContextTable
     DEF Acquires, Unwinds, Destroys, AcquiresOf, UnwindsOf, DestroysOf
<1>5. CASE kind = "node"
  BY <1>5, NodeTable
     DEF Acquires, Unwinds, Destroys, AcquiresOf, UnwindsOf, DestroysOf
<1>6. CASE kind = "publisher"
  BY <1>6, PublisherTable
     DEF Acquires, Unwinds, Destroys, AcquiresOf, UnwindsOf, DestroysOf
<1>7. CASE kind = "subscription"
  BY <1>7, SubscriptionTable
     DEF Acquires, Unwinds, Destroys, AcquiresOf, UnwindsOf, DestroysOf
<1>8. CASE kind = "guard"
  BY <1>8, GuardTable
     DEF Acquires, Unwinds, Destroys, AcquiresOf, UnwindsOf, DestroysOf
<1>9. CASE kind = "wait_set"
  BY <1>9, WaitSetTable
     DEF Acquires, Unwinds, Destroys, AcquiresOf, UnwindsOf, DestroysOf
<1> QED BY <1>1, <1>3, <1>4, <1>5, <1>6, <1>7, <1>8, <1>9

\* Nodes and the context are nothing else.
LEMMA KindsAreDistinct ==
    /\ Context \notin Nodes \cup EndpointObjects \cup Guards \cup WaitSets
    /\ Nodes \cap (EndpointObjects \cup Guards \cup WaitSets) = {}
    /\ EndpointObjects \cap (Guards \cup WaitSets) = {}
    /\ Objects = {Context} \cup Nodes \cup EndpointObjects \cup Guards
                    \cup WaitSets
<1>1. Kinds = {"context", "node", "publisher", "subscription", "guard",
               "wait_set"}
  BY DEF Kinds, Instances
<1>2. /\ Instances["context"] = {Context} /\ Instances["node"] = Nodes
      /\ Instances["publisher"] = Publishers
      /\ Instances["subscription"] = Subscriptions
      /\ Instances["guard"] = Guards /\ Instances["wait_set"] = WaitSets
  BY DEF Instances
<1>3. \A k, l \in Kinds : k # l => Instances[k] \cap Instances[l] = {}
  BY ObjectsAreDistinct
<1>4. Context \notin Nodes \cup EndpointObjects \cup Guards \cup WaitSets
  BY <1>1, <1>2, <1>3 DEF EndpointObjects
<1>5. Nodes \cap (EndpointObjects \cup Guards \cup WaitSets) = {}
  BY <1>1, <1>2, <1>3 DEF EndpointObjects
<1>8. EndpointObjects \cap (Guards \cup WaitSets) = {}
  BY <1>1, <1>2, <1>3 DEF EndpointObjects
<1>6. Objects = UNION {Instances[k] : k \in Kinds}
  BY DEF Objects, Range, Kinds
<1>7. Objects = {Context} \cup Nodes \cup EndpointObjects \cup Guards
                    \cup WaitSets
  BY <1>1, <1>2, <1>6 DEF EndpointObjects
<1> QED BY <1>4, <1>5, <1>7, <1>8

-----------------------------------------------------------------------------
(* What follows from a good table *)

\* One more step.
LEMMA PrefixNext ==
    ASSUME NEW acquires, NEW n \in Nat
    PROVE  /\ Prefix(acquires, 0) = {}
           /\ Prefix(acquires, n + 1) = Prefix(acquires, n) \cup acquires[n + 1]
           /\ \A x : x \in Prefix(acquires, n) <=>
                        \E i \in 1 .. n : x \in acquires[i]
<1>1. \A i : i \in 1 .. n + 1 <=> i \in 1 .. n \/ i = n + 1
  OBVIOUS
<1>2. \A x : x \in Prefix(acquires, n) <=> \E i \in 1 .. n : x \in acquires[i]
  BY DEF Prefix
<1>3. \A x : x \in Prefix(acquires, n + 1) <=>
                \E i \in 1 .. n + 1 : x \in acquires[i]
  BY DEF Prefix
<1>4. Prefix(acquires, n + 1) = Prefix(acquires, n) \cup acquires[n + 1]
  BY <1>1, <1>2, <1>3
<1>5. Prefix(acquires, 0) = {}
  BY DEF Prefix
<1> QED BY <1>2, <1>4, <1>5

\* At no point of a create function is an endpoint in the graph before its DDS
\* entity exists.
LEMMA PrefixBacked ==
    ASSUME NEW a, EntersGraphLast(a), Len(a) \in Nat,
           NEW n \in Nat, n < Len(a), NEW got \in SUBSET a[n + 1]
    PROVE  Backed(Prefix(a, n) \cup got)
<1> DEFINE H == Prefix(a, n) \cup got
<1>1. \A x : x \in Prefix(a, n) <=> \E i \in 1 .. n : x \in a[i]
  BY PrefixNext
<1>2. ASSUME NEW x \in H
      PROVE  \E i \in 1 .. Len(a) :
                x \in a[i] /\ \A m \in 1 .. i - 1 : a[m] \subseteq H
  <2>1. PICK i \in 1 .. n + 1 : x \in a[i]
    <3>1. n + 1 \in 1 .. n + 1 /\ \A j \in 1 .. n : j \in 1 .. n + 1
      OBVIOUS
    <3> QED BY <1>1, <1>2, <3>1
  <2>2. i \in 1 .. Len(a) /\ \A m \in 1 .. i - 1 : m \in 1 .. n
    OBVIOUS
  <2> QED BY <1>1, <2>1, <2>2
<1>3. ASSUME NEW x \in H, x \in GraphEntries PROVE "dds_entity" \in H
  BY <1>2, <1>3 DEF EntersGraphLast
<1>4. ASSUME "cache_endpoint" \in H PROVE "graph_endpoint" \in H
  BY <1>2, <1>4 DEF EntersGraphLast
<1> QED BY <1>3, <1>4 DEF Backed

\* Compaction keeps the order and exactly what is held.
LEMMA CompactInOrder ==
    ASSUME NEW s \in Seq(Resources), InOrder(s), NEW keep
    PROVE  /\ Compact(s, keep) \in Seq(Resources)
           /\ InOrder(Compact(s, keep))
           /\ Range(Compact(s, keep)) \subseteq keep
           /\ \A k \in 1 .. Len(s) : s[k] \in keep =>
                \E j \in 1 .. Len(Compact(s, keep)) : Compact(s, keep)[j] = s[k]
<1>1. PICK c \in Seq(Resources) : c = Compact(s, keep)
  BY CompactSelects
<1>2. PICK h : Selects(h, c, s, keep, Len(s))
  BY <1>1, CompactSelects
<1>3. /\ \A j \in 1 .. Len(c) :
            h[j] \in 1 .. Len(s) /\ c[j] = s[h[j]] /\ s[h[j]] \in keep
      /\ \A i, j \in 1 .. Len(c) : i < j => h[i] < h[j]
      /\ \A i \in 1 .. Len(s) : s[i] \in keep => \E j \in 1 .. Len(c) : h[j] = i
  BY <1>2 DEF Selects
<1>4. InOrder(c)
  <2> SUFFICES ASSUME NEW i \in 1 .. Len(c), NEW j \in 1 .. Len(c), i < j
               PROVE  MayFollow(c[i], c[j])
    BY DEF InOrder
  <2>1. /\ h[i] \in 1 .. Len(s) /\ h[j] \in 1 .. Len(s) /\ h[i] < h[j]
        /\ c[i] = s[h[i]] /\ c[j] = s[h[j]]
    BY <1>3
  <2>2. MayFollow(s[h[i]], s[h[j]])
    BY <2>1 DEF InOrder
  <2> QED BY <2>1, <2>2
<1>5. Range(c) = {c[j] : j \in 1 .. Len(c)}
  BY RangeOfSequence
<1>6. Range(c) \subseteq keep
  BY <1>3, <1>5
<1>7. \A k \in 1 .. Len(s) : s[k] \in keep => \E j \in 1 .. Len(c) : c[j] = s[k]
  BY <1>3
<1> QED BY <1>1, <1>4, <1>6, <1>7

\* The clean-up code of a create function takes care of all it holds, whatever
\* step failed and whatever part of it had succeeded.
LEMMA FailCovers ==
    ASSUME NEW a, NEW u, NEW d, TableOK(a, u, d),
           NEW n \in 1 .. Len(a), NEW got \in SUBSET a[n],
           got # a[n] \/ got = {}
    PROVE  \A x \in Prefix(a, n - 1) \cup got :
                Covers(Compact(u, Prefix(a, n - 1) \cup got), x)
<1>0. /\ u \in Seq(Resources) /\ InOrder(u) /\ UnwindsCover(a, u)
      /\ Len(a) \in Nat
  BY DEF TableOK
<1> DEFINE H == Prefix(a, n - 1) \cup got
<1>1. \A x : x \in Prefix(a, n - 1) <=> \E i \in 1 .. n - 1 : x \in a[i]
  <2>1. n - 1 \in Nat
    BY <1>0
  <2> QED BY <2>1, PrefixNext
<1>2. PICK c \in Seq(Resources) :
        /\ c = Compact(u, H)
        /\ \A k \in 1 .. Len(u) : u[k] \in H => \E j \in 1 .. Len(c) : c[j] = u[k]
  <2> HIDE DEF H
  <2> QED BY <1>0, CompactInOrder
<1>3. n = Len(a) => got = {}
  <2>1. PICK y \in Resources : a[Len(a)] = {y}
    BY DEF TableOK
  <2> QED BY <2>1
<1> SUFFICES ASSUME NEW x \in H PROVE Covers(c, x)
  BY <1>2
<1>4. PICK i \in 1 .. Len(a) - 1 :
        x \in a[i] /\ \A m \in 1 .. i - 1 : a[m] \subseteq H
  <2>1. CASE x \in Prefix(a, n - 1)
    <3>1. PICK i \in 1 .. n - 1 : x \in a[i]
      BY <1>1, <2>1
    <3>2. i \in 1 .. Len(a) - 1 /\ \A m \in 1 .. i - 1 : m \in 1 .. n - 1
      BY <1>0
    <3> QED BY <1>1, <3>1, <3>2
  <2>2. CASE x \in got
    <3>1. n \in 1 .. Len(a) - 1
      BY <1>0, <1>3, <2>2
    <3> QED BY <1>1, <2>2, <3>1
  <2> QED BY <2>1, <2>2
<1>5. \E k \in 1 .. Len(u) : u[k] \in H /\ (x = u[k] \/ x \in Children(u[k]))
  <2> HIDE DEF H
  <2>1. CASE \E k \in 1 .. Len(u) : u[k] = x
    BY <2>1
  <2>2. CASE \E m \in 1 .. i - 1, k \in 1 .. Len(u) :
                u[k] \in a[m] /\ x \in Children(u[k])
    BY <1>4, <2>2
  <2> QED BY <1>0, <1>4, <2>1, <2>2 DEF UnwindsCover
<1> QED BY <1>2, <1>5 DEF Covers

\* The destroy function takes care of all that a live object holds.
LEMMA DestroyCovers ==
    ASSUME NEW a, NEW u, NEW d, TableOK(a, u, d)
    PROVE  LET H == Prefix(a, Len(a)) \ Temporaries
           IN  Range(d) \subseteq H /\ \A x \in H : Covers(d, x)
<1>0. d \in Seq(Resources) /\ DestroysCover(a, d) /\ Len(a) \in Nat
  BY DEF TableOK
<1>1. \A x : x \in Prefix(a, Len(a)) <=> \E i \in 1 .. Len(a) : x \in a[i]
  BY <1>0, PrefixNext
<1>2. Range(d) = {d[k] : k \in 1 .. Len(d)}
  BY <1>0, RangeOfSequence
<1>3. Range(d) \subseteq Prefix(a, Len(a)) \ Temporaries
  BY <1>0, <1>1, <1>2 DEF DestroysCover
<1>4. \A x \in Prefix(a, Len(a)) \ Temporaries : Covers(d, x)
  BY <1>0, <1>1 DEF DestroysCover
<1> QED BY <1>3, <1>4

\* The next release.
LEMMA ReleaseNext ==
    ASSUME NEW s \in Seq(Resources), s # <<>>, NEW H, ReleaseOK(H, s), Backed(H),
           NEW K, K = H \ ({Head(s)} \cup Children(Head(s)))
    PROVE  /\ Tail(s) \in Seq(Resources)
           /\ ReleaseOK(K, Tail(s))
           /\ Backed(K)
<1>0. InOrder(s) /\ Range(s) \subseteq H /\ \A x \in H : Covers(s, x)
  BY DEF ReleaseOK
<1>1. PICK l \in Nat : l = Len(s) /\ l > 0
  OBVIOUS
<1>2. PICK r \in Seq(Resources) :
        r = Tail(s) /\ Len(r) = l - 1 /\ \A i \in 1 .. l - 1 : r[i] = s[i + 1]
  <2>1. /\ Tail(s) \in Seq(Resources) /\ Len(Tail(s)) = Len(s) - 1
        /\ \A i \in 1 .. Len(Tail(s)) : Tail(s)[i] = s[i + 1]
    BY HeadTailProperties
  <2> QED BY <1>1, <2>1
<1>3. Head(s) = s[1] /\ \A i \in 1 .. l - 1 : i + 1 \in 1 .. l /\ 1 < i + 1
  BY <1>1
<1>4. \A i \in 1 .. l - 1 : MayFollow(Head(s), r[i])
  BY <1>0, <1>1, <1>2, <1>3 DEF InOrder
<1>5. InOrder(r)
  <2> SUFFICES ASSUME NEW i \in 1 .. Len(r), NEW j \in 1 .. Len(r), i < j
               PROVE  MayFollow(r[i], r[j])
    BY DEF InOrder
  <2>1. /\ i + 1 \in 1 .. l /\ j + 1 \in 1 .. l /\ i + 1 < j + 1
        /\ r[i] = s[i + 1] /\ r[j] = s[j + 1]
    BY <1>1, <1>2
  <2> QED BY <1>0, <1>1, <2>1 DEF InOrder
<1>6. Range(s) = {s[i] : i \in 1 .. l}
  BY <1>1, RangeOfSequence
<1>7. Range(r) = {r[i] : i \in 1 .. l - 1}
  <2>1. Range(r) = {r[i] : i \in 1 .. Len(r)}
    BY RangeOfSequence
  <2> QED BY <1>2, <2>1
<1>8. Range(r) \subseteq K
  <2> SUFFICES ASSUME NEW i \in 1 .. l - 1 PROVE r[i] \in K
    BY <1>7
  <2>1. r[i] \in H
    BY <1>0, <1>2, <1>3, <1>6
  <2>2. r[i] # Head(s) /\ r[i] \notin Children(Head(s))
    BY <1>4 DEF MayFollow
  <2> QED BY <2>1, <2>2
<1>9. ASSUME NEW x \in K
      PROVE  \E i \in 1 .. l - 1 : x = r[i] \/ x \in Children(r[i])
  <2>1. PICK k \in 1 .. l : x = s[k] \/ x \in Children(s[k])
    BY <1>0, <1>1 DEF Covers
  <2>2. k # 1
    BY <1>3, <2>1
  <2>3. k - 1 \in 1 .. l - 1 /\ (k - 1) + 1 = k
    BY <2>2
  <2>4. r[k - 1] = s[k]
    BY <1>2, <2>3
  <2> QED BY <2>1, <2>3, <2>4
<1>10. \A x \in K : Covers(r, x)
  BY <1>2, <1>9 DEF Covers
<1>11. \A x \in K \cap GraphEntries : MayFollow(Head(s), x)
  <2>1. \A x \in GraphEntries : \A y : x \notin Children(y)
    BY DEF GraphEntries, Children
  <2> QED BY <1>4, <1>9, <2>1
<1>12. \A y : "dds_entity" \notin Children(y) /\ "graph_endpoint" \notin Children(y)
  BY DEF Children
<1>13. Backed(K)
  BY <1>11, <1>12 DEF Backed, MayFollow, GraphEntries
<1>14. ReleaseOK(K, r)
  BY <1>5, <1>8, <1>10 DEF ReleaseOK
<1> QED BY <1>2, <1>13, <1>14

-----------------------------------------------------------------------------
(* The actions *)

\* A step of o leaves the other objects alone.
OnlyTouches(o) ==
    \A q \in Objects \ {o} :
        /\ phase'[q] = phase[q] /\ step'[q] = step[q]
        /\ held'[q] = held[q] /\ todo'[q] = todo[q]

\* What a step of o has to show.
LEMMA StepKeeps ==
    ASSUME LifeInv, NEW o \in Objects, TypeInv', OnlyTouches(o),
           ObjectOK(o, phase'[o], step'[o], held'[o], todo'[o]),
           o # Context /\ phase'[o] # "absent" => phase[Context] = "live",
           o = Context => \/ phase'[o] = "live" \/ phase[o] # "live"
                          \/ \A q \in Objects \ {Context} : phase[q] = "absent",
           o \in EndpointObjects
             /\ (phase'[o] = "creating" \/ "graph_endpoint" \in held'[o]) =>
                phase[NodeOf[o]] = "live",
           o \in Nodes => \/ phase'[o] = "live" \/ phase[o] # "live"
                          \/ \A e \in EndpointObjects : NodeOf[e] = o =>
                                /\ phase[e] # "creating"
                                /\ "graph_endpoint" \notin held[e]
    PROVE  LifeInv'
<1>1. ObjectInv'
  <2> SUFFICES ASSUME NEW q \in Objects
               PROVE  ObjectOK(q, phase'[q], step'[q], held'[q], todo'[q])
    BY DEF ObjectInv
  <2>1. CASE q = o
    BY <2>1
  <2>2. CASE q # o
    <3>1. ObjectOK(q, phase[q], step[q], held[q], todo[q])
      BY DEF LifeInv, ObjectInv
    <3> QED BY <2>2, <3>1 DEF OnlyTouches
  <2> QED BY <2>1, <2>2
<1>2. ASSUME NEW q \in Objects \ {Context}, phase'[q] # "absent"
      PROVE  phase'[Context] = "live"
  <2>1. Context \in Objects
    BY KindsAreDistinct
  <2>2. phase[Context] = "live"
    BY <1>2 DEF LifeInv, TreeInv, OnlyTouches
  <2>3. CASE o = Context
    <3>1. phase[q] # "absent"
      BY <1>2, <2>3 DEF OnlyTouches
    <3> QED BY <2>2, <2>3, <3>1
  <2>4. CASE o # Context
    BY <2>1, <2>2, <2>4 DEF OnlyTouches
  <2> QED BY <2>3, <2>4
<1>3. ASSUME NEW e \in EndpointObjects,
             phase'[e] = "creating" \/ "graph_endpoint" \in held'[e]
      PROVE  phase'[NodeOf[e]] = "live"
  <2>1. /\ NodeOf[e] \in Nodes /\ NodeOf[e] \in Objects /\ e \in Objects
        /\ e # NodeOf[e]
    BY ObjectsAreDistinct, KindsAreDistinct
  <2>2. phase[NodeOf[e]] = "live"
    BY <1>3, <2>1 DEF LifeInv, TreeInv, OnlyTouches
  <2>3. CASE o = NodeOf[e]
    <3>1. phase[e] = "creating" \/ "graph_endpoint" \in held[e]
      BY <1>3, <2>1, <2>3 DEF OnlyTouches
    <3> QED BY <2>1, <2>2, <2>3, <3>1
  <2>4. CASE o # NodeOf[e]
    BY <2>1, <2>2, <2>4 DEF OnlyTouches
  <2> QED BY <2>3, <2>4
<1>4. TreeInv'
  BY <1>2, <1>3 DEF TreeInv
<1> QED BY <1>1, <1>4 DEF LifeInv

\* What the invariant says of o, as constants.
LEMMA ObjectHas ==
    ASSUME LifeInv, NEW o \in Objects
    PROVE  /\ phase[o] \in Phases /\ step[o] \in Nat
           /\ held[o] \in SUBSET Resources /\ todo[o] \in Seq(Resources)
           /\ ObjectOK(o, phase[o], step[o], held[o], todo[o])
           /\ Context \in Objects
           /\ o # Context /\ phase[o] # "absent" => phase[Context] = "live"
           /\ o \in EndpointObjects
                /\ (phase[o] = "creating" \/ "graph_endpoint" \in held[o]) =>
                    phase[NodeOf[o]] = "live"
<1>1. /\ phase[o] \in Phases /\ step[o] \in Nat
      /\ held[o] \in SUBSET Resources /\ todo[o] \in Seq(Resources)
  BY DEF LifeInv, TypeInv
<1>2. ObjectOK(o, phase[o], step[o], held[o], todo[o])
  BY DEF LifeInv, ObjectInv
<1>3. Context \in Objects
  BY KindsAreDistinct
<1> QED BY <1>1, <1>2, <1>3 DEF LifeInv, TreeInv

\* A create function starts with nothing, under a live parent.
LEMMA CreateKeeps ==
    ASSUME LifeInv, NEW o \in Objects, Create(o)
    PROVE  LifeInv'
<1>1. TypeInv' /\ OnlyTouches(o)
  BY DEF LifeInv, TypeInv, Create, Phases, OnlyTouches
<1>2. phase[o] = "absent" /\ phase'[o] = "creating" /\ step'[o] = 1
      /\ held'[o] = held[o] /\ todo'[o] = todo[o]
  BY DEF LifeInv, TypeInv, Create
<1>3. ObjectOK(o, "absent", step[o], held[o], todo[o])
  BY <1>2, ObjectHas
<1>4. held[o] = {} /\ todo[o] = <<>>
  BY <1>3 DEF ObjectOK
<1>5. Prefix(Acquires(o), 0) = {} /\ Len(Acquires(o)) \in Nat
  <2>1. Acquires(o) \in Seq(SUBSET Resources)
    BY Tables DEF TableOK
  <2> QED BY <2>1, PrefixNext
<1>6. ObjectOK(o, "creating", 1, {}, <<>>)
  BY <1>5 DEF ObjectOK, Backed
<1>7. o # Context => phase[Context] = "live"
  <2>1. CASE o \in EndpointObjects
    <3>1. phase[NodeOf[o]] = "live"
      BY <2>1, KindsAreDistinct DEF Create, MayCreate
    <3>2. NodeOf[o] \in Objects \ {Context}
      BY <2>1, ObjectsAreDistinct, KindsAreDistinct
    <3> QED BY <3>1, <3>2 DEF LifeInv, TreeInv
  <2>2. CASE o \notin EndpointObjects
    BY <2>2 DEF Create, MayCreate
  <2> QED BY <2>1, <2>2
<1>8. o \in EndpointObjects => phase[NodeOf[o]] = "live"
  BY KindsAreDistinct DEF Create, MayCreate
<1> QED BY <1>1, <1>2, <1>4, <1>6, <1>7, <1>8, StepKeeps

\* One more step of a create function.
LEMMA AcquireKeeps ==
    ASSUME LifeInv, NEW o \in Objects, Acquire(o)
    PROVE  LifeInv'
<1>0. PICK a, u, d : a = Acquires(o) /\ TableOK(a, u, d)
  BY Tables
<1>1. PICK n \in Nat, h \in SUBSET Resources :
        /\ n = step[o] /\ h = held[o]
        /\ ObjectOK(o, "creating", n, h, todo[o])
        /\ n <= Len(a)
  BY <1>0, ObjectHas DEF Acquire
<1>2. /\ n \in 1 .. Len(a) /\ h = Prefix(a, n - 1) /\ todo[o] = <<>>
      /\ Len(a) \in Nat
  BY <1>0, <1>1 DEF ObjectOK, TableOK
<1>3. a[n] \in SUBSET Resources
  BY <1>0, <1>2 DEF TableOK
<1>4. /\ phase' = phase /\ todo' = todo
      /\ step' = [step EXCEPT ![o] = n + 1]
      /\ held' = [held EXCEPT ![o] = h \cup a[n]]
  BY <1>0, <1>1 DEF Acquire
<1>5. TypeInv' /\ OnlyTouches(o)
  BY <1>3, <1>4 DEF LifeInv, TypeInv, OnlyTouches
<1>6. /\ phase[o] = "creating" /\ phase'[o] = phase[o] /\ todo'[o] = todo[o]
      /\ step'[o] = n + 1 /\ held'[o] = h \cup a[n]
  BY <1>4 DEF LifeInv, TypeInv, Acquire
<1>7. h \cup a[n] = Prefix(a, n)
  <2>1. PICK m \in Nat : n = m + 1 /\ m = n - 1
    <3>1. n - 1 \in Nat /\ n = (n - 1) + 1
      BY <1>2
    <3> QED BY <3>1
  <2>2. Prefix(a, m + 1) = Prefix(a, m) \cup a[m + 1]
    BY PrefixNext
  <2> QED BY <1>2, <2>1, <2>2
<1>8. Backed(h \cup a[n])
  <2>1. n - 1 \in Nat /\ n - 1 < Len(a) /\ (n - 1) + 1 = n
    BY <1>2
  <2>2. EntersGraphLast(a)
    BY <1>0 DEF TableOK
  <2>3. PICK m \in Nat : m = n - 1 /\ m < Len(a) /\ m + 1 = n
    BY <2>1
  <2>4. Backed(Prefix(a, m) \cup a[m + 1])
    BY <1>2, <2>2, <2>3, PrefixBacked
  <2> QED BY <1>2, <2>3, <2>4
<1>9. ObjectOK(o, "creating", n + 1, h \cup a[n], <<>>)
  <2>1. n + 1 \in 1 .. Len(a) + 1 /\ (n + 1) - 1 = n
    BY <1>2
  <2> QED BY <1>0, <1>7, <1>8, <2>1 DEF ObjectOK
<1>10. ObjectOK(o, phase'[o], step'[o], held'[o], todo'[o])
  BY <1>2, <1>6, <1>9
<1>11. o \in EndpointObjects => phase[NodeOf[o]] = "live"
  BY <1>6, ObjectHas
<1>12. o # Context => phase[Context] = "live"
  BY <1>6, ObjectHas
<1> QED BY <1>5, <1>6, <1>10, <1>11, <1>12, StepKeeps

\* Whatever step of the create function fails, and whatever part of it had
\* succeeded, the clean-up code has everything in hand.
LEMMA FailKeeps ==
    ASSUME LifeInv, NEW o \in Objects, Fail(o)
    PROVE  LifeInv'
<1>0. PICK a, u, d : /\ a = Acquires(o) /\ u = Unwinds(o)
                     /\ TableOK(a, u, d)
  BY Tables
<1>1. PICK n \in Nat, h \in SUBSET Resources :
        /\ n = step[o] /\ h = held[o]
        /\ ObjectOK(o, "creating", n, h, todo[o])
        /\ n <= Len(a)
  BY <1>0, ObjectHas DEF Fail
<1>2. /\ n \in 1 .. Len(a) /\ h = Prefix(a, n - 1)
      /\ a \in Seq(SUBSET Resources) /\ u \in Seq(Resources) /\ InOrder(u)
  BY <1>0, <1>1 DEF ObjectOK, TableOK
<1>3. PICK got \in SUBSET a[n] :
        /\ got # a[n] \/ got = {}
        /\ held' = [held EXCEPT ![o] = h \cup got]
        /\ todo' = [todo EXCEPT ![o] = Compact(u, h \cup got)]
  BY <1>0, <1>1 DEF Fail, HeldOf
<1>4. PICK k \in SUBSET Resources : k = h \cup got
  <2>1. a[n] \in SUBSET Resources
    BY <1>2
  <2> QED BY <2>1
<1>5. PICK t \in Seq(Resources) :
        /\ t = Compact(u, k) /\ InOrder(t) /\ Range(t) \subseteq k
  BY <1>2, CompactInOrder
<1>6. /\ phase' = [phase EXCEPT ![o] = "releasing"] /\ step' = step
      /\ held' = [held EXCEPT ![o] = k] /\ todo' = [todo EXCEPT ![o] = t]
  BY <1>3, <1>4, <1>5 DEF Fail
<1>7. TypeInv' /\ OnlyTouches(o)
  BY <1>6 DEF LifeInv, TypeInv, OnlyTouches, Phases
<1>8. /\ phase[o] = "creating" /\ phase'[o] = "releasing"
      /\ held'[o] = k /\ todo'[o] = t
  BY <1>6 DEF LifeInv, TypeInv, Fail
<1>9. \A x \in k : Covers(t, x)
  BY <1>0, <1>2, <1>3, <1>4, <1>5, FailCovers
<1>10. Backed(k)
  <2>1. n - 1 \in Nat /\ n - 1 < Len(a) /\ (n - 1) + 1 = n /\ Len(a) \in Nat
    BY <1>2
  <2>2. EntersGraphLast(a)
    BY <1>0 DEF TableOK
  <2>3. PICK m \in Nat : m = n - 1 /\ m < Len(a) /\ m + 1 = n
    BY <2>1
  <2>4. Backed(Prefix(a, m) \cup got)
    BY <2>1, <2>2, <2>3, PrefixBacked
  <2> QED BY <1>2, <1>4, <2>3, <2>4
<1>11. ObjectOK(o, "releasing", step'[o], k, t)
  BY <1>5, <1>9, <1>10 DEF ObjectOK, ReleaseOK
<1>12. o \in EndpointObjects => phase[NodeOf[o]] = "live"
  BY <1>8, ObjectHas
<1>13. o # Context => phase[Context] = "live"
  BY <1>8, ObjectHas
<1> QED BY <1>7, <1>8, <1>11, <1>12, <1>13, StepKeeps

\* A completed object keeps all but the temporaries.
LEMMA CreatedKeeps ==
    ASSUME LifeInv, NEW o \in Objects, Created(o)
    PROVE  LifeInv'
<1>0. PICK a, u, d : a = Acquires(o) /\ TableOK(a, u, d)
  BY Tables
<1>1. PICK n \in Nat, h \in SUBSET Resources :
        /\ n = step[o] /\ h = held[o]
        /\ ObjectOK(o, "creating", n, h, todo[o])
        /\ n > Len(a)
  BY <1>0, ObjectHas DEF Created
<1>2. Len(a) \in Nat
  BY <1>0 DEF TableOK
<1>3. n \in 1 .. Len(a) + 1 /\ h = Prefix(a, n - 1) /\ todo[o] = <<>> /\ Backed(h)
  BY <1>0, <1>1 DEF ObjectOK
<1>4. h = Prefix(a, Len(a))
  <2>1. n - 1 = Len(a)
    BY <1>1, <1>2, <1>3
  <2> QED BY <1>3, <2>1
<1>5. Backed(h \ Temporaries)
  BY <1>3 DEF Backed, Temporaries, GraphEntries
<1>6. ObjectOK(o, "live", 1, h \ Temporaries, <<>>)
  BY <1>0, <1>4, <1>5 DEF ObjectOK
<1>7. /\ phase' = [phase EXCEPT ![o] = "live"]
      /\ step' = [step EXCEPT ![o] = 1]
      /\ held' = [held EXCEPT ![o] = h \ Temporaries] /\ todo' = todo
  BY <1>1 DEF Created
<1>8. TypeInv' /\ OnlyTouches(o)
  BY <1>7 DEF LifeInv, TypeInv, OnlyTouches, Phases
<1>9. /\ phase[o] = "creating" /\ phase'[o] = "live" /\ step'[o] = 1
      /\ held'[o] = h \ Temporaries /\ todo'[o] = <<>>
  BY <1>3, <1>7 DEF LifeInv, TypeInv, Created
<1>10. o \in EndpointObjects => phase[NodeOf[o]] = "live"
  BY <1>9, ObjectHas
<1>11. o # Context => phase[Context] = "live"
  BY <1>9, ObjectHas
<1> QED BY <1>6, <1>8, <1>9, <1>10, <1>11, StepKeeps

\* The destroy function of a live object has everything in hand.
LEMMA DestroyKeeps ==
    ASSUME LifeInv, NEW o \in Objects, Destroy(o)
    PROVE  LifeInv'
<1>0. PICK a, u, d : /\ a = Acquires(o) /\ d = Destroys(o)
                     /\ TableOK(a, u, d)
  BY Tables
<1>1. PICK h \in SUBSET Resources :
        h = held[o] /\ ObjectOK(o, "live", step[o], h, todo[o])
  BY ObjectHas DEF Destroy
<1>2. h = Prefix(a, Len(a)) \ Temporaries /\ Backed(h)
  BY <1>0, <1>1 DEF ObjectOK
<1>3. d \in Seq(Resources) /\ InOrder(d)
  BY <1>0 DEF TableOK
<1>4. Range(d) \subseteq h /\ \A x \in h : Covers(d, x)
  BY <1>0, <1>2, DestroyCovers
<1>5. /\ phase' = [phase EXCEPT ![o] = "releasing"]
      /\ todo' = [todo EXCEPT ![o] = d] /\ step' = step /\ held' = held
  BY <1>0 DEF Destroy
<1>6. TypeInv' /\ OnlyTouches(o)
  BY <1>3, <1>5 DEF LifeInv, TypeInv, OnlyTouches, Phases
<1>7. /\ phase[o] = "live" /\ phase'[o] = "releasing"
      /\ held'[o] = h /\ todo'[o] = d
  BY <1>1, <1>5 DEF LifeInv, TypeInv, Destroy
<1>8. ObjectOK(o, "releasing", step'[o], h, d)
  BY <1>2, <1>3, <1>4 DEF ObjectOK, ReleaseOK
<1>9. o # Context => phase[Context] = "live"
  BY <1>7, ObjectHas
<1>10. o = Context => \A q \in Objects \ {Context} : phase[q] = "absent"
  BY KindsAreDistinct DEF Destroy, MayDestroy
<1>11. o \in EndpointObjects /\ "graph_endpoint" \in held'[o] =>
            phase[NodeOf[o]] = "live"
  BY <1>1, <1>7, ObjectHas
<1>12. o \in Nodes => \A e \in EndpointObjects : NodeOf[e] = o =>
            phase[e] # "creating" /\ "graph_endpoint" \notin held[e]
  BY KindsAreDistinct DEF Destroy, MayDestroy
<1> QED BY <1>6, <1>7, <1>8, <1>9, <1>10, <1>11, <1>12, StepKeeps

\* One release, with the children that dds_delete takes along.
LEMMA ReleaseKeeps ==
    ASSUME LifeInv, NEW o \in Objects, Release(o)
    PROVE  LifeInv'
<1>1. PICK h \in SUBSET Resources, t \in Seq(Resources) :
        /\ h = held[o] /\ t = todo[o] /\ t # <<>>
        /\ ObjectOK(o, "releasing", step[o], h, t)
  BY ObjectHas DEF Release
<1>2. ReleaseOK(h, t) /\ Backed(h)
  BY <1>1 DEF ObjectOK
<1>3. PICK k \in SUBSET Resources : k = h \ ({Head(t)} \cup Children(Head(t)))
  OBVIOUS
<1>4. Tail(t) \in Seq(Resources) /\ ReleaseOK(k, Tail(t)) /\ Backed(k)
  BY <1>1, <1>2, <1>3, ReleaseNext
<1>5. PICK r \in Seq(Resources) : r = Tail(t)
  BY <1>4
<1>6. /\ held' = [held EXCEPT ![o] = k] /\ todo' = [todo EXCEPT ![o] = r]
      /\ phase' = phase /\ step' = step
  BY <1>1, <1>3, <1>5 DEF Release
<1>7. TypeInv' /\ OnlyTouches(o)
  BY <1>6 DEF LifeInv, TypeInv, OnlyTouches
<1>8. /\ phase[o] = "releasing" /\ phase'[o] = "releasing"
      /\ held'[o] = k /\ todo'[o] = r
  BY <1>6 DEF LifeInv, TypeInv, Release
<1>9. ObjectOK(o, "releasing", step'[o], k, r)
  BY <1>4, <1>5 DEF ObjectOK
<1>10. o # Context => phase[Context] = "live"
  BY <1>8, ObjectHas
<1>11. o \in EndpointObjects /\ "graph_endpoint" \in held'[o] =>
            phase[NodeOf[o]] = "live"
  BY <1>1, <1>3, <1>8, ObjectHas
<1> QED BY <1>7, <1>8, <1>9, <1>10, <1>11, StepKeeps

\* When nothing is left to release, nothing is held.
LEMMA ReleasedKeeps ==
    ASSUME LifeInv, NEW o \in Objects, Released(o)
    PROVE  LifeInv'
<1>1. PICK h \in SUBSET Resources :
        h = held[o] /\ ObjectOK(o, "releasing", step[o], h, <<>>)
  BY ObjectHas DEF Released
<1>2. h = {}
  <2>1. \A x \in h : Covers(<<>>, x)
    BY <1>1 DEF ObjectOK, ReleaseOK
  <2>2. \A x : ~Covers(<<>>, x)
    BY DEF Covers
  <2> QED BY <2>1, <2>2
<1>3. ObjectOK(o, "absent", 1, {}, <<>>)
  BY DEF ObjectOK, Backed
<1>4. /\ phase' = [phase EXCEPT ![o] = "absent"]
      /\ step' = [step EXCEPT ![o] = 1] /\ held' = held /\ todo' = todo
  BY DEF Released
<1>5. TypeInv' /\ OnlyTouches(o)
  BY <1>4 DEF LifeInv, TypeInv, OnlyTouches, Phases
<1>6. /\ phase[o] = "releasing" /\ phase'[o] = "absent" /\ step'[o] = 1
      /\ held'[o] = {} /\ todo'[o] = <<>>
  BY <1>1, <1>2, <1>4 DEF LifeInv, TypeInv, Released
<1> QED BY <1>3, <1>5, <1>6, StepKeeps

\* At first there is no object.
LEMMA InitHolds == Init => LifeInv
<1> SUFFICES ASSUME Init PROVE LifeInv
  OBVIOUS
<1>1. TypeInv
  <2>1. <<>> \in Seq(Resources)
    OBVIOUS
  <2> QED BY <2>1 DEF Init, TypeInv, Phases
<1>2. \A o \in Objects : ObjectOK(o, "absent", 1, {}, <<>>)
  BY DEF ObjectOK, Backed
<1>3. ObjectInv
  BY <1>2 DEF Init, ObjectInv
<1>4. TreeInv
  BY KindsAreDistinct DEF Init, TreeInv
<1> QED BY <1>1, <1>3, <1>4 DEF LifeInv

\* The inductive invariant: what an object holds is what its create function
\* has acquired so far, or is covered, in order, by what its clean-up code or
\* destroy function has still to release; and no object outlives its parent.
THEOREM LifeInvAlways == Spec => []LifeInv
<1>1. LifeInv /\ [Next]_vars => LifeInv'
  <2> SUFFICES ASSUME LifeInv, [Next]_vars PROVE LifeInv'
    OBVIOUS
  <2>1. ASSUME NEW o \in Objects,
               \/ Create(o) \/ Acquire(o) \/ Fail(o) \/ Created(o)
               \/ Destroy(o) \/ Release(o) \/ Released(o)
        PROVE  LifeInv'
    BY <2>1, CreateKeeps, AcquireKeeps, FailKeeps, CreatedKeeps, DestroyKeeps,
       ReleaseKeeps, ReleasedKeeps
  <2>2. CASE UNCHANGED <<phase, step, held, todo>>
    BY <2>2 DEF LifeInv, TypeInv, ObjectInv, TreeInv
  <2>3. rmw_shutdown => UNCHANGED <<phase, step, held, todo>>
    BY DEF rmw_shutdown
  <2>4. UNCHANGED vars => UNCHANGED <<phase, step, held, todo>>
    BY DEF vars
  <2> QED BY <2>1, <2>2, <2>3, <2>4 DEF Next
<1> QED BY <1>1, InitHolds, PTL DEF Spec

\* NothingLeaks: an object that is gone, destroyed or never completed, holds
\* nothing, whatever acquisition of rmw_init or of a create function failed.
THEOREM NothingEverLeaks == Spec => []NothingLeaks
<1>1. LifeInv => NothingLeaks
  <2> SUFFICES ASSUME LifeInv, NEW o \in Objects, phase[o] = "absent"
               PROVE  held[o] = {}
    BY DEF NothingLeaks
  <2>1. ObjectOK(o, "absent", step[o], held[o], todo[o])
    BY ObjectHas
  <2> QED BY <2>1 DEF ObjectOK
<1> QED BY <1>1, LifeInvAlways, PTL

\* NothingIsReleasedTwice: the clean-up code and the destroy functions release
\* only what is held, and nothing that went with its parent.
THEOREM NothingEverReleasedTwice == Spec => []NothingIsReleasedTwice
<1>1. LifeInv => NothingIsReleasedTwice
  <2> SUFFICES ASSUME LifeInv, NEW o \in Objects
               PROVE  /\ Range(todo[o]) \subseteq held[o]
                      /\ \A i, j \in 1 .. Len(todo[o]) :
                            i # j => todo[o][i] # todo[o][j]
    BY DEF NothingIsReleasedTwice
  <2>1. PICK p \in Phases, n \in Nat, h \in SUBSET Resources,
             t \in Seq(Resources) :
            ObjectOK(o, p, n, h, t) /\ h = held[o] /\ t = todo[o]
    BY ObjectHas
  <2>2. CASE p = "releasing"
    <3>1. InOrder(t) /\ Range(t) \subseteq h
      BY <2>1, <2>2 DEF ObjectOK, ReleaseOK
    <3>2. ASSUME NEW i \in 1 .. Len(t), NEW j \in 1 .. Len(t), i # j
          PROVE  t[i] # t[j]
      <4>1. i < j \/ j < i
        BY <3>2
      <4> QED BY <3>1, <4>1 DEF InOrder, MayFollow
    <3> QED BY <2>1, <3>1, <3>2
  <2>3. CASE p # "releasing"
    <3>1. t = <<>>
      BY <2>1, <2>3 DEF ObjectOK
    <3>2. Range(t) = {t[i] : i \in 1 .. Len(t)}
      BY RangeOfSequence
    <3> QED BY <2>1, <3>1, <3>2
  <2> QED BY <2>2, <2>3
<1> QED BY <1>1, LifeInvAlways, PTL

\* GraphEntriesAreBacked: an endpoint in the local graph or in the cache has its
\* DDS entity, its node and its context.
THEOREM GraphEntriesAlwaysBacked == Spec => []GraphEntriesAreBacked
<1>1. LifeInv => GraphEntriesAreBacked
  <2> SUFFICES ASSUME LifeInv, NEW e \in EndpointObjects,
                      held[e] \cap {"graph_endpoint", "cache_endpoint"} # {}
               PROVE  /\ "dds_entity" \in held[e]
                      /\ phase[NodeOf[e]] = "live"
                      /\ phase[Context] = "live"
    BY DEF GraphEntriesAreBacked
  <2>1. e \in Objects
    BY KindsAreDistinct
  <2>2. Backed(held[e])
    BY <2>1, ObjectHas DEF ObjectOK
  <2>3. "dds_entity" \in held[e] /\ "graph_endpoint" \in held[e]
    BY <2>2 DEF Backed, GraphEntries
  <2>4. phase[NodeOf[e]] = "live"
    BY <2>1, <2>3, ObjectHas
  <2>5. NodeOf[e] \in Objects /\ NodeOf[e] # Context
    BY ObjectsAreDistinct, KindsAreDistinct
  <2> QED BY <2>3, <2>4, <2>5, ObjectHas
<1> QED BY <1>1, LifeInvAlways, PTL
=============================================================================
