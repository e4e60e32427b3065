----------------------------- MODULE Lifecycle -----------------------------
(***************************************************************************)
(* Creation and destruction of the context, of nodes, publishers and       *)
(* subscriptions, guard conditions and wait sets, as a ledger of what each *)
(* object holds: memory, DDS entities, its entry in the local graph and    *)
(* its entry in the graph cache.  Every acquisition may fail; the object   *)
(* then runs the clean-up code of its create function.  Objects are        *)
(* created and destroyed by several threads, one step at a time.           *)
(*                                                                         *)
(* As the RMW API demands, an application does not destroy an object that  *)
(* another call in progress was given.                                     *)
(***************************************************************************)
EXTENDS Naturals, Sequences, FiniteSets, SequencesExt, Compaction

CONSTANTS Context, Nodes, Publishers, Subscriptions, Guards, WaitSets,
          NodeOf,           \* endpoint -> the node it is created on
          MaxCalls          \* bound: create and destroy calls in progress

EndpointObjects == Publishers \cup Subscriptions

Instances ==
    [context |-> {Context}, node |-> Nodes, publisher |-> Publishers,
     subscription |-> Subscriptions, guard |-> Guards, wait_set |-> WaitSets]
Kinds == DOMAIN Instances
Objects == UNION Range(Instances)
KindOf(o) == CHOOSE kind \in Kinds : o \in Instances[kind]

ASSUME ObjectsAreDistinct ==
    /\ \A k, l \in Kinds : k # l => Instances[k] \cap Instances[l] = {}
    /\ NodeOf \in [EndpointObjects -> Nodes]
    /\ MaxCalls \in Nat \ {0}

VARIABLES
    phase,      \* object -> "absent", "creating", "live" or "releasing"
    step,       \* object -> the next acquisition of its create function
    held,       \* object -> the resources it holds
    todo,       \* object -> the resources still to release, in order
    shutdown    \* context->impl->shutdown

vars == <<phase, step, held, todo, shutdown>>

-----------------------------------------------------------------------------
(* The create and destroy functions as tables *)

\* rmw_init_options_copy of the application's options.  The discovery options
\* are initialised, finalised and copied.
OptionsAcquires == << {"discovery"}, {"security"}, {"enclave"} >>

\* create_graph_writer and create_graph_readers.
GraphWriterAcquires == << {"graph_topic"}, {"graph_writer"} >>
GraphReadersAcquires ==
    << {"graph_reader"}, {"participant_reader"}, {"publication_reader"},
       {"subscription_reader"} >>

\* get_domain_id acquires nothing but can fail.
DomainIdAcquires == << {} >>

\* rmw_init acquires, in this order.
ContextAcquires ==
    DomainIdAcquires \o << {"impl"}, {"domain"}, {"participant"} >>
        \o GraphWriterAcquires \o << {"graph_guard"} >>
        \o GraphReadersAcquires \o OptionsAcquires

\* rmw_create_node tries both allocations of a pair before it checks either.
NodeAcquires ==
    << {"node", "node_data"}, {"name", "namespace"}, {"graph_node"} >>

\* rmw_create_publisher.  The empty step is dds_get_guid, which can fail too.
PublisherAcquires ==
    << {"handle"}, {"topic_name"}, {"endpoint", "dds_topic_name", "dds_qos"},
       {"dds_sample"}, {"dds_topic"}, {"dds_entity"}, {},
       {"graph_endpoint"}, {"cache_endpoint"} >>

\* rmw_create_subscription adds the read condition.
SubscriptionAcquires ==
    << {"handle"}, {"topic_name"}, {"endpoint", "dds_topic_name", "dds_qos"},
       {"dds_sample"}, {"dds_topic"}, {"dds_entity"}, {"condition"}, {},
       {"graph_endpoint"}, {"cache_endpoint"} >>

GuardAcquires == << {"guard_condition", "data"}, {"entity"} >>

\* rmw_create_wait_set, after the capacity is known not to overflow.
WaitSetAcquires ==
    << {"wait_set", "data"}, {"attached", "triggered"}, {"waitset"} >>

AcquiresOf ==
    [context |-> ContextAcquires, node |-> NodeAcquires,
     publisher |-> PublisherAcquires, subscription |-> SubscriptionAcquires,
     guard |-> GuardAcquires, wait_set |-> WaitSetAcquires]
Acquires(o) == AcquiresOf[KindOf(o)]

\* The clean-up code of the create functions, for what is held at the failure.
\* rmw_init_options_fini of the copy, then rmw_init's own clean-up.
OptionsReleases == <<"discovery", "security", "enclave">>
ContextUnwinds == OptionsReleases \o <<"participant", "domain", "impl">>
NodeUnwinds == <<"name", "namespace", "node_data", "node">>
\* Mutant: the topic is forgotten.
EndpointUnwindsWithoutTopic ==
    <<"graph_endpoint", "dds_qos", "dds_topic_name", "dds_entity",
      "dds_sample", "endpoint", "topic_name", "handle">>

\* graph_remove_endpoint runs only after graph_cache_upsert_endpoint failed;
\* the fail label has no case for the read condition.
EndpointUnwinds ==
    <<"graph_endpoint", "dds_qos", "dds_topic_name", "dds_entity",
      "dds_topic", "dds_sample", "endpoint", "topic_name", "handle">>

GuardUnwinds == <<"data", "guard_condition">>
WaitSetUnwinds == <<"attached", "triggered", "data", "wait_set">>

UnwindsOf ==
    [context |-> ContextUnwinds, node |-> NodeUnwinds,
     publisher |-> EndpointUnwinds, subscription |-> EndpointUnwinds,
     guard |-> GuardUnwinds, wait_set |-> WaitSetUnwinds]
Unwinds(o) == UnwindsOf[KindOf(o)]

\* What a successful creation no longer needs.
Temporaries == {"dds_topic_name", "dds_qos"}

\* rmw_context_fini and the destroy functions.  Errors on the way change the
\* returned code only.
ContextDestroys == <<"participant", "domain">> \o OptionsReleases \o <<"impl">>
NodeDestroys == <<"graph_node", "name", "namespace", "node_data", "node">>
PublisherDestroys ==
    <<"cache_endpoint", "graph_endpoint", "dds_entity", "dds_topic",
      "dds_sample", "endpoint", "topic_name", "handle">>
\* Mutant: the reader goes first.
SubscriptionDestroysReaderFirst ==
    <<"cache_endpoint", "graph_endpoint", "dds_entity", "condition",
      "dds_topic", "dds_sample", "endpoint", "topic_name", "handle">>

SubscriptionDestroys ==
    <<"cache_endpoint", "graph_endpoint", "condition", "dds_entity",
      "dds_topic", "dds_sample", "endpoint", "topic_name", "handle">>

GuardDestroys == <<"entity", "data", "guard_condition">>
WaitSetDestroys ==
    <<"waitset", "attached", "triggered", "data", "wait_set">>

DestroysOf ==
    [context |-> ContextDestroys, node |-> NodeDestroys,
     publisher |-> PublisherDestroys, subscription |-> SubscriptionDestroys,
     guard |-> GuardDestroys, wait_set |-> WaitSetDestroys]
Destroys(o) == DestroysOf[KindOf(o)]

\* dds_delete deletes the children of an entity with it.
Children(resource) ==
    CASE resource = "participant" ->
            {"graph_topic", "graph_writer", "graph_guard", "graph_reader",
             "participant_reader", "publication_reader", "subscription_reader"}
      [] resource = "dds_entity" -> {"condition"}
      [] OTHER -> {}

-----------------------------------------------------------------------------
Init ==
    /\ phase = [o \in Objects |-> "absent"]
    /\ step = [o \in Objects |-> 1]
    /\ held = [o \in Objects |-> {}]
    /\ todo = [o \in Objects |-> <<>>]
    /\ shutdown = FALSE

CallsInProgress ==
    Cardinality({o \in Objects : phase[o] \in {"creating", "releasing"}})

\* The early returns of the create functions.  rmw_shutdown makes them refuse
\* nodes, guard conditions and wait sets, but not endpoints.
MayCreate(o) ==
    \/ o = Context
    \/ /\ o \in Nodes \cup Guards \cup WaitSets
       /\ phase[Context] = "live"
       /\ ~shutdown
    \/ o \in EndpointObjects /\ phase[NodeOf[o]] = "live"

Create(o) ==
    /\ phase[o] = "absent"
    /\ CallsInProgress < MaxCalls
    /\ MayCreate(o)
    /\ phase' = [phase EXCEPT ![o] = "creating"]
    /\ step' = [step EXCEPT ![o] = 1]
    /\ shutdown' = (shutdown /\ o # Context)
    /\ UNCHANGED <<held, todo>>

\* The next acquisition succeeds.
Acquire(o) ==
    /\ phase[o] = "creating"
    /\ step[o] <= Len(Acquires(o))
    /\ held' = [held EXCEPT ![o] = @ \cup Acquires(o)[step[o]]]
    /\ step' = [step EXCEPT ![o] = @ + 1]
    /\ UNCHANGED <<phase, todo, shutdown>>

\* The entries of list that are held, in order.
HeldOf(list, resources) == Compact(list, resources)

\* The next acquisition fails, a pair or triple possibly in part; the create
\* function releases what it holds.
Fail(o) ==
    /\ phase[o] = "creating"
    /\ step[o] <= Len(Acquires(o))
    /\ \E got \in SUBSET Acquires(o)[step[o]] :
        /\ got # Acquires(o)[step[o]] \/ got = {}
        /\ held' = [held EXCEPT ![o] = @ \cup got]
        /\ todo' = [todo EXCEPT ![o] = HeldOf(Unwinds(o), held[o] \cup got)]
    /\ phase' = [phase EXCEPT ![o] = "releasing"]
    /\ UNCHANGED <<step, shutdown>>

Created(o) ==
    /\ phase[o] = "creating"
    /\ step[o] > Len(Acquires(o))
    /\ held' = [held EXCEPT ![o] = @ \ Temporaries]
    /\ phase' = [phase EXCEPT ![o] = "live"]
    /\ step' = [step EXCEPT ![o] = 1]
    /\ UNCHANGED <<todo, shutdown>>

rmw_shutdown ==
    /\ phase[Context] = "live"
    /\ shutdown' = TRUE
    /\ UNCHANGED <<phase, step, held, todo>>

\* Mutant: a node is destroyed whatever is in its slot.
MayDestroyAnyNode(o) ==
    \/ o = Context /\ shutdown
                   /\ \A n \in Objects \ {Context} : phase[n] = "absent"
    \/ o # Context

\* rmw_context_fini refuses before rmw_shutdown; graph_remove_node refuses
\* while the node has an endpoint in the graph.  That no call in progress was
\* given the object is the application's obligation.
MayDestroy(o) ==
    \/ o = Context /\ shutdown
                   /\ \A n \in Objects \ {Context} : phase[n] = "absent"
    \/ /\ o \in Nodes
       /\ \A e \in EndpointObjects : NodeOf[e] = o =>
            /\ phase[e] # "creating"
            /\ "graph_endpoint" \notin held[e]
    \/ o \in EndpointObjects \cup Guards \cup WaitSets

Destroy(o) ==
    /\ phase[o] = "live"
    /\ CallsInProgress < MaxCalls
    /\ MayDestroy(o)
    /\ phase' = [phase EXCEPT ![o] = "releasing"]
    /\ todo' = [todo EXCEPT ![o] = Destroys(o)]
    /\ UNCHANGED <<step, held, shutdown>>

Release(o) ==
    /\ phase[o] = "releasing"
    /\ todo[o] # <<>>
    /\ held' = [held EXCEPT ![o] = @ \ ({Head(todo[o])}
                                            \cup Children(Head(todo[o])))]
    /\ todo' = [todo EXCEPT ![o] = Tail(@)]
    /\ UNCHANGED <<phase, step, shutdown>>

Released(o) ==
    /\ phase[o] = "releasing"
    /\ todo[o] = <<>>
    /\ phase' = [phase EXCEPT ![o] = "absent"]
    /\ step' = [step EXCEPT ![o] = 1]
    /\ UNCHANGED <<held, todo, shutdown>>

Next ==
    \/ \E o \in Objects :
        \/ Create(o) \/ Acquire(o) \/ Fail(o) \/ Created(o)
        \/ Destroy(o) \/ Release(o) \/ Released(o)
    \/ rmw_shutdown

Spec == Init /\ [][Next]_vars

-----------------------------------------------------------------------------
(* Properties *)

\* Whatever acquisition failed, alone or in part, and however the object was
\* destroyed, nothing it acquired is left behind.
NothingLeaks == \A o \in Objects : phase[o] = "absent" => held[o] = {}

\* Clean-up and destruction release only what the object still holds: no
\* memory freed twice, no DDS entity deleted after its parent took it along.
NothingIsReleasedTwice ==
    \A o \in Objects :
        /\ Range(todo[o]) \subseteq held[o]
        /\ \A i, j \in 1 .. Len(todo[o]) : i # j => todo[o][i] # todo[o][j]

\* An endpoint in the local graph, or in the cache, is backed by a DDS entity
\* that exists, and its node and context are still alive: endpoint->node is
\* valid whenever graph_remove_endpoint follows it.
GraphEntriesAreBacked ==
    \A e \in EndpointObjects :
        held[e] \cap {"graph_endpoint", "cache_endpoint"} # {} =>
            /\ "dds_entity" \in held[e]
            /\ phase[NodeOf[e]] = "live"
            /\ phase[Context] = "live"
=============================================================================
