------------------------------ MODULE RosGraph ------------------------------
(***************************************************************************)
(* The ROS graph from end to end: what a remote participant does to its    *)
(* nodes and endpoints, through discovery and the graph cache, up to the   *)
(* answers an application gets that waits for the graph guard condition    *)
(* and then queries.                                                       *)
(*                                                                         *)
(* The remote participant is GraphTable, which LocalGraph implements: each *)
(* step of it publishes the changed table as a snapshot.  Around it the    *)
(* create and destroy functions create and delete the DDS entity, in the   *)
(* code's order.  The receiving side is GraphCache.  Snapshots and built-  *)
(* in samples travel through different readers and listener threads, so    *)
(* either may be arbitrarily late.                                         *)
(*                                                                         *)
(* A query holds graph_cache_lock over all its passes; the passes are      *)
(* steps, so that other threads could get in between if it did not.        *)
(***************************************************************************)
EXTENDS GraphCache, GraphQueries

CONSTANTS
    Remote,                     \* the one remote participant
    RemoteNodes,                \* names of the nodes it may have
    FirstNode, FirstEndpoints,  \* the node and endpoints it has throughout
    GRAPH_MAX_NODES,
    GRAPH_MAX_ENDPOINTS_PER_NODE,
    TopicOf, TypeOf,            \* endpoint -> DDS topic and type name
    AskedTopic,                 \* the ROS topic the application counts
    MaxFailures                 \* bound: allocations that fail in queries

ASSUME OneRemoteParticipant ==
    /\ Remotes = {Remote}
    /\ \A e \in Endpoints : OwnerOf[e] = Remote
    /\ DOMAIN TopicOf = Endpoints /\ DOMAIN TypeOf = Endpoints
    /\ FirstNode \in RemoteNodes
    /\ FirstEndpoints \subseteq Endpoints
    /\ MaxFailures \in Nat

\* A participant may write any table its own limits allow, and the cache has
\* room for it and for the endpoints there are; docs/graph-inbound.md gives the
\* limits.  GraphCache says what happens beyond them.
ASSUME TheGraphFits ==
    /\ GRAPH_MAX_NODES \in 1 .. GRAPH_CACHE_MAX_NODES
    /\ [size : 0 .. GRAPH_MAX_NODES, fits : {TRUE}] \subseteq Snapshots
    /\ GRAPH_CACHE_MAX_PARTICIPANTS >= 2
    /\ IsFiniteSet(Endpoints)
    /\ Cardinality(Endpoints) <= GRAPH_CACHE_MAX_ENDPOINTS
    /\ Oversized = {}

VARIABLES
    \* the remote participant
    members, owned,     \* its table of nodes and endpoints
    contents,           \* the nodes in each snapshot it wrote
    remote,             \* the create or destroy function in progress
    \* the application
    question,           \* the query it makes, again and again
    app,                \* the call in progress, with its output arguments
    failures,
    seen                \* the last answer

remoteVars == <<members, owned, contents, remote>>
appVars == <<app, failures, seen>>
allVars == <<vars, remoteVars, question, appVars>>

Table == INSTANCE GraphTable WITH Nodes <- RemoteNodes, Guids <- Endpoints

-----------------------------------------------------------------------------
(* The remote participant *)

RemoteIdle == [pc |-> "idle", endpoint |-> NULL]

KindOf(e) == IF e \in WriterEndpoints THEN "writer" ELSE "reader"

\* The nodes of the table as a snapshot lists them.
Listing(nodes, owns) ==
    LET order == SetToSeq(nodes)
    IN  [i \in 1 .. Len(order) |->
            [name |-> order[i],
             readers |-> owns[order[i]]["reader"],
             writers |-> owns[order[i]]["writer"]]]

\* graph_publish_locked, with the table as the operation changes it.
graph_publish ==
    /\ RemoteWrite(Remote, [size |-> Cardinality(members'), fits |-> TRUE])
    /\ contents' = Append(contents, Listing(members', owned'))

RemoteCreateNode(n) ==
    /\ remote = RemoteIdle
    /\ Table!AddNode(n)
    /\ graph_publish
    /\ UNCHANGED remote

RemoteDestroyNode(n) ==
    /\ remote = RemoteIdle
    /\ Table!RemoveNode(n)
    /\ graph_publish
    /\ UNCHANGED remote

\* The DDS entity comes first, then the announcement.
RemoteCreateEndpoint(e) ==
    /\ remote = RemoteIdle
    /\ EndpointAppears(e)
    /\ remote' = [pc |-> "created", endpoint |-> e]
    /\ UNCHANGED <<members, owned, contents>>

RemoteAnnounceEndpoint(n) ==
    /\ remote.pc = "created"
    /\ Table!AddEndpoint(n, KindOf(remote.endpoint), remote.endpoint)
    /\ graph_publish
    /\ remote' = RemoteIdle

\* Destruction announces first and deletes the entity last.
RemoteRetractEndpoint(n, e) ==
    /\ remote = RemoteIdle
    /\ e \notin FirstEndpoints
    /\ Table!RemoveEndpoint(n, KindOf(e), e)
    /\ graph_publish
    /\ remote' = [pc |-> "retracted", endpoint |-> e]

\* dds_delete, by a destroy function or by a create function that failed.
RemoteDeleteEndpoint ==
    /\ remote # RemoteIdle
    /\ EndpointIsLost(remote.endpoint)
    /\ remote' = RemoteIdle
    /\ UNCHANGED <<members, owned, contents>>

RemoteStep ==
    \/ \E n \in RemoteNodes : RemoteCreateNode(n) \/ RemoteDestroyNode(n)
    \/ \E e \in Endpoints : RemoteCreateEndpoint(e)
    \/ \E n \in RemoteNodes : RemoteAnnounceEndpoint(n)
    \/ \E n \in RemoteNodes, e \in Endpoints : RemoteRetractEndpoint(n, e)
    \/ RemoteDeleteEndpoint

-----------------------------------------------------------------------------
(* The cache as the queries see it *)

EndpointInfo(e) ==
    [guid |-> e, participant_guid |-> OwnerOf[e],
     writer |-> e \in WriterEndpoints, topic |-> TopicOf[e], type |-> TypeOf[e]]

ListedNode(listed) ==
    [participant_guid |-> Remote, readers |-> listed.readers,
     writers |-> listed.writers]

CachedListing == {contents[n.name[1]][n.name[2]] : n \in cached_nodes}

Cache ==
    [nodes |-> {ListedNode(listed) : listed \in CachedListing},
     endpoints |-> [i \in 1 .. Len(cached_endpoints) |->
                        EndpointInfo(cached_endpoints[i].guid)]]

-----------------------------------------------------------------------------
(* The application: wait for the graph guard, then query *)

\* The query it makes, each time the same one.
TopicQuestions == {"topics", "dds_topics"}
Questions == {"nodes", "publishers", "subscribers"} \cup TopicQuestions
no_demangle == question = "dds_topics"

AppWaits == [pc |-> "waiting", names |-> <<>>, counts |-> <<>>, types |-> <<>>]
AppAsks == [AppWaits EXCEPT !.pc = "asking"]

\* Mutant: graph_cache_lock is released between the passes.
CacheIsUnlockedBetweenPasses == TRUE

\* lock_graph_cache succeeds: no query is between its passes.
CacheIsUnlocked == app.pc \notin {"count", "fill"}

\* rmw_wait returns with the graph guard condition.
GraphGuardWakes ==
    /\ app.pc = "waiting"
    /\ TakeGraphGuard
    /\ app' = AppAsks
    /\ UNCHANGED <<failures, seen>>

\* The query returns; the application finalizes the output arguments.
Answer(value) == seen' = value /\ app' = AppWaits /\ UNCHANGED failures

rmw_get_node_names ==
    /\ question = "nodes"
    /\ app.pc = "asking"
    /\ Answer({listed.name : listed \in CachedListing})

rmw_count_publishers ==
    /\ question = "publishers"
    /\ app.pc = "asking"
    /\ Answer(graph_count_endpoints(Cache, AskedTopic, TRUE))

rmw_count_subscribers ==
    /\ question = "subscribers"
    /\ app.pc = "asking"
    /\ Answer(graph_count_endpoints(Cache, AskedTopic, FALSE))

\* The loop over the topics of rmw_get_topic_names_and_types, when the types of
\* the first Len(types) of them are filled in.
NextTopic(names, types) ==
    \/ /\ Len(types) = Len(names)
       /\ Answer({[name |-> names[i], types |-> Range(types[i])] :
                    i \in 1 .. Len(names)})
    \/ /\ Len(types) < Len(names)
       /\ app' = [app EXCEPT !.pc = "count", !.names = names, !.types = types]
       /\ UNCHANGED <<failures, seen>>

\* Its beginning: the output arguments have to be zero; they get one array entry
\* for each topic.
rmw_get_topic_names_and_types ==
    /\ question \in TopicQuestions
    /\ app = AppAsks
    /\ NextTopic(TopicNames(Cache, no_demangle), <<>>)

\* The topic whose types are counted or filled in.
CurrentTopic == app.names[Len(app.types) + 1]

CountPass ==
    /\ app.pc = "count"
    /\ app' = [app EXCEPT
                !.pc = "fill",
                !.counts =
                    Append(@, CountTypes(Cache, CurrentTopic, no_demangle))]
    /\ UNCHANGED <<failures, seen>>

FillPass ==
    /\ app.pc = "fill"
    /\ NextTopic(app.names,
                 Append(app.types, FillTypes(Cache, CurrentTopic, no_demangle)))

\* Mutant: the output arguments keep what was allocated so far.
AllocationFailsUncleaned ==
    /\ app.pc \in {"count", "fill"}
    /\ failures < MaxFailures
    /\ failures' = failures + 1
    /\ app' = [app EXCEPT !.pc = "asking"]
    /\ UNCHANGED seen

\* An allocation of rmw_get_topic_names_and_types fails: the outputs are
\* finalized, the application asks again.  A failure before the passes, or in
\* rmw_get_node_names, leaves everything as it was.
AllocationFails ==
    /\ app.pc \in {"count", "fill"}
    /\ failures < MaxFailures
    /\ failures' = failures + 1
    /\ app' = AppAsks
    /\ UNCHANGED seen

\* A step inside a query function.
Query ==
    \/ rmw_get_node_names
    \/ rmw_count_publishers
    \/ rmw_count_subscribers
    \/ rmw_get_topic_names_and_types
    \/ CountPass
    \/ FillPass

-----------------------------------------------------------------------------
\* The listeners of GraphCache; handling a sample takes graph_cache_lock.
Receiver(r) ==
    /\ \/ CacheIsUnlocked /\ Handle(r)
       \/ dds_take(r)
       \/ graph_cache_signal(r)
    /\ UNCHANGED <<remoteVars, question, appVars>>

Application ==
    /\ \/ GraphGuardWakes
       \/ Query /\ UNCHANGED vars
    /\ UNCHANGED <<remoteVars, question>>

\* The remote participant, its first node and first endpoints are discovered.
RosInit ==
    /\ members = {FirstNode}
    /\ owned = [n \in RemoteNodes |-> [kind \in {"reader", "writer"} |->
                    {e \in FirstEndpoints : n = FirstNode /\ KindOf(e) = kind}]]
    /\ contents = <<Listing(members, owned)>>
    /\ alive = [k \in Keys |-> k \in Participants \cup FirstEndpoints]
    /\ appearances = [k \in Keys |-> IF alive[k] /\ k # Self THEN 1 ELSE 0]
    /\ snapshots = [p \in Participants |->
                        IF p = Remote THEN <<[size |-> 1, fits |-> TRUE]>>
                                      ELSE <<>>]
    /\ queue = [r \in Readers |-> <<>>]
    /\ batch = [r \in Readers |-> <<>>]
    /\ local = LocalIdle
    /\ signalling = {}
    /\ cached_participants = Participants
    /\ cached_nodes = SampleNodes(LastSample(Remote))
    /\ cached_endpoints = SetToSeq({CachedAs(e) : e \in FirstEndpoints})
    /\ graph_guard = TRUE
    /\ unseen = TRUE
    /\ remote = RemoteIdle
    /\ question \in Questions
    /\ app = AppWaits
    /\ failures = 0
    /\ seen = NULL

RosNext ==
    \/ RemoteStep /\ UNCHANGED <<question, appVars>>
    \/ \E r \in Readers : Receiver(r)
    \/ Application
    \/ AllocationFails /\ UNCHANGED <<vars, remoteVars, question>>

RosSpec == RosInit /\ [][RosNext]_allVars

-----------------------------------------------------------------------------
(* Properties *)

\* The fill pass writes into an array that the count pass sized: it fills every
\* slot and writes nothing past the end, whatever endpoints are cached that no
\* node lists yet or any more.
FillMatchesCount ==
    app.pc = "fill" =>
        Len(FillTypes(Cache, CurrentTopic, no_demangle)) = Last(app.counts)

\* A finished answer is the cache as it is at that moment, each topic once with
\* all of its types: no listener gets in between two passes.
AnswersAreExact ==
    [][app.pc = "fill" /\ app'.pc = "waiting" =>
            /\ seen' = TopicsAndTypes(Cache, no_demangle)
            /\ Cardinality(seen') = Len(app.names)]_allVars

\* The answer to the question, given the listed nodes and the cache.
AnswerFrom(listing, c) ==
    CASE question = "nodes" -> {listed.name : listed \in listing}
      [] question = "publishers" -> graph_count_endpoints(c, AskedTopic, TRUE)
      [] question = "subscribers" -> graph_count_endpoints(c, AskedTopic, FALSE)
      [] OTHER -> TopicsAndTypes(c, no_demangle)

\* What the remote participant last announced, and the endpoints that exist in
\* DDS.
Announced == Range(Last(contents))
Real ==
    [nodes |-> {ListedNode(listed) : listed \in Announced},
     endpoints |-> SetToSeq({EndpointInfo(e) : e \in {f \in Endpoints : alive[f]}})]

RightAnswer == AnswerFrom(Announced, Real)

\* Nothing more happens before the remote participant moves: the listeners have
\* drained their readers and signalled, and the application is not about to
\* wake up or to answer.
Settled ==
    /\ \A r \in Readers : queue[r] = <<>> /\ batch[r] = <<>>
    /\ signalling = {}
    /\ ~graph_guard
    /\ app # AppAsks /\ app.pc \notin {"count", "fill"}

\* An application that queries whenever the graph guard condition wakes it has
\* the right answer each time things settle: nothing is lost or left over
\* between DDS, the listeners, the guard and the queries, and a query that ran
\* out of memory can be repeated.
SettledAnswerIsRight == Settled => seen = RightAnswer
=============================================================================
