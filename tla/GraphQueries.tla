---------------------------- MODULE GraphQueries ----------------------------
(***************************************************************************)
(* The graph queries as operators over a cache c:                          *)
(*   c.nodes      a set of [participant_guid, readers, writers],           *)
(*   c.endpoints  a sequence of                                            *)
(*                [guid, participant_guid, writer, topic, type].           *)
(*                                                                         *)
(* A DDS name is the sequence of the parts its conversion looks at:        *)
(* <<"rt", "/chatter">> for a topic,                                       *)
(* <<"std_msgs", "::", "msg", "::", "dds_::", "UInt32", "_">> for a type.  *)
(***************************************************************************)
EXTENDS Naturals, Sequences, FiniteSets, SequencesExt, Compaction

DiscoveryTopic == <<"ros_discovery_info">>

\* graph_cache_endpoint_is_associated_locked: a node of the endpoint's own
\* participant lists it under its kind.
graph_cache_endpoint_is_associated(c, e) ==
    \E n \in c.nodes :
        /\ n.participant_guid = e.participant_guid
        /\ e.guid \in IF e.writer THEN n.writers ELSE n.readers

\* The name graph_topic_output_name copies, or nothing when it returns false.
\* Without demangling the DDS name is shown as it is; otherwise only names that
\* start with "rt/" are shown, without the "rt".
graph_topic_output_name(e, no_demangle) ==
    IF e.topic = DiscoveryTopic THEN {}
    ELSE IF no_demangle THEN {e.topic}
    ELSE IF Head(e.topic) = "rt" THEN {Tail(e.topic)} ELSE {}

\* "pkg::msg::dds_::Name_" is shown as "pkg/msg/Name", everything else as it
\* is.
graph_type_output_name(type, no_demangle) ==
    LET markers == {i \in 1 .. Len(type) : type[i] = "dds_::"}
        marker == CHOOSE i \in markers : \A j \in markers : i <= j
    IN  IF no_demangle \/ markers = {} \/ Last(type) # "_" THEN type
        ELSE [i \in 1 .. marker - 1 |->
                IF type[i] = "::" THEN "/" ELSE type[i]]
             \o SubSeq(type, marker + 1, Len(type) - 1)

graph_endpoint_has_topic(e, topic, no_demangle) ==
    topic \in graph_topic_output_name(e, no_demangle)

\* rmw_count_publishers and rmw_count_subscribers; topic is the ROS name.
graph_count_endpoints(c, topic, writers) ==
    Cardinality({i \in 1 .. Len(c.endpoints) :
        /\ graph_cache_endpoint_is_associated(c, c.endpoints[i])
        /\ c.endpoints[i].writer = writers
        /\ c.endpoints[i].topic = <<"rt">> \o topic})

-----------------------------------------------------------------------------
(* rmw_get_topic_names_and_types, pass by pass *)

Visible(c) ==
    Compact(c.endpoints, {e \in Range(c.endpoints) :
                            graph_cache_endpoint_is_associated(c, e)})

\* The loop that collects output: a value joins unless it is there already.
\* Collected(values)[i] is the output after i turns.
Collected(values) ==
    LET out[i \in 0 .. Len(values)] ==
            IF i = 0 THEN <<>>
            ELSE IF values[i] \in Range(out[i - 1]) THEN out[i - 1]
            ELSE Append(out[i - 1], values[i])
    IN  out

Distinct(values) == Collected(values)[Len(values)]

\* The first pass: one name for each topic, in the order of the endpoints.
TopicNames(c, no_demangle) ==
    LET named == Compact(Visible(c),
                         {e \in Range(Visible(c)) :
                            graph_topic_output_name(e, no_demangle) # {}})
    IN  Distinct([i \in 1 .. Len(named) |->
                    CHOOSE name \in
                        graph_topic_output_name(named[i], no_demangle) : TRUE])

\* The output types of the visible endpoints on topic, with repetitions.
TypesOf(endpoints, topic, no_demangle) ==
    LET on == Compact(endpoints,
                      {e \in Range(endpoints) :
                        graph_endpoint_has_topic(e, topic, no_demangle)})
    IN  [i \in 1 .. Len(on) |->
            graph_type_output_name(on[i].type, no_demangle)]

FirstOccurrences(types) ==
    {i \in 1 .. Len(types) : \A j \in 1 .. i - 1 : types[j] # types[i]}

\* Mutant: the inner loop of the count does not skip endpoints that no node
\* lists.
CountTypesAmongAll(c, topic, no_demangle) ==
    LET of(i) == graph_type_output_name(c.endpoints[i].type, no_demangle)
    IN  Cardinality({i \in 1 .. Len(c.endpoints) :
            /\ graph_cache_endpoint_is_associated(c, c.endpoints[i])
            /\ graph_endpoint_has_topic(c.endpoints[i], topic, no_demangle)
            /\ \A j \in 1 .. i - 1 :
                graph_endpoint_has_topic(c.endpoints[j], topic, no_demangle)
                    => of(j) # of(i)})

\* The second pass counts the endpoints whose type no earlier one has.
CountTypes(c, topic, no_demangle) ==
    Cardinality(FirstOccurrences(TypesOf(Visible(c), topic, no_demangle)))

\* The third pass fills in each type that is not in the output yet.
FillTypes(c, topic, no_demangle) ==
    Distinct(TypesOf(Visible(c), topic, no_demangle))

-----------------------------------------------------------------------------
(* Reference definitions *)

\* What rmw_get_topic_names_and_types has to return: each topic with the types
\* of its endpoints.
TopicsAndTypes(c, no_demangle) ==
    LET shown == Range(Visible(c))
        names == UNION {graph_topic_output_name(e, no_demangle) : e \in shown}
    IN  {[name |-> name,
          types |-> {graph_type_output_name(e.type, no_demangle) :
                        e \in {f \in shown :
                                graph_endpoint_has_topic(f, name, no_demangle)}}] :
            name \in names}
=============================================================================
