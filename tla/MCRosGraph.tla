----------------------------- MODULE MCRosGraph -----------------------------
(* Model values for model-checking RosGraph. *)
EXTENDS RosGraph

CONSTANTS self, p1, n1, n2, w1, w2, r1, r2

\* At first a publisher of type U on a topic and a service's request reader,
\* which has no ROS topic name.  A publisher and a subscription of type T on the
\* same topic come and go.
MCEndpoints == {w1, w2, r1, r2}
MCWriters == {w1, w2}
MCFirst == {w2, r2}
MCOwnerOf == [e \in MCEndpoints |-> p1]
Chatter == <<"/chatter">>
MCTopicOf ==
    [e \in MCEndpoints |-> IF e = r2 THEN <<"rq", "/addRequest">>
                                     ELSE <<"rt">> \o Chatter]
MCTypeOf ==
    [e \in MCEndpoints |->
        IF e \in MCFirst THEN <<"pkg", "::", "U">>
        ELSE <<"pkg", "::", "msg", "::", "dds_::", "T", "_">>]

MCSnapshots == [size : 0 .. GRAPH_MAX_NODES, fits : {TRUE}]
MCMaxSnapshots == [p \in Participants |-> IF p = p1 THEN 3 ELSE 0]
AppearOnce == [k \in Keys |-> 1]
NoneOversized == {}
OneRemote == {p1}
=============================================================================
