----------------------------- MODULE GraphTable -----------------------------
(***************************************************************************)
(* What the local graph table promises, without slots, indices, locks or   *)
(* publication: a bounded set of nodes, each owning bounded sets of reader  *)
(* and writer GIDs.  One operation changes one membership; a GID has one   *)
(* owner; a node leaves only when it owns nothing.  LocalGraph implements  *)
(* this specification.                                                     *)
(***************************************************************************)
EXTENDS Naturals, FiniteSets

CONSTANTS Nodes, Guids, GRAPH_MAX_NODES, GRAPH_MAX_ENDPOINTS_PER_NODE

VARIABLES members,  \* the nodes in the table
          owned     \* node -> kind -> set of GIDs

Kinds == {"reader", "writer"}
Nothing == [kind \in Kinds |-> {}]

Init == /\ members = {}
        /\ owned = [n \in Nodes |-> Nothing]

\* A node enters owning nothing.
AddNode(n) ==
    /\ n \notin members
    /\ Cardinality(members) < GRAPH_MAX_NODES
    /\ members' = members \cup {n}
    /\ UNCHANGED owned

\* A node is destroyed, or its creation undone.
RemoveNode(n) ==
    /\ n \in members
    /\ owned[n] = Nothing
    /\ members' = members \ {n}
    /\ UNCHANGED owned

AddEndpoint(n, kind, g) ==
    /\ n \in members
    /\ \A m \in Nodes, k \in Kinds : g \notin owned[m][k]
    /\ Cardinality(owned[n][kind]) < GRAPH_MAX_ENDPOINTS_PER_NODE
    /\ owned' = [owned EXCEPT ![n][kind] = @ \cup {g}]
    /\ UNCHANGED members

\* An endpoint is destroyed, or its creation undone.
RemoveEndpoint(n, kind, g) ==
    /\ g \in owned[n][kind]
    /\ owned' = [owned EXCEPT ![n][kind] = @ \ {g}]
    /\ UNCHANGED members

Next ==
    \/ \E n \in Nodes : AddNode(n) \/ RemoveNode(n)
    \/ \E n \in Nodes, kind \in Kinds, g \in Guids :
            AddEndpoint(n, kind, g) \/ RemoveEndpoint(n, kind, g)

Spec == Init /\ [][Next]_<<members, owned>>
=============================================================================
