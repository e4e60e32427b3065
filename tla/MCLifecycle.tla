---------------------------- MODULE MCLifecycle ----------------------------
(* Model values for model-checking Lifecycle. *)
EXTENDS Lifecycle

CONSTANTS n1, p1, s1, g1, w1
MCNodeOf == [e \in {p1, s1} |-> n1]
=============================================================================
