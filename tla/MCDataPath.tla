----------------------------- MODULE MCDataPath -----------------------------
(* Model values and QoS profiles for model-checking DataPath. *)
EXTENDS DataPath

CONSTANTS t1, t2, t3, t4

MCPublishing == {t1, t2}
MCTaking == {t3, t4}

Profile(depth, reliability, durability) ==
    [history |-> "keep_last", depth |-> depth, reliability |-> reliability,
     durability |-> durability, avoid_ros_namespace_conventions |-> FALSE]

\* The last three are refused; 9 would be 1 as a depth of this width.
MCProfiles ==
    {Profile(2, "reliable", "transient_local"),
     Profile(2, "reliable", "volatile"),
     Profile(1, "best_effort", "volatile"),
     Profile(9, "reliable", "transient_local"),
     Profile(0, "reliable", "volatile"),
     [Profile(2, "reliable", "volatile") EXCEPT !.history = "keep_all"]}
=============================================================================
