---------------------------- MODULE MCGraphCache ----------------------------
(* Model values for model-checking GraphCache. *)
EXTENDS GraphCache

CONSTANTS self, p1, p2, w0, w1, w2, r1

OneRemote == {p1}
TwoRemotes == {p1, p2}

\* No endpoints: the runs about participants and snapshots.
NoEndpoints == {}
NoOwners == <<>>

\* A local writer; a writer and a reader of the remote participant.
SomeEndpoints == {w0, w1, r1}
SomeWriters == {w0, w1}
SomeOwners == [e \in SomeEndpoints |-> IF e = w0 THEN self ELSE p1]

\* A writer of the remote participant, and a local one on a topic whose name
\* is too long.
TwoEndpoints == {w1, w2}
TwoOwners == [e \in TwoEndpoints |-> IF e = w2 THEN self ELSE p1]
LongNamed == {w2}

\* A writer of the remote participant only.
OneEndpoint == {w1}
OneOwner == [e \in OneEndpoint |-> p1]

\* A snapshot that fills the cache, and one that breaks a limit inside a node.
LargeSnapshots == {[size |-> 2, fits |-> TRUE], [size |-> 1, fits |-> FALSE]}
OneSnapshot == {[size |-> 1, fits |-> TRUE]}
NoSnapshots == {}

\* Bounds on how often p1, and everyone else, writes and is discovered.
TwiceP1(keys) == [k \in keys |-> IF k = p1 THEN 2 ELSE 1]
P1WritesTwice == TwiceP1(Participants)
P1AppearsTwice == TwiceP1(Keys)
P2WritesNothing ==
    [p \in Participants |-> IF p = p2 THEN 0 ELSE P1WritesTwice[p]]
OnlyP1Writes == [p \in Participants |-> IF p = p1 THEN 2 ELSE 0]
WriteOnce == [p \in Participants |-> 1]
AppearOnce == [k \in Keys |-> 1]
W1AppearsTwice == [k \in Keys |-> IF k = w1 THEN 2 ELSE 1]
WriteNothing == [p \in Participants |-> 0]
=============================================================================
