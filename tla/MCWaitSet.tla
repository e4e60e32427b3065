----------------------------- MODULE MCWaitSet -----------------------------
(* Model values and requests for model-checking WaitSet. *)
EXTENDS WaitSet

CONSTANTS w1, w2, s1, g1, g2

OneWaitSet == {w1}
TwoWaitSets == {w1, w2}

\* Requests that fit, exceed the capacity of two, repeat an entity, and hold
\* a NULL entry after a valid one.
SomeRequests == {<<s1, g1>>, <<g1, g2>>, <<s1, g1, g2>>, <<g1, g1>>,
                 <<s1, NULL>>}
FewRequests == {<<s1, g1>>, <<g1, g2>>, <<s1, NULL>>}
=============================================================================
