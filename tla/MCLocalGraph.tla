---------------------------- MODULE MCLocalGraph ----------------------------
(* Model values and symmetry for model-checking LocalGraph. *)
EXTENDS LocalGraph, TLC

CONSTANTS t1, t2, n1, n2, n3, g1, g2, g3

MCThreads == {t1, t2}
MCNodes == {n1, n2, n3}
MCGuids == {g1, g2, g3}
Symmetry == Permutations(MCThreads) \cup Permutations(MCNodes)
                \cup Permutations(MCGuids)
=============================================================================
