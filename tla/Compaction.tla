----------------------------- MODULE Compaction -----------------------------
(***************************************************************************)
(* The loop with which the C code removes entries from an array in place:  *)
(* entry i is copied to the write index, which advances, unless it goes.   *)
(* Kept(entries, keep)[i] is the front of the array after i turns.         *)
(***************************************************************************)
EXTENDS Naturals, Sequences

Kept(entries, keep) ==
    LET kept[i \in 0 .. Len(entries)] ==
            IF i = 0 THEN <<>>
            ELSE IF entries[i] \in keep THEN Append(kept[i - 1], entries[i])
            ELSE kept[i - 1]
    IN  kept

\* The entries in the set keep, in order.
Compact(entries, keep) == Kept(entries, keep)[Len(entries)]
=============================================================================
