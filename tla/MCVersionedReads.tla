--------------------------- MODULE MCVersionedReads ---------------------------
(* A small instance of the reads for TLC. *)
EXTENDS Iterators

CONSTANTS s1, s2

TwoHandles == {s1, s2}
HandleSymmetry == Permutations(TwoHandles)

\* A Put and a Delete of one key, and a batch that puts this key and another.
Put(k) == [key |-> k, tombstone |-> FALSE]
Del(k) == [key |-> k, tombstone |-> TRUE]
FewBatches == {<<Put(1)>>, <<Del(1)>>, <<Put(1), Put(2)>>}
===============================================================================
