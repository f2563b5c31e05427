----------------------------- MODULE MCTableCache -----------------------------
(* Small tables and builder inputs for TLC. *)
EXTENDS TableCache

CONSTANTS t1, t2

TwoThreads == {t1, t2}
ThreadSymmetry == Permutations(TwoThreads)

Entry(k, q) == [key |-> k, seq |-> q]

\* Keys of which one is a prefix of another.
FewKeys == {<<1>>, <<1, 2>>, <<2>>}

\* A Get of an old version and a scan that needs every block of a table.
FewGets == {Entry(<<1>>, 2)}
FewScans == {[begin |-> <<1>>, end |-> <<>>]}

\* Three versions of one key and another key; one version of each key.
FewContents ==
  {<<Entry(<<1>>, 3), Entry(<<1>>, 2), Entry(<<1>>, 1), Entry(<<2>>, 4)>>,
   <<Entry(<<1>>, 2), Entry(<<1, 2>>, 3)>>}

\* Every sequence of at most two entries, and every ordered one of up to five.
SomeEntries == {Entry(k, q) : k \in FewKeys, q \in 1 .. 3}
ShortInputs == BoundedSeq(SomeEntries, 2)
OrderedInputs ==
  {SetToSortSeq(S, InternalLess) : S \in UNION {kSubset(n, SomeEntries) : n \in 3 .. 5}}
FewInputs == ShortInputs \cup OrderedInputs
===============================================================================
