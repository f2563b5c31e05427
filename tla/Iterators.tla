------------------------------- MODULE Iterators -------------------------------
(***************************************************************************)
(* Scans over the sources of VersionedReads: the merging iterator, which    *)
(* takes the least head of its inputs and refuses equal ones, and the       *)
(* visibility iterator, which returns the newest visible version of a key   *)
(* (internal_iterator.cpp).                                                 *)
(***************************************************************************)
EXTENDS VersionedReads, SequencesExt

InternalLess(v, w) == v.key < w.key \/ (v.key = w.key /\ v.seq > w.seq)

Ordered(versions) == SetToSortSeq(versions, InternalLess)

\* What a merge ends with when it meets the same version twice: Corruption.
Duplicate == [key |-> 0, seq |-> 0, tombstone |-> FALSE]

\* MergingIterator: the input with the least head is next; equal heads are Corruption.
Merge(sources) ==
  LET from[inputs \in Seq(Seq(Version)), out \in Seq(Version)] ==
        LET live == {i \in DOMAIN inputs : inputs[i] # <<>>}
            winner == CHOOSE i \in live :
                        \A j \in live : ~InternalLess(Head(inputs[j]), Head(inputs[i]))
            head == Head(inputs[winner])
        IN  CASE live = {} -> out
              [] live # {} /\ \E j \in live \ {winner} :
                   ~InternalLess(head, Head(inputs[j])) -> <<Duplicate>>
              [] OTHER -> from[[inputs EXCEPT ![winner] = Tail(@)], Append(out, head)]
  IN  from[[i \in DOMAIN sources |-> Ordered(sources[i])], <<>>]

\* A mutant: a tombstone does not hide the versions after it.
ShowsPastTombstone(shown, v, seq) == v.seq <= seq /\ ~v.tombstone

\* VisibilityIterator: whether v is returned, when shown is the last version of its
\* key that was visible, if any.
Shows(shown, v, seq) == shown = {} /\ v.seq <= seq /\ ~v.tombstone

\* The versions a VisibilityIterator returns from merged input.
VisibleOnly(merged, seq) ==
  SelectSeq(merged,
    LAMBDA v : LET shown == {w \in Range(merged) :
                               w.key = v.key /\ v.seq < w.seq /\ w.seq <= seq}
               IN  Shows(shown, v, seq))

\* The tables NewIterator opens; end is exclusive.
Overlaps(table, begin, end) == Smallest(table) < end /\ begin <= Largest(table)

\* The inputs of the merge: an SSTable iterator knows its end only, MemTable::Scan has
\* copied [begin, end).
Inputs(begin, end) ==
  LET below(versions) == {v \in versions : v.key < end}
      within(versions) == {v \in below(versions) : begin <= v.key}
      disk == SelectSeq(tables, LAMBDA t : Overlaps(t, begin, end))
  IN  [i \in DOMAIN disk |-> below(disk[i])] \o <<within(mem), within(imm)>>

\* MergingIterator::Seek puts every input on its first entry at or past the target.
From(inputs, target) == [i \in DOMAIN inputs |-> {v \in inputs[i] : target <= v.key}]

\* NewIterator over [begin, end) at a sequence, and Scan, which follows it to its end.
\* Its inputs stand on begin, but MergingIterator::Initialize seeks the empty key.
Scan(begin, end, seq) == VisibleOnly(Merge(From(Inputs(begin, end), 0)), seq)

\* The same iterator after Iterator::Seek, which seeks begin when the target is below it.
Seek(begin, end, target, seq) ==
  VisibleOnly(Merge(From(Inputs(begin, end), Max({begin, target}))), seq)

-----------------------------------------------------------------------------
(* Properties *)

\* The sequences there are readers at: the latest, and those of the open Snapshots.
ReadAt == {next - 1} \cup {handle[h].seq : h \in Open}

\* What Get finds from begin up to end, in key order.
Found(begin, end, seq) ==
  LET keys == {k \in Keys : begin <= k /\ k < end /\ Get(k, seq) # Absent}
  IN  [i \in 1 .. Cardinality(keys) |->
         LET k == SetToSortSeq(keys, <)[i] IN <<k, Get(k, seq)>>]

\* What an iterator returned, as keys and values.
Returned(versions) == [i \in DOMAIN versions |-> <<versions[i].key, versions[i].seq>>]

\* Iterators agree with Get, at every sequence that is read at and wherever MemTables,
\* flushes and compactions have put the versions: after a Seek an iterator returns exactly
\* what Get finds from there to its end, and so does a Scan from its begin on; the merge
\* never meets the same version twice.
ScanAgreesWithGet ==
  \A seq \in ReadAt, begin \in Keys : \A end \in begin + 1 .. Max(Keys) + 1 :
    LET scanned == Scan(begin, end, seq)
    IN  /\ Duplicate \notin Range(scanned)
        /\ Returned(SelectSeq(scanned, LAMBDA v : begin <= v.key)) = Found(begin, end, seq)
        /\ \A target \in Keys :
             Returned(Seek(begin, end, target, seq)) = Found(Max({begin, target}), end, seq)

\* A Scan returns keys of [begin, end) only, as the comment on DB::Scan says.
ScanStaysInRange ==
  \A seq \in ReadAt, begin \in Keys : \A end \in begin + 1 .. Max(Keys) + 1 :
    \A v \in Range(Scan(begin, end, seq)) : begin <= v.key /\ v.key < end
================================================================================
