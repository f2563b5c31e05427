---------------------------- MODULE SnapshotStore ----------------------------
(***************************************************************************)
(* What readers are promised, without versions, MemTables or tables: one    *)
(* current map from keys to values, and for every open Snapshot the map as  *)
(* it was when the Snapshot was taken.  A batch is applied to the current   *)
(* map in one step, its last operation on a key winning; nothing else       *)
(* changes any map.  The value of an operation is its number.               *)
(* VersionedReads implements it.                                            *)
(***************************************************************************)
EXTENDS Naturals, Sequences, FiniteSetsExt

CONSTANTS
  Keys,
  Batches,    \* sequences of [key, tombstone]
  Absent      \* the value of a key that is not there

VARIABLES
  last,       \* how many operations were written
  latest,     \* the current map
  snapshots   \* for every open Snapshot, the map it shows

\* What a batch makes of the current map.
Applied(batch) ==
  [k \in Keys |->
     LET own == {i \in DOMAIN batch : batch[i].key = k}
     IN  IF own = {} THEN latest[k]
         ELSE IF batch[Max(own)].tombstone THEN Absent ELSE last + Max(own)]

Write(batch) ==
  /\ last' = last + Len(batch) /\ latest' = Applied(batch) /\ snapshots' = snapshots

Take ==
  \E h \in DOMAIN snapshots' \ DOMAIN snapshots :
    /\ DOMAIN snapshots' = DOMAIN snapshots \cup {h}
    /\ last' = last /\ latest' = latest /\ snapshots'[h] = latest
    /\ \A g \in DOMAIN snapshots : snapshots'[g] = snapshots[g]

\* Releases one Snapshot, or all of them when the database is closed.
Release ==
  /\ DOMAIN snapshots' \subseteq DOMAIN snapshots
  /\ DOMAIN snapshots' # DOMAIN snapshots
  /\ last' = last /\ latest' = latest
  /\ \A g \in DOMAIN snapshots' : snapshots'[g] = snapshots[g]

Init == last = 0 /\ latest = [k \in Keys |-> Absent] /\ DOMAIN snapshots = {}

Next == (\E batch \in Batches : Write(batch)) \/ Take \/ Release

Spec == Init /\ [][Next]_<<last, latest, snapshots>>
=============================================================================
