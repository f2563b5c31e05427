------------------------------ MODULE DurableLog ------------------------------
(***************************************************************************)
(* What the write path promises its callers, without files: a log of        *)
(* entries of which a prefix is acknowledged.  A commit extends the log and *)
(* acknowledges all of it; a write that reports an error may or may not     *)
(* have been added; a crash may drop entries from the end, never an         *)
(* acknowledged one.  Nothing is reordered, inserted or dropped in between. *)
(* WriteAheadLog implements it.                                             *)
(***************************************************************************)
EXTENDS Naturals, Sequences

VARIABLES
  log,     \* the entries an Open() would recover, in sequence order
  acked    \* how many of them are acknowledged

Init == acked = Len(log)

\* The sequence more continues the sequence less.
Extends(less, more) == Len(less) < Len(more) /\ SubSeq(more, 1, Len(less)) = less

Commit == Extends(log, log') /\ acked' = Len(log')

Uncertain == Extends(log, log') /\ acked' = acked

Lose == Extends(log', log) /\ Len(log') >= acked /\ acked' = acked

Next == Commit \/ Uncertain \/ Lose

Spec == Init /\ [][Next]_<<log, acked>>
===============================================================================
