---------------------------- MODULE MCWriterQueue ----------------------------
(* A small instance of the writer queue for TLC. *)
EXTENDS WriterQueue

CONSTANTS w1, w2, w3, cl

ThreeCallers == {w1, w2, w3}
\* Small, large and many-operation requests, and two that are refused.
SmallBatches ==
  {[bytes |-> 1, operations |-> 1], [bytes |-> 2, operations |-> 1],
   [bytes |-> 1, operations |-> 2], [bytes |-> 4, operations |-> 1],
   [bytes |-> 1, operations |-> 3]}
AllOutcomes == {"ok", "error", "throw"}
=============================================================================
