------------------------- MODULE MCOrderExecution -------------------------
(***************************************************************************)
(* Small instances of OrderExecution for TLC.                              *)
(***************************************************************************)
EXTENDS OrderExecutionProperties, TLC

\* Every record has a (cycle_id, symbol) of its own; References = Records.
OwnReference == [r \in Record |-> r]

\* Records, ids and invocations are interchangeable in every safety property.
Symmetries == Permutations(Record) \cup Permutations(OrderId)
=============================================================================
