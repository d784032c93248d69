------------------------------ MODULE MCChain ------------------------------
(***************************************************************************)
(* Instances of Chain and Recovery for TLC: batches of payloads of one     *)
(* length, and every truncation point in reach.                            *)
(***************************************************************************)
EXTENDS Chain

CONSTANTS
  Lengths,  \* payload lengths in bytes
  MaxBatch  \* bound: payloads in a batch

MCBatches ==
  {[i \in 1..n |-> i * (FrameHeaderSize + p)] : n \in 1..MaxBatch, p \in Lengths}

MCTruncateSeqs == 0..(StartSeq + MaxRecords)

=============================================================================
