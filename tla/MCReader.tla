------------------------------ MODULE MCReader ------------------------------
(***************************************************************************)
(* Instances of Reader for TLC.                                            *)
(***************************************************************************)
EXTENDS MCRecovery, Reader

=============================================================================
