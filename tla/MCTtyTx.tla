------------------------------ MODULE MCTtyTx ------------------------------
(* Instances of TtyTx for TLC. *)
EXTENDS TtyTx
=============================================================================
