------------------------------ MODULE MCTxTracing ------------------------------
(* A small instance of TxTracing for TLC. *)
EXTENDS TxTracing

=============================================================================
