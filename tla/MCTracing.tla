------------------------------- MODULE MCTracing -------------------------------
(* Small instances of Tracing for TLC. *)
EXTENDS Tracing

=============================================================================
