----------------------------- MODULE MCTransparency -----------------------------
(* A small instance of Transparency for TLC. *)
EXTENDS Transparency

=============================================================================
