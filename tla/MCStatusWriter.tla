--------------------------- MODULE MCStatusWriter ---------------------------
(* Instances of StatusWriter for TLC. *)
EXTENDS StatusWriter
=============================================================================
