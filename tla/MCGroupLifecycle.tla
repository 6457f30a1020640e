-------------------------- MODULE MCGroupLifecycle --------------------------
(* A group of two members, for TLC. *)
EXTENDS GroupLifecycle
=============================================================================
