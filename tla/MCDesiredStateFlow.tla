------------------------- MODULE MCDesiredStateFlow -------------------------
(* Instances of DesiredStateFlow for TLC. *)
EXTENDS DesiredStateFlow
=============================================================================
