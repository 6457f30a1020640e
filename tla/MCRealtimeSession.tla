------------------------- MODULE MCRealtimeSession -------------------------
(* One realtime session and the turns of its client, for TLC. *)
EXTENDS RealtimeSession

RealtimeSpec == SessionSpec /\ SessionFairness
=============================================================================
