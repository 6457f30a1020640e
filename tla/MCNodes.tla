------------------------------ MODULE MCNodes ------------------------------
(***************************************************************************)
(* What a node is to the tether and what it does with what it is sent, for *)
(* TLC: its identity and its connections, its place in a group, the        *)
(* settings, a file's download and the room in the cache.  The parts share *)
(* no state, so each behaviour is one of one part while the others rest.   *)
(***************************************************************************)
EXTENDS TetherConnections, GroupLifecycle, ConfigBroadcast, BlobDownload, MCCacheEviction, TLC

VARIABLE part   \* the part that moves

nodesVars == <<part, vars, groupVars, broadcastVars, downloadVars, evictionVars>>

NodesInit ==
  /\ part \in {"identity", "group", "settings", "download", "cache"}
  /\ Init /\ GroupInit /\ BroadcastInit /\ DownloadInit /\ EvictionInit
  \* at rest one initial state is enough
  /\ part # "identity" => nodeRow = [n \in Nodes |-> NewRow]
  /\ part # "settings" => settings = 0
  /\ part # "download" => peer = "none"
  /\ part # "cache" => order = <<>> /\ desired = {}

NodesNext ==
  \* the database probe's failures are MCTetherWrites' matter
  \/ /\ part = "identity" /\ Next /\ reachable'
     /\ UNCHANGED <<part, groupVars, broadcastVars, downloadVars, evictionVars>>
  \/ /\ part = "group" /\ GroupNext
     /\ UNCHANGED <<part, vars, broadcastVars, downloadVars, evictionVars>>
  \/ /\ part = "settings" /\ BroadcastNext
     /\ UNCHANGED <<part, vars, groupVars, downloadVars, evictionVars>>
  \/ /\ part = "download" /\ DownloadNext
     /\ UNCHANGED <<part, vars, groupVars, broadcastVars, evictionVars>>
  \/ /\ part = "cache" /\ EvictionNext
     /\ UNCHANGED <<part, vars, groupVars, broadcastVars, downloadVars>>

(* Node ids, keys and handlers are only compared. *)
Symmetry == Permutations(Nodes) \cup Permutations(Keys) \cup Permutations(Handlers)

NodesSpec == NodesInit /\ [][NodesNext]_nodesVars
=============================================================================
