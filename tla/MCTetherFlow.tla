---------------------------- MODULE MCTetherFlow ----------------------------
(***************************************************************************)
(* The stream between the tether and a daemon, for TLC: the desired state  *)
(* sent down it, the keepalive that tells which streams are alive, the     *)
(* daemon that opens it again and again; and the configuration the tether  *)
(* itself follows.  The parts share no state, so each behaviour is one of  *)
(* one part while the others rest.                                         *)
(***************************************************************************)
EXTENDS DesiredStateFlow, TetherKeepalive, TetherClient, ConfigFeed

VARIABLE part   \* the part that moves

tetherFlowVars == <<part, flowVars, keepaliveVars, clientVars, feedVars>>

TetherFlowInit ==
  /\ part \in {"states", "keepalive", "client", "feed"}
  /\ FlowInit /\ KeepaliveInit /\ ClientInit /\ FeedInit
  \* at rest one initial state is enough
  /\ part # "client" => disk.key = 1 /\ pin[1] = 1
  /\ part # "feed" => table = 0

TetherFlowNext ==
  \/ part = "states" /\ FlowNext /\ UNCHANGED <<part, keepaliveVars, clientVars, feedVars>>
  \/ part = "keepalive" /\ KeepaliveNext /\ UNCHANGED <<part, flowVars, clientVars, feedVars>>
  \/ part = "client" /\ ClientNext /\ UNCHANGED <<part, flowVars, keepaliveVars, feedVars>>
  \/ part = "feed" /\ FeedNext /\ UNCHANGED <<part, flowVars, keepaliveVars, clientVars>>

(* What FlowFairness says of the daemon, KeepaliveFairness and             *)
(* ClientFairness, each of the part that moves.                            *)
TetherFlowFairness ==
  /\ WF_flowVars(part = "states" /\ intervalTrigger /\ UNCHANGED tetherVars)
  /\ SF_flowVars(part = "states" /\ readDesired /\ UNCHANGED tetherVars)
  /\ WF_flowVars(part = "states" /\ (runSucceeds \/ runFails) /\ UNCHANGED tetherVars)
  /\ SF_flowVars(part = "states" /\ runSucceeds /\ UNCHANGED tetherVars)
  /\ WF_keepaliveVars(part = "keepalive" /\ Pass)
  /\ WF_keepaliveVars(part = "keepalive" /\ runKeepaliveLoop)
  /\ \A n \in Nodes : WF_keepaliveVars(part = "keepalive" /\ markSeen(n) /\ silence[n] >= KeepaliveInterval)
  /\ <>[][(\E d \in 1 .. MaxSilence : Stall(d)) => Pass]_keepaliveVars
  /\ WF_clientVars(part = "client" /\ ClientStep)

TetherFlowSpec == TetherFlowInit /\ [][TetherFlowNext]_tetherFlowVars /\ TetherFlowFairness
=============================================================================
