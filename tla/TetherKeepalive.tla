-------------------------- MODULE TetherKeepalive --------------------------
(***************************************************************************)
(* The tether's keepalive loop against the clock: when is the connection   *)
(* of a silent daemon expired, and when does a stall of the tether itself  *)
(* restart the liveness timers instead.                                    *)
(*                                                                         *)
(* Time is counted in units of which KeepaliveInterval make up one         *)
(* keepalive interval.  lastSeenAt and lastTickAt appear as the time since *)
(* then, and stop counting where every comparison has been decided.        *)
(*                                                                         *)
(* While the tether's event loop turns, a healthy daemon's heartbeat is    *)
(* handled within one interval of the previous one and the interval timer  *)
(* fires when due.  During a stall no callback runs: time passes, and what *)
(* has become due is handled afterwards, in any order, before the loop     *)
(* stalls again.                                                           *)
(***************************************************************************)
EXTENDS Naturals

CONSTANTS
  Nodes,
  KeepaliveInterval,  \* KEEPALIVE_INTERVAL_MS, also the heartbeat interval
  LivenessTimeout     \* LIVENESS_TIMEOUT_MS

(* The defaults are 15 s and 45 s.  Nothing in the configuration relates   *)
(* the two; a shorter timeout makes HealthyNeverExpires false.             *)
ASSUME TimingAssumption ==
  /\ KeepaliveInterval \in Nat \ {0}
  /\ LivenessTimeout \in Nat
  /\ LivenessTimeout >= 3 * KeepaliveInterval

VARIABLES
  connections,  \* nodes with an entry in the connections map
  alive,      \* nodes whose daemon runs and holds its stream
  silence,    \* time since lastSeenAt
  sinceTick   \* time since lastTickAt

keepaliveVars == <<connections, alive, silence, sinceTick>>

STALLED_TICK_FACTOR == 2
MaxSinceTick == STALLED_TICK_FACTOR * KeepaliveInterval + 1
MaxSilence   == LivenessTimeout + 1

KeepaliveTypeOK ==
  /\ connections \subseteq Nodes
  /\ alive \subseteq Nodes
  /\ silence \in [Nodes -> 0 .. MaxSilence]
  /\ sinceTick \in 0 .. MaxSinceTick

KeepaliveInit ==
  /\ connections = {}
  /\ alive = {}
  /\ silence = [n \in Nodes |-> 0]
  /\ sinceTick = 0

Capped(t, cap) == IF t > cap THEN cap ELSE t

(* A daemon connects; one that died without the tether noticing, and has   *)
(* been restarted, supersedes its own stream.                              *)
addConnection(n) ==
  /\ n \notin connections \cap alive
  /\ connections' = connections \cup {n}
  /\ alive' = alive \cup {n}
  /\ silence' = [silence EXCEPT ![n] = 0]
  /\ UNCHANGED sinceTick

(* A heartbeat, status or interconnect report whose signature is valid. *)
markSeen(n) ==
  /\ n \in connections \cap alive
  /\ silence' = [silence EXCEPT ![n] = 0]
  /\ UNCHANGED <<connections, alive, sinceTick>>

(* The daemon or its network dies without closing the stream. *)
DaemonDies(n) ==
  /\ n \in alive
  /\ alive' = alive \ {n}
  /\ UNCHANGED <<connections, silence, sinceTick>>

(* The daemon hangs up, the stream's cancel callback runs. *)
cancel(n) ==
  /\ n \in connections
  /\ connections' = connections \ {n}
  /\ alive' = alive \ {n}
  /\ UNCHANGED <<silence, sinceTick>>

(* Nothing is overdue: the timer and the heartbeats are on time. *)
OnTime ==
  /\ sinceTick <= KeepaliveInterval
  /\ \A n \in connections \cap alive : silence[n] <= KeepaliveInterval

Elapse(d) ==
  /\ silence' = [n \in Nodes |-> Capped(silence[n] + d, MaxSilence)]
  /\ sinceTick' = Capped(sinceTick + d, MaxSinceTick)
  /\ UNCHANGED <<connections, alive>>

(* One unit passes while the event loop turns. *)
Pass ==
  /\ sinceTick < KeepaliveInterval
  /\ \A n \in connections \cap alive : silence[n] < KeepaliveInterval
  /\ Elapse(1)

(* The event loop is blocked for d units. *)
Stall(d) == OnTime /\ Elapse(d)

(* Mutants of the loop: no restart of the timers after a stall; every tick *)
(* counts as late.                                                         *)
tickIgnoringStalls ==
  LET expired == {n \in connections : silence[n] > LivenessTimeout} IN
  /\ sinceTick >= KeepaliveInterval
  /\ sinceTick' = 0
  /\ connections' = connections \ expired
  /\ UNCHANGED <<alive, silence>>

tickAlwaysRestarting ==
  LET stalled == sinceTick >= KeepaliveInterval
      seen    == [n \in Nodes |-> IF stalled THEN 0 ELSE silence[n]]
      expired == {n \in connections : seen[n] > LivenessTimeout} IN
  /\ sinceTick >= KeepaliveInterval
  /\ sinceTick' = 0
  /\ silence' = seen
  /\ connections' = connections \ expired
  /\ UNCHANGED alive

(* One tick of runKeepaliveLoop: a tick that comes late restarts every     *)
(* timer; then each silent connection is removed.  A keepalive that cannot *)
(* be written removes the connection too, which cancel covers.             *)
runKeepaliveLoop ==
  LET stalled == sinceTick > KeepaliveInterval * STALLED_TICK_FACTOR
      seen    == [n \in Nodes |-> IF stalled /\ n \in connections THEN 0 ELSE silence[n]]
      expired == {n \in connections : seen[n] > LivenessTimeout} IN
  /\ sinceTick >= KeepaliveInterval
  /\ sinceTick' = 0
  /\ silence' = seen
  /\ connections' = connections \ expired
  /\ UNCHANGED alive

KeepaliveNext ==
  \/ \E n \in Nodes : addConnection(n) \/ markSeen(n) \/ DaemonDies(n) \/ cancel(n)
  \/ Pass
  \/ \E d \in 1 .. MaxSilence : Stall(d)
  \/ runKeepaliveLoop

KeepaliveSpec == KeepaliveInit /\ [][KeepaliveNext]_keepaliveVars

(* Time passes, the interval timer fires, heartbeats arrive, and the       *)
(* tether is not blocked over and over for ever.                           *)
KeepaliveFairness ==
  /\ WF_keepaliveVars(Pass)
  /\ WF_keepaliveVars(runKeepaliveLoop)
  /\ \A n \in Nodes : WF_keepaliveVars(markSeen(n) /\ silence[n] >= KeepaliveInterval)
  /\ <>[][(\E d \in 1 .. MaxSilence : Stall(d)) => Pass]_keepaliveVars

KeepaliveFairSpec == KeepaliveSpec /\ KeepaliveFairness

(***************************************************************************)
(* Properties                                                              *)
(***************************************************************************)

(* docs/architecture.md 132: "If the tether itself stalls, it restarts     *)
(* these timers instead of expiring nodes, so its own stall does not take  *)
(* healthy nodes down."  Whatever the length of a stall and whatever is    *)
(* handled first after it, a tick expires only daemons that are gone.      *)
HealthyNeverExpires ==
  [][runKeepaliveLoop => connections \cap alive \subseteq connections']_keepaliveVars

(* connections.ts 181-183: a daemon that is gone is expired, although its  *)
(* stream accepts every keepalive; stalls only delay it.                   *)
SilentDaemonExpires ==
  \A n \in Nodes : (n \in connections \ alive) ~> (n \notin connections \/ n \in alive)
=============================================================================
