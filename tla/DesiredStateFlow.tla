-------------------------- MODULE DesiredStateFlow --------------------------
(***************************************************************************)
(* How a change of a node's installations reaches its daemon.  The row     *)
(* trigger notifies the tether; the notify bus coalesces notifications and *)
(* flushes; a flush, and a new stream's start, read the installations and  *)
(* push what they read to the connection the node has by then.  Nothing    *)
(* serialises the reads: several builds of one node may be under way.      *)
(*                                                                         *)
(* The daemon is that of DaemonSync; a desired state is the version of the *)
(* node's installations that was read.  One node: the bus keeps no state   *)
(* that two nodes share but the timer, which a second node only starts     *)
(* earlier.  A pushed event is received at once: an event lost with its    *)
(* stream is a push to a stream that is gone.                              *)
(***************************************************************************)
EXTENDS DaemonSync, Integers

CONSTANT Builds   \* buildDesiredState calls that may be under way

ASSUME VersionsAreNumbers == 
  Versions \subseteq Nat /\ 1 \in Versions /\ NoState = 0

VARIABLES
  db,            \* version of the node's installations in the database
  listening,     \* the LISTEN connection is up
  inTransit,     \* notifications sent and not yet received
  connected,     \* the node is in the connections map
  pending,       \* the node is in the bus's pending set
  flushTimer,    \* the bus's timer is set
  stage,         \* of each build
  version,       \* what each build has read
  pushed,        \* history: newest version pushed on this connection
  buildFailed    \* history: a build failed, and the current version was not pushed since

tetherVars ==
  <<db, listening, inTransit, connected, pending, flushTimer, stage, version, pushed, buildFailed>>

flowVars == <<tetherVars, daemonVars>>

FlowInit ==
  /\ DaemonInit
  /\ db = 1
  /\ listening = TRUE
  /\ inTransit = 0
  /\ connected = FALSE
  /\ pending = FALSE
  /\ flushTimer = FALSE
  /\ stage = [b \in Builds |-> "idle"]
  /\ version = [b \in Builds |-> NoState]
  /\ pushed = NoState
  /\ buildFailed = FALSE

(* An insert, update or delete of an installation of the node, with the    *)
(* notification its trigger sends to whoever listens.                      *)
Change ==
  /\ db + 1 \in Versions
  /\ db' = db + 1
  /\ inTransit' = IF listening THEN inTransit + 1 ELSE inTransit
  /\ UNCHANGED <<listening, connected, pending, flushTimer, stage, version, pushed, buildFailed, daemonVars>>

queue ==
  /\ pending' = TRUE
  /\ flushTimer' = TRUE

Notified ==
  /\ inTransit > 0
  /\ inTransit' = inTransit - 1
  /\ queue
  /\ UNCHANGED <<db, listening, connected, stage, version, pushed, buildFailed, daemonVars>>

(* The LISTEN connection breaks, with what was on its way. *)
ListenLost ==
  /\ listening
  /\ listening' = FALSE
  /\ inTransit' = 0
  /\ UNCHANGED <<db, connected, pending, flushTimer, stage, version, pushed, buildFailed, daemonVars>>

(* Mutant of start: nothing is queued when the subscription returns. *)
resubscribedSilently ==
  /\ ~listening
  /\ listening' = TRUE
  /\ UNCHANGED <<db, inTransit, connected, pending, flushTimer, stage, version, pushed, buildFailed, daemonVars>>

(* onSubscribed: every connected node is queued. *)
resubscribed ==
  /\ ~listening
  /\ listening' = TRUE
  /\ IF connected THEN queue ELSE UNCHANGED <<pending, flushTimer>>
  /\ UNCHANGED <<db, inTransit, connected, stage, version, pushed, buildFailed, daemonVars>>

(* flush, up to the node's turn in the batch. *)
flush(b) ==
  /\ flushTimer
  /\ stage[b] = "idle"
  /\ flushTimer' = FALSE
  /\ pending' = FALSE
  /\ stage' = [stage EXCEPT ![b] = "waiting"]
  /\ UNCHANGED <<db, listening, version, inTransit, connected, pushed, buildFailed, daemonVars>>

(* flush, at the node's turn: a node that is not connected is passed over. *)
flushNode(b) ==
  /\ stage[b] = "waiting"
  /\ stage' = [stage EXCEPT ![b] = IF connected THEN "building" ELSE "idle"]
  /\ UNCHANGED <<db, listening, version, inTransit, connected, pending, flushTimer, pushed, buildFailed, daemonVars>>

(* A stream's start: the connection enters the map, then its own build     *)
(* begins.  A connection already there is superseded.                      *)
start(b) ==
  /\ stage[b] = "idle"
  /\ connected' = TRUE
  /\ pushed' = NoState
  /\ stage' = [stage EXCEPT ![b] = "building"]
  /\ UNCHANGED <<db, listening, version, inTransit, pending, flushTimer, buildFailed, daemonVars>>

(* The connection leaves the map, for whatever reason. *)
removeConnection ==
  /\ connected
  /\ connected' = FALSE
  /\ pushed' = NoState
  /\ UNCHANGED <<db, listening, inTransit, pending, flushTimer, stage, version, buildFailed, daemonVars>>

(* The rows are read; the group members and hosts are awaited after. *)
buildDesiredState(b) ==
  /\ stage[b] = "building"
  /\ stage' = [stage EXCEPT ![b] = "read"]
  /\ version' = [version EXCEPT ![b] = db]
  /\ UNCHANGED <<db, listening, inTransit, connected, pending, flushTimer, pushed, buildFailed, daemonVars>>

(* To the connection the node has now, if any. *)
pushDesiredState(b) ==
  /\ stage[b] = "read"
  /\ stage' = [stage EXCEPT ![b] = "idle"]
  /\ version' = [version EXCEPT ![b] = NoState]
  /\ IF connected
     THEN /\ pushed' = IF version[b] > pushed THEN version[b] ELSE pushed
          /\ buildFailed' = (buildFailed /\ version[b] # db)
          /\ setDesiredInstallations(version[b])
     ELSE UNCHANGED <<pushed, buildFailed, daemonVars>>
  /\ UNCHANGED <<db, listening, inTransit, connected, pending, flushTimer>>

(* A query of the build fails: the error is logged, nothing is repeated. *)
buildFails(b) ==
  /\ stage[b] \in {"building", "read"}
  /\ stage' = [stage EXCEPT ![b] = "idle"]
  /\ version' = [version EXCEPT ![b] = NoState]
  /\ buildFailed' = TRUE
  /\ UNCHANGED <<db, listening, inTransit, connected, pending, flushTimer, pushed, daemonVars>>

TetherStep ==
  \/ Notified \/ resubscribed
  \/ \E b \in Builds : \/ flush(b) \/ flushNode(b) \/ buildDesiredState(b)
                       \/ pushDesiredState(b) \/ buildFails(b)

Environment == Change \/ ListenLost \/ removeConnection \/ \E b \in Builds : start(b)

FlowNext == TetherStep \/ Environment \/ (DaemonStep /\ UNCHANGED tetherVars)

FlowSpec == FlowInit /\ [][FlowNext]_flowVars

(* The event loop and the database answer; postgres.js subscribes again;   *)
(* the daemon's runs end and do not fail for ever.                         *)
FlowFairness ==
  /\ WF_flowVars(Notified)
  /\ WF_flowVars(resubscribed)
  /\ WF_flowVars(\E b \in Builds : flush(b))
  /\ \A b \in Builds :
       /\ WF_flowVars(flushNode(b))
       /\ WF_flowVars(buildDesiredState(b) \/ pushDesiredState(b) \/ buildFails(b))
  /\ WF_flowVars(intervalTrigger /\ UNCHANGED tetherVars)
  /\ SF_flowVars(readDesired /\ UNCHANGED tetherVars)
  /\ WF_flowVars((runSucceeds \/ runFails) /\ UNCHANGED tetherVars)
  /\ SF_flowVars(runSucceeds /\ UNCHANGED tetherVars)

FlowFairSpec == FlowSpec /\ FlowFairness

(* Changes, reconnections and broken subscriptions come to an end. *)
RestSpec == FlowFairSpec /\ <>[][~Environment]_flowVars

(***************************************************************************)
(* Properties                                                              *)
(***************************************************************************)

(* Nothing of a push is outstanding in the tether. *)
Quiet ==
  /\ listening /\ inTransit = 0
  /\ ~pending
  /\ \A b \in Builds : stage[b] = "idle"

(* notify-bus.ts 54-61 and index.ts 170-179: no change falls between a     *)
(* subscription that was down, a coalesced batch and a stream that was     *)
(* just starting.  Once the tether is quiet, the connection has been sent  *)
(* the installations as they are, unless a build failed.                   *)
QuietMeansPushed ==
  Quiet /\ connected /\ ~buildFailed => pushed = db

(* docs/features/daemon.md 25: the tether "pushes the updated desired      *)
(* state to the daemon".  When no build fails, the daemon would then end   *)
(* with the updated state.  The code lets an older build push last.        *)
UpdatedStateIsApplied == []<>(connected /\ ~buildFailed => applied = db)
=============================================================================
