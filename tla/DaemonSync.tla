----------------------------- MODULE DaemonSync -----------------------------
(***************************************************************************)
(* The daemon's side of the desired state: the copy it keeps of what the   *)
(* tether pushed last, and the coordinator that runs one synchronisation   *)
(* at a time with at most one more queued, dropping further triggers.      *)
(*                                                                         *)
(* A desired state is a version.  A run reads the copy once, after the     *)
(* node id and the drivers have been awaited, and then applies what it     *)
(* read, however many newer states arrive meanwhile.                       *)
(***************************************************************************)

CONSTANTS
  Versions,   \* desired states
  NoState     \* nothing received yet; as applied: nothing applied completely

ASSUME VersionsAssumption == NoState \notin Versions

VARIABLES
  latest,   \* latestInstallations, NoState while stateReceived is false
  gate,     \* the state of the scan: idle, running, or running with one queued
  run,      \* the run that concatMap is subscribed to
  target,   \* what that run has read
  applied,  \* what the engines were last brought to
  failed    \* history: the last run ended with an error

daemonVars == <<latest, gate, run, target, applied, failed>>

DaemonTypeOK ==
  /\ latest \in Versions \cup {NoState}
  /\ gate \in {"idle", "running", "queued"}
  /\ run \in {"none", "started", "applying"}
  /\ target \in Versions \cup {NoState}
  /\ applied \in Versions \cup {NoState}
  /\ failed \in BOOLEAN

DaemonInit ==
  /\ latest = NoState
  /\ gate = "idle"
  /\ run = "none"
  /\ target = NoState
  /\ applied = NoState
  /\ failed = FALSE

(* The scan's answer to a trigger: start a run, queue one, or drop. *)
trigger ==
  CASE gate = "idle"    -> gate' = "running" /\ run' = "started"
    [] gate = "running" -> gate' = "queued" /\ UNCHANGED run
    [] gate = "queued"  -> UNCHANGED <<gate, run>>

(* Mutant of the gate: the end of a run forgets the queued one. *)
doneForgettingQueued ==
  /\ gate' = "idle"
  /\ run' = "none"
  /\ target' = NoState

(* The scan's answer to the end of a run.  concatMap hears of it after the *)
(* scan, and subscribes to the queued run.                                 *)
done ==
  /\ IF gate = "queued"
     THEN gate' = "running" /\ run' = "started"
     ELSE gate' = "idle" /\ run' = "none"
  /\ target' = NoState

(* A state event on the stream: the copy is replaced, then a run signalled. *)
setDesiredInstallations(v) ==
  /\ latest' = v
  /\ trigger
  /\ UNCHANGED <<target, applied, failed>>

(* The periodic trigger.  Before the first state its run completes at once *)
(* and changes nothing.                                                    *)
intervalTrigger ==
  /\ latest # NoState
  /\ trigger
  /\ UNCHANGED <<latest, target, applied, failed>>

(* Mutant of sync: the copy is read when the run is queued, not when it    *)
(* starts to apply: a run already under way keeps its old target.          *)
readStale ==
  /\ run = "started"
  /\ run' = "applying"
  /\ target' = IF applied = NoState THEN latest ELSE applied
  /\ UNCHANGED <<latest, gate, applied, failed>>

(* sync, past its first await. *)
readDesired ==
  /\ run = "started"
  /\ run' = "applying"
  /\ target' = latest
  /\ UNCHANGED <<latest, gate, applied, failed>>

runSucceeds ==
  /\ run = "applying"
  /\ applied' = target
  /\ failed' = FALSE
  /\ done
  /\ UNCHANGED latest

(* An error at any point: the drivers already synchronised stay so, which  *)
(* leaves the engines between two states.                                  *)
runFails ==
  /\ run # "none"
  /\ applied' = IF run = "applying" THEN NoState ELSE applied
  /\ failed' = TRUE
  /\ done
  /\ UNCHANGED latest

DaemonStep == intervalTrigger \/ readDesired \/ runSucceeds \/ runFails

DaemonNext == DaemonStep \/ \E v \in Versions : setDesiredInstallations(v)

DaemonSpec == DaemonInit /\ [][DaemonNext]_daemonVars

(* The interval keeps ticking, runs end, and neither the lookups before    *)
(* the copy is read nor the drivers fail for ever.                         *)
DaemonFairness ==
  /\ WF_daemonVars(intervalTrigger)
  /\ WF_daemonVars(readDesired \/ runFails)
  /\ WF_daemonVars(runSucceeds \/ runFails)
  /\ SF_daemonVars(readDesired)
  /\ SF_daemonVars(runSucceeds)

DaemonFairSpec == DaemonSpec /\ DaemonFairness

(***************************************************************************)
(* Properties                                                              *)
(***************************************************************************)

(* sync-coordinator.ts 69-72 drops triggers.  No dropped trigger loses a   *)
(* state: an idle daemon whose last run succeeded has applied the newest   *)
(* state it was pushed.                                                    *)
IdleIsCurrent ==
  gate = "idle" /\ latest # NoState /\ ~failed => applied = latest

(* Once a run has read the copy, a newer state has a run queued for it. *)
NewerStateIsQueued ==
  run = "applying" /\ target # latest => gate = "queued"

(* The state received last is applied, through failing runs and dropped    *)
(* triggers, unless a newer one arrives.                                   *)
LatestIsApplied ==
  \A v \in Versions : (latest = v) ~> (applied = v \/ latest # v)
=============================================================================
