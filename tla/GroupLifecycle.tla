--------------------------- MODULE GroupLifecycle ---------------------------
(***************************************************************************)
(* A model split across machines: one vLLM engine on each member's node,   *)
(* started together, failed together and tried again as a new attempt (the *)
(* group's generation).  Members never speak to each other: each daemon    *)
(* (model-installation/vllm.ts, state.ts) reports its stage to the tether, *)
(* which stores it, raises the generation when a member failed             *)
(* (status-writer.ts) and pushes to every member what it has stored of all *)
(* (desired-state.ts).                                                     *)
(*                                                                         *)
(* One group, one installation on each node.  A report is stored, and what *)
(* is stored is pushed, at once; StatusWriter and DesiredStateFlow open    *)
(* the queue and the pushes.  A synchronisation works from what it was     *)
(* given when it began.  Memory, addresses, hosts and log texts are left   *)
(* out: a download, an admission or a start may fail, and an admission may *)
(* have to wait.                                                           *)
(***************************************************************************)
EXTENDS Naturals

CONSTANTS
  Members,
  Leader,       \* rank 0, the only member with an endpoint
  Budget,       \* GROUP_RESTART_BUDGET
  MaxFaults     \* bound on failures of engines, steps, calls and processes

ASSUME GroupAssumption == Leader \in Members /\ Budget \in Nat /\ MaxFaults \in Nat

NoReport == [life |-> "none", stage |-> "none", attempt |-> 0]
NoDesired == [attempt |-> 0, admitted |-> FALSE, failed |-> FALSE, ran |-> FALSE]

VARIABLES
  generation,   \* of the group's rows
  stored,       \* model_installation_state of each member
  local,        \* localStateCache
  accepted,     \* acceptedByTether
  held,         \* members in admittedGb
  fetched,      \* members in downloaded
  engine,       \* each member's container: its state and the attempt it was launched for
  sync,         \* where each daemon's synchronisation is, and the state it works from
  watch,        \* the attempt of the health watch, 0 when there is none
  outcome,      \* what a watch came to, until that is dealt with
  vouched,      \* history: members stored as admitted or running, by attempt
  faults

tetherVars == <<generation, stored, vouched>>
nodeVars == <<local, accepted, held, fetched, engine, sync, watch, outcome>>
groupVars == <<tetherVars, nodeVars, faults>>

NoEngine == [state |-> "none", attempt |-> 0]
IdleSync == [at |-> "idle", target |-> NoDesired]
NoOutcome == [at |-> "none", verdict |-> "failed", attempt |-> 0, attached |-> FALSE]

GroupInit ==
  /\ generation = 1
  /\ stored = [m \in Members |-> NoReport]
  /\ local = [m \in Members |-> NoReport] /\ accepted = [m \in Members |-> NoReport]
  /\ held = {} /\ fetched = {}
  /\ engine = [m \in Members |-> NoEngine]
  /\ sync = [m \in Members |-> IdleSync]
  /\ watch = [m \in Members |-> 0]
  /\ outcome = [m \in Members |-> NoOutcome]
  /\ vouched = {}
  /\ faults = 0

Fault == faults < MaxFaults /\ faults' = faults + 1
Active(m) == engine[m].state # "none"

(***************************************************************************)
(* The tether                                                              *)
(***************************************************************************)

(* generationAfter: the group is tried again when a member failed the      *)
(* attempt it is on and the budget is not spent.                           *)
restartsAfter(report) ==
  report.stage = "failed" /\ report.attempt = generation /\ generation <= Budget

(* flushPending of one report: writeStates, restartFailedGroups and the    *)
(* listeners.  A change of stage, of attempt or of the group's rows is     *)
(* pushed to all.                                                          *)
Stores(m, report, restart) ==
  /\ stored' = [stored EXCEPT ![m] = report]
  /\ vouched' = IF report.stage \in {"admitted", "running"}
                THEN vouched \cup {<<m, report.attempt>>} ELSE vouched
  /\ generation' = IF restart THEN generation + 1 ELSE generation

(* Mutant: a stage is passed on whatever attempt it was reported for. *)
stageOf_AnyAttempt(n) == stored[n].stage

(* toDesiredState 34. *)
stageOf(n) == IF stored[n].attempt = generation THEN stored[n].stage ELSE "none"

(* What member m is pushed, as far as it looks at it: whether every member *)
(* is admitted (vllm.ts 46), whether one failed (50), and whether its own  *)
(* stage is running (635).                                                 *)
toDesiredState(m) ==
  [attempt |-> generation,
   admitted |-> \A n \in Members : stageOf(n) \in {"admitted", "running"},
   failed |-> \E n \in Members : stageOf(n) = "failed",
   ran |-> stageOf(m) = "running"]

(***************************************************************************)
(* updateInstallationState.  A report that says what was accepted last is  *)
(* not sent; a call that fails is not repeated by itself.                  *)
(***************************************************************************)

Entry(life, stage, attempt) == [life |-> life, stage |-> stage, attempt |-> attempt]

Accepted(m, entry) == accepted' = [accepted EXCEPT ![m] = entry]

Reported(m, entry) ==
  /\ local' = [local EXCEPT ![m] = entry]
  /\ Accepted(m, entry)
  /\ Stores(m, entry, restartsAfter(entry))

(* The call fails; the tether accepts the report and stops before it is    *)
(* written; the report is written and the restart is not (line 169).       *)
ReportFails(m, entry) ==
  /\ Fault
  /\ local' = [local EXCEPT ![m] = entry]
  /\ \/ UNCHANGED <<accepted, tetherVars>>
     \/ Accepted(m, entry) /\ UNCHANGED tetherVars
     \/ restartsAfter(entry) /\ Accepted(m, entry) /\ Stores(m, entry, FALSE)

updateInstallationState(m, entry) ==
  \/ /\ accepted[m] = entry
     /\ local' = [local EXCEPT ![m] = entry]
     /\ UNCHANGED <<accepted, tetherVars, faults>>
  \/ accepted[m] # entry /\ Reported(m, entry) /\ UNCHANGED faults
  \/ accepted[m] # entry /\ ReportFails(m, entry)

NoReportSent == UNCHANGED <<local, accepted, tetherVars, faults>>

(***************************************************************************)
(* syncVllmInstallations                                                   *)
(***************************************************************************)

behindItsGroup(m, d) == local[m].attempt # 0 /\ local[m].attempt < d.attempt

Ends(m) == sync' = [sync EXCEPT ![m] = IdleSync]
Begins(m, at) == sync' = [sync EXCEPT ![m] = [at |-> at, target |-> toDesiredState(m)]]
Leaving(m) == toDesiredState(m).failed \/ behindItsGroup(m, toDesiredState(m))

stopWatching(m) ==
  /\ watch' = [watch EXCEPT ![m] = 0]
  /\ outcome' = [outcome EXCEPT ![m].attached = FALSE]

(* A rank past 0 is up while its process lives. *)
isUp(m) == engine[m].state = "up" \/ (m # Leader /\ Active(m))

SyncBegins(m) == sync[m].at = "idle"

(* It runs and stays: reconcileStaleStates and reconcileOne. *)
syncKeeps(m) ==
  /\ SyncBegins(m)
  /\ Active(m) /\ ~Leaving(m)
  /\ watch[m] = 0
  /\ \/ /\ local[m].life # "ready" /\ isUp(m)
        /\ updateInstallationState(m, Entry("ready", "running", generation))
     \/ /\ local[m].life = "failed" /\ ~isUp(m)
        /\ updateInstallationState(m, [local[m] EXCEPT !.life = "starting"])
  /\ UNCHANGED <<held, fetched, engine, sync, watch, outcome>>

(* It restarts again and again, or dies under the reconciliation: failed   *)
(* and stopped.                                                            *)
reconcileFails(m) ==
  /\ SyncBegins(m)
  /\ Active(m) /\ ~Leaving(m)
  /\ watch[m] = 0 /\ local[m].life # "ready"
  /\ Reported(m, Entry("failed", "failed", generation))
  /\ engine' = [engine EXCEPT ![m] = NoEngine]
  /\ UNCHANGED <<held, fetched, sync, watch, outcome, faults>>

(* It runs for an attempt that failed or is over: stopped, and then a      *)
(* candidate to be started again.                                          *)
syncStops(m) ==
  /\ SyncBegins(m)
  /\ Active(m) /\ Leaving(m)
  /\ stopWatching(m)
  /\ engine' = [engine EXCEPT ![m] = NoEngine]
  /\ Begins(m, "candidate")
  /\ NoReportSent /\ UNCHANGED <<held, fetched>>

(* It runs over a link that is gone. *)
syncUncouples(m) ==
  /\ SyncBegins(m)
  /\ Active(m) /\ ~Leaving(m)
  /\ stopWatching(m)
  /\ engine' = [engine EXCEPT ![m] = NoEngine]
  /\ Fault
  /\ Reported(m, Entry("failed", "failed", generation))
  /\ UNCHANGED <<held, fetched, sync>>

(* startNewInstallations 711-733: skipped, failed with its group, failed   *)
(* as exited, or taken on.                                                 *)
startNewInstallations(m) ==
  LET d == IF sync[m].at = "idle" THEN toDesiredState(m) ELSE sync[m].target
      failedHere == local[m].life = "failed" /\ ~behindItsGroup(m, d)
      failure == Entry("failed", "failed", d.attempt) IN
  /\ sync[m].at = "candidate" \/ (SyncBegins(m) /\ ~Active(m))
  /\ \/ /\ failedHere
        /\ Ends(m) /\ NoReportSent /\ UNCHANGED <<held, fetched, engine>>
     \/ /\ ~failedHere /\ d.failed
        /\ updateInstallationState(m, failure)
        /\ held' = held \ {m} /\ fetched' = fetched \ {m}
        /\ Ends(m) /\ UNCHANGED engine
     \/ /\ ~failedHere /\ ~d.failed /\ d.ran
        /\ updateInstallationState(m, failure)
        /\ engine' = [engine EXCEPT ![m] = NoEngine]
        /\ Ends(m) /\ UNCHANGED <<held, fetched>>
     \/ /\ ~failedHere /\ ~d.failed /\ ~d.ran
        /\ IF m \in fetched THEN NoReportSent
           ELSE updateInstallationState(m, Entry("starting", "preparing", d.attempt))
        /\ sync' = [sync EXCEPT ![m] = [at |-> "preparing", target |-> d]] /\ UNCHANGED <<held, fetched, engine>>
  /\ UNCHANGED <<watch, outcome>>

startsNow(d) == d.admitted

(* downloadAndStart 307-313: downloaded, and too little memory is free. *)
waitForMemory(m) ==
  /\ sync[m].at = "preparing"
  /\ m \notin held
  /\ fetched' = fetched \cup {m}
  /\ updateInstallationState(m, Entry("starting", "preparing", sync[m].target.attempt))
  /\ Ends(m)
  /\ UNCHANGED <<held, engine, watch, outcome>>

(* 307-319: admitted, which holds until the member is ready; then the      *)
(* start, or the wait for the others.                                      *)
admit(m) ==
  LET d == sync[m].target IN
  /\ sync[m].at = "preparing"
  /\ held' = held \cup {m}
  /\ \/ /\ ~startsNow(d)
        /\ fetched' = fetched \cup {m}
        /\ updateInstallationState(m, Entry("starting", "admitted", d.attempt))
        /\ Ends(m)
     \/ /\ startsNow(d)
        /\ fetched' = fetched \ {m}
        /\ updateInstallationState(m, [local[m] EXCEPT !.life = "starting"])
        /\ sync' = [sync EXCEPT ![m] = [at |-> "launching", target |-> [NoDesired EXCEPT !.attempt = d.attempt]]]
  /\ UNCHANGED <<engine, watch, outcome>>

(* ops.start, then watchUntilHealthy. *)
launch(m) ==
  /\ sync[m].at = "launching"
  /\ engine' = [engine EXCEPT ![m] = [state |-> "loading", attempt |-> sync[m].target.attempt]]
  /\ watch' = [watch EXCEPT ![m] = sync[m].target.attempt]
  /\ outcome' = [outcome EXCEPT ![m].attached = FALSE]
  /\ Ends(m)
  /\ NoReportSent /\ UNCHANGED <<held, fetched>>

(* failInstallation without a container: the download, the admission or    *)
(* the start threw.                                                        *)
startFails(m) ==
  /\ sync[m].at \in {"preparing", "launching"}
  /\ Fault
  /\ held' = held \ {m} /\ fetched' = fetched \ {m}
  /\ Reported(m, Entry("failed", "failed", sync[m].target.attempt))
  /\ Ends(m)
  /\ UNCHANGED <<engine, watch, outcome>>

(***************************************************************************)
(* The health watch.  What it came to is reported even when the            *)
(* synchronisation has ended the watch meanwhile.                          *)
(***************************************************************************)

Peers(m) == {n \in Members : Active(n) /\ engine[n].attempt = engine[m].attempt}
Complete(m) == Peers(m) = Members

(* A peer that is not there, and is not about to be launched either: the   *)
(* deadlines are long against a launch.                                    *)
Abandoned(m) ==
  \E n \in Members \ Peers(m) :
    ~(engine[m].attempt = generation /\ stageOf(n) = "admitted" /\ toDesiredState(n).admitted)

Came(m, verdict) ==
  /\ watch[m] # 0 /\ outcome[m].at = "none"
  /\ outcome' = [outcome EXCEPT ![m] = [at |-> "report", verdict |-> verdict,
                                        attempt |-> watch[m], attached |-> TRUE]]

pollHealthy(m) ==
  /\ Came(m, "ready")
  /\ isUp(m)
  /\ NoReportSent /\ UNCHANGED <<held, fetched, engine, sync, watch>>

(* The process is gone, or the deadline passed while it waits for a peer. *)
pollFails(m) ==
  /\ Came(m, "failed")
  /\ ~isUp(m) /\ (Active(m) => Abandoned(m))
  /\ held' = held \ {m} /\ fetched' = fetched \ {m}
  /\ NoReportSent /\ UNCHANGED <<engine, sync, watch>>

(* After the warm-up, or once the logs are read. *)
outcomeReports(m) ==
  LET o == outcome[m] IN
  /\ o.at = "report"
  /\ updateInstallationState(m, IF o.verdict = "ready" THEN Entry("ready", "running", o.attempt)
                                                       ELSE Entry("failed", "failed", o.attempt))
  /\ outcome' = [outcome EXCEPT ![m].at = "stop"]
  /\ UNCHANGED <<held, fetched, engine, sync, watch>>

(* The end of markInstallationReady or of failInstallation, and finalize. *)
outcomeEnds(m) ==
  LET o == outcome[m] IN
  /\ o.at = "stop"
  /\ held' = IF o.verdict = "ready" THEN held \ {m} ELSE held
  /\ engine' = IF o.verdict = "failed" THEN [engine EXCEPT ![m] = NoEngine] ELSE engine
  /\ watch' = IF o.attached THEN [watch EXCEPT ![m] = 0] ELSE watch
  /\ outcome' = [outcome EXCEPT ![m] = NoOutcome]
  /\ NoReportSent /\ UNCHANGED <<fetched, sync>>

(***************************************************************************)
(* Engines and processes, external                                         *)
(***************************************************************************)

EngineBecomes(m, e) ==
  /\ engine' = [engine EXCEPT ![m] = e]
  /\ UNCHANGED <<tetherVars, local, accepted, held, fetched, sync, watch, outcome>>

(* The engines of an attempt find each other. *)
engineUp(m) ==
  /\ engine[m].state = "loading" /\ Complete(m)
  /\ EngineBecomes(m, [engine[m] EXCEPT !.state = "up"]) /\ UNCHANGED faults

(* It waited for a peer too long, or its collectives timed out. *)
engineAlone(m) ==
  /\ Active(m) /\ Abandoned(m)
  /\ EngineBecomes(m, NoEngine) /\ UNCHANGED faults

engineDies(m) == Active(m) /\ EngineBecomes(m, NoEngine) /\ Fault

(* Everything but the container is memory of the process. *)
daemonRestart(m) ==
  /\ Fault
  /\ local' = [local EXCEPT ![m] = NoReport] /\ accepted' = [accepted EXCEPT ![m] = NoReport]
  /\ held' = held \ {m} /\ fetched' = fetched \ {m}
  /\ sync' = [sync EXCEPT ![m] = IdleSync]
  /\ watch' = [watch EXCEPT ![m] = 0]
  /\ outcome' = [outcome EXCEPT ![m] = NoOutcome]
  /\ UNCHANGED <<generation, stored, vouched, engine>>

SyncStep(m) ==
  \/ syncKeeps(m) \/ reconcileFails(m) \/ syncStops(m) \/ syncUncouples(m) \/ startNewInstallations(m)
  \/ waitForMemory(m) \/ admit(m) \/ launch(m) \/ startFails(m)
OutcomeStep(m) == outcomeReports(m) \/ outcomeEnds(m)

GroupNext ==
  \E m \in Members :
       \/ SyncStep(m)
       \/ pollHealthy(m) \/ pollFails(m) \/ OutcomeStep(m)
       \/ engineUp(m) \/ engineAlone(m) \/ engineDies(m) \/ daemonRestart(m)

GroupSpec == GroupInit /\ [][GroupNext]_groupVars

(***************************************************************************)
(* Properties                                                              *)
(***************************************************************************)

(* desired-state.ts 34, vllm.ts 46-48, 314: members launch from different  *)
(* pushes at different times, yet no engine runs for an attempt that not   *)
(* every member was stored as admitted in.                                 *)
LaunchedTogether ==
  \A m, n \in Members : Active(m) => <<n, engine[m].attempt>> \in vouched

(* vllm.ts 636: "A member never restarts on its own."  No member is        *)
(* launched again for an attempt whose launch it is still watching.        *)
NeverRestartsAlone ==
  [][\A m \in Members : launch(m) => watch[m] # sync[m].target.attempt]_groupVars
=============================================================================
