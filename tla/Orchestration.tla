--------------------------- MODULE Orchestration ---------------------------
(***************************************************************************)
(* The dashboard's deployment sync: a single-flight loop that reads what   *)
(* deployments require, what is installed and which nodes are live, plans, *)
(* and applies the plan in two statements that share no transaction.       *)
(*                                                                         *)
(* vLLM installations on one node each, so replicas of one deployment are  *)
(* on different nodes; memory is one number per node.  A ranking strategy  *)
(* only decides which of several fitting nodes is taken, and the order of  *)
(* rows in a query is the database's: both are free choices here.  An      *)
(* installation is its row, deleted rows left out.                         *)
(***************************************************************************)
EXTENDS Integers, FiniteSets, FiniteSetsExt

CONSTANTS
  Nodes,
  Deployments,    \* model requirements: a deployment, or one side of a canary one
  Capacity,       \* estCapacity of each node
  Need,           \* what one installation of each deployment is charged
  LicenseLimit,   \* maxVramGb
  MaxReplicas,    \* bound on a deployment's replicas
  MaxEdits        \* bound on the edits of deployments

ASSUME OrchestrationAssumption ==
  /\ IsFiniteSet(Nodes) /\ IsFiniteSet(Deployments)
  /\ Capacity \in [Nodes -> Nat]
  /\ Need \in [Deployments -> Nat \ {0}]
  /\ LicenseLimit \in Nat /\ MaxReplicas \in Nat /\ MaxEdits \in Nat

(* Runs of runSyncDeployedModels that may be under way. *)
Runs == {1, 2}

Settings == {0, 1}

(* Port p stands for VLLM_PORT_BASE + p. *)
Ports == 0 .. Cardinality(Deployments)

VARIABLES
  replicas, settings,   \* of each deployment; none while it is disabled or deleted
  live,                 \* nodes available and not deleted
  catalog,              \* the info server answers
  rows,                 \* model_installation
  misfits,              \* those reported not to fit on their node
  edits,                \* edits so far
  uncalled,             \* a handler has committed its edit and not yet called sync
  unseen,               \* history: an edit that no run has tried to read yet
  activeSync, rerunRequested,
  phase,
  required, wanted,     \* the replicas and settings each run has read
  servers,              \* the live nodes it has read
  kept,                 \* its cluster state: installations on live nodes that stay
  toUninstall, toInstall,
  unplanned             \* the requirements it has yet to plan

deploymentVars == <<replicas, settings, edits, uncalled, unseen>>
clusterVars == <<live, catalog, misfits>>
syncVars == <<activeSync, rerunRequested>>
planVars == <<required, wanted, servers, kept, toUninstall, toInstall, unplanned>>
vars == <<deploymentVars, clusterVars, rows, syncVars, phase, planVars>>

NoPlan ==
  /\ required = [r \in Runs |-> [d \in Deployments |-> 0]]
  /\ wanted = [r \in Runs |-> [d \in Deployments |-> 0]]
  /\ servers = [r \in Runs |-> {}]
  /\ kept = [r \in Runs |-> {}]
  /\ toUninstall = [r \in Runs |-> {}]
  /\ toInstall = [r \in Runs |-> {}]
  /\ unplanned = [r \in Runs |-> {}]

Init ==
  /\ replicas = [d \in Deployments |-> 0]
  /\ settings = [d \in Deployments |-> 0]
  /\ live = Nodes
  /\ catalog = TRUE
  /\ rows = {}
  /\ misfits = {}
  /\ edits = 0
  /\ uncalled = FALSE
  /\ unseen = FALSE
  /\ activeSync = FALSE
  /\ rerunRequested = FALSE
  /\ phase = [r \in Runs |-> "idle"]
  /\ NoPlan

-----------------------------------------------------------------------------
(* The handlers of the deployment procedures and the cluster around them. *)

(* Create, update, toggle or delete: the commit, before sync is called.    *)
(* The capacity check awaited before it looked at the cluster as it was    *)
(* then, so it restricts nothing here.                                     *)
EditDeployment(d, n, s) ==
  /\ edits < MaxEdits
  /\ edits' = edits + 1
  /\ replicas' = [replicas EXCEPT ![d] = n]
  /\ settings' = [settings EXCEPT ![d] = s]
  /\ uncalled' = TRUE
  /\ unseen' = TRUE
  /\ UNCHANGED <<clusterVars, rows, syncVars, phase, planVars>>

(* retryDeployment replaces failed installations: it deletes them. *)
retryDeployment(failed) ==
  /\ edits < MaxEdits
  /\ edits' = edits + 1
  /\ rows' = rows \ failed
  /\ misfits' = misfits \ failed
  /\ uncalled' = TRUE
  /\ UNCHANGED <<replicas, settings, unseen, live, catalog, syncVars, phase, planVars>>

NodeOnOrOff(n) ==
  /\ live' = IF n \in live THEN live \ {n} ELSE live \cup {n}
  /\ UNCHANGED <<deploymentVars, catalog, misfits, rows, syncVars, phase, planVars>>

CatalogOnOrOff ==
  /\ catalog' = ~catalog
  /\ UNCHANGED <<deploymentVars, live, misfits, rows, syncVars, phase, planVars>>

(* A daemon reports that an installation does not fit on its node. *)
ReportMisfit(i) ==
  /\ i \in rows /\ i.node \in live
  /\ misfits' = misfits \cup {i}
  /\ UNCHANGED <<deploymentVars, live, catalog, rows, syncVars, phase, planVars>>

-----------------------------------------------------------------------------
(* The single-flight loop. *)

nextRun == IF phase[1] = "idle" THEN 1 ELSE 2

(* Mutant of syncDeployedModels: every call starts a run. *)
syncWithoutFlight ==
  /\ uncalled' = FALSE
  /\ phase[nextRun] = "idle"
  /\ phase' = [phase EXCEPT ![nextRun] = "started"]
  /\ activeSync' = TRUE
  /\ UNCHANGED <<replicas, settings, edits, unseen, clusterVars, rows, rerunRequested, planVars>>

(* The call of a handler, of the interval, or of the start-up. *)
syncDeployedModels ==
  /\ uncalled' = FALSE
  /\ IF activeSync
     THEN rerunRequested' = TRUE /\ UNCHANGED <<activeSync, phase>>
     ELSE /\ activeSync' = TRUE
          /\ phase' = [phase EXCEPT ![nextRun] = "started"]
          /\ UNCHANGED rerunRequested
  /\ UNCHANGED <<replicas, settings, edits, unseen, clusterVars, rows, planVars>>

(* Runs that are over leave nothing behind. *)
forgetPlans(rs) ==
  LET cleared(f, none) == [r \in Runs |-> IF r \in rs THEN none ELSE f[r]]
  IN /\ required' = cleared(required, [d \in Deployments |-> 0])
     /\ wanted' = cleared(wanted, [d \in Deployments |-> 0])
     /\ servers' = cleared(servers, {})
     /\ kept' = cleared(kept, {})
     /\ toUninstall' = cleared(toUninstall, {})
     /\ toInstall' = cleared(toInstall, {})
     /\ unplanned' = cleared(unplanned, {})

(* Mutant of the loop: no rerun. *)
endRunForGood(r) ==
  /\ phase' = [phase EXCEPT ![r] = "idle"]
  /\ activeSync' = FALSE
  /\ rerunRequested' = FALSE
  /\ forgetPlans({r})

(* A run is over: once more if it was asked for meanwhile. *)
endRun(r) ==
  /\ phase' = [phase EXCEPT ![r] = IF rerunRequested THEN "started" ELSE "idle"]
  /\ activeSync' = rerunRequested
  /\ rerunRequested' = FALSE
  /\ forgetPlans({r})

(* Any query fails, or the dashboard loses its database: logged.  A run    *)
(* that failed to read the deployments counts as having tried.             *)
runFails(r) ==
  /\ phase[r] # "idle"
  /\ unseen' = (unseen /\ (phase[r] = "started" => uncalled \/ rerunRequested))
  /\ endRun(r)
  /\ UNCHANGED <<replicas, settings, edits, uncalled, clusterVars, rows>>

(* The dashboard starts anew, and syncs once it is warm. *)
restart ==
  /\ phase' = [r \in Runs |-> "idle"]
  /\ activeSync' = FALSE
  /\ rerunRequested' = FALSE
  /\ forgetPlans(Runs)
  /\ uncalled' = TRUE
  /\ UNCHANGED <<replicas, settings, edits, unseen, clusterVars, rows>>

-----------------------------------------------------------------------------
(* One run. *)

assembleModelRequirementTable(r) ==
  /\ phase[r] = "started"
  /\ phase' = [phase EXCEPT ![r] = "required"]
  /\ required' = [required EXCEPT ![r] = replicas]
  /\ wanted' = [wanted EXCEPT ![r] = settings]
  /\ unseen' = FALSE
  /\ UNCHANGED <<replicas, settings, edits, uncalled, clusterVars, rows, syncVars,
                 servers, kept, toUninstall, toInstall, unplanned>>

(* The sum of the needs, one element for each unit of memory. *)
Charge(is) == Cardinality(UNION {{i} \X (1 .. Need[i.deployment]) : i \in is})

On(n, is) == {i \in is : i.node = n}

Of(d, is) == {i \in is : i.deployment = d}

(* placeOnNode, checkNodeCompatibility and nodeExcludesPlacement. *)
CanTake(n, d, is) ==
  /\ Of(d, On(n, is)) = {}
  /\ Charge(On(n, is)) + Need[d] =< Capacity[n]

(* Each orphan is looked up on its own, against the same cluster state. *)
collectReassignableOrphans(orphans, nodes, active) ==
  {o \in orphans : catalog /\ \E n \in nodes : CanTake(n, o.deployment, active)}

(* Which replicas are too many is up to the order of the rows. *)
ExcessChoices(r, active) ==
  {ex \in SUBSET active :
     \A d \in Deployments :
       Cardinality(Of(d, active \ ex)) =
         IF Cardinality(Of(d, active)) > required[r][d] THEN required[r][d]
                                                        ELSE Cardinality(Of(d, active))}

(* Mutant of collectDriftedInstallations: nothing has drifted. *)
noneDrifted(r, is) == {}

drifted(r, is) ==
  {i \in is : required[r][i.deployment] > 0 /\ i.settings # wanted[r][i.deployment]}

(* What is installed and live is read, and what has to go is collected.    *)
collect(r) ==
  /\ phase[r] = "required"
  /\ phase' = [phase EXCEPT ![r] = "planning"]
  /\ servers' = [servers EXCEPT ![r] = live]
  /\ LET active == {i \in rows : i.node \in live}
         orphaned == collectReassignableOrphans(rows \ active, live, active)
     IN \E excess \in ExcessChoices(r, active) :
          LET trimmed == active \ excess
              stay == trimmed \ (drifted(r, trimmed) \cup misfits)
          IN /\ kept' = [kept EXCEPT ![r] = stay]
             /\ toUninstall' = [toUninstall EXCEPT ![r] = orphaned \cup (active \ stay)]
  /\ unplanned' = [unplanned EXCEPT ![r] = {d \in Deployments : required[r][d] > 0}]
  /\ UNCHANGED <<deploymentVars, clusterVars, rows, syncVars, required, wanted, toInstall>>

(* Mutant of installationsOn: what this plan adds is not counted. *)
installedOnly(r) == kept[r]

(* The installations the plan counts on. *)
installations(r) == kept[r] \cup toInstall[r]

firstFreePort(n, is) ==
  CHOOSE p \in Ports : /\ \A i \in On(n, is) : i.port # p
                       /\ \A q \in Ports : q < p => \E i \in On(n, is) : i.port = q

AtMost(a, b) == IF a < b THEN a ELSE b

(* The replicas of d that the licence still allows. *)
licensed(r, d) ==
  IF Charge(installations(r)) > LicenseLimit
  THEN 0
  ELSE (LicenseLimit - Charge(installations(r))) \div Need[d]

(* The replica loop for one requirement.  Each replica takes another node, *)
(* so as many are placed as are missing, fit, and are licensed.            *)
planNewInstallations(r, d) ==
  /\ phase[r] = "planning"
  /\ d \in unplanned[r]
  /\ unplanned' = [unplanned EXCEPT ![r] = @ \ {d}]
  /\ LET missing == required[r][d] - Cardinality(Of(d, kept[r]))
         fitting == {n \in servers[r] : CanTake(n, d, installations(r))}
         count == AtMost(AtMost(missing, Cardinality(fitting)), licensed(r, d))
         new(n) == [deployment |-> d, node |-> n, settings |-> wanted[r][d],
                    port |-> firstFreePort(n, installations(r))]
     IN IF ~catalog \/ missing =< 0
        THEN UNCHANGED toInstall
        ELSE \E ns \in kSubset(count, fitting) :
               toInstall' = [toInstall EXCEPT ![r] = @ \cup {new(n) : n \in ns}]
  /\ UNCHANGED <<deploymentVars, clusterVars, rows, syncVars, phase, required, wanted,
                 servers, kept, toUninstall>>

(* applyChanges, its first statement. *)
applyUninstall(r) ==
  /\ phase[r] = "planning"
  /\ unplanned[r] = {}
  /\ phase' = [phase EXCEPT ![r] = "inserting"]
  /\ rows' = rows \ toUninstall[r]
  /\ misfits' = misfits \ toUninstall[r]
  /\ UNCHANGED <<deploymentVars, live, catalog, syncVars, planVars>>

(* applyChanges, its second statement. *)
applyInstall(r) ==
  /\ phase[r] = "inserting"
  /\ rows' = rows \cup toInstall[r]
  /\ endRun(r)
  /\ UNCHANGED <<deploymentVars, clusterVars>>

RunStep(r) ==
  \/ assembleModelRequirementTable(r) \/ collect(r)
  \/ \E d \in Deployments : planNewInstallations(r, d)
  \/ applyUninstall(r) \/ applyInstall(r)

Environment ==
  \/ \E d \in Deployments, n \in 0 .. MaxReplicas, s \in Settings : EditDeployment(d, n, s)
  \/ \E failed \in SUBSET rows : failed # {} /\ retryDeployment(failed)
  \/ \E n \in Nodes : NodeOnOrOff(n)
  \/ CatalogOnOrOff
  \/ \E i \in rows : ReportMisfit(i)
  \/ restart

Next ==
  \/ Environment
  \/ syncDeployedModels
  \/ \E r \in Runs : RunStep(r) \/ runFails(r)

Spec == Init /\ [][Next]_vars

(* A run with nothing to install ends the same way when it fails last.     *)
(* The environment comes to rest with the catalog up, failures end, and    *)
(* the interval and the event loop go on.                                  *)
RestSpec ==
  /\ Spec
  /\ <>[][~(Environment \/ \E r \in Runs : runFails(r) /\ ~applyInstall(r))]_vars
  /\ <>[]catalog
  /\ WF_vars(syncDeployedModels)
  /\ \A r \in Runs : WF_vars(RunStep(r))

(***************************************************************************)
(* Properties                                                              *)
(***************************************************************************)

(* orchestration.ts 586: "prevents two parallel runs from picking the same *)
(* (node, port)".  No two installations on a node share a port, whatever   *)
(* was edited, retried, lost or half applied meanwhile.                    *)
PortsDiffer ==
  \A i, j \in rows : i # j /\ i.node = j.node => i.port # j.port

(* orchestration.ts 85-90: a deployment has at most one installation on a  *)
(* node, also when an insert follows an uninstall that came to nothing.    *)
ReplicasSpread ==
  \A i, j \in rows : i.deployment = j.deployment /\ i.node = j.node => i = j

(* cluster-state.ts 67-86: what is installed on a node fits on it, the     *)
(* installations it kept while it was offline included.                    *)
CapacityKept == \A n \in Nodes : Charge(On(n, rows)) =< Capacity[n]

(* orchestration.ts 587-605: an edit is not left to the five-minute timer  *)
(* because a run was under way: until a run tries to read it, its          *)
(* handler's call, a rerun, or a run yet to read the deployments is ahead. *)
EditHasARun ==
  unseen => uncalled \/ rerunRequested \/ \E r \in Runs : phase[r] = "started"

(* orchestration.ts 310-311: "stopping a replica loop early when the next  *)
(* install would exceed the license VRAM cap".  A run that installs leaves *)
(* the nodes it has counted within the licence: all its requirements       *)
(* together, and whatever was edited or deleted since it read the rows.    *)
LicenseKept ==
  [][\A r \in Runs :
       applyInstall(r) /\ toInstall[r] # {} =>
         Charge({i \in rows' : i.node \in servers[r]}) =< LicenseLimit]_vars

(* orchestration.ts 543-573: on the nodes a run has counted, it leaves no  *)
(* more of a deployment than it read was required, and all of it with the  *)
(* settings it read: nothing that an earlier run left half done, that came *)
(* back with its node or that a retry deleted makes it install too many.   *)
RequiredAtMost ==
  [][\A r \in Runs : applyInstall(r) =>
       \A d \in Deployments :
         LET there == {i \in Of(d, rows') : i.node \in servers[r]}
         IN /\ Cardinality(there) =< required[r][d]
            /\ \A i \in there : i.settings = wanted[r][d]]_vars

Settled ==
  \A d \in Deployments :
    LET serving == {i \in Of(d, rows) : i.node \in live}
    IN /\ Cardinality(serving) = AtMost(replicas[d], Cardinality(live))
       /\ \A i \in serving : i.settings = settings[d]

(* orchestration.ts 543-573: where every node has room for every           *)
(* deployment, the replicas that run are in the end the required ones,     *)
(* whatever run failed between its two statements.                         *)
Converges == <>[]Settled
=============================================================================
