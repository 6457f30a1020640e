------------------------ MODULE OrchestrationProofs ------------------------
(***************************************************************************)
(* What is proved of the deployment sync, for any nodes, deployments,      *)
(* capacities and needs, any number of edits, retries, restarts and failed *)
(* runs.                                                                   *)
(***************************************************************************)
EXTENDS Orchestration, FiniteSetTheorems, WellFoundedInduction, NaturalsInduction, TLAPS

(***************************************************************************)
(* Sets of installations that are well placed.                             *)
(***************************************************************************)

Installations == [deployment : Deployments, node : Nodes, settings : Settings, port : Ports]

Spread(is) == \A i, j \in is : i.deployment = j.deployment /\ i.node = j.node => i = j
DistinctPorts(is) == \A i, j \in is : i # j /\ i.node = j.node => i.port # j.port
Fits(is) == \A n \in Nodes : Charge(On(n, is)) =< Capacity[n]

Placed(is) ==
  /\ is \subseteq Installations /\ IsFiniteSet(is)
  /\ Spread(is) /\ DistinctPorts(is) /\ Fits(is)

(* The units of memory that installations take. *)
UnitsOf(i) == {i} \X (1 .. Need[i.deployment])
Units(is) == UNION {UnitsOf(i) : i \in is}

LEMMA PairsWithOne ==
  ASSUME NEW x, NEW k \in Nat
  PROVE  IsFiniteSet({x} \X (1 .. k)) /\ Cardinality({x} \X (1 .. k)) = k
<1>1. IsFiniteSet(1 .. k) /\ Cardinality(1 .. k) = k
  BY FS_Interval
<1>2. IsFiniteSet({x}) /\ Cardinality({x}) = 1
  BY FS_Singleton
<1>3. /\ IsFiniteSet({x} \X (1 .. k))
      /\ Cardinality({x} \X (1 .. k)) = Cardinality({x}) * Cardinality(1 .. k)
  BY <1>1, <1>2, FS_Product, Zenon
<1> QED
  BY <1>1, <1>2, <1>3

LEMMA UnitsOfOne ==
  ASSUME NEW i \in Installations
  PROVE  IsFiniteSet(UnitsOf(i)) /\ Cardinality(UnitsOf(i)) = Need[i.deployment]
<1>1. Need[i.deployment] \in Nat
  BY OrchestrationAssumption DEF Installations
<1> QED
  BY <1>1, PairsWithOne DEF UnitsOf

LEMMA UnitsFinite ==
  ASSUME NEW is \in SUBSET Installations, IsFiniteSet(is)
  PROVE  IsFiniteSet(Units(is)) /\ Charge(is) = Cardinality(Units(is)) /\ Charge(is) \in Nat
<1> DEFINE T == {UnitsOf(i) : i \in is}
           f == [i \in is |-> UnitsOf(i)]
<1>1. f \in Surjection(is, T)
  BY DEF Surjection
<1>2. IsFiniteSet(T)
  BY <1>1, FS_Surjection
<1>3. \A u \in T : IsFiniteSet(u)
  BY UnitsOfOne
<1>4. IsFiniteSet(Units(is))
  BY <1>2, <1>3, FS_UNION DEF Units
<1>5. Charge(is) = Cardinality(Units(is))
  BY DEF Charge, Units, UnitsOf
<1> QED
  BY <1>4, <1>5, FS_CardinalityType

(* Fewer installations take no more. *)
LEMMA ChargeOfSubset ==
  ASSUME NEW is \in SUBSET Installations, IsFiniteSet(is), NEW js \in SUBSET is
  PROVE  IsFiniteSet(js) /\ Charge(js) =< Charge(is) /\ Charge(js) \in Nat /\ Charge(is) \in Nat
<1>1. IsFiniteSet(js) /\ js \in SUBSET Installations
  BY FS_Subset
<1>2. Units(js) \in SUBSET Units(is)
  BY DEF Units
<1> QED
  BY <1>1, <1>2, UnitsFinite, FS_Subset

(* One more takes at most what it needs. *)
LEMMA ChargeOfOneMore ==
  ASSUME NEW is \in SUBSET Installations, IsFiniteSet(is), NEW i \in Installations
  PROVE  Charge(is \cup {i}) =< Charge(is) + Need[i.deployment]
<1>1. IsFiniteSet(is \cup {i}) /\ is \cup {i} \in SUBSET Installations
  BY FS_AddElement
<1>2. Units(is \cup {i}) = Units(is) \cup UnitsOf(i)
  BY DEF Units
<1>3. /\ IsFiniteSet(Units(is)) /\ Cardinality(Units(is)) \in Nat
      /\ IsFiniteSet(UnitsOf(i)) /\ Cardinality(UnitsOf(i)) \in Nat
      /\ Cardinality(UnitsOf(i)) = Need[i.deployment]
  BY UnitsFinite, UnitsOfOne, FS_CardinalityType
<1>4. Cardinality(Units(is) \cap UnitsOf(i)) \in Nat
  BY <1>3, FS_Intersection, FS_CardinalityType
<1>5. Cardinality(Units(is) \cup UnitsOf(i))
        = Cardinality(Units(is)) + Cardinality(UnitsOf(i)) - Cardinality(Units(is) \cap UnitsOf(i))
  BY <1>3, FS_Union
<1>6. Charge(is \cup {i}) = Cardinality(Units(is) \cup UnitsOf(i)) /\ Charge(is) = Cardinality(Units(is))
  BY <1>1, <1>2, UnitsFinite
<1> QED
  BY <1>3, <1>4, <1>5, <1>6

LEMMA PlacedSubset ==
  ASSUME NEW is, Placed(is), NEW js \in SUBSET is
  PROVE  Placed(js)
<1>1. js \subseteq Installations /\ IsFiniteSet(js)
  BY FS_Subset DEF Placed
<1>2. Spread(js) /\ DistinctPorts(js)
  BY DEF Placed, Spread, DistinctPorts
<1>3. ASSUME NEW n \in Nodes PROVE Charge(On(n, js)) =< Capacity[n]
  <2>1. On(n, js) \subseteq On(n, is) /\ On(n, is) \subseteq is /\ On(n, is) \subseteq Installations
    BY DEF On, Placed
  <2>2. IsFiniteSet(On(n, is))
    BY <2>1, FS_Subset DEF Placed
  <2>3. Charge(On(n, js)) =< Charge(On(n, is)) /\ Charge(On(n, js)) \in Nat /\ Charge(On(n, is)) \in Nat
    BY <2>1, <2>2, ChargeOfSubset
  <2>4. Charge(On(n, is)) =< Capacity[n] /\ Capacity[n] \in Nat
    BY OrchestrationAssumption DEF Placed, Fits
  <2> QED
    BY <2>3, <2>4
<1> QED
  BY <1>1, <1>2, <1>3 DEF Placed, Fits

(***************************************************************************)
(* A node has a free port: its installations are of different deployments, *)
(* and there are more ports than deployments.                              *)
(***************************************************************************)

LEMMA SomePortIsFree ==
  ASSUME NEW is, Placed(is), NEW n \in Nodes
  PROVE  \E p \in Ports : \A i \in On(n, is) : i.port # p
<1> DEFINE here == On(n, is)
           used == {i.port : i \in here}
           portOf == [i \in here |-> i.port]
           deploymentOf == [i \in here |-> i.deployment]
<1>1. here \subseteq Installations /\ here \subseteq is /\ IsFiniteSet(here)
  <2>1. here \subseteq is /\ here \subseteq Installations
    BY DEF Placed, On
  <2> QED
    BY <2>1, FS_Subset DEF Placed
<1>2. deploymentOf \in Injection(here, Deployments)
  <2>1. \A i \in here : i.deployment \in Deployments /\ i.node = n
    BY <1>1 DEF Installations, On
  <2>2. \A i, j \in here : i.deployment = j.deployment => i = j
    BY <1>1, <2>1 DEF Placed, Spread
  <2>3. deploymentOf \in [here -> Deployments]
    BY <2>1
  <2> QED
    BY <2>2, <2>3 DEF Injection, IsInjective
<1>3. Cardinality(here) =< Cardinality(Deployments)
  BY <1>2, FS_Injection, OrchestrationAssumption
<1>4. portOf \in Surjection(here, used)
  BY DEF Surjection
<1>5. IsFiniteSet(used) /\ Cardinality(used) =< Cardinality(here)
  BY <1>1, <1>4, FS_Surjection
<1>6. /\ Cardinality(here) \in Nat /\ Cardinality(Deployments) \in Nat /\ Cardinality(used) \in Nat
  BY <1>1, <1>5, FS_CardinalityType, OrchestrationAssumption
<1>7. Cardinality(Ports) = Cardinality(Deployments) + 1
  BY <1>6, FS_Interval DEF Ports
<1>8. ~(Ports \subseteq used)
  <2> SUFFICES ASSUME Ports \subseteq used PROVE FALSE
    OBVIOUS
  <2>1. Cardinality(Ports) =< Cardinality(used)
    BY <1>5, FS_Subset
  <2> QED
    BY <1>3, <1>5, <1>6, <1>7, <2>1
<1> QED
  BY <1>8

LEMMA FirstPortIsFree ==
  ASSUME NEW is, Placed(is), NEW n \in Nodes
  PROVE  /\ firstFreePort(n, is) \in Ports
         /\ \A i \in On(n, is) : i.port # firstFreePort(n, is)
<1> DEFINE free == {p \in Ports : \A i \in On(n, is) : i.port # p}
           first(p) == /\ \A i \in On(n, is) : i.port # p
                       /\ \A q \in Ports : q < p => \E i \in On(n, is) : i.port = q
<1>1. free # {} /\ free \subseteq Nat
  <2>1. Cardinality(Deployments) \in Nat
    BY FS_CardinalityType, OrchestrationAssumption
  <2> QED
    BY <2>1, SomePortIsFree DEF Ports
<1>2. PICK p \in free : \A q \in free : ~(<<q, p>> \in OpToRel(<, Nat))
  BY <1>1, NatLessThanWellFounded, WFMin
<1>3. \A q \in free : ~(q < p)
  BY <1>1, <1>2 DEF OpToRel
<1>4. p \in Ports /\ first(p)
  BY <1>3
<1>5. firstFreePort(n, is) = CHOOSE q \in Ports : first(q)
  BY DEF firstFreePort
<1> QED
  BY <1>4, <1>5

(***************************************************************************)
(* What the replica loop adds, and what the second statement of            *)
(* applyChanges adds, is well placed.                                      *)
(***************************************************************************)

(* The installation of d that a plan over is adds on node n. *)
NewOn(n, d, s, is) ==
  [deployment |-> d, node |-> n, settings |-> s, port |-> firstFreePort(n, is)]

LEMMA PlacedAfterPlan ==
  ASSUME NEW is, Placed(is), NEW d \in Deployments, NEW s \in Settings,
         NEW ns \in SUBSET Nodes, \A n \in ns : CanTake(n, d, is)
  PROVE  Placed(is \cup {NewOn(n, d, s, is) : n \in ns})
<1> DEFINE add == {NewOn(n, d, s, is) : n \in ns}
           all == is \cup add
<1>1. \A n \in ns : /\ NewOn(n, d, s, is) \in Installations
                    /\ NewOn(n, d, s, is).deployment = d /\ NewOn(n, d, s, is).node = n
                    /\ NewOn(n, d, s, is).port = firstFreePort(n, is)
  BY FirstPortIsFree DEF NewOn, Installations
<1>2. add \subseteq Installations /\ IsFiniteSet(add)
  <2>1. IsFiniteSet(ns)
    BY FS_Subset, OrchestrationAssumption
  <2>2. [n \in ns |-> NewOn(n, d, s, is)] \in Surjection(ns, add)
    BY DEF Surjection
  <2>3. IsFiniteSet(add)
    BY <2>1, <2>2, FS_Surjection
  <2> QED
    BY <1>1, <2>3
<1>3. all \subseteq Installations /\ IsFiniteSet(all)
  BY <1>2, FS_Union DEF Placed
<1>4. ASSUME NEW i \in is, NEW n \in ns, i.node = n
      PROVE  i.deployment # d /\ i.port # firstFreePort(n, is)
  <2>1. i \in On(n, is)
    BY <1>4 DEF On
  <2>2. i.deployment # d
    BY <2>1 DEF CanTake, Of
  <2> QED
    BY <2>1, <2>2, FirstPortIsFree
<1>5. \A i \in add : i.node \in ns /\ i.deployment = d /\ i = NewOn(i.node, d, s, is)
                     /\ i.port = firstFreePort(i.node, is)
  BY <1>1
<1>6. Spread(all)
  <2> SUFFICES ASSUME NEW i \in all, NEW j \in all, i.deployment = j.deployment, i.node = j.node
               PROVE  i = j
    BY DEF Spread
  <2>1. CASE i \in is /\ j \in is
    BY <2>1 DEF Placed, Spread
  <2>2. CASE i \in add /\ j \in add
    BY <1>5, <2>2
  <2>3. CASE i \in is /\ j \in add
    BY <1>4, <1>5, <2>3
  <2>4. CASE i \in add /\ j \in is
    BY <1>4, <1>5, <2>4
  <2> QED
    BY <2>1, <2>2, <2>3, <2>4
<1>7. DistinctPorts(all)
  <2> SUFFICES ASSUME NEW i \in all, NEW j \in all, i # j, i.node = j.node
               PROVE  i.port # j.port
    BY DEF DistinctPorts
  <2>1. CASE i \in is /\ j \in is
    BY <2>1 DEF Placed, DistinctPorts
  <2>2. CASE i \in add /\ j \in add
    BY <1>5, <2>2
  <2>3. CASE i \in is /\ j \in add
    BY <1>4, <1>5, <2>3
  <2>4. CASE i \in add /\ j \in is
    BY <1>4, <1>5, <2>4
  <2> QED
    BY <2>1, <2>2, <2>3, <2>4
<1>8. ASSUME NEW n \in Nodes PROVE Charge(On(n, all)) =< Capacity[n]
  <2>1. On(n, is) \in SUBSET Installations /\ IsFiniteSet(On(n, is))
    <3>1. On(n, is) \in SUBSET is /\ On(n, is) \in SUBSET Installations
      BY DEF On, Placed
    <3> QED
      BY <3>1, FS_Subset DEF Placed
  <2>2. CASE n \notin ns
    <3>1. On(n, all) = On(n, is)
      BY <1>5, <2>2 DEF On
    <3> QED
      BY <3>1 DEF Placed, Fits
  <2>3. CASE n \in ns
    <3>1. On(n, all) = On(n, is) \cup {NewOn(n, d, s, is)}
      BY <1>1, <1>5, <2>3 DEF On
    <3>2. Charge(On(n, is) \cup {NewOn(n, d, s, is)}) =< Charge(On(n, is)) + Need[d]
      BY <1>1, <2>1, <2>3, ChargeOfOneMore
    <3>3. Charge(On(n, is)) + Need[d] =< Capacity[n]
      BY <2>3 DEF CanTake
    <3>4. /\ Charge(On(n, is)) \in Nat /\ Need[d] \in Nat /\ Capacity[n] \in Nat
          /\ Charge(On(n, is) \cup {NewOn(n, d, s, is)}) \in Nat
      <4>1. /\ On(n, is) \cup {NewOn(n, d, s, is)} \in SUBSET Installations
            /\ IsFiniteSet(On(n, is) \cup {NewOn(n, d, s, is)})
        BY <1>1, <2>1, <2>3, FS_AddElement
      <4> QED
        BY <2>1, <4>1, UnitsFinite, OrchestrationAssumption
    <3>5. Charge(On(n, is) \cup {NewOn(n, d, s, is)}) =< Capacity[n]
      BY ONLY <3>2, <3>3, <3>4
    <3> QED
      BY <3>1, <3>5, Zenon
  <2> QED
    BY <2>2, <2>3
<1> QED
  BY <1>3, <1>6, <1>7, <1>8 DEF Placed, Fits

(* On the nodes a run has planned for, sv, it keeps what ks says; the rest *)
(* of the cluster it leaves alone.                                         *)
LEMMA PlacedAfterInstall ==
  ASSUME NEW rs, Placed(rs), NEW ks, NEW ts, Placed(ks \cup ts), NEW sv,
         \A i \in rs : i.node \in sv => i \in ks,
         \A i \in ts : i.node \in sv
  PROVE  Placed(rs \cup ts)
<1> DEFINE all == rs \cup ts
           planned == ks \cup ts
<1>1. all \subseteq Installations /\ IsFiniteSet(all)
  <2>1. IsFiniteSet(ts)
    BY FS_Subset DEF Placed
  <2> QED
    BY <2>1, FS_Union DEF Placed
<1>2. \A i \in all : i.node \in sv => i \in planned
  OBVIOUS
<1>3. \A i \in all : i.node \notin sv => i \in rs
  OBVIOUS
<1>4. Spread(all)
  BY <1>2, <1>3 DEF Placed, Spread
<1>5. DistinctPorts(all)
  BY <1>2, <1>3 DEF Placed, DistinctPorts
<1>6. ASSUME NEW n \in Nodes PROVE Charge(On(n, all)) =< Capacity[n]
  <2>1. CASE n \in sv
    <3>1. /\ On(n, all) \in SUBSET On(n, planned)
          /\ On(n, planned) \in SUBSET Installations /\ On(n, planned) \in SUBSET planned
      BY <1>2, <2>1 DEF On, Placed
    <3>2. IsFiniteSet(On(n, planned))
      BY <3>1, FS_Subset DEF Placed
    <3>3. /\ Charge(On(n, all)) =< Charge(On(n, planned))
          /\ Charge(On(n, all)) \in Nat /\ Charge(On(n, planned)) \in Nat
      BY <3>1, <3>2, ChargeOfSubset
    <3>4. Charge(On(n, planned)) =< Capacity[n] /\ Capacity[n] \in Nat
      BY OrchestrationAssumption DEF Placed, Fits
    <3> QED
      BY <3>3, <3>4
  <2>2. CASE n \notin sv
    <3>1. On(n, all) = On(n, rs)
      BY <1>3, <2>2 DEF On
    <3> QED
      BY <3>1 DEF Placed, Fits
  <2> QED
    BY <2>1, <2>2
<1> QED
  BY <1>1, <1>4, <1>5, <1>6 DEF Placed, Fits

(***************************************************************************)
(* The inductive invariant.  The rows stay well placed because there is    *)
(* one run at a time, which keeps count: on the nodes it has seen, the     *)
(* rows are among those it keeps or removes, and rows that disappear       *)
(* beside it only leave room.                                              *)
(***************************************************************************)

Phases == {"idle", "started", "required", "planning", "inserting"}

PlanTypeOK ==
  /\ required \in [Runs -> [Deployments -> Nat]]
  /\ wanted \in [Runs -> [Deployments -> Settings]]
  /\ servers \in [Runs -> SUBSET Nodes]
  /\ kept \in [Runs -> SUBSET Installations]
  /\ toUninstall \in [Runs -> SUBSET Installations]
  /\ toInstall \in [Runs -> SUBSET Installations]
  /\ unplanned \in [Runs -> SUBSET Deployments]

ClusterTypeOK ==
  /\ replicas \in [Deployments -> Nat] /\ settings \in [Deployments -> Settings]
  /\ live \subseteq Nodes /\ misfits \subseteq Installations /\ rows \subseteq Installations

SyncTypeOK ==
  /\ activeSync \in BOOLEAN /\ rerunRequested \in BOOLEAN
  /\ phase \in [Runs -> Phases]

OneRun ==
  /\ \A r \in Runs : phase[r] # "idle" => activeSync
  /\ \A r, q \in Runs : phase[r] # "idle" /\ phase[q] # "idle" => r = q

(* What a run that plans or applies knows of the rows. *)
Keeps(r) ==
  /\ Placed(kept[r] \cup toInstall[r])
  /\ \A i \in toInstall[r] : i.node \in servers[r]
  /\ \A i \in rows :
       i.node \in servers[r] => i \in kept[r] \/ (phase[r] = "planning" /\ i \in toUninstall[r])

RunInv(r) ==
  /\ phase[r] \in {"idle", "started", "required"} => toInstall[r] = {}
  /\ phase[r] \in {"planning", "inserting"} => Keeps(r)

SyncInv ==
  /\ ClusterTypeOK /\ SyncTypeOK /\ PlanTypeOK
  /\ OneRun
  /\ Placed(rows)
  /\ \A r \in Runs : RunInv(r)

LEMMA PlacedEmpty == Placed({})
<1>1. IsFiniteSet({}) /\ Spread({}) /\ DistinctPorts({})
  BY FS_EmptySet DEF Spread, DistinctPorts
<1>2. ASSUME NEW n \in Nodes PROVE Charge(On(n, {})) =< Capacity[n]
  <2>1. On(n, {}) = {} /\ Units({}) = {}
    BY DEF On, Units
  <2>2. Charge({}) = 0
    BY <1>1, <2>1, UnitsFinite, FS_EmptySet
  <2>3. Capacity[n] \in Nat
    BY OrchestrationAssumption
  <2> QED
    BY <2>1, <2>2, <2>3
<1> QED
  BY <1>1, <1>2 DEF Placed, Fits

LEMMA SyncInitial == Init => SyncInv
<1> SUFFICES ASSUME Init PROVE SyncInv
  OBVIOUS
<1>1. ClusterTypeOK /\ SyncTypeOK
  BY DEF Init, ClusterTypeOK, SyncTypeOK, Phases, Settings
<1>2. PlanTypeOK
  BY DEF Init, NoPlan, PlanTypeOK, Settings
<1>3. OneRun /\ \A r \in Runs : RunInv(r)
  BY DEF Init, NoPlan, OneRun, RunInv
<1>4. Placed(rows)
  BY PlacedEmpty DEF Init
<1> QED
  BY <1>1, <1>2, <1>3, <1>4 DEF SyncInv

(* A run is not disturbed by rows that disappear. *)
LEMMA RunUndisturbed ==
  ASSUME NEW r \in Runs, RunInv(r), rows' \subseteq rows,
         phase'[r] = phase[r], servers'[r] = servers[r], kept'[r] = kept[r],
         toUninstall'[r] = toUninstall[r], toInstall'[r] = toInstall[r]
  PROVE  RunInv(r)'
BY DEF RunInv, Keeps

LEMMA PlanTypeStays == ASSUME PlanTypeOK, UNCHANGED planVars PROVE PlanTypeOK'
BY DEF PlanTypeOK, planVars

LEMMA EnvironmentStep ==
  ASSUME SyncInv, ClusterTypeOK', rows' \subseteq rows, UNCHANGED <<syncVars, phase, planVars>>
  PROVE  SyncInv'
<1>1. SyncTypeOK' /\ OneRun'
  BY DEF SyncInv, SyncTypeOK, OneRun, syncVars
<1>2. PlanTypeOK'
  BY PlanTypeStays DEF SyncInv
<1>3. Placed(rows')
  BY PlacedSubset DEF SyncInv
<1>4. \A r \in Runs : RunInv(r)'
  BY RunUndisturbed DEF SyncInv, planVars
<1> QED
  BY <1>1, <1>2, <1>3, <1>4 DEF SyncInv

LEMMA EnvironmentSteps ==
  ASSUME SyncInv,
         \/ \E d \in Deployments, n \in 0 .. MaxReplicas, s \in Settings : EditDeployment(d, n, s)
         \/ \E failed \in SUBSET rows : retryDeployment(failed)
         \/ \E n \in Nodes : NodeOnOrOff(n)
         \/ CatalogOnOrOff
         \/ \E i \in rows : ReportMisfit(i)
  PROVE  SyncInv'
<1>1. ASSUME NEW d \in Deployments, NEW n \in 0 .. MaxReplicas, NEW s \in Settings, EditDeployment(d, n, s)
      PROVE  SyncInv'
  <2>1. n \in Nat
    BY OrchestrationAssumption
  <2>2. ClusterTypeOK'
    BY <1>1, <2>1 DEF EditDeployment, SyncInv, ClusterTypeOK, clusterVars
  <2> QED
    BY <1>1, <2>2, EnvironmentStep DEF EditDeployment
<1>2. ASSUME NEW failed \in SUBSET rows, retryDeployment(failed) PROVE SyncInv'
  <2>1. ClusterTypeOK'
    BY <1>2 DEF retryDeployment, SyncInv, ClusterTypeOK
  <2> QED
    BY <1>2, <2>1, EnvironmentStep DEF retryDeployment
<1>3. ASSUME NEW n \in Nodes, NodeOnOrOff(n) PROVE SyncInv'
  <2>1. ClusterTypeOK'
    BY <1>3 DEF NodeOnOrOff, SyncInv, ClusterTypeOK, deploymentVars
  <2> QED
    BY <1>3, <2>1, EnvironmentStep DEF NodeOnOrOff
<1>4. CASE CatalogOnOrOff
  <2>1. ClusterTypeOK'
    BY <1>4 DEF CatalogOnOrOff, SyncInv, ClusterTypeOK, deploymentVars
  <2> QED
    BY <1>4, <2>1, EnvironmentStep DEF CatalogOnOrOff
<1>5. ASSUME NEW i \in rows, ReportMisfit(i) PROVE SyncInv'
  <2>1. ClusterTypeOK'
    BY <1>5 DEF ReportMisfit, SyncInv, ClusterTypeOK, deploymentVars
  <2> QED
    BY <1>5, <2>1, EnvironmentStep DEF ReportMisfit
<1> QED
  BY <1>1, <1>2, <1>3, <1>4, <1>5

LEMMA CallStep == ASSUME SyncInv, syncDeployedModels PROVE SyncInv'
<1>1. ClusterTypeOK' /\ PlanTypeOK' /\ Placed(rows')
  BY PlanTypeStays DEF SyncInv, ClusterTypeOK, syncDeployedModels, clusterVars
<1>2. CASE activeSync
  <2>1. SyncTypeOK' /\ OneRun'
    BY <1>2 DEF SyncInv, SyncTypeOK, OneRun, syncDeployedModels
  <2>2. \A r \in Runs : RunInv(r)'
    BY <1>2, RunUndisturbed DEF SyncInv, syncDeployedModels, planVars
  <2> QED
    BY <1>1, <2>1, <2>2 DEF SyncInv
<1>3. CASE ~activeSync
  <2>1. \A r \in Runs : phase[r] = "idle" /\ toInstall[r] = {}
    BY <1>3 DEF SyncInv, OneRun, RunInv
  <2>2. nextRun = 1 /\ phase' = [phase EXCEPT ![1] = "started"] /\ activeSync' = TRUE
        /\ UNCHANGED rerunRequested /\ UNCHANGED toInstall
    BY <1>3, <2>1 DEF nextRun, syncDeployedModels, planVars, Runs
  <2>3. SyncTypeOK' /\ OneRun'
    BY <2>1, <2>2 DEF SyncInv, SyncTypeOK, OneRun, Runs, Phases
  <2>4. \A r \in Runs : RunInv(r)'
    BY <2>1, <2>2, <2>3 DEF RunInv, SyncInv, SyncTypeOK, Runs
  <2> QED
    BY <1>1, <2>3, <2>4 DEF SyncInv
<1> QED
  BY <1>2, <1>3

(* The plans of runs that are over are empty. *)
LEMMA PlansForgotten ==
  ASSUME PlanTypeOK, NEW rs \in SUBSET Runs, forgetPlans(rs)
  PROVE  /\ PlanTypeOK'
         /\ \A r \in rs : toInstall'[r] = {}
         /\ \A r \in Runs \ rs : toInstall'[r] = toInstall[r]
<1>1. /\ required' \in [Runs -> [Deployments -> Nat]]
      /\ wanted' \in [Runs -> [Deployments -> Settings]]
  BY DEF forgetPlans, PlanTypeOK, Settings
<1>2. servers' \in [Runs -> SUBSET Nodes] /\ unplanned' \in [Runs -> SUBSET Deployments]
  BY DEF forgetPlans, PlanTypeOK
<1>3. kept' \in [Runs -> SUBSET Installations] /\ toUninstall' \in [Runs -> SUBSET Installations]
  BY DEF forgetPlans, PlanTypeOK
<1>4. /\ toInstall' \in [Runs -> SUBSET Installations]
      /\ \A r \in rs : toInstall'[r] = {}
      /\ \A r \in Runs \ rs : toInstall'[r] = toInstall[r]
  BY DEF forgetPlans, PlanTypeOK
<1> QED
  BY <1>1, <1>2, <1>3, <1>4 DEF PlanTypeOK

(* The end of a run, well or badly: afterwards no run is under way, or the *)
(* one that was asked for begins.                                          *)
LEMMA EndStep ==
  ASSUME SyncInv, NEW r \in Runs, phase[r] # "idle", endRun(r), ClusterTypeOK', Placed(rows')
  PROVE  SyncInv'
<1>1. /\ PlanTypeOK' /\ toInstall'[r] = {}
      /\ \A q \in Runs \ {r} : toInstall'[q] = toInstall[q]
  BY PlansForgotten DEF endRun, SyncInv
<1>2. \A q \in Runs \ {r} : phase[q] = "idle" /\ toInstall[q] = {}
  BY DEF SyncInv, OneRun, RunInv
<1>3. /\ phase' = [phase EXCEPT ![r] = IF rerunRequested THEN "started" ELSE "idle"]
      /\ activeSync' = rerunRequested /\ rerunRequested' = FALSE
  BY DEF endRun
<1>4. SyncTypeOK' /\ OneRun'
  BY <1>2, <1>3 DEF SyncInv, SyncTypeOK, OneRun, Phases
<1>5. \A q \in Runs : RunInv(q)'
  <2> SUFFICES ASSUME NEW q \in Runs PROVE RunInv(q)'
    OBVIOUS
  <2>1. phase'[q] \in {"idle", "started"} /\ toInstall'[q] = {}
    BY <1>1, <1>2, <1>3 DEF SyncInv, SyncTypeOK
  <2> QED
    BY <2>1 DEF RunInv
<1> QED
  BY <1>1, <1>4, <1>5 DEF SyncInv

LEMMA FailStep == ASSUME SyncInv, NEW r \in Runs, runFails(r) PROVE SyncInv'
<1>1. ClusterTypeOK' /\ Placed(rows')
  BY DEF runFails, SyncInv, ClusterTypeOK, clusterVars
<1> QED
  BY <1>1, EndStep DEF runFails

LEMMA RestartStep == ASSUME SyncInv, restart PROVE SyncInv'
<1>1. ClusterTypeOK' /\ Placed(rows')
  BY DEF restart, SyncInv, ClusterTypeOK, clusterVars
<1>2. PlanTypeOK' /\ \A r \in Runs : toInstall'[r] = {}
  BY PlansForgotten DEF restart, SyncInv
<1>3. SyncTypeOK' /\ OneRun'
  BY DEF restart, SyncTypeOK, OneRun, Phases
<1>4. \A r \in Runs : RunInv(r)'
  BY <1>2 DEF restart, RunInv
<1> QED
  BY <1>1, <1>2, <1>3, <1>4 DEF SyncInv

(***************************************************************************)
(* The steps of one run.  The other one is idle.                           *)
(***************************************************************************)

(* What a step of run r leaves alone: the other run's plan, and that there *)
(* is one run.                                                             *)
LEMMA RunStepFrame ==
  ASSUME SyncInv, NEW r \in Runs, phase[r] # "idle",
         NEW next \in Phases \ {"idle"}, phase' = [phase EXCEPT ![r] = next],
         UNCHANGED syncVars,
         \A q \in Runs \ {r} : toInstall'[q] = toInstall[q]
  PROVE  /\ SyncTypeOK' /\ OneRun'
         /\ phase'[r] = next
         /\ \A q \in Runs \ {r} : RunInv(q)'
<1>1. \A q \in Runs \ {r} : phase[q] = "idle" /\ toInstall[q] = {}
  BY DEF SyncInv, OneRun, RunInv
<1>2. SyncTypeOK' /\ phase'[r] = next
  BY DEF SyncInv, SyncTypeOK, syncVars
<1>3. OneRun'
  BY <1>1 DEF SyncInv, OneRun, SyncTypeOK, syncVars
<1>4. \A q \in Runs \ {r} : phase'[q] = "idle" /\ toInstall'[q] = {}
  BY <1>1 DEF SyncInv, SyncTypeOK
<1>5. \A q \in Runs \ {r} : RunInv(q)'
  BY <1>4 DEF RunInv
<1> QED
  BY <1>2, <1>3, <1>5

LEMMA AssembleStep ==
  ASSUME SyncInv, NEW r \in Runs, assembleModelRequirementTable(r)
  PROVE  SyncInv'
<1>1. ClusterTypeOK' /\ Placed(rows')
  BY DEF assembleModelRequirementTable, SyncInv, ClusterTypeOK, clusterVars
<1>2. PlanTypeOK' /\ UNCHANGED toInstall
  BY DEF assembleModelRequirementTable, SyncInv, PlanTypeOK, ClusterTypeOK
<1>3. SyncTypeOK' /\ OneRun' /\ phase'[r] = "required" /\ \A q \in Runs \ {r} : RunInv(q)'
  BY <1>2, RunStepFrame DEF assembleModelRequirementTable, Phases
<1>4. RunInv(r)'
  BY <1>2, <1>3 DEF assembleModelRequirementTable, SyncInv, RunInv
<1> QED
  BY <1>1, <1>2, <1>3, <1>4 DEF SyncInv

(* On the live nodes every row is kept or is to go. *)
LEMMA CollectStep == ASSUME SyncInv, NEW r \in Runs, collect(r) PROVE SyncInv'
<1> DEFINE active == {i \in rows : i.node \in live}
           orphaned == collectReassignableOrphans(rows \ active, live, active)
<1>1. PICK excess \in ExcessChoices(r, active) :
        /\ kept' = [kept EXCEPT ![r] = (active \ excess) \ (drifted(r, active \ excess) \cup misfits)]
        /\ toUninstall' = [toUninstall EXCEPT ![r] =
              orphaned \cup (active \ ((active \ excess) \ (drifted(r, active \ excess) \cup misfits)))]
  BY DEF collect
<1> DEFINE stay == (active \ excess) \ (drifted(r, active \ excess) \cup misfits)
<1>2. orphaned \subseteq rows /\ active \subseteq rows /\ stay \subseteq active
  BY DEF collectReassignableOrphans
<1> HIDE DEF stay, orphaned
<1>3. kept' = [kept EXCEPT ![r] = stay] /\ toUninstall' = [toUninstall EXCEPT ![r] = orphaned \cup (active \ stay)]
  BY <1>1 DEF stay, orphaned
<1>4. /\ servers' = [servers EXCEPT ![r] = live] /\ UNCHANGED <<rows, toInstall, required, wanted, syncVars>>
      /\ unplanned' = [unplanned EXCEPT ![r] = {d \in Deployments : required[r][d] > 0}]
      /\ phase[r] = "required" /\ phase' = [phase EXCEPT ![r] = "planning"]
  BY DEF collect
<1>5. ClusterTypeOK' /\ Placed(rows')
  BY <1>4 DEF collect, SyncInv, ClusterTypeOK, clusterVars, deploymentVars
<1>6. PlanTypeOK'
  <2>1. stay \subseteq Installations /\ (orphaned \cup (active \ stay)) \subseteq Installations
        /\ live \subseteq Nodes
    BY <1>2 DEF SyncInv, ClusterTypeOK
  <2>2. kept' \in [Runs -> SUBSET Installations] /\ toUninstall' \in [Runs -> SUBSET Installations]
    BY <1>3, <2>1 DEF SyncInv, PlanTypeOK
  <2> QED
    BY <1>4, <2>1, <2>2 DEF SyncInv, PlanTypeOK
<1>7. SyncTypeOK' /\ OneRun' /\ phase'[r] = "planning" /\ \A q \in Runs \ {r} : RunInv(q)'
  BY <1>4, RunStepFrame DEF Phases
<1>8. RunInv(r)'
  <2>1. /\ kept'[r] = stay /\ toUninstall'[r] = orphaned \cup (active \ stay)
        /\ servers'[r] = live /\ toInstall'[r] = {}
    BY <1>3, <1>4 DEF SyncInv, PlanTypeOK, RunInv
  <2>2. Placed(kept'[r] \cup toInstall'[r])
    <3>1. kept'[r] \cup toInstall'[r] \in SUBSET rows
      BY <1>2, <2>1
    <3> QED
      BY <3>1, PlacedSubset DEF SyncInv
  <2>3. \A i \in rows' : i.node \in servers'[r] => i \in kept'[r] \/ i \in toUninstall'[r]
    BY <1>4, <2>1
  <2> QED
    BY <1>7, <2>1, <2>2, <2>3 DEF RunInv, Keeps
<1> QED
  BY <1>5, <1>6, <1>7, <1>8 DEF SyncInv

(* The replica loop counts on what is kept and on what it has added. *)
LEMMA PlanStep ==
  ASSUME SyncInv, NEW r \in Runs, NEW d \in Deployments, planNewInstallations(r, d)
  PROVE  SyncInv'
<1>1. /\ phase[r] = "planning" /\ unplanned' = [unplanned EXCEPT ![r] = @ \ {d}]
      /\ UNCHANGED <<deploymentVars, clusterVars, rows, syncVars, phase, required, wanted,
                     servers, kept, toUninstall>>
  BY DEF planNewInstallations
<1>2. Keeps(r)
  BY <1>1 DEF SyncInv, RunInv
<1>3. ClusterTypeOK' /\ Placed(rows')
  BY <1>1 DEF SyncInv, ClusterTypeOK, clusterVars, deploymentVars
<1>4. CASE UNCHANGED toInstall
  <2>1. PlanTypeOK'
    BY <1>1, <1>4 DEF SyncInv, PlanTypeOK
  <2>2. SyncTypeOK' /\ OneRun'
    BY <1>1 DEF SyncInv, SyncTypeOK, OneRun, syncVars
  <2>3. \A q \in Runs : RunInv(q)'
    BY <1>1, <1>4, RunUndisturbed DEF SyncInv
  <2> QED
    BY <1>3, <2>1, <2>2, <2>3 DEF SyncInv
<1>5. ASSUME NEW ns \in SUBSET servers[r], \A n \in ns : CanTake(n, d, installations(r)),
             toInstall' = [toInstall EXCEPT ![r] =
                             @ \cup {NewOn(n, d, wanted[r][d], installations(r)) : n \in ns}]
      PROVE  SyncInv'
  <2> DEFINE add == {NewOn(n, d, wanted[r][d], installations(r)) : n \in ns}
  <2>1. ns \in SUBSET Nodes /\ wanted[r][d] \in Settings
    BY DEF SyncInv, PlanTypeOK
  <2>2. Placed(installations(r) \cup add)
    BY <1>2, <1>5, <2>1, PlacedAfterPlan DEF Keeps, installations
  <2>3. add \subseteq Installations /\ \A i \in add : i.node \in servers[r]
    BY <2>2 DEF Placed, NewOn
  <2> HIDE DEF add
  <2>4. /\ toInstall' \in [Runs -> SUBSET Installations] /\ toInstall'[r] = toInstall[r] \cup add
        /\ \A q \in Runs \ {r} : toInstall'[q] = toInstall[q]
    BY <1>5, <2>3 DEF add, SyncInv, PlanTypeOK
  <2>5. PlanTypeOK'
    BY <1>1, <2>4 DEF SyncInv, PlanTypeOK
  <2>6. SyncTypeOK' /\ OneRun'
    BY <1>1 DEF SyncInv, SyncTypeOK, OneRun, syncVars
  <2>7. RunInv(r)'
    <3>1. kept'[r] \cup toInstall'[r] = installations(r) \cup add
      BY <1>1, <2>4 DEF installations
    <3> QED
      BY <1>1, <1>2, <2>2, <2>3, <2>4, <3>1 DEF RunInv, Keeps
  <2>8. \A q \in Runs \ {r} : RunInv(q)'
    BY <1>1, <2>4, RunUndisturbed DEF SyncInv
  <2> QED
    BY <1>3, <2>5, <2>6, <2>7, <2>8 DEF SyncInv
<1> QED
  BY <1>4, <1>5 DEF planNewInstallations, kSubset, NewOn

LEMMA UninstallStep == ASSUME SyncInv, NEW r \in Runs, applyUninstall(r) PROVE SyncInv'
<1>1. /\ phase[r] = "planning" /\ phase' = [phase EXCEPT ![r] = "inserting"]
      /\ rows' = rows \ toUninstall[r] /\ misfits' = misfits \ toUninstall[r]
      /\ UNCHANGED <<deploymentVars, live, catalog, syncVars, planVars>>
  BY DEF applyUninstall
<1>2. ClusterTypeOK' /\ PlanTypeOK' /\ Placed(rows')
  <2>1. rows' \in SUBSET rows
    BY <1>1
  <2> QED
    BY <1>1, <2>1, PlacedSubset, PlanTypeStays DEF SyncInv, ClusterTypeOK, deploymentVars
<1>3. SyncTypeOK' /\ OneRun' /\ phase'[r] = "inserting" /\ \A q \in Runs \ {r} : RunInv(q)'
  BY <1>1, RunStepFrame DEF Phases, planVars
<1>4. RunInv(r)'
  <2>1. Keeps(r)
    BY <1>1 DEF SyncInv, RunInv
  <2> QED
    BY <1>1, <1>3, <2>1 DEF RunInv, Keeps, planVars
<1> QED
  BY <1>2, <1>3, <1>4 DEF SyncInv

LEMMA InstallStep == ASSUME SyncInv, NEW r \in Runs, applyInstall(r) PROVE SyncInv'
<1>1. /\ phase[r] = "inserting" /\ rows' = rows \cup toInstall[r] /\ endRun(r)
      /\ UNCHANGED <<deploymentVars, clusterVars>>
  BY DEF applyInstall
<1>2. Keeps(r)
  BY <1>1 DEF SyncInv, RunInv
<1>3. Placed(rows')
  <2>1. \A i \in rows : i.node \in servers[r] => i \in kept[r]
    BY <1>1, <1>2 DEF Keeps
  <2> QED
    BY <1>1, <1>2, <2>1, PlacedAfterInstall DEF Keeps, SyncInv
<1>4. ClusterTypeOK'
  BY <1>1, <1>3 DEF SyncInv, ClusterTypeOK, deploymentVars, clusterVars, Placed
<1> QED
  BY <1>1, <1>3, <1>4, EndStep

LEMMA SyncStep == SyncInv /\ [Next]_vars => SyncInv'
<1>1. ASSUME SyncInv, UNCHANGED vars PROVE SyncInv'
  BY <1>1, EnvironmentStep DEF vars, deploymentVars, clusterVars, SyncInv, ClusterTypeOK
<1>2. ASSUME SyncInv, NEW r \in Runs, RunStep(r) PROVE SyncInv'
  BY <1>2, AssembleStep, CollectStep, PlanStep, UninstallStep, InstallStep DEF RunStep
<1> QED
  BY <1>1, <1>2, EnvironmentSteps, RestartStep, CallStep, FailStep DEF Next, Environment

LEMMA SyncInvariant == Spec => []SyncInv
BY SyncInitial, SyncStep, PTL DEF Spec

(* orchestration.ts 586: for any nodes, deployments, edits, retries,       *)
(* restarts and runs that fail half way, no two installations on a node    *)
(* have the same port.                                                     *)
THEOREM PortsNeverClash == Spec => []PortsDiffer
<1>1. SyncInv => PortsDiffer
  BY DEF SyncInv, Placed, DistinctPorts, PortsDiffer
<1> QED
  BY SyncInvariant, <1>1, PTL

(* orchestration.ts 85-90: nor are two of one deployment on a node.        *)
THEOREM ReplicasStaySpread == Spec => []ReplicasSpread
<1>1. SyncInv => ReplicasSpread
  BY DEF SyncInv, Placed, Spread, ReplicasSpread
<1> QED
  BY SyncInvariant, <1>1, PTL

(* cluster-state.ts 67-86: and, for any capacities and needs, no node is   *)
(* given more than it has room for.                                        *)
THEOREM CapacityIsKept == Spec => []CapacityKept
<1>1. SyncInv => CapacityKept
  BY DEF SyncInv, Placed, Fits, CapacityKept
<1> QED
  BY SyncInvariant, <1>1, PTL

(***************************************************************************)
(* No edit waits for the timer.                                            *)
(***************************************************************************)

EditInv == phase \in [Runs -> Phases] /\ EditHasARun

LEMMA EditStep == EditInv /\ [Next]_vars => EditInv'
<1> SUFFICES ASSUME EditInv, [Next]_vars PROVE EditInv'
  OBVIOUS
<1> USE DEF EditInv, EditHasARun
<1>1. ASSUME NEW d \in Deployments, NEW n \in 0 .. MaxReplicas, NEW s \in Settings, EditDeployment(d, n, s)
      PROVE  EditInv'
  BY <1>1 DEF EditDeployment
<1>2. ASSUME NEW failed \in SUBSET rows, retryDeployment(failed) PROVE EditInv'
  BY <1>2 DEF retryDeployment
<1>3. CASE (\E n \in Nodes : NodeOnOrOff(n)) \/ CatalogOnOrOff \/ \E i \in rows : ReportMisfit(i)
  BY <1>3 DEF NodeOnOrOff, CatalogOnOrOff, ReportMisfit, deploymentVars, syncVars
<1>4. CASE restart
  BY <1>4 DEF restart, Phases
<1>5. CASE syncDeployedModels
  BY <1>5 DEF syncDeployedModels, nextRun, Runs, Phases
<1>6. ASSUME NEW r \in Runs, runFails(r) PROVE EditInv'
  BY <1>6 DEF runFails, endRun, Phases
<1>7. ASSUME NEW r \in Runs, RunStep(r) PROVE EditInv'
  <2>1. CASE assembleModelRequirementTable(r)
    BY <2>1 DEF assembleModelRequirementTable, Phases
  <2>2. CASE collect(r)
    BY <2>2 DEF collect, deploymentVars, syncVars, Phases
  <2>3. CASE \E d \in Deployments : planNewInstallations(r, d)
    BY <2>3 DEF planNewInstallations, deploymentVars, syncVars
  <2>4. CASE applyUninstall(r)
    BY <2>4 DEF applyUninstall, deploymentVars, syncVars, Phases
  <2>5. CASE applyInstall(r)
    BY <2>5 DEF applyInstall, endRun, deploymentVars, Phases
  <2> QED
    BY <1>7, <2>1, <2>2, <2>3, <2>4, <2>5 DEF RunStep
<1>8. CASE UNCHANGED vars
  BY <1>8 DEF vars, deploymentVars, syncVars
<1> HIDE DEF EditInv
<1> QED
  BY <1>1, <1>2, <1>3, <1>4, <1>5, <1>6, <1>7, <1>8 DEF Next, Environment

(* orchestration.ts 587-605: for any number of edits and of runs that fail *)
(* or are cut off, an edit no run has tried to read has a call, a rerun or *)
(* a run that is about to read ahead of it.                                *)
THEOREM NoEditIsForgotten == Spec => []EditHasARun
<1>1. Init => EditInv
  BY DEF Init, EditInv, EditHasARun, Phases
<1>2. EditInv => EditHasARun
  BY DEF EditInv
<1> QED
  BY <1>1, EditStep, <1>2, PTL DEF Spec

(***************************************************************************)
(* The licence.  A run that has planned anything has planned within it,    *)
(* one requirement after the other, and what it then finds installed on    *)
(* the nodes it counted is no more than what it counted on.                *)
(***************************************************************************)

LicensedPlan(r) == toInstall[r] # {} => Charge(installations(r)) =< LicenseLimit

LEMMA ChargeOfUnion ==
  ASSUME NEW is \in SUBSET Installations, IsFiniteSet(is), NEW js \in SUBSET Installations, IsFiniteSet(js)
  PROVE  Charge(is \cup js) =< Charge(is) + Charge(js)
<1>1. IsFiniteSet(is \cup js) /\ is \cup js \in SUBSET Installations
  BY FS_Union
<1>2. Units(is \cup js) = Units(is) \cup Units(js)
  BY DEF Units
<1>3. /\ IsFiniteSet(Units(is)) /\ Charge(is) = Cardinality(Units(is)) /\ Charge(is) \in Nat
      /\ IsFiniteSet(Units(js)) /\ Charge(js) = Cardinality(Units(js)) /\ Charge(js) \in Nat
      /\ Charge(is \cup js) = Cardinality(Units(is \cup js))
  BY <1>1, UnitsFinite
<1>4. Cardinality(Units(is) \cap Units(js)) \in Nat
  BY <1>3, FS_Intersection, FS_CardinalityType
<1>5. Cardinality(Units(is) \cup Units(js))
        = Cardinality(Units(is)) + Cardinality(Units(js)) - Cardinality(Units(is) \cap Units(js))
  BY <1>3, FS_Union
<1>6. Charge(is \cup js) = Cardinality(Units(is) \cup Units(js))
  BY <1>2, <1>3, Zenon
<1>7. Cardinality(Units(is)) \in Nat /\ Cardinality(Units(js)) \in Nat
  BY <1>3, Zenon
<1>8. Cardinality(Units(is) \cup Units(js)) =< Cardinality(Units(is)) + Cardinality(Units(js))
  BY <1>4, <1>5, <1>7
<1> QED
  BY <1>3, <1>6, <1>8, Zenon

(* Installations of one deployment take its need each. *)
LEMMA ChargeOfOneDeployment ==
  ASSUME NEW is \in SUBSET Installations, IsFiniteSet(is), NEW d \in Deployments,
         \A i \in is : i.deployment = d
  PROVE  Charge(is) = Cardinality(is) * Need[d]
<1>1. Need[d] \in Nat
  BY OrchestrationAssumption
<1>2. IsFiniteSet(1 .. Need[d]) /\ Cardinality(1 .. Need[d]) = Need[d]
  BY <1>1, FS_Interval
<1>3. Units(is) = is \X (1 .. Need[d])
  BY DEF Units, UnitsOf
<1>4. Cardinality(is \X (1 .. Need[d])) = Cardinality(is) * Cardinality(1 .. Need[d])
  BY <1>2, FS_Product, Zenon
<1> QED
  BY <1>2, <1>3, <1>4, UnitsFinite

(* What the division leaves room for takes no more than the room. *)
LEMMA RoomForCount ==
  ASSUME NEW room \in Nat, NEW need \in Nat \ {0}, NEW count \in Nat, count =< room \div need
  PROVE  count * need =< room
<1>1. (room \div need) * need =< room /\ room \div need \in Nat
  OBVIOUS
<1>2. count * need =< (room \div need) * need
  BY <1>1
<1> QED
  BY <1>1, <1>2

LEMMA LicensedPlanStep ==
  ASSUME SyncInv, NEW r \in Runs, LicensedPlan(r), NEW d \in Deployments, planNewInstallations(r, d)
  PROVE  LicensedPlan(r)'
<1>1. phase[r] = "planning" /\ UNCHANGED kept
  BY DEF planNewInstallations
<1>2. Placed(installations(r))
  BY <1>1 DEF SyncInv, RunInv, Keeps, installations
<1>3. CASE UNCHANGED toInstall
  BY <1>1, <1>3 DEF LicensedPlan, installations, Charge
<1>4. ASSUME NEW ns \in SUBSET servers[r], \A n \in ns : CanTake(n, d, installations(r)),
             NEW fits \in Nat, NEW missing \in Int,
             Cardinality(ns) = AtMost(AtMost(missing, fits), licensed(r, d)),
             toInstall' = [toInstall EXCEPT ![r] =
                             @ \cup {NewOn(n, d, wanted[r][d], installations(r)) : n \in ns}]
      PROVE  LicensedPlan(r)'
  <2> DEFINE add == {NewOn(n, d, wanted[r][d], installations(r)) : n \in ns}
             new == [n \in ns |-> NewOn(n, d, wanted[r][d], installations(r))]
  <2>1. ns \in SUBSET Nodes /\ wanted[r][d] \in Settings
    BY DEF SyncInv, PlanTypeOK
  <2>2. Placed(installations(r) \cup add)
    BY <1>2, <1>4, <2>1, PlacedAfterPlan
  <2>3. IsFiniteSet(ns) /\ Cardinality(ns) \in Nat
    BY <2>1, FS_Subset, FS_CardinalityType, OrchestrationAssumption
  <2>4. new \in Surjection(ns, add)
    BY DEF Surjection
  <2>5. IsFiniteSet(add) /\ Cardinality(add) =< Cardinality(ns) /\ Cardinality(add) \in Nat
    BY <2>3, <2>4, FS_Surjection, FS_CardinalityType
  <2>6. add \subseteq Installations /\ \A i \in add : i.deployment = d
    BY <2>2 DEF Placed, NewOn
  <2> HIDE DEF new, add
  <2>7. Charge(add) = Cardinality(add) * Need[d]
    BY <2>5, <2>6, ChargeOfOneDeployment
  <2>8. installations(r)' = installations(r) \cup add /\ toInstall'[r] = toInstall[r] \cup add
    BY <1>1, <1>4 DEF installations, add, SyncInv, PlanTypeOK
  <2>9. CASE ns = {}
    <3>1. add = {}
      BY <2>9 DEF add
    <3> QED
      BY <2>8, <3>1 DEF LicensedPlan
  <2>10. CASE ns # {}
    <3> DEFINE used == Charge(installations(r))
               room == LicenseLimit - used
    <3>1. used \in Nat /\ LicenseLimit \in Nat /\ Need[d] \in Nat \ {0}
      BY <1>2, UnitsFinite, OrchestrationAssumption DEF Placed
    <3>2. Cardinality(ns) # 0
      BY <2>3, <2>10, FS_EmptySet
    <3>3. licensed(r, d) = IF used > LicenseLimit THEN 0 ELSE room \div Need[d]
      BY DEF licensed
    <3> HIDE DEF used
    <3>4. licensed(r, d) \in Nat
      BY <3>1, <3>3
    <3>5. Cardinality(ns) =< licensed(r, d)
      BY <1>4, <2>3, <3>4 DEF AtMost
    <3>6. room \in Nat /\ Cardinality(add) =< room \div Need[d]
      BY <2>3, <2>5, <3>1, <3>2, <3>3, <3>5
    <3>7. Cardinality(add) * Need[d] =< room
      BY <2>5, <3>1, <3>6, RoomForCount
    <3>8. Charge(installations(r) \cup add) =< used + Charge(add)
      BY <1>2, <2>5, <2>6, ChargeOfUnion DEF Placed, used
    <3>9. Charge(installations(r) \cup add) \in Nat /\ Charge(add) \in Nat
      BY <2>2, <2>5, <2>6, UnitsFinite DEF Placed
    <3>10. Charge(installations(r) \cup add) =< LicenseLimit
      BY <2>7, <3>1, <3>7, <3>8, <3>9
    <3> QED
      BY <2>8, <3>10 DEF LicensedPlan, Charge
  <2> QED
    BY <2>9, <2>10
<1> QED
  <2> DEFINE missing == required[r][d] - Cardinality(Of(d, kept[r]))
             fitting == {n \in servers[r] : CanTake(n, d, installations(r))}
  <2>1. servers[r] \in SUBSET Nodes
    BY DEF SyncInv, PlanTypeOK
  <2>2. IsFiniteSet(fitting) /\ Cardinality(fitting) \in Nat
    BY <2>1, FS_Subset, FS_CardinalityType, OrchestrationAssumption
  <2>3. IsFiniteSet(Of(d, kept[r]))
    <3>1. Of(d, kept[r]) \in SUBSET installations(r)
      BY DEF Of, installations
    <3> QED
      BY <1>2, <3>1, FS_Subset DEF Placed
  <2>4. missing \in Int
    BY <2>3, FS_CardinalityType DEF SyncInv, PlanTypeOK
  <2>5. \/ UNCHANGED toInstall
        \/ \E ns \in SUBSET fitting :
             /\ Cardinality(ns) = AtMost(AtMost(missing, Cardinality(fitting)), licensed(r, d))
             /\ toInstall' = [toInstall EXCEPT ![r] =
                                @ \cup {NewOn(n, d, wanted[r][d], installations(r)) : n \in ns}]
    BY DEF planNewInstallations, kSubset, NewOn
  <2> HIDE DEF missing
  <2> QED
    BY <1>3, <1>4, <2>2, <2>4, <2>5

LicensedInv == \A r \in Runs : LicensedPlan(r)

(* A run whose plan stays, or is gone, stays within the licence. *)
LEMMA LicensedPlanStays ==
  ASSUME NEW r \in Runs, LicensedPlan(r),
         toInstall'[r] = {} \/ (toInstall'[r] = toInstall[r] /\ kept'[r] = kept[r])
  PROVE  LicensedPlan(r)'
BY DEF LicensedPlan, installations, Charge

LEMMA LicensedStep == SyncInv /\ LicensedInv /\ [Next]_vars => LicensedInv'
<1> SUFFICES ASSUME SyncInv, LicensedInv, [Next]_vars PROVE LicensedInv'
  OBVIOUS
<1>1. ASSUME UNCHANGED <<toInstall, kept>> PROVE LicensedInv'
  BY <1>1, LicensedPlanStays DEF LicensedInv
<1>2. ASSUME NEW rs, forgetPlans(rs) PROVE LicensedInv'
  <2> SUFFICES ASSUME NEW r \in Runs PROVE LicensedPlan(r)'
    BY DEF LicensedInv
  <2>1. toInstall'[r] = {} \/ (toInstall'[r] = toInstall[r] /\ kept'[r] = kept[r])
    BY <1>2 DEF forgetPlans
  <2> QED
    BY <2>1, LicensedPlanStays DEF LicensedInv
<1>3. ASSUME NEW r \in Runs, collect(r) PROVE LicensedInv'
  <2> SUFFICES ASSUME NEW q \in Runs PROVE LicensedPlan(q)'
    BY DEF LicensedInv
  <2>1. UNCHANGED toInstall /\ phase[r] = "required"
    BY <1>3 DEF collect
  <2>2. toInstall[r] = {}
    BY <2>1 DEF SyncInv, RunInv
  <2>3. ASSUME q # r PROVE kept'[q] = kept[q]
    BY <1>3, <2>3 DEF collect, SyncInv, PlanTypeOK
  <2> QED
    BY <2>1, <2>2, <2>3, LicensedPlanStays DEF LicensedInv
<1>4. ASSUME NEW r \in Runs, NEW d \in Deployments, planNewInstallations(r, d) PROVE LicensedInv'
  <2>1. LicensedPlan(r)'
    BY <1>4, LicensedPlanStep DEF LicensedInv
  <2>2. ASSUME NEW q \in Runs \ {r} PROVE LicensedPlan(q)'
    <3>1. toInstall'[q] = toInstall[q] /\ kept'[q] = kept[q]
      BY <1>4 DEF planNewInstallations, SyncInv, PlanTypeOK
    <3> QED
      BY <3>1, LicensedPlanStays DEF LicensedInv
  <2> QED
    BY <2>1, <2>2 DEF LicensedInv
<1>5. CASE Environment
  BY <1>1, <1>2, <1>5 DEF Environment, EditDeployment, retryDeployment, NodeOnOrOff, CatalogOnOrOff,
     ReportMisfit, restart, planVars
<1>6. CASE syncDeployedModels
  BY <1>1, <1>6 DEF syncDeployedModels, planVars
<1>7. ASSUME NEW r \in Runs, RunStep(r) PROVE LicensedInv'
  <2>1. CASE assembleModelRequirementTable(r)
    BY <1>1, <2>1 DEF assembleModelRequirementTable
  <2>2. CASE applyUninstall(r)
    BY <1>1, <2>2 DEF applyUninstall, planVars
  <2>3. CASE applyInstall(r)
    BY <1>2, <2>3 DEF applyInstall, endRun
  <2> QED
    BY <1>3, <1>4, <1>7, <2>1, <2>2, <2>3 DEF RunStep
<1>8. ASSUME NEW r \in Runs, runFails(r) PROVE LicensedInv'
  BY <1>2, <1>8 DEF runFails, endRun
<1>9. CASE UNCHANGED vars
  BY <1>1, <1>9 DEF vars, planVars
<1> QED
  BY <1>5, <1>6, <1>7, <1>8, <1>9 DEF Next

(* What is then on the nodes the run has counted was in its plan. *)
LEMMA InstallsWithinLicense ==
  ASSUME SyncInv, LicensedInv, NEW r \in Runs, applyInstall(r), toInstall[r] # {}
  PROVE  Charge({i \in rows' : i.node \in servers[r]}) =< LicenseLimit
<1> DEFINE there == {i \in rows' : i.node \in servers[r]}
<1>1. phase[r] = "inserting" /\ rows' = rows \cup toInstall[r]
  BY DEF applyInstall
<1>2. Keeps(r)
  BY <1>1 DEF SyncInv, RunInv
<1>3. there \in SUBSET installations(r)
  BY <1>1, <1>2 DEF Keeps, installations
<1>4. installations(r) \in SUBSET Installations /\ IsFiniteSet(installations(r))
  BY <1>2 DEF Keeps, Placed, installations
<1>5. Charge(there) =< Charge(installations(r)) /\ IsFiniteSet(there) /\ there \in SUBSET Installations
  BY <1>3, <1>4, ChargeOfSubset, FS_Subset
<1>6. Charge(installations(r)) =< LicenseLimit
  BY DEF LicensedInv, LicensedPlan
<1>7. Charge(there) \in Nat /\ Charge(installations(r)) \in Nat /\ LicenseLimit \in Nat
  BY <1>4, <1>5, UnitsFinite, OrchestrationAssumption
<1> HIDE DEF there
<1>8. Charge(there) =< LicenseLimit
  BY <1>5, <1>6, <1>7
<1> QED
  BY <1>8 DEF there

(* orchestration.ts 310-311: for any limit, needs, edits, deletions and    *)
(* runs that fail, a run that installs leaves the nodes it has counted     *)
(* within the licence.                                                     *)
THEOREM LicenseIsKept == Spec => LicenseKept
<1>1. Init => LicensedInv
  BY DEF Init, NoPlan, LicensedInv, LicensedPlan
<1>2. SyncInv /\ LicensedInv /\ [Next]_vars =>
        [\A r \in Runs :
           applyInstall(r) /\ toInstall[r] # {} =>
             Charge({i \in rows' : i.node \in servers[r]}) =< LicenseLimit]_vars
  BY InstallsWithinLicense
<1> QED
  BY <1>1, <1>2, SyncInvariant, LicensedStep, PTL DEF Spec, LicenseKept

(***************************************************************************)
(* No more than required.  What a run counts on is, of each deployment, no *)
(* more than it read was required and has the settings it read, from when  *)
(* it has collected what must go; a requirement is planned once.           *)
(***************************************************************************)

Counted(r, d) ==
  /\ Cardinality(Of(d, installations(r))) =< required[r][d]
  /\ \A i \in Of(d, installations(r)) : i.settings = wanted[r][d]
  /\ d \in unplanned[r] => Of(d, toInstall[r]) = {}

Applies(r) == phase[r] \in {"planning", "inserting"}

CountInv == \A r \in Runs : Applies(r) => \A d \in Deployments : Counted(r, d)

(* Cardinalities of parts and of unions. *)
LEMMA SizeOfPart ==
  ASSUME NEW S, IsFiniteSet(S), NEW T \in SUBSET S
  PROVE  IsFiniteSet(T) /\ Cardinality(T) \in Nat /\ Cardinality(S) \in Nat /\ Cardinality(T) =< Cardinality(S)
BY FS_Subset, FS_CardinalityType

LEMMA SizeOfUnion ==
  ASSUME NEW S, IsFiniteSet(S), NEW T, IsFiniteSet(T)
  PROVE  Cardinality(S \cup T) =< Cardinality(S) + Cardinality(T)
<1>1. Cardinality(S \cap T) \in Nat /\ Cardinality(S) \in Nat /\ Cardinality(T) \in Nat
  BY FS_Intersection, FS_CardinalityType
<1>2. Cardinality(S \cup T) = Cardinality(S) + Cardinality(T) - Cardinality(S \cap T)
  BY FS_Union
<1> QED
  BY <1>1, <1>2

LEMMA CountedStays ==
  ASSUME NEW r \in Runs, NEW d \in Deployments, Counted(r, d),
         kept'[r] = kept[r], toInstall'[r] = toInstall[r],
         required'[r] = required[r], wanted'[r] = wanted[r], unplanned'[r] \subseteq unplanned[r]
  PROVE  Counted(r, d)'
BY DEF Counted, installations, Of

(* What collect keeps is trimmed to the requirements and has not drifted. *)
LEMMA CollectCounts ==
  ASSUME SyncInv, NEW r \in Runs, collect(r), NEW d \in Deployments
  PROVE  Counted(r, d)'
<1> DEFINE active == {i \in rows : i.node \in live}
<1>1. PICK excess \in ExcessChoices(r, active) :
        kept' = [kept EXCEPT ![r] = (active \ excess) \ (drifted(r, active \ excess) \cup misfits)]
  BY DEF collect
<1> DEFINE trimmed == active \ excess
           stay == trimmed \ (drifted(r, trimmed) \cup misfits)
<1>2. phase[r] = "required" /\ UNCHANGED <<toInstall, required, wanted>>
  BY DEF collect
<1>3. kept'[r] = stay /\ toInstall'[r] = {}
  BY <1>1, <1>2 DEF SyncInv, PlanTypeOK, RunInv
<1>4. required[r][d] \in Nat
  BY DEF SyncInv, PlanTypeOK
<1>5. IsFiniteSet(active) /\ IsFiniteSet(Of(d, active)) /\ Cardinality(Of(d, active)) \in Nat
  <2>1. IsFiniteSet(rows)
    BY DEF SyncInv, Placed
  <2>2. active \in SUBSET rows /\ Of(d, active) \in SUBSET active
    BY DEF Of
  <2> QED
    BY <2>1, <2>2, SizeOfPart
<1>6. Cardinality(Of(d, trimmed)) =
        IF Cardinality(Of(d, active)) > required[r][d] THEN required[r][d] ELSE Cardinality(Of(d, active))
  BY <1>1 DEF ExcessChoices
<1>7. Of(d, trimmed) \in SUBSET active /\ Of(d, stay) \in SUBSET Of(d, trimmed)
  BY DEF Of
<1>8. Cardinality(Of(d, trimmed)) =< required[r][d]
  BY <1>4, <1>5, <1>6
<1>9. /\ IsFiniteSet(Of(d, stay)) /\ Cardinality(Of(d, stay)) \in Nat
      /\ Cardinality(Of(d, trimmed)) \in Nat /\ Cardinality(Of(d, stay)) =< Cardinality(Of(d, trimmed))
  <2>1. IsFiniteSet(Of(d, trimmed))
    BY <1>5, <1>7, SizeOfPart
  <2> QED
    BY <1>7, <2>1, SizeOfPart
<1>10. Cardinality(Of(d, stay)) =< required[r][d]
  BY <1>4, <1>8, <1>9
<1>11. ASSUME NEW i \in Of(d, stay) PROVE i.settings = wanted[r][d]
  <2>1. Cardinality(Of(d, stay)) # 0
    BY <1>9, <1>11, FS_EmptySet
  <2>2. required[r][d] > 0
    BY <1>4, <1>9, <1>10, <2>1
  <2>3. i.deployment = d /\ i \in trimmed /\ i \notin drifted(r, trimmed)
    BY <1>11 DEF Of
  <2> QED
    BY <2>2, <2>3 DEF drifted
<1> HIDE DEF stay
<1>12. installations(r)' = stay
  BY <1>3 DEF installations
<1> QED
  BY <1>2, <1>3, <1>10, <1>11, <1>12 DEF Counted, Of

(* The replica loop adds to one deployment, and no more than is missing. *)
LEMMA PlanCounts ==
  ASSUME SyncInv, NEW r \in Runs, NEW e \in Deployments, planNewInstallations(r, e),
         \A d \in Deployments : Counted(r, d), NEW d \in Deployments
  PROVE  Counted(r, d)'
<1>1. /\ phase[r] = "planning" /\ e \in unplanned[r] /\ unplanned' = [unplanned EXCEPT ![r] = @ \ {e}]
      /\ UNCHANGED <<kept, required, wanted>>
  BY DEF planNewInstallations
<1>2. unplanned'[r] = unplanned[r] \ {e}
  BY <1>1 DEF SyncInv, PlanTypeOK
<1>3. Counted(r, d) /\ Counted(r, e)
  OBVIOUS
<1>4. CASE UNCHANGED toInstall
  BY <1>1, <1>2, <1>3, <1>4, CountedStays
<1>5. ASSUME NEW ns \in SUBSET servers[r], NEW fits \in Nat, NEW allowed \in Nat,
             required[r][e] - Cardinality(Of(e, kept[r])) > 0,
             Cardinality(ns) = AtMost(AtMost(required[r][e] - Cardinality(Of(e, kept[r])), fits), allowed),
             toInstall' = [toInstall EXCEPT ![r] =
                             @ \cup {NewOn(n, e, wanted[r][e], installations(r)) : n \in ns}]
      PROVE  Counted(r, d)'
  <2> DEFINE add == {NewOn(n, e, wanted[r][e], installations(r)) : n \in ns}
             new == [n \in ns |-> NewOn(n, e, wanted[r][e], installations(r))]
  <2>1. \A i \in add : i.deployment = e /\ i.settings = wanted[r][e]
    BY DEF NewOn
  <2>2. new \in Surjection(ns, add)
    BY DEF Surjection
  <2>3. IsFiniteSet(ns) /\ Cardinality(ns) \in Nat
    <3>1. ns \in SUBSET Nodes
      BY DEF SyncInv, PlanTypeOK
    <3> QED
      BY <3>1, SizeOfPart, OrchestrationAssumption
  <2>4. IsFiniteSet(add) /\ Cardinality(add) =< Cardinality(ns) /\ Cardinality(add) \in Nat
    BY <2>2, <2>3, FS_Surjection, FS_CardinalityType
  <2> HIDE DEF new
  <2>5. toInstall'[r] = toInstall[r] \cup add /\ installations(r)' = installations(r) \cup add
    BY <1>1, <1>5 DEF installations, SyncInv, PlanTypeOK
  <2> HIDE DEF add
  <2>6. CASE d # e
    <3>1. Of(d, toInstall'[r]) = Of(d, toInstall[r]) /\ Of(d, installations(r)') = Of(d, installations(r))
      BY <2>1, <2>5, <2>6 DEF Of
    <3> QED
      BY <1>1, <1>2, <1>3, <3>1 DEF Counted, Of
  <2>7. CASE d = e
    <3>1. Of(d, installations(r)) = Of(d, kept[r])
      BY <1>1, <1>3, <2>7 DEF Counted, Of, installations
    <3>2. Of(d, installations(r)') = Of(d, kept[r]) \cup add
      BY <2>1, <2>5, <2>7, <3>1 DEF Of
    <3>3. IsFiniteSet(Of(d, kept[r])) /\ Cardinality(Of(d, kept[r])) \in Nat
      <4>1. IsFiniteSet(installations(r)) /\ Of(d, kept[r]) \in SUBSET installations(r)
        BY <1>1 DEF SyncInv, RunInv, Keeps, Placed, installations, Of
      <4> QED
        BY <4>1, SizeOfPart
    <3>4. required[r][d] \in Nat
      BY DEF SyncInv, PlanTypeOK
    <3>5. Cardinality(add) =< required[r][d] - Cardinality(Of(d, kept[r]))
      BY <1>5, <2>3, <2>4, <2>7, <3>3, <3>4 DEF AtMost
    <3>6. /\ Cardinality(Of(d, kept[r]) \cup add) =< Cardinality(Of(d, kept[r])) + Cardinality(add)
          /\ Cardinality(Of(d, kept[r]) \cup add) \in Nat
      BY <2>4, <3>3, SizeOfUnion, FS_Union, FS_CardinalityType
    <3>7. Cardinality(Of(d, installations(r)')) =< required[r][d]
      BY <2>4, <3>2, <3>3, <3>4, <3>5, <3>6
    <3>8. \A i \in Of(d, installations(r)') : i.settings = wanted[r][d]
      BY <1>3, <2>1, <2>7, <3>1, <3>2 DEF Counted
    <3> QED
      BY <1>1, <1>2, <2>7, <3>7, <3>8 DEF Counted, Of
  <2> QED
    BY <2>6, <2>7
<1> QED
  <2> DEFINE missing == required[r][e] - Cardinality(Of(e, kept[r]))
             fitting == {n \in servers[r] : CanTake(n, e, installations(r))}
  <2>1. Cardinality(fitting) \in Nat
    <3>1. fitting \in SUBSET Nodes
      BY DEF SyncInv, PlanTypeOK
    <3> QED
      BY <3>1, SizeOfPart, OrchestrationAssumption
  <2>2. licensed(r, e) \in Nat
    <3>1. Charge(installations(r)) \in Nat
      BY <1>1, UnitsFinite DEF SyncInv, RunInv, Keeps, Placed, installations
    <3>2. LicenseLimit \in Nat /\ Need[e] \in Nat \ {0}
      BY OrchestrationAssumption
    <3> QED
      BY <3>1, <3>2 DEF licensed
  <2>3. missing \in Int
    <3>1. IsFiniteSet(installations(r)) /\ Of(e, kept[r]) \in SUBSET installations(r)
      BY <1>1 DEF SyncInv, RunInv, Keeps, Placed, installations, Of
    <3>2. Cardinality(Of(e, kept[r])) \in Nat
      BY <3>1, SizeOfPart
    <3> QED
      BY <3>2 DEF SyncInv, PlanTypeOK
  <2>4. \/ UNCHANGED toInstall
        \/ /\ ~(missing =< 0)
           /\ \E ns \in SUBSET fitting :
                /\ Cardinality(ns) = AtMost(AtMost(missing, Cardinality(fitting)), licensed(r, e))
                /\ toInstall' = [toInstall EXCEPT ![r] =
                                   @ \cup {NewOn(n, e, wanted[r][e], installations(r)) : n \in ns}]
    BY DEF planNewInstallations, kSubset, NewOn
  <2>5. ~(missing =< 0) => missing > 0
    BY <2>3
  <2> QED
    BY <1>4, <1>5, <2>1, <2>2, <2>4, <2>5

LEMMA CountStep == SyncInv /\ CountInv /\ [Next]_vars => CountInv'
<1> SUFFICES ASSUME SyncInv, CountInv, [Next]_vars, NEW q \in Runs, Applies(q)', NEW d \in Deployments
             PROVE  Counted(q, d)'
  BY DEF CountInv
<1>1. ASSUME UNCHANGED planVars, phase'[q] = phase[q] \/ Applies(q) PROVE Counted(q, d)'
  BY <1>1, CountedStays DEF CountInv, Applies, planVars
<1>2. ASSUME NEW r \in Runs, endRun(r) PROVE Counted(q, d)'
  <2>1. q # r
    BY <1>2 DEF endRun, Applies, SyncInv, SyncTypeOK
  <2>2. /\ kept'[q] = kept[q] /\ toInstall'[q] = toInstall[q] /\ required'[q] = required[q]
        /\ wanted'[q] = wanted[q] /\ unplanned'[q] = unplanned[q] /\ phase'[q] = phase[q]
    BY <1>2, <2>1 DEF endRun, forgetPlans, SyncInv, SyncTypeOK
  <2> QED
    BY <2>2, CountedStays DEF CountInv, Applies
<1>3. CASE restart
  BY <1>3 DEF restart, Applies
<1>4. CASE Environment /\ ~restart
  <2>1. UNCHANGED <<phase, planVars>>
    BY <1>4 DEF Environment, EditDeployment, retryDeployment, NodeOnOrOff, CatalogOnOrOff, ReportMisfit
  <2> QED
    BY <1>1, <2>1
<1>5. CASE syncDeployedModels
  <2>1. UNCHANGED planVars /\ phase'[q] \in {phase[q], "started"}
    BY <1>5 DEF syncDeployedModels, nextRun, Runs, SyncInv, SyncTypeOK
  <2> QED
    BY <1>1, <2>1 DEF Applies
<1>6. ASSUME NEW r \in Runs, RunStep(r) PROVE Counted(q, d)'
  <2>1. CASE assembleModelRequirementTable(r)
    <3>1. q # r /\ phase'[q] = phase[q]
      BY <2>1 DEF assembleModelRequirementTable, Applies, SyncInv, SyncTypeOK
    <3>2. /\ required'[q] = required[q] /\ wanted'[q] = wanted[q]
          /\ UNCHANGED <<kept, toInstall, unplanned>>
      BY <2>1, <3>1 DEF assembleModelRequirementTable, SyncInv, PlanTypeOK
    <3> QED
      BY <3>1, <3>2, CountedStays DEF CountInv, Applies
  <2>2. CASE collect(r)
    <3>1. CASE q = r
      BY <2>2, <3>1, CollectCounts
    <3>2. CASE q # r
      <4>1. /\ phase'[q] = phase[q] /\ kept'[q] = kept[q] /\ unplanned'[q] = unplanned[q]
            /\ UNCHANGED <<toInstall, required, wanted>>
        BY <2>2, <3>2 DEF collect, SyncInv, SyncTypeOK, PlanTypeOK
      <4> QED
        BY <4>1, CountedStays DEF CountInv, Applies
    <3> QED
      BY <3>1, <3>2
  <2>3. ASSUME NEW e \in Deployments, planNewInstallations(r, e) PROVE Counted(q, d)'
    <3>1. UNCHANGED <<phase, kept, required, wanted>>
      BY <2>3 DEF planNewInstallations
    <3>2. CASE q = r
      BY <2>3, <3>1, <3>2, PlanCounts DEF CountInv, Applies
    <3>3. CASE q # r
      <4>1. toInstall'[q] = toInstall[q] /\ unplanned'[q] = unplanned[q]
        BY <2>3, <3>3 DEF planNewInstallations, SyncInv, PlanTypeOK
      <4> QED
        BY <3>1, <4>1, CountedStays DEF CountInv, Applies
    <3> QED
      BY <3>2, <3>3
  <2>4. CASE applyUninstall(r)
    BY <1>1, <2>4 DEF applyUninstall, Applies, SyncInv, SyncTypeOK
  <2>5. CASE applyInstall(r)
    BY <1>2, <2>5 DEF applyInstall
  <2> QED
    BY <1>6, <2>1, <2>2, <2>3, <2>4, <2>5 DEF RunStep
<1>7. ASSUME NEW r \in Runs, runFails(r) PROVE Counted(q, d)'
  BY <1>2, <1>7 DEF runFails
<1>8. CASE UNCHANGED vars
  BY <1>1, <1>8 DEF vars
<1> QED
  BY <1>3, <1>4, <1>5, <1>6, <1>7, <1>8 DEF Next

LEMMA InstallsWhatIsRequired ==
  ASSUME SyncInv, CountInv, NEW r \in Runs, applyInstall(r), NEW d \in Deployments
  PROVE  /\ Cardinality({i \in Of(d, rows') : i.node \in servers[r]}) =< required[r][d]
         /\ \A i \in {j \in Of(d, rows') : j.node \in servers[r]} : i.settings = wanted[r][d]
<1> DEFINE there == {i \in Of(d, rows') : i.node \in servers[r]}
<1>1. phase[r] = "inserting" /\ rows' = rows \cup toInstall[r]
  BY DEF applyInstall
<1>2. Keeps(r) /\ Counted(r, d) /\ required[r][d] \in Nat
  BY <1>1 DEF SyncInv, RunInv, CountInv, Applies, PlanTypeOK
<1>3. there \in SUBSET Of(d, installations(r))
  BY <1>1, <1>2 DEF Keeps, installations, Of
<1>4. IsFiniteSet(Of(d, installations(r)))
  <2>1. IsFiniteSet(installations(r)) /\ Of(d, installations(r)) \in SUBSET installations(r)
    BY <1>2 DEF Keeps, Placed, installations, Of
  <2> QED
    BY <2>1, SizeOfPart
<1>5. /\ Cardinality(there) \in Nat /\ Cardinality(Of(d, installations(r))) \in Nat
      /\ Cardinality(there) =< Cardinality(Of(d, installations(r)))
  BY <1>3, <1>4, SizeOfPart
<1>6. \A i \in there : i.settings = wanted[r][d]
  BY <1>2, <1>3 DEF Counted
<1> HIDE DEF there
<1>7. Cardinality(there) =< required[r][d]
  BY <1>2, <1>5 DEF Counted
<1> QED
  BY <1>6, <1>7 DEF there

(* orchestration.ts 543-573: for any cluster, edits, deletions and runs    *)
(* that fail, a run leaves on the nodes it has counted no more of a        *)
(* deployment than it read was required, all with the settings it read.    *)
THEOREM NoMoreThanRequired == Spec => RequiredAtMost
<1>1. Init => CountInv
  BY DEF Init, CountInv, Applies
<1>2. SyncInv /\ CountInv /\ [Next]_vars =>
        [\A r \in Runs : applyInstall(r) =>
           \A d \in Deployments :
             LET there == {i \in Of(d, rows') : i.node \in servers[r]}
             IN /\ Cardinality(there) =< required[r][d]
                /\ \A i \in there : i.settings = wanted[r][d]]_vars
  BY InstallsWhatIsRequired
<1> QED
  BY <1>1, <1>2, SyncInvariant, CountStep, PTL DEF Spec, RequiredAtMost
=============================================================================
