-------------------------- MODULE MCOrchestration --------------------------
(* Instances of Orchestration for TLC. *)
EXTENDS Orchestration, TLC

CONSTANT a   \* the larger node

(* Room for everything. *)
AmpleCapacity == [n \in Nodes |-> 2]

(* One node has room for one of the deployments only. *)
TightCapacity == [n \in Nodes |-> IF n = a THEN 2 ELSE 1]

UnitNeed == [d \in Deployments |-> 1]

(* Sound with UnitNeed, for the invariants. *)
DeploymentSymmetry == Permutations(Deployments)
=============================================================================
