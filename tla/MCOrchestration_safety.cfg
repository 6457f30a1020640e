SPECIFICATION Spec
CONSTANTS
  a = a
  Nodes = {a, b}
  Deployments = {d1, d2}
  Capacity <- TightCapacity
  Need <- UnitNeed
  LicenseLimit = 3
  MaxReplicas = 2
  MaxEdits = 2
INVARIANT PortsDiffer
INVARIANT ReplicasSpread
INVARIANT CapacityKept
INVARIANT EditHasARun
SYMMETRY DeploymentSymmetry
