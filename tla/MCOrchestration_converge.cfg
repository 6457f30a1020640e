SPECIFICATION RestSpec
CONSTANTS
  a = a
  Nodes = {a, b}
  Deployments = {d1}
  Capacity <- AmpleCapacity
  Need <- UnitNeed
  LicenseLimit = 4
  MaxReplicas = 2
  MaxEdits = 2
PROPERTY Converges
