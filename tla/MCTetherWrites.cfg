SPECIFICATION TetherWritesSpec
CONSTANTS
  Nodes = {n1}
  Keys = {k1}
  Addrs = {a1}
  Handlers = {h1, h2, h3}
  NoKey = NoKey
  NoAddr = NoAddr
  NoNode = NoNode
  NoConn = NoConn
  MaxBacklog = 1
  Installations = {i1, i2}
  MaxReports = 2
INVARIANT AvailabilitySettled
INVARIANT OpenStreamIsTheConnection
INVARIANT NewestIsKept
INVARIANT StoredStagesAreTold
PROPERTY DisconnectedLeavesRouting
PROPERTY KeepsRegisterPromise
PROPERTY AcceptedIsStored
