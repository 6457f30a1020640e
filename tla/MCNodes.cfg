SPECIFICATION NodesSpec
CONSTANTS
  Nodes = {n1, n2}
  Keys = {k1, k2}
  Addrs = {a1}
  Handlers = {h1, h2}
  NoKey = NoKey
  NoAddr = NoAddr
  NoNode = NoNode
  NoConn = NoConn
  MaxBacklog = 1
  Members = {m1, m2}
  Leader = m1
  Budget = 1
  MaxFaults = 1
  MaxSettings = 3
  MaxEvents = 2
  Refreshes = {f1, f2}
  Chunks = 3
  Hashed = TRUE
  big = big
  small = small
  other = other
  Models = {big, small, other}
  Size <- ModelSize
  Disk = 4
  Margin = 1
  MaxShifts = 1
INVARIANT ConnectedKeyIsPinned
INVARIANT OnlyOvertakenIsRejected
INVARIANT LaunchedTogether
INVARIANT StreamEndsWithLatest
INVARIANT BlobIsWhole
INVARIANT PlanIsLeast
PROPERTY SteadyCacheStays
SYMMETRY Symmetry
CHECK_DEADLOCK FALSE
