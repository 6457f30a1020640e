SPECIFICATION PartsSpec
CONSTANTS
  h1 = h1
  h2 = h2
  Requests = {q1, q2, q3}
  Hosts = {h1, h2}
  Placements <- HostPlacements
  MaxNumSeqs = 1
  MaxFaults = 1
  NoHost = NoHost
  Clients = {c1}
  Run = Run
  Progress = Progress
  MaxQueued = 1
  MaxFailures = 1
  Turns = {t1, t2}
  NoTurn = NoTurn
  Caps = {1, 2}
  MaxInbox = 1
INVARIANT HoldersAreCounted
INVARIANT AdmissionBounded
INVARIANT LeaseUntilEnd
INVARIANT ItemToldInOrder
PROPERTY RowIsFinal
PROPERTY ResponseSettles
PROPERTY CommittedTurnEnds
CHECK_DEADLOCK FALSE
