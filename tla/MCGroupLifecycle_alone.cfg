SPECIFICATION GroupSpec
CONSTANTS
  Members = {m1, m2}
  Leader = m1
  Budget = 1
  MaxFaults = 1
PROPERTY NeverRestartsAlone
CHECK_DEADLOCK FALSE
