SPECIFICATION CachesSpec
CONSTANTS
  Callers = {k1, k2}
  Limit = 1
  MaxWaiting = 2
  Checks = {r1, r2}
  MaxWrites = 1
  Lookups = {l1, l2}
  MaxChanges = 1
  MaxCommands = 2
  Records = {c1, c2, c3}
  Broken = {c3}
  BatchSize = 2
  Inserts = {i1, i2}
INVARIANT SlotsVerify
INVARIANT QuietSourcesAreCurrent
INVARIANT OnlyBadRowsAreLost
INVARIANT FlushedIsSettled
PROPERTY KeepsPoolPromise
PROPERTY RequestAnswered
PROPERTY RevokedKeyIsRefused
CHECK_DEADLOCK FALSE
