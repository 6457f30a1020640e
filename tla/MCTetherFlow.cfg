SPECIFICATION TetherFlowSpec
CONSTANTS
  Versions = {1, 2}
  NoState = 0
  Builds = {b1, b2}
  Nodes = {n1, n2}
  KeepaliveInterval = 2
  LivenessTimeout = 6
  MaxMint = 9
  MaxTrouble = 3
  MaxConfig = 3
  Unresolvable = {2}
INVARIANT QuietMeansPushed
INVARIANT IdleIsCurrent
INVARIANT QuietFeedIsCurrent
PROPERTY LatestIsApplied
PROPERTY HealthyNeverExpires
PROPERTY SilentDaemonExpires
PROPERTY ComesBack
CHECK_DEADLOCK FALSE
