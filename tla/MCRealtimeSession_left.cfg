SPECIFICATION RealtimeSpec
CONSTANTS
  Turns = {t1, t2}
  NoTurn = NoTurn
  Caps = {1, 2}
  MaxInbox = 2
PROPERTY LeftTurnEnds
CHECK_DEADLOCK FALSE
