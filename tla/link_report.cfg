CONSTANTS
  NativeIds = {n1}
  NoMark = NoMark
  NoRun = NoRun
  NoTracker = NoTracker
  NoSession = NoSession
  States = {"working", "dead"}
  Capacity = 2
  Timeout = 1
  Faults = {"break", "late", "hub", "crash", "dismiss"}
  Interval = 1
  MaxGap = 1
  MaxTime = 3
  MaxMoves = 3
  SocketRoom = 2
SPECIFICATION LinkFairSpec
INVARIANT LinkInv
PROPERTIES Converges OnlySilenceKills SilentRunsDie
CHECK_DEADLOCK FALSE
