CONSTANTS
  Sessions = {s1}
  Threads = {x1}
  Tools = {t1, t2}
  NoTool = NoTool
  Workers = {w1, w2}
  Parallel = 2
  IdsCarried = TRUE
  Room = 2
  Lines = 3
  Window = 1
SPECIFICATION FairSpec
INVARIANTS AdaptersAgree NoStaleWaiting
PROPERTIES TimerIsSound BlockedIsShown
CHECK_DEADLOCK FALSE
