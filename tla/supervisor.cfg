SPECIFICATION FairSpec
CONSTANTS
  Runtimes = {"local", "container"}
  Threads = {t1, t2}
  MaxLaunches = 2
  MaxSpawns = 2
INVARIANTS
  ClosedIsGone
  OnlyFailuresLeak
PROPERTIES
  PruneSparesTheLiving
  DeadServersGo
CHECK_DEADLOCK FALSE
