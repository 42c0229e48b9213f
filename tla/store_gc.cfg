CONSTANTS
  SessionIds = {s1}
  RunIds = {r1, r2}
  NativeIds = {n1}
  Absent = Absent
  NoMark = NoMark
  native_id <- OneRun
  RunInputs <- WorkOrDead
  Stamps <- FourStamps
  Commands = {}
  Faults = {"append"}
  Persist = TRUE
  MaxTime = 2
  Grace = 1
  SessionTtl = 1
SPECIFICATION FairSpec
INVARIANT MarksFollowSessions
PROPERTIES StaleNeverLands DeadRunsAreReaped
