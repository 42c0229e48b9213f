CONSTANTS
  SessionIds = {s1, s2, s3}
  RunIds = {r1}
  NativeIds = {n1}
  Absent = Absent
  NoMark = NoMark
  native_id <- OneRun
  RunInputs <- WorkOrWait
  Stamps = {}
  Commands = {"mute", "unmute", "solo", "focus"}
  Faults = {"append"}
  Persist = TRUE
  MaxTime = 0
  Grace = 1
  SessionTtl = 1
SPECIFICATION Spec
PROPERTY BadgesFollowPings
