CONSTANTS
  s1 = s1
  s2 = s2
  SessionIds = {s1, s2}
  RunIds = {r1}
  Absent = Absent
  Fleets <- NoneOrSoloed
  RunInputs <- WaitsAndFails
  HubFlags = {"solo"}
  Clicks = {"mute", "solo", "focus", "dismiss"}
  Served = {s1}
  MaxCommits = 1
  MaxClicks = 1
  MaxCloses = 1
  MaxBreaks = 1
SPECIFICATION FairSpec
INVARIANTS PingsFollowTheInbox WindowTellsInbox RailInv
PROPERTIES OptimismIsExact RailSettles
CHECK_DEADLOCK FALSE
