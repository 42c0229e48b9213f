CONSTANTS
  SessionIds = {s1, s2}
  RunIds = {r1}
  Absent = Absent
  Faces = {f1}
  Starts <- EmptyOrSoloed
  RunInputs <- WaitOrDead
  Commands = {"mute", "unmute", "solo", "focus"}
  Faults = {"drop", "append"}
  Capacity = 2
  Room = 1
  MaxCommits = 2
SPECIFICATION FairSpec
INVARIANTS StreamLeadsToPublished ServerInv
PROPERTIES FacesCatchUp StoreGetsPublished
CHECK_DEADLOCK FALSE
