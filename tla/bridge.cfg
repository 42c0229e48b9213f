CONSTANTS
  Windows = {w1, w2}
  None = None
  ServerOf <- OneServer
  LabelOf <- TwoLabels
  BackoffStart = 1
  BackoffMax = 2
  PingInterval = 2
  DropGrace = 2
  LivenessTimeout = 3
  MaxOpens = 2
  MaxBreaks = 2
  MaxStarts = 2
  MaxEdits = 1
SPECIFICATION FairSpec
PROPERTIES ReconnectsDoNotShow WorkingLinksAreNotReaped GoneServersGo OpenWindowsAreListed
CHECK_DEADLOCK FALSE
