CONSTANTS
  Events = {e1, e2}
  NoFile = NoFile
  MaxActs = 3
SPECIFICATION InstallSpec
INVARIANT OriginalAtHand
PROPERTY UninitRestores
