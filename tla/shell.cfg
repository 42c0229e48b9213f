SPECIFICATION ShellSpec
CONSTANTS
  External = {1}
  Spawnable = {2}
  MaxActs = 2
  MaxChanges = 1
INVARIANTS
  RailListsServers
  SelectionAgrees
  DeferredOpens
CHECK_DEADLOCK FALSE
