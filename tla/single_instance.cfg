SPECIFICATION Spec
CONSTANTS
  Hubs = {h1, h2, h3}
  Receivers = {r1, r2}
  None = None
INVARIANTS
  ServingHubKeepsItsSocket
  OneOfEachUnlessRaced
  RefusedByTheLiving
CHECK_DEADLOCK FALSE
