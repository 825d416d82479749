CONSTANTS
  Replicas = {s1}
  Clients = {c1}
  Routes = {a}
  MaxOccurrence = 2
  Setups <- Updated
SPECIFICATION Spec
INVARIANTS
  PauseHolds
CHECK_DEADLOCK FALSE
