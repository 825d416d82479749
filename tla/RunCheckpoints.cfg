CONSTANTS
  Clients = {c1}
  Plans <- Checkpointed
  MaxExecutions = 3
  MaxRows = 1
  MaxQueue = 1
  Budgets <- PauseOrFault
SPECIFICATION Spec
INVARIANTS
  CheckpointCovered
  AckedIsPromoted
CHECK_DEADLOCK FALSE
