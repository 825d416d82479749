CONSTANTS
  Clients = {c1}
  Plans <- Increments
  MaxExecutions = 2
  MaxRows = 2
  MaxQueue = 2
  Budgets <- OneResume
SPECIFICATION Spec
INVARIANTS
  CursorAfterCommit
CHECK_DEADLOCK FALSE
