CONSTANTS
  Clients = {c1}
  Plans <- FullReads
  MaxExecutions = 1
  MaxRows = 0
  MaxQueue = 2
  Budgets <- OneCancel
SPECIFICATION Spec
PROPERTIES
  CanceledIsFinal
CHECK_DEADLOCK FALSE
