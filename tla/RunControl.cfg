CONSTANTS
  Clients = {c1}
  Plans <- FullReads
  MaxExecutions = 2
  MaxRows = 0
  MaxQueue = 2
  Budgets <- CancelOrFault
SPECIFICATION FairSpec
INVARIANTS
  TypeOK
  RunningIsOwned
  CompletedIsCommitted
PROPERTIES
  CancelNeverCommits
  RunningEnds
  RequestedIsServed
CHECK_DEADLOCK FALSE
