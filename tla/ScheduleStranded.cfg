CONSTANTS
  Replicas = {s1}
  Clients = {c1}
  Routes = {a}
  MaxOccurrence = 2
  Setups <- Crashed
SPECIFICATION FairSpec
PROPERTIES
  StrandedIsRepaired
CHECK_DEADLOCK FALSE
