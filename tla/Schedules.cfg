CONSTANTS
  Replicas = {s1, s2}
  Setups <- Deployments
  Clients = {c1}
  Routes = {a, b}
  MaxOccurrence = 2
SPECIFICATION FairSpec
INVARIANTS
  TypeOK
  NoOverlap
  OncePerOccurrence
  ScheduledHasSchedule
PROPERTIES
  DueIsServed
CHECK_DEADLOCK FALSE
