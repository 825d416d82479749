----------------------------- MODULE MCScheduler -----------------------------
(* Scheduler with small deployments, for TLC. *)
EXTENDS Scheduler

Small(events, routes, crews, policy, occurrences) ==
  [crew : crews, routes : {routes}, policy : {policy}, horizon : {occurrences},
   events : {[x \in Events |-> IF x \in DOMAIN events THEN events[x] ELSE 0]}]

OneReplica == {{CHOOSE a \in Replicas : TRUE}}
OneRoute == {CHOOSE r \in Routes : TRUE}

\* One replica that skips: a second update, crashes.
Updated == Small([update |-> 2], OneRoute, OneReplica, "skip", 2)
Crashed ==
  Small([update |-> 1, fault |-> 1], OneRoute, OneReplica, "skip", 2)
    \cup Small([update |-> 1, fault |-> 1], Routes, OneReplica, "skip", 1)
    \cup Small([update |-> 1, fault |-> 2], OneRoute, OneReplica, "skip", 1)

\* A pipeline that is deleted beside two updates, twice, and with a rollback.
Deleted ==
  Small([update |-> 2, delete |-> 1], OneRoute, OneReplica, "skip", 1)
    \cup Small([update |-> 1, delete |-> 2], Routes, OneReplica, "skip", 1)
    \cup Small([update |-> 1, delete |-> 1, fault |-> 1], OneRoute, OneReplica, "allow", 1)

\* Runs that may overlap: two versions, a run left without a trigger, two replicas.
Overlapping ==
  Small([update |-> 1, version |-> 1], OneRoute, OneReplica, "allow", 2)
    \cup Small([update |-> 2, fault |-> 1], OneRoute, OneReplica, "allow", 2)
    \cup Small([update |-> 1, fault |-> 1], OneRoute, {Replicas}, "allow", 1)

Deployments ==
  Updated \cup Crashed \cup Deleted \cup Overlapping
    \cup Small([update |-> 1, version |-> 1], OneRoute, OneReplica, "skip", 2)
=============================================================================
