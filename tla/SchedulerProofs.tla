--------------------------- MODULE SchedulerProofs ---------------------------
(***************************************************************************)
(* The theorems about the scheduler, for every number of replicas, clients,*)
(* routes, occurrences and faults.                                         *)
(***************************************************************************)
EXTENDS Scheduler, FiniteSetTheorems, TLAPS

\* The points at which a replica holds the occurrence it fires.
Requesting == {"fire", "dispatch", "redispatch", "undo"}
Reconciling == {"load", "save", "list", "drop", "precreate"}

\* Only replicas of the deployment claim and fire, and what an actor fires or
\* creates ahead is an occurrence.
ActInv ==
  \A a \in Actors :
    /\ a \notin setup.crew => act[a].pc \in {"idle"} \cup Reconciling
    /\ act[a].pc \in Requesting \cup {"check", "compile", "precreate"} => act[a].next # NoFire

\* A requested run keeps a row that CreateRun refuses, unless the row is deleted.
RequestInv ==
  \A r \in Runs :
    /\ created[r] > 0 /\ r \notin lost => rows[r] \notin {"absent", "scheduled"}
    /\ created[r] > 1 => r \in lost

\* A scheduled run has its schedule.  The runs that DeletePipeline has deleted stay as
\* they are until it commits, and no other appears when it has the schedule too.
ReapInv ==
  /\ ScheduledHasSchedule
  /\ \A r \in tx.doomed : rows[r] = "scheduled"
  /\ tx.held /\ tx.stage = "reaped" => \A r \in Runs : rows[r] = "scheduled" => r \in tx.doomed

\* A worker executes a running row, unless the row is deleted.  The active runs of the
\* only replica are of one occurrence: it compiles a pipeline that is not deleted only
\* when there are none, and while it fires they are of the occurrence it fires.
OverlapInv ==
  /\ \A r \in executing : rows[r] = "running" \/ r \in lost
  /\ setup.policy = "skip" /\ lost = {} =>
       \A a \in Replicas : setup.crew = {a} =>
         /\ \A r, s \in Active : r[1] = s[1]
         /\ act[a].pc = "compile" => deleted \/ Active = {}
         /\ act[a].pc \in Requesting => \A r \in Active : r[1] = act[a].next

SchedulerInv == TypeOK /\ ActInv /\ RequestInv /\ ReapInv /\ OverlapInv

-----------------------------------------------------------------------------
(* Types *)

\* The values an actor may come to hold.
LEMMA ActTypes ==
    ASSUME TypeOK
    PROVE  /\ Idle \in Acts
           /\ NoSchedule \in Schedules /\ NoTx \in Txs
           /\ \A n \in 0..MaxOccurrence : NextFire(n) \in Occurrences
           /\ setup.crew \subseteq Replicas /\ setup.routes \subseteq Routes
           /\ setup.horizon \in 0..MaxOccurrence /\ setup.events \in [Events -> Nat]
<1>1. Idle \in Acts
  BY SchedulerAssumption DEF Idle, Acts, PCs
<1>2. NoSchedule \in Schedules /\ NoTx \in Txs
  BY Zenon DEF NoSchedule, Schedules, NoTx, Txs
<1>3. \A n \in 0..MaxOccurrence : NextFire(n) \in Occurrences
  BY SchedulerAssumption DEF NextFire, Occurrences
<1>4. /\ setup.crew \subseteq Replicas /\ setup.routes \subseteq Routes
      /\ setup.horizon \in 0..MaxOccurrence /\ setup.events \in [Events -> Nat]
  BY SchedulerAssumption, Zenon DEF TypeOK
<1> QED
  BY <1>1, <1>2, <1>3, <1>4, Zenon

\* Spending an event, moving an actor and deleting rows keep the types.
LEMMA PartTypes ==
    ASSUME TypeOK
    PROVE  /\ \A e \in Events : Spend(e) => budget' \in [Events -> Nat]
           /\ \A rs \in SUBSET Runs : DeleteRuns(rs) => rows' \in [Runs -> Statuses] /\ lost' \subseteq Runs
           /\ \A a \in Actors, b \in BOOLEAN, n \in {NoFire} \cup Occurrences :
                ToReconcile(a, b, n) \/ ToSave(a, b, n) => act' \in [Actors -> Acts]
           /\ \A a \in Actors : Rest(a) => act' \in [Actors -> Acts]
           /\ \A a \in Actors, p \in PCs : Goto(a, p) => act' \in [Actors -> Acts]
           /\ \A a \in Actors : act[a].next # NoFire => InHand(a) \subseteq Runs
<1>1. ASSUME NEW e \in Events, Spend(e) PROVE budget' \in [Events -> Nat]
  BY <1>1 DEF Spend, TypeOK
<1>2. ASSUME NEW rs \in SUBSET Runs, DeleteRuns(rs)
      PROVE  rows' \in [Runs -> Statuses] /\ lost' \subseteq Runs
  BY <1>2, Zenon DEF DeleteRuns, TypeOK, Statuses
<1>3. ASSUME NEW a \in Actors, NEW b \in BOOLEAN, NEW n \in {NoFire} \cup Occurrences,
             ToReconcile(a, b, n) \/ ToSave(a, b, n)
      PROVE  act' \in [Actors -> Acts]
  <2>1. \A p \in {"list", "save"} : [Idle EXCEPT !.pc = p, !.enabled = b, !.next = n] \in Acts
    BY ActTypes, Zenon DEF Acts, PCs
  <2> QED
    BY <1>3, <2>1, Zenon DEF ToReconcile, ToSave, TypeOK
<1>4. ASSUME NEW a \in Actors, Rest(a) PROVE act' \in [Actors -> Acts]
  BY <1>4, ActTypes, Zenon DEF Rest, TypeOK
<1>5. ASSUME NEW a \in Actors, NEW p \in PCs, Goto(a, p) PROVE act' \in [Actors -> Acts]
  <2>1. act[a] \in Acts
    BY Zenon DEF TypeOK
  <2> QED
    BY <1>5, <2>1, Zenon DEF Goto, TypeOK, Acts
<1>6. ASSUME NEW a \in Actors, act[a].next # NoFire PROVE InHand(a) \subseteq Runs
  BY <1>6 DEF InHand, Token, Runs, TypeOK, Acts
<1> QED
  BY <1>1, <1>2, <1>3, <1>4, <1>5, <1>6, Zenon

\* A step of the scheduler that ends a point of a tick keeps the types.
LEMMA FireType ==
    ASSUME TypeOK, ActInv, NEW a \in Actors, Fire(a)
    PROVE  TypeOK'
<1> USE DEF Quiet, storeVars, workVars, historyVars, Fault
<1>1. act[a] \in Acts /\ "fault" \in Events
  BY Zenon DEF TypeOK, Events
<1>2. {"compile", "fire", "advance", "release", "undo", "dispatch", "redispatch"} \subseteq PCs
  BY Zenon DEF PCs
<1>3. /\ act[a].enabled \in BOOLEAN /\ act[a].now \in 0..MaxOccurrence
      /\ act[a].todo \subseteq Routes /\ act[a].hand \subseteq Routes
      /\ act[a].next \in {NoFire} \cup Occurrences /\ act[a].ver \in Nat
  BY <1>1, Zenon DEF Acts
<1>4. NextFire(act[a].now) \in {NoFire} \cup Occurrences
  BY <1>3, ActTypes, Zenon
<1>5. CASE CheckOverlap(a) \/ CreateFails(a)
  BY <1>5, <1>1, <1>2, PartTypes, Zenon DEF CheckOverlap, CreateFails, TypeOK
<1>6. CASE Advance(a) \/ Save(a)
  BY <1>6, <1>1, <1>3, <1>4, PartTypes, Zenon DEF Advance, Save, TypeOK
<1>7. CASE CreateRun(a)
  <2>1. PICK r \in act[a].todo :
          /\ rows' = [rows EXCEPT ![<<Token(a), r>>] = "requested"]
          /\ pinned' = [pinned EXCEPT ![<<Token(a), r>>] = act[a].ver]
          /\ created' = [created EXCEPT ![<<Token(a), r>>] = @ + 1]
          /\ act' = [act EXCEPT ![a].pc = "dispatch", ![a].todo = @ \ {r}, ![a].hand = {r}]
    BY <1>7, Zenon DEF CreateRun
  <2>2. act' \in [Actors -> Acts]
    BY <1>2, <1>3, <2>1 DEF TypeOK, Acts
  <2>3. rows' \in [Runs -> Statuses] /\ pinned' \in [Runs -> Nat] /\ created' \in [Runs -> Nat]
    BY <1>3, <1>7, <2>1 DEF CreateRun, ActInv, Requesting, Token, Runs, TypeOK, Statuses
  <2> QED
    BY <1>7, <2>2, <2>3, Zenon DEF CreateRun, TypeOK
<1>8. CASE CreateConflict(a)
  <2>1. PICK q \in act[a].todo :
          act' = [act EXCEPT ![a].pc = IF rows[<<Token(a), q>>] = "requested" THEN "redispatch" ELSE "fire",
                             ![a].todo = @ \ {q}, ![a].hand = {x \in {q} : rows[<<Token(a), q>>] = "requested"}]
    BY <1>8, Zenon DEF CreateConflict
  <2>2. act' \in [Actors -> Acts]
    BY <1>2, <1>3, <2>1 DEF TypeOK, Acts
  <2> QED
    BY <1>8, <2>2, Zenon DEF CreateConflict, TypeOK
<1>9. CASE Dispatch(a)
  <2>1. act' \in [Actors -> Acts]
    BY <1>1, <1>2, <1>9, Zenon DEF Dispatch, TypeOK, Acts
  <2>2. InHand(a) \subseteq Runs
    BY <1>9, PartTypes, Zenon DEF Dispatch, ActInv, Requesting
  <2> QED
    BY <1>9, <2>1, <2>2, Zenon DEF Dispatch, TypeOK
<1>10. CASE DispatchFails(a)
  <2>1. InHand(a) \subseteq Runs
    BY <1>10, PartTypes, Zenon DEF DispatchFails, ActInv, Requesting
  <2> QED
    BY <1>1, <1>2, <1>10, <2>1, PartTypes, Zenon DEF DispatchFails, TypeOK
<1>11. CASE Undo(a)
  <2>1. InHand(a) \subseteq Runs
    BY <1>11, PartTypes, Zenon DEF Undo, ActInv, Requesting
  <2> QED
    BY <1>1, <1>2, <1>11, <2>1, PartTypes, Zenon DEF Undo, TypeOK
<1>12. CASE Release(a)
  <2>1. [sched EXCEPT !.lease = "none"] \in Schedules
    BY Zenon DEF TypeOK, Schedules
  <2> QED
    BY <1>1, <1>12, <2>1, PartTypes, Zenon DEF Release, TypeOK
<1>13. CASE Compile(a)
  <2>1. CASE Goto(a, "release")
    BY <1>1, <1>2, <1>13, <2>1, PartTypes, Zenon DEF Compile, TypeOK
  <2>2. CASE /\ act' = [act EXCEPT ![a].pc = "fire", ![a].ver = version, ![a].todo = setup.routes]
             /\ UNCHANGED budget
    <3>1. act' \in [Actors -> Acts]
      BY <1>1, <1>2, <2>2, ActTypes, Zenon DEF TypeOK, Acts
    <3> QED
      BY <1>13, <2>2, <3>1, Zenon DEF Compile, TypeOK
  <2> QED
    BY <1>13, <2>1, <2>2, Zenon DEF Compile
<1> QED
  BY <1>5, <1>6, <1>7, <1>8, <1>9, <1>10, <1>11, <1>12, <1>13, Zenon DEF Fire

\* So does a step of a reconciliation, and a failure.
LEMMA ReconcileType ==
    ASSUME TypeOK, ActInv, NEW a \in Actors, Reconcile(a) \/ Interrupted(a)
    PROVE  TypeOK'
<1> USE DEF Quiet, storeVars, workVars, historyVars, Fault
<1>1. act[a] \in Acts /\ "fault" \in Events
  BY Zenon DEF TypeOK, Events
<1>2. CASE ListScheduled(a)
  <2>1. act' \in [Actors -> Acts]
    BY <1>1, <1>2, Zenon DEF ListScheduled, TypeOK, Acts, PCs
  <2> QED
    BY <1>2, <2>1, Zenon DEF ListScheduled, TypeOK
<1>3. CASE DropScheduled(a)
  <2>1. PICK r \in act[a].pending : DeleteRuns({r}) /\ act' = [act EXCEPT ![a].pending = @ \ {r}]
    BY <1>3, Zenon DEF DropScheduled
  <2>2. act' \in [Actors -> Acts] /\ r \in Runs
    BY <1>1, <2>1, Zenon DEF TypeOK, Acts
  <2>3. {r} \in SUBSET Runs
    BY <2>2, Zenon
  <2> QED
    BY <1>3, <2>1, <2>2, <2>3, PartTypes, Zenon DEF DropScheduled, TypeOK
<1>4. CASE DropDone(a)
  <2>1. CASE Rest(a)
    BY <1>4, <2>1, PartTypes, Zenon DEF DropDone, TypeOK
  <2>2. CASE act' = [act EXCEPT ![a].pc = "precreate", ![a].todo = setup.routes]
    <3>1. act' \in [Actors -> Acts]
      BY <1>1, <2>2, ActTypes, Zenon DEF TypeOK, Acts, PCs
    <3> QED
      BY <1>4, <3>1, Zenon DEF DropDone, TypeOK
  <2> QED
    BY <1>4, <2>1, <2>2, Zenon DEF DropDone
<1>5. CASE Precreate(a)
  <2>1. PICK r \in act[a].todo :
          /\ rows' = [rows EXCEPT ![<<Token(a), r>>] = IF @ = "absent" THEN "scheduled" ELSE @]
          /\ act' = [act EXCEPT ![a].todo = @ \ {r}]
    BY <1>5, Zenon DEF Precreate
  <2>2. act' \in [Actors -> Acts]
    BY <1>1, <2>1, Zenon DEF TypeOK, Acts
  <2>3. rows' \in [Runs -> Statuses]
    BY <2>1, Zenon DEF TypeOK, Statuses
  <2> QED
    BY <1>5, <2>2, <2>3, Zenon DEF Precreate, TypeOK
<1>6. CASE ReconcileDone(a) \/ Interrupted(a)
  BY <1>1, <1>6, PartTypes, Zenon DEF ReconcileDone, Interrupted, TypeOK
<1>7. CASE SaveSchedule(a)
  <2>1. act[a].enabled \in BOOLEAN /\ act[a].next \in {NoFire} \cup Occurrences
    BY <1>1, Zenon DEF Acts
  <2>2. sched' \in Schedules /\ wanted' \in BOOLEAN
    BY <1>7, <2>1, Zenon DEF SaveSchedule, Schedules, TypeOK
  <2> QED
    BY <1>7, <2>1, <2>2, PartTypes, Zenon DEF SaveSchedule, TypeOK
<1>8. CASE LoadSchedule(a)
  <2>1. sched.enabled \in BOOLEAN /\ sched.next \in {NoFire} \cup Occurrences
    BY Zenon DEF TypeOK, Schedules
  <2> QED
    BY <1>8, <2>1, PartTypes, Zenon DEF LoadSchedule, TypeOK
<1> QED
  BY <1>2, <1>3, <1>4, <1>5, <1>6, <1>7, <1>8, Zenon DEF Reconcile

\* Every step keeps the types.
LEMMA TypeStep ==
    ASSUME TypeOK, ActInv, Next
    PROVE  TypeOK'
<1> USE DEF Quiet, storeVars, workVars, historyVars
<1>1. ASSUME NEW a \in Replicas, ClaimDue(a) PROVE TypeOK'
  <2>1. PICK p \in {"check", "compile"} :
          act' = [act EXCEPT ![a] = [Idle EXCEPT !.pc = p, !.enabled = sched.enabled, !.next = sched.next,
                                                 !.now = clock]]
    BY <1>1, Zenon DEF ClaimDue
  <2>2. [Idle EXCEPT !.pc = p, !.enabled = sched.enabled, !.next = sched.next, !.now = clock] \in Acts
    BY ActTypes, Zenon DEF TypeOK, Schedules, Acts, PCs
  <2>3. act' \in [Actors -> Acts]
    BY <2>1, <2>2, Zenon DEF TypeOK
  <2>4. [sched EXCEPT !.lease = "held"] \in Schedules
    BY Zenon DEF TypeOK, Schedules
  <2> QED
    BY <1>1, <2>3, <2>4, Zenon DEF ClaimDue, TypeOK
<1>2. ASSUME NEW c \in Clients, Edit(c) PROVE TypeOK'
  <2>1. c \in Actors /\ {"update", "version", "delete"} \subseteq Events /\ "load" \in PCs
    BY Zenon DEF Actors, Events, PCs
  <2>2. CASE UpdateSchedule(c)
    <3>1. PICK on \in BOOLEAN, next \in {NoFire, NextFire(clock)} : ToSave(c, on, next)
      BY <2>2, Zenon DEF UpdateSchedule
    <3>2. next \in {NoFire} \cup Occurrences
      BY <3>1, ActTypes, Zenon DEF TypeOK
    <3> QED
      BY <2>1, <2>2, <3>1, <3>2, PartTypes, Zenon DEF UpdateSchedule, TypeOK
  <2>3. CASE NewVersion(c)
    <3>1. version' \in Nat
      BY <2>3 DEF NewVersion, TypeOK
    <3> QED
      BY <2>1, <2>3, <3>1, PartTypes, Zenon DEF NewVersion, TypeOK
  <2>4. CASE DeletePipeline(c)
    <3>1. tx' \in Txs
      BY <2>4, Zenon DEF DeletePipeline, TypeOK, Txs
    <3> QED
      BY <2>1, <2>4, <3>1, PartTypes, Zenon DEF DeletePipeline, TypeOK
  <2> QED
    BY <1>2, <2>2, <2>3, <2>4, Zenon DEF Edit
<1>3. ASSUME NEW r \in Runs, Start(r) \/ Finish(r) PROVE TypeOK'
  <2>1. rows' \in [Runs -> Statuses] /\ triggers' \subseteq Runs /\ executing' \subseteq Runs
    BY <1>3, Zenon DEF Start, Finish, TypeOK, Statuses
  <2> QED
    BY <1>3, <2>1, Zenon DEF Start, Finish, TypeOK
<1>4. CASE ComeDue
  <2>1. clock' \in 0..MaxOccurrence
    BY <1>4, ActTypes, SchedulerAssumption DEF ComeDue, TypeOK
  <2> QED
    BY <1>4, <2>1, Zenon DEF ComeDue, TypeOK
<1>5. CASE Expire
  <2>1. [sched EXCEPT !.lease = "expired"] \in Schedules
    BY Zenon DEF TypeOK, Schedules
  <2> QED
    BY <1>5, <2>1, Zenon DEF Expire, TypeOK
<1>6. CASE DeleteSchedules \/ DeleteScheduledRuns
  <2>1. sched.exists \in BOOLEAN /\ tx \in Txs
    BY Zenon DEF TypeOK, Schedules
  <2>2. tx' \in Txs
    BY <1>6, <2>1, Zenon DEF DeleteSchedules, DeleteScheduledRuns, Txs
  <2> QED
    BY <1>6, <2>2, Zenon DEF DeleteSchedules, DeleteScheduledRuns, TypeOK
<1>7. CASE Commit
  <2>1. rows' \in [Runs -> Statuses]
    BY <1>7, Zenon DEF Commit, TypeOK, Statuses
  <2> QED
    BY <1>7, <2>1, ActTypes, Zenon DEF Commit, TypeOK
<1>8. CASE Rollback
  <2>1. "fault" \in Events
    BY Zenon DEF Events
  <2> QED
    BY <1>8, <2>1, ActTypes, PartTypes, Zenon DEF Rollback, Fault, TypeOK
<1> QED
  BY <1>1, <1>2, <1>3, <1>4, <1>5, <1>6, <1>7, <1>8, FireType, ReconcileType, Zenon DEF Next, Delete, Actors

-----------------------------------------------------------------------------
(* Who acts, and on which occurrence *)

\* Only a moves.
Turn(a) == \A b \in Actors \ {a} : act'[b] = act[b]

\* What the common moves of an actor leave behind.
LEMMA MoveValues ==
    ASSUME TypeOK, NEW a \in Actors
    PROVE  /\ \A p \in PCs : Goto(a, p) => Turn(a) /\ act'[a].pc = p /\ act'[a].next = act[a].next
           /\ Rest(a) => Turn(a) /\ act'[a].pc = "idle"
           /\ \A b, n : ToReconcile(a, b, n) => Turn(a) /\ act'[a].pc = "list"
           /\ \A b, n : ToSave(a, b, n) => Turn(a) /\ act'[a].pc = "save"
<1>1. act[a] \in Acts
  BY Zenon DEF TypeOK
<1>2. ASSUME NEW p \in PCs, Goto(a, p)
      PROVE  Turn(a) /\ act'[a].pc = p /\ act'[a].next = act[a].next
  BY <1>1, <1>2, Zenon DEF Goto, Turn, TypeOK, Acts
<1>3. ASSUME Rest(a) PROVE Turn(a) /\ act'[a].pc = "idle"
  BY <1>3, Zenon DEF Rest, Turn, TypeOK, Idle
<1>4. ASSUME NEW b, NEW n, ToReconcile(a, b, n) PROVE Turn(a) /\ act'[a].pc = "list"
  BY <1>4, Zenon DEF ToReconcile, Turn, TypeOK, Idle
<1>5. ASSUME NEW b, NEW n, ToSave(a, b, n) PROVE Turn(a) /\ act'[a].pc = "save"
  BY <1>5, Zenon DEF ToSave, Turn, TypeOK, Idle
<1> QED
  BY <1>2, <1>3, <1>4, <1>5, Zenon

\* A tick goes on with the occurrence it claimed: it compiles when no run is active or
\* the pipeline is deleted, and fires what it has compiled.
LEMMA FireMoves ==
    ASSUME TypeOK, NEW a \in Actors, Fire(a)
    PROVE  /\ Turn(a) /\ act[a].pc \notin {"idle"} \cup Reconciling
           /\ act'[a].pc \in Requesting \cup {"compile", "advance", "release", "save", "list", "idle"}
           /\ act'[a].pc \in Requesting \cup {"compile"} => act'[a].next = act[a].next
           /\ act'[a].pc = "compile" => act[a].pc = "check" /\ (deleted \/ Active = {})
           /\ act'[a].pc \in Requesting =>
                act[a].pc \in Requesting \/ (act[a].pc = "compile" /\ ~deleted /\ UNCHANGED rows)
<1>1. act[a] \in Acts
  BY Zenon DEF TypeOK
<1>2. {"compile", "fire", "advance", "release", "undo", "dispatch", "redispatch"} \subseteq PCs
  BY Zenon DEF PCs
<1> USE DEF Requesting, Reconciling
<1>3. CASE CheckOverlap(a)
  BY <1>2, <1>3, MoveValues, Zenon DEF CheckOverlap
<1>4. CASE Advance(a) \/ Save(a) \/ Release(a)
  BY <1>4, MoveValues, Zenon DEF Advance, Save, Release
<1>5. CASE CreateFails(a) \/ DispatchFails(a) \/ Undo(a)
  BY <1>2, <1>5, MoveValues, Zenon DEF CreateFails, DispatchFails, Undo
<1>6. CASE CreateRun(a)
  BY <1>1, <1>6 DEF CreateRun, Turn, TypeOK, Acts
<1>7. CASE CreateConflict(a)
  BY <1>1, <1>7 DEF CreateConflict, Turn, TypeOK, Acts
<1>8. CASE Dispatch(a)
  BY <1>1, <1>8, Zenon DEF Dispatch, Turn, TypeOK, Acts
<1>9. CASE Compile(a)
  <2>1. CASE Goto(a, "release")
    BY <1>2, <1>9, <2>1, MoveValues, Zenon DEF Compile
  <2>2. CASE ~Goto(a, "release")
    <3>1. /\ act[a].pc = "compile" /\ ~deleted /\ UNCHANGED rows
          /\ act' = [act EXCEPT ![a].pc = "fire", ![a].ver = version, ![a].todo = setup.routes]
      BY <1>9, <2>2, Zenon DEF Compile
    <3>2. Turn(a) /\ act'[a].pc = "fire" /\ act'[a].next = act[a].next
      BY <1>1, <3>1, Zenon DEF Turn, TypeOK, Acts
    <3> QED
      BY <3>1, <3>2, Zenon
  <2> QED
    BY <2>1, <2>2, Zenon
<1> QED
  BY <1>3, <1>4, <1>5, <1>6, <1>7, <1>8, <1>9, Zenon DEF Fire

\* A reconciliation ends in rest, and creates only occurrences ahead.
LEMMA ReconcileMoves ==
    ASSUME TypeOK, NEW a \in Actors, Reconcile(a) \/ Interrupted(a)
    PROVE  /\ Turn(a)
           /\ act'[a].pc \in {"idle", "list", "drop", "precreate"}
           /\ act'[a].pc = "precreate" =>
                act'[a].next = act[a].next /\ (act[a].next # NoFire \/ act[a].pc = "precreate")
<1>1. act[a] \in Acts
  BY Zenon DEF TypeOK
<1>2. CASE ListScheduled(a)
  BY <1>1, <1>2, Zenon DEF ListScheduled, Turn, TypeOK, Acts
<1>3. CASE DropScheduled(a)
  BY <1>1, <1>3 DEF DropScheduled, Turn, TypeOK, Acts
<1>4. CASE DropDone(a)
  <2>1. CASE Rest(a)
    BY <2>1, MoveValues, Zenon
  <2>2. CASE ~Rest(a)
    BY <1>1, <1>4, <2>2 DEF DropDone, Turn, TypeOK, Acts
  <2> QED
    BY <2>1, <2>2, Zenon
<1>5. CASE Precreate(a)
  BY <1>1, <1>5 DEF Precreate, Turn, TypeOK, Acts
<1>6. CASE ReconcileDone(a) \/ Interrupted(a)
  BY <1>6, MoveValues, Zenon DEF ReconcileDone, Interrupted
<1>7. CASE SaveSchedule(a) \/ LoadSchedule(a)
  BY <1>7, MoveValues, Zenon DEF SaveSchedule, LoadSchedule
<1> QED
  BY <1>2, <1>3, <1>4, <1>5, <1>6, <1>7, Zenon DEF Reconcile

\* A claim takes the due occurrence, and goes to the check when the policy skips.
LEMMA ClaimMoves ==
    ASSUME TypeOK, NEW a \in Actors, ClaimDue(a)
    PROVE  /\ Turn(a) /\ a \in setup.crew
           /\ act'[a].next # NoFire
           /\ act'[a].pc = IF setup.policy = "skip" THEN "check" ELSE "compile"
<1>1. Turn(a)
  BY Zenon DEF ClaimDue, Turn, TypeOK
<1>2. /\ act'[a].pc = IF setup.policy = "skip" THEN "check" ELSE "compile"
      /\ act'[a].next = sched.next
  BY Zenon DEF ClaimDue, TypeOK, Idle
<1> QED
  BY <1>1, <1>2, Zenon DEF ClaimDue, Claimable, Due

\* A call of the API comes from a client at rest, which is no replica.
LEMMA EditMoves ==
    ASSUME TypeOK, NEW c \in Clients, Edit(c)
    PROVE  c \in Actors /\ c \notin Replicas /\ Turn(c) /\ act'[c].pc \in {"idle", "load", "save"}
<1>1. c \in Actors /\ c \notin Replicas /\ "load" \in PCs
  BY SchedulerAssumption, Zenon DEF Actors, PCs
<1>2. CASE UpdateSchedule(c) \/ NewVersion(c)
  BY <1>1, <1>2, MoveValues, Zenon DEF UpdateSchedule, NewVersion
<1>3. CASE DeletePipeline(c)
  <2>1. Idle.pc = "idle"
    BY Zenon DEF Idle
  <2> QED
    BY <1>1, <1>3, <2>1, Zenon DEF DeletePipeline, Turn
<1> QED
  BY <1>2, <1>3, <1>1, Zenon DEF Edit

\* Steps that are nobody's.
LEMMA WorldMoves ==
    ASSUME ComeDue \/ Expire \/ Delete \/ Rollback \/ \E r \in Runs : Start(r) \/ Finish(r)
    PROVE  UNCHANGED <<setup, act, created, lost>>
  BY Zenon DEF ComeDue, Expire, Delete, DeleteSchedules, DeleteScheduledRuns, Commit, Rollback, Start, Finish,
     historyVars

\* Every step leaves the deployment as it is.
LEMMA SetupStays == ASSUME Next PROVE setup' = setup
<1> USE DEF Quiet
<1>1. ASSUME NEW a \in Replicas, ClaimDue(a) \/ Fire(a) PROVE setup' = setup
  BY <1>1, Zenon DEF ClaimDue, Fire, CheckOverlap, Advance, Compile, CreateRun, CreateConflict, CreateFails,
     Dispatch, DispatchFails, Undo, Release, Save
<1>2. ASSUME NEW a \in Actors, Reconcile(a) \/ Interrupted(a) PROVE setup' = setup
  BY <1>2, Zenon DEF Reconcile, SaveSchedule, LoadSchedule, ListScheduled, DropScheduled, DropDone, Precreate,
     ReconcileDone, Interrupted
<1>3. ASSUME NEW c \in Clients, Edit(c) PROVE setup' = setup
  BY <1>3, Zenon DEF Edit, UpdateSchedule, NewVersion, DeletePipeline
<1> QED
  BY <1>1, <1>2, <1>3, WorldMoves, Zenon DEF Next

\* Every step keeps the replicas to their ticks.
LEMMA ActStep ==
    ASSUME TypeOK, ActInv, Next
    PROVE  ActInv'
<1>1. setup' = setup /\ setup.crew \subseteq Replicas
  BY SetupStays, ActTypes, Zenon
<1> USE DEF Requesting, Reconciling
<1>2. ASSUME NEW a \in Actors, Turn(a),
             a \notin setup.crew => act'[a].pc \in {"idle"} \cup Reconciling,
             act'[a].pc \in Requesting \cup {"check", "compile", "precreate"} => act'[a].next # NoFire
      PROVE  ActInv'
  BY <1>1, <1>2, Zenon DEF ActInv, Turn
<1>3. ASSUME NEW a \in Replicas, ClaimDue(a) \/ Fire(a) PROVE ActInv'
  <2>1. a \in Actors
    BY Zenon DEF Actors
  <2>2. CASE ClaimDue(a)
    BY <1>2, <2>1, <2>2, ClaimMoves, Zenon
  <2>3. CASE Fire(a)
    BY <1>2, <2>1, <2>3, FireMoves, Zenon DEF ActInv
  <2> QED
    BY <1>3, <2>2, <2>3, Zenon
<1>4. ASSUME NEW a \in Actors, Reconcile(a) \/ Interrupted(a) PROVE ActInv'
  BY <1>2, <1>4, ReconcileMoves, Zenon DEF ActInv
<1>5. ASSUME NEW c \in Clients, Edit(c) PROVE ActInv'
  BY <1>2, <1>5, EditMoves, Zenon
<1>6. CASE UNCHANGED <<setup, act>>
  BY <1>6, Zenon DEF ActInv
<1> QED
  BY <1>3, <1>4, <1>5, <1>6, WorldMoves, Zenon DEF Next

-----------------------------------------------------------------------------
(* The rows of the runs *)

\* What a step may do to the rows: nothing, a request, a deletion, a creation
\* ahead, the start or end of a run, or the deletion of the pipeline.
Requests(a) ==
  \E r \in Routes :
    LET run == <<Token(a), r>> IN
    /\ run \in Runs /\ act[a].pc = "fire" /\ run \notin tx.doomed
    /\ rows[run] \in {"absent", "scheduled"} /\ rows' = [rows EXCEPT ![run] = "requested"]
    /\ created' = [created EXCEPT ![run] = @ + 1]
    /\ UNCHANGED <<executing, lost, deleted, sched, tx>>
Removes == \E rs \in SUBSET Runs : DeleteRuns(rs) /\ UNCHANGED <<executing, created, deleted, sched, tx>>
Announces ==
  \E r \in Runs :
    /\ sched.exists /\ ~tx.held
    /\ rows' = [rows EXCEPT ![r] = IF @ = "absent" THEN "scheduled" ELSE @]
    /\ UNCHANGED <<executing, created, lost, deleted, sched, tx>>
Leaves ==
  /\ UNCHANGED <<rows, executing, created, lost, deleted, tx>>
  /\ sched.exists => sched'.exists
Locks == (\E c \in Clients : DeletePipeline(c)) \/ DeleteSchedules \/ DeleteScheduledRuns \/ Rollback

\* The steps of the actors, by what they do to the rows.
LEMMA FireRows ==
    ASSUME TypeOK, ActInv, NEW a \in Actors, Fire(a)
    PROVE  Requests(a) \/ Removes \/ Leaves
<1> USE DEF Quiet, storeVars, workVars, historyVars
<1>1. act[a] \in Acts /\ act[a].todo \subseteq Routes
  BY Zenon DEF TypeOK, Acts
<1>2. CASE CheckOverlap(a) \/ CreateConflict(a) \/ CreateFails(a) \/ Dispatch(a) \/ DispatchFails(a)
  BY <1>2, Zenon DEF CheckOverlap, CreateConflict, CreateFails, Dispatch, DispatchFails, Leaves
<1>3. CASE Advance(a) \/ Compile(a) \/ Save(a)
  BY <1>3, Zenon DEF Advance, Compile, Save, Leaves
<1>4. CASE CreateRun(a)
  <2>1. act[a].pc = "fire" /\ Token(a) \in Occurrences
    BY <1>1, <1>4, Zenon DEF CreateRun, ActInv, Requesting, Token, Acts
  <2>2. \A r \in Routes : <<Token(a), r>> \in Runs
    BY <2>1, Zenon DEF Runs
  <2> QED
    BY <1>1, <1>4, <2>1, <2>2, Zenon DEF CreateRun, Free, Requests
<1>5. CASE Undo(a)
  <2>1. InHand(a) \in SUBSET Runs
    BY <1>5, PartTypes, Zenon DEF Undo, ActInv, Requesting
  <2> QED
    BY <1>5, <2>1, Zenon DEF Undo, Removes, Leaves
<1>6. CASE Release(a)
  <2>1. [sched EXCEPT !.lease = "none"].exists = sched.exists
    BY Zenon DEF TypeOK, Schedules
  <2> QED
    BY <1>6, <2>1, Zenon DEF Release, Leaves
<1> QED
  BY <1>2, <1>3, <1>4, <1>5, <1>6, Zenon DEF Fire

\* So with the steps of a reconciliation.
LEMMA ReconcileRows ==
    ASSUME TypeOK, ActInv, NEW a \in Actors, Reconcile(a) \/ Interrupted(a)
    PROVE  Removes \/ Announces \/ Leaves
<1> USE DEF Quiet, storeVars, workVars, historyVars
<1>1. act[a] \in Acts /\ act[a].todo \subseteq Routes /\ act[a].pending \subseteq Runs
  BY Zenon DEF TypeOK, Acts
<1>2. CASE LoadSchedule(a) \/ ListScheduled(a) \/ DropDone(a) \/ ReconcileDone(a) \/ Interrupted(a)
  BY <1>2, Zenon DEF LoadSchedule, ListScheduled, DropDone, ReconcileDone, Interrupted, Leaves
<1>3. CASE SaveSchedule(a)
  <2>1. sched'.exists
    BY <1>3, Zenon DEF SaveSchedule
  <2> QED
    BY <1>3, <2>1, Zenon DEF SaveSchedule, Leaves
<1>4. CASE DropScheduled(a)
  BY <1>1, <1>4, Zenon DEF DropScheduled, Removes
<1>5. CASE Precreate(a)
  <2>1. act[a].pc = "precreate" /\ Token(a) \in Occurrences
    BY <1>1, <1>5, Zenon DEF Precreate, ActInv, Token, Acts
  <2>2. \A r \in Routes : <<Token(a), r>> \in Runs
    BY <2>1, Zenon DEF Runs
  <2> QED
    BY <1>1, <1>5, <2>2, Zenon DEF Precreate, Free, Announces
<1> QED
  BY <1>2, <1>3, <1>4, <1>5, Zenon DEF Reconcile

\* And with a claim, an update, a version, time and leases.
LEMMA OtherRows ==
    ASSUME TypeOK,
           \/ \E a \in Replicas : ClaimDue(a)
           \/ \E c \in Clients : UpdateSchedule(c) \/ NewVersion(c)
           \/ ComeDue \/ Expire
    PROVE  Leaves
<1> USE DEF Quiet, storeVars, workVars, historyVars
<1>1. [sched EXCEPT !.lease = "held"].exists = sched.exists
  BY Zenon DEF TypeOK, Schedules
<1>2. [sched EXCEPT !.lease = "expired"].exists = sched.exists
  BY Zenon DEF TypeOK, Schedules
<1>3. CASE \E a \in Replicas : ClaimDue(a)
  BY <1>1, <1>3, Zenon DEF ClaimDue, Leaves
<1>4. CASE \E c \in Clients : UpdateSchedule(c) \/ NewVersion(c)
  BY <1>4, Zenon DEF UpdateSchedule, NewVersion, Leaves
<1>5. CASE ComeDue \/ Expire
  BY <1>2, <1>5, Zenon DEF ComeDue, Expire, Leaves
<1> QED
  BY <1>3, <1>4, <1>5, Zenon

\* A step of any of these kinds, or one of the four that are left.
LEMMA RowSteps ==
    ASSUME TypeOK, ActInv, Next
    PROVE  \/ Leaves \/ Removes \/ Announces
           \/ \E a \in Replicas : Requests(a) /\ Fire(a)
           \/ Locks \/ Commit
           \/ \E r \in Runs : Start(r) \/ Finish(r)
<1>1. Replicas \subseteq Actors
  BY Zenon DEF Actors
<1> QED
  BY <1>1, FireRows, ReconcileRows, OtherRows, Zenon DEF Next, Edit, Delete, Locks

\* The transaction of a deletion changes nothing for others before it commits.
LEMMA LocksAlone ==
    ASSUME Locks
    PROVE  UNCHANGED <<sched, rows, executing, created, lost, deleted>>
  BY Zenon DEF Locks, DeletePipeline, DeleteSchedules, DeleteScheduledRuns, Rollback, workVars, historyVars

\* A run is requested again only after its row was deleted.
LEMMA RequestStep ==
    ASSUME TypeOK, ActInv, RequestInv, ReapInv, Next
    PROVE  RequestInv'
<1>1. CASE Leaves
  BY <1>1, Zenon DEF Leaves, RequestInv
<1>2. CASE Removes
  <2>1. PICK rs \in SUBSET Runs : DeleteRuns(rs) /\ UNCHANGED created
    BY <1>2, Zenon DEF Removes
  <2> QED
    BY <2>1, Zenon DEF DeleteRuns, RequestInv, TypeOK
<1>3. CASE Announces
  <2>1. PICK r \in Runs : rows' = [rows EXCEPT ![r] = IF @ = "absent" THEN "scheduled" ELSE @]
    BY <1>3, Zenon DEF Announces
  <2>2. \A q \in Runs : rows'[q] # rows[q] => rows[q] = "absent"
    BY <2>1, Zenon DEF TypeOK
  <2>3. UNCHANGED <<created, lost>>
    BY <1>3, Zenon DEF Announces
  <2> QED
    BY <2>2, <2>3, Zenon DEF RequestInv
<1>4. ASSUME NEW a \in Replicas, Requests(a) PROVE RequestInv'
  <2>1. PICK r \in Routes :
          LET run == <<Token(a), r>> IN
          /\ run \in Runs /\ rows[run] \in {"absent", "scheduled"}
          /\ rows' = [rows EXCEPT ![run] = "requested"]
          /\ created' = [created EXCEPT ![run] = @ + 1] /\ UNCHANGED lost
    BY <1>4, Zenon DEF Requests
  <2> DEFINE run == <<Token(a), r>>
  <2>2. created[run] = 0 \/ run \in lost
    BY <2>1 DEF RequestInv, TypeOK
  <2>3. created'[run] = created[run] + 1 /\ rows'[run] = "requested"
    BY <2>1, Zenon DEF TypeOK
  <2>4. \A q \in Runs \ {run} : created'[q] = created[q] /\ rows'[q] = rows[q]
    BY <2>1, Zenon DEF TypeOK
  <2>5. lost' = lost
    BY <2>1, Zenon
  <2> HIDE DEF run
  <2> QED
    BY <2>2, <2>3, <2>4, <2>5 DEF RequestInv
<1>5. CASE Commit
  <2>1. \A q \in Runs : rows'[q] = rows[q] \/ (rows[q] = "scheduled" /\ rows'[q] = "absent")
    BY <1>5, Zenon DEF Commit, ReapInv
  <2> QED
    BY <1>5, <2>1, Zenon DEF Commit, RequestInv, historyVars
<1>6. ASSUME NEW r \in Runs, Start(r) \/ Finish(r) PROVE RequestInv'
  <2>1. UNCHANGED <<created, lost>>
    BY <1>6, Zenon DEF Start, Finish, historyVars
  <2>2. \A q \in Runs : rows'[q] \in {"absent", "scheduled"} => rows[q] \in {"absent", "scheduled"}
    BY <1>6, Zenon DEF Start, Finish, TypeOK
  <2> QED
    BY <2>1, <2>2, Zenon DEF RequestInv
<1>7. CASE Locks
  BY <1>7, LocksAlone, Zenon DEF RequestInv
<1> QED
  BY <1>1, <1>2, <1>3, <1>4, <1>5, <1>6, <1>7, RowSteps, Zenon

\* No step leaves a scheduled run without its schedule.
LEMMA ReapStep ==
    ASSUME TypeOK, ActInv, ReapInv, Next
    PROVE  ReapInv'
<1>1. ASSUME \A q \in Runs : rows'[q] = "scheduled" => rows[q] = "scheduled",
             \A q \in tx.doomed : rows[q] = "scheduled" => rows'[q] = "scheduled",
             sched.exists => sched'.exists, tx' = tx
      PROVE  ReapInv'
  BY <1>1, Zenon DEF ReapInv, ScheduledHasSchedule
<1>2. CASE Leaves
  BY <1>1, <1>2, Zenon DEF Leaves
<1>3. CASE Removes
  <2>1. PICK rs \in SUBSET Runs :
          /\ \A r \in rs : r \notin tx.doomed
          /\ rows' = [r \in Runs |-> IF r \in rs THEN "absent" ELSE rows[r]]
    BY <1>3, Zenon DEF Removes, DeleteRuns, Free
  <2>2. tx.doomed \subseteq Runs
    BY Zenon DEF TypeOK, Txs
  <2>3. /\ \A q \in Runs : rows'[q] = "scheduled" => rows[q] = "scheduled"
        /\ \A q \in tx.doomed : rows'[q] = rows[q]
    BY <2>1, <2>2, Zenon
  <2> QED
    BY <1>1, <1>3, <2>3, Zenon DEF Removes
<1>4. CASE Announces
  <2>1. \A q \in Runs : rows[q] = "scheduled" => rows'[q] = "scheduled"
    BY <1>4, Zenon DEF Announces, TypeOK
  <2>2. tx.doomed \subseteq Runs
    BY Zenon DEF TypeOK, Txs
  <2> QED
    BY <1>4, <2>1, <2>2, Zenon DEF Announces, ReapInv, ScheduledHasSchedule
<1>5. ASSUME NEW a \in Replicas, Requests(a) PROVE ReapInv'
  <2>1. tx.doomed \subseteq Runs
    BY Zenon DEF TypeOK, Txs
  <2>2. /\ \A q \in Runs : rows'[q] = "scheduled" => rows[q] = "scheduled"
        /\ \A q \in tx.doomed : rows'[q] = rows[q]
    BY <1>5, <2>1, Zenon DEF Requests, TypeOK
  <2> QED
    BY <1>1, <1>5, <2>2, Zenon DEF Requests
<1>6. ASSUME NEW r \in Runs, Start(r) \/ Finish(r) PROVE ReapInv'
  <2>1. UNCHANGED <<sched, tx>>
    BY <1>6, Zenon DEF Start, Finish, storeVars
  <2>2. \A q \in Runs : rows'[q] = "scheduled" <=> rows[q] = "scheduled"
    BY <1>6, Zenon DEF Start, Finish, TypeOK
  <2>3. tx.doomed \subseteq Runs
    BY Zenon DEF TypeOK, Txs
  <2> QED
    BY <1>1, <2>1, <2>2, <2>3, Zenon
<1>7. CASE Locks
  <2>1. UNCHANGED <<sched, rows>>
    BY <1>7, LocksAlone, Zenon
  <2>2. CASE DeleteScheduledRuns
    <3>1. tx'.doomed = {r \in Runs : rows[r] = "scheduled"}
      BY <2>2, Zenon DEF DeleteScheduledRuns, TypeOK, Txs
    <3> QED
      BY <2>1, <3>1, Zenon DEF ReapInv, ScheduledHasSchedule
  <2>3. CASE (\E c \in Clients : DeletePipeline(c)) \/ DeleteSchedules \/ Rollback
    <3>1. tx \in Txs /\ NoTx.stage = "none" /\ NoTx.doomed = {}
      BY Zenon DEF NoTx, TypeOK
    <3>2. tx'.stage # "reaped" /\ (tx'.doomed = {} \/ tx'.doomed = tx.doomed)
      BY <2>3, <3>1, Zenon DEF DeletePipeline, DeleteSchedules, Rollback, Txs
    <3> QED
      BY <2>1, <3>2, Zenon DEF ReapInv, ScheduledHasSchedule
  <2> QED
    BY <1>7, <2>2, <2>3, Zenon DEF Locks
<1>8. CASE Commit
  <2>1. ~tx'.held /\ tx'.doomed = {}
    BY <1>8, Zenon DEF Commit, NoTx
  <2>2. \A q \in Runs : rows'[q] = "scheduled" => rows[q] = "scheduled" /\ q \notin tx.doomed
    BY <1>8, Zenon DEF Commit
  <2>3. CASE tx.held
    BY <1>8, <2>1, <2>2, <2>3, Zenon DEF Commit, ReapInv, ScheduledHasSchedule
  <2>4. CASE ~tx.held
    BY <1>8, <2>1, <2>2, <2>4, Zenon DEF Commit, ReapInv, ScheduledHasSchedule
  <2> QED
    BY <2>3, <2>4, Zenon
<1> QED
  BY <1>2, <1>3, <1>4, <1>5, <1>6, <1>7, <1>8, RowSteps, Zenon

-----------------------------------------------------------------------------
(* Overlap *)

\* Under the skip policy the only replica compiles when nothing is active, or for a
\* deleted pipeline, and starts to fire what is not deleted.
LEMMA OnlyReplica ==
    ASSUME TypeOK, ActInv, Next, NEW a \in Replicas, setup.crew = {a}, setup.policy = "skip"
    PROVE  /\ act'[a].pc = "compile" => act[a].pc # "fire" /\ (act[a].pc = "compile" \/ deleted \/ Active = {})
           /\ act'[a].pc \in Requesting =>
                /\ act'[a].next = act[a].next
                /\ act[a].pc \in Requesting \/ (act[a].pc = "compile" /\ ~deleted /\ UNCHANGED rows)
<1>1. a \in Actors
  BY Zenon DEF Actors
<1> USE DEF Requesting, Reconciling
<1>2. ASSUME NEW b \in Replicas, ClaimDue(b) PROVE act'[a].pc = "check"
  <2>1. b \in Actors
    BY Zenon DEF Actors
  <2>2. a = b
    BY <1>2, <2>1, ClaimMoves, Zenon
  <2> QED
    BY <1>2, <2>1, <2>2, ClaimMoves, Zenon
<1>3. ASSUME NEW b \in Replicas, Fire(b) PROVE a = b
  <2>1. b \in Actors
    BY Zenon DEF Actors
  <2> QED
    BY <1>3, <2>1, FireMoves, Zenon DEF ActInv
<1>4. CASE Fire(a)
  BY <1>1, <1>4, FireMoves, Zenon
<1>5. ASSUME NEW b \in Actors, Reconcile(b) \/ Interrupted(b)
      PROVE  act'[a] = act[a] \/ act'[a].pc \in {"idle", "list", "drop", "precreate"}
  BY <1>1, <1>5, ReconcileMoves, Zenon DEF Turn
<1>6. ASSUME NEW c \in Clients, Edit(c) PROVE act'[a] = act[a]
  BY <1>1, <1>6, EditMoves, Zenon DEF Turn
<1> QED
  BY <1>2, <1>3, <1>4, <1>5, <1>6, WorldMoves, Zenon DEF Next

\* A step that requests nothing adds no active run, and executions stay with
\* running rows.
LEMMA RowsRest ==
    ASSUME TypeOK, ReapInv, OverlapInv,
           \/ Leaves \/ Removes \/ Announces \/ Locks \/ Commit
           \/ \E r \in Runs : Start(r) \/ Finish(r)
    PROVE  /\ Active' \subseteq Active /\ lost \subseteq lost' /\ (deleted => deleted')
           /\ \A r \in executing' : rows'[r] = "running" \/ r \in lost'
<1> USE DEF OverlapInv, Active
<1>1. executing \subseteq Runs /\ DOMAIN rows = Runs
  BY Zenon DEF TypeOK
<1>2. CASE Leaves \/ Locks
  <2>1. UNCHANGED <<rows, executing, lost, deleted>>
    BY <1>2, LocksAlone, Zenon DEF Leaves
  <2> QED
    BY <2>1, Zenon
<1>3. CASE Removes
  <2>1. PICK rs \in SUBSET Runs :
          /\ rows' = [r \in Runs |-> IF r \in rs THEN "absent" ELSE rows[r]]
          /\ lost' = lost \cup {r \in rs : rows[r] \notin {"absent", "scheduled"}}
    BY <1>3, Zenon DEF Removes, DeleteRuns
  <2>2. UNCHANGED <<executing, deleted>>
    BY <1>3, Zenon DEF Removes
  <2> QED
    BY <1>1, <2>1, <2>2, Zenon
<1>4. CASE Announces
  <2>1. UNCHANGED <<executing, lost, deleted>>
    BY <1>4, Zenon DEF Announces
  <2>2. PICK r \in Runs : rows' = [rows EXCEPT ![r] = IF @ = "absent" THEN "scheduled" ELSE @]
    BY <1>4, Zenon DEF Announces
  <2>3. \A q \in Runs : rows'[q] # rows[q] => rows[q] = "absent" /\ rows'[q] = "scheduled"
    BY <2>2, Zenon DEF TypeOK
  <2> QED
    BY <1>1, <2>1, <2>3, Zenon
<1>5. CASE Commit
  <2>1. UNCHANGED <<executing, lost>> /\ deleted'
    BY <1>5, Zenon DEF Commit, workVars, historyVars
  <2>2. \A q \in Runs : rows'[q] = rows[q] \/ (rows[q] = "scheduled" /\ rows'[q] = "absent")
    BY <1>5, Zenon DEF Commit, ReapInv
  <2> QED
    BY <1>1, <2>1, <2>2, Zenon
<1>6. ASSUME NEW r \in Runs, Start(r)
      PROVE  /\ Active' \subseteq Active /\ lost \subseteq lost' /\ (deleted => deleted')
             /\ \A q \in executing' : rows'[q] = "running" \/ q \in lost'
  BY <1>6 DEF Start, storeVars, historyVars, TypeOK
<1>7. ASSUME NEW r \in Runs, Finish(r)
      PROVE  /\ Active' \subseteq Active /\ lost \subseteq lost' /\ (deleted => deleted')
             /\ \A q \in executing' : rows'[q] = "running" \/ q \in lost'
  BY <1>7, Zenon DEF Finish, storeVars, historyVars, TypeOK
<1> QED
  BY <1>2, <1>3, <1>4, <1>5, <1>6, <1>7, Zenon

\* Every step keeps the active runs of the only replica in one occurrence.
LEMMA OverlapStep ==
    ASSUME TypeOK, ActInv, ReapInv, OverlapInv, Next
    PROVE  OverlapInv'
<1>1. setup' = setup
  BY SetupStays, Zenon
<1>2. CASE \/ Leaves \/ Removes \/ Announces \/ Locks \/ Commit
           \/ \E r \in Runs : Start(r) \/ Finish(r)
  <2>1. /\ Active' \subseteq Active /\ lost \subseteq lost' /\ (deleted => deleted')
        /\ \A r \in executing' : rows'[r] = "running" \/ r \in lost'
    BY <1>2, RowsRest, Zenon
  <2> SUFFICES ASSUME setup.policy = "skip", lost' = {}, NEW a \in Replicas, setup.crew = {a}
               PROVE  /\ \A r, s \in Active' : r[1] = s[1]
                      /\ act'[a].pc = "compile" => deleted' \/ Active' = {}
                      /\ act'[a].pc \in Requesting => \A r \in Active' : r[1] = act'[a].next
    BY <1>1, <2>1, Zenon DEF OverlapInv
  <2>2. lost = {}
    BY <2>1, Zenon
  <2>3. /\ \A r, s \in Active : r[1] = s[1]
        /\ act[a].pc = "compile" => deleted \/ Active = {}
        /\ act[a].pc \in Requesting => \A r \in Active : r[1] = act[a].next
    BY <2>2, Zenon DEF OverlapInv
  <2>4. act'[a].pc = "compile" => deleted' \/ Active' = {}
    BY <2>1, <2>3, OnlyReplica, Zenon
  <2>5. act'[a].pc \in Requesting => \A r \in Active' : r[1] = act'[a].next
    BY <2>1, <2>3, OnlyReplica, Zenon
  <2> QED
    BY <2>1, <2>3, <2>4, <2>5, Zenon
<1>3. ASSUME NEW b \in Replicas, Requests(b), Fire(b) PROVE OverlapInv'
  <2>1. PICK q \in Routes :
          /\ <<Token(b), q>> \in Runs /\ act[b].pc = "fire"
          /\ rows[<<Token(b), q>>] \in {"absent", "scheduled"}
          /\ rows' = [rows EXCEPT ![<<Token(b), q>>] = "requested"]
          /\ UNCHANGED <<executing, lost>>
    BY <1>3, Zenon DEF Requests
  <2> DEFINE run == <<Token(b), q>>
  <2>2. run[1] = act[b].next
    BY Zenon DEF Token
  <2>3. \A p \in Runs : p # run => rows'[p] = rows[p]
    BY <2>1, Zenon DEF TypeOK
  <2>4. Active' \subseteq Active \cup {run}
    BY <2>3, Zenon DEF Active
  <2>5. \A r \in executing' : rows'[r] = "running" \/ r \in lost'
    BY <2>1, <2>3, Zenon DEF OverlapInv, TypeOK
  <2> SUFFICES ASSUME setup.policy = "skip", lost' = {}, NEW a \in Replicas, setup.crew = {a}
               PROVE  /\ \A r, s \in Active' : r[1] = s[1]
                      /\ act'[a].pc = "compile" => deleted' \/ Active' = {}
                      /\ act'[a].pc \in Requesting => \A r \in Active' : r[1] = act'[a].next
    BY <1>1, <2>5, Zenon DEF OverlapInv
  <2>6. a = b
    <3>1. b \in Actors
      BY Zenon DEF Actors
    <3>2. b \in setup.crew
      BY <2>1, <3>1, Zenon DEF ActInv, Reconciling
    <3> QED
      BY <3>2, Zenon
  <2>7. \A r \in Active : r[1] = act[a].next
    BY <2>1, <2>6, Zenon DEF OverlapInv, Requesting
  <2> HIDE DEF run
  <2>8. \A r \in Active' : r[1] = act[a].next
    BY <2>2, <2>4, <2>6, <2>7, Zenon
  <2>9. act'[a].pc # "compile"
    BY <2>1, <2>6, OnlyReplica, Zenon
  <2> QED
    BY <2>8, <2>9, OnlyReplica, Zenon
<1> QED
  BY <1>2, <1>3, RowSteps, Zenon

-----------------------------------------------------------------------------
(* Theorems *)

\* The invariant holds initially.
LEMMA InitScheduler == Init => SchedulerInv
<1> SUFFICES ASSUME Init PROVE SchedulerInv
  BY Zenon
<1>1. Idle \in Acts /\ Idle.pc = "idle"
  BY SchedulerAssumption DEF Idle, Acts, PCs
<1>2. NoSchedule \in Schedules /\ NoTx \in Txs /\ NoTx.held = FALSE /\ NoTx.doomed = {}
  BY Zenon DEF NoSchedule, Schedules, NoTx, Txs
<1>3. setup.events \in [Events -> Nat] /\ 0 \in 0..MaxOccurrence
  BY SchedulerAssumption DEF Init
<1>4. TypeOK
  BY <1>1, <1>2, <1>3, Zenon DEF Init, TypeOK, Statuses
<1>5. ActInv
  BY <1>1, Zenon DEF Init, ActInv, Requesting
<1>6. RequestInv
  BY DEF Init, RequestInv
<1>7. ReapInv
  BY <1>2, Zenon DEF Init, ReapInv, ScheduledHasSchedule
<1>8. Active = {}
  BY Zenon DEF Init, Active
<1>9. OverlapInv
  BY <1>8, Zenon DEF Init, OverlapInv
<1> QED
  BY <1>4, <1>5, <1>6, <1>7, <1>9, Zenon DEF SchedulerInv

\* Every step keeps the invariant.
LEMMA StepScheduler == SchedulerInv /\ [Next]_vars => SchedulerInv'
<1>1. SchedulerInv /\ Next => SchedulerInv'
  BY TypeStep, ActStep, RequestStep, ReapStep, OverlapStep, Zenon DEF SchedulerInv
<1>2. SchedulerInv /\ UNCHANGED vars => SchedulerInv'
  <2> SUFFICES ASSUME SchedulerInv, UNCHANGED vars PROVE SchedulerInv'
    BY Zenon
  <2> USE DEF vars, storeVars, workVars, historyVars, SchedulerInv
  <2>1. TypeOK'
    BY Zenon DEF TypeOK
  <2>2. ActInv' /\ RequestInv' /\ ReapInv'
    BY Zenon DEF ActInv, RequestInv, ReapInv, ScheduledHasSchedule
  <2>3. Active' = Active
    BY Zenon DEF Active
  <2>4. OverlapInv'
    BY <2>3, Zenon DEF OverlapInv
  <2> QED
    BY <2>1, <2>2, <2>4, Zenon
<1> QED
  BY <1>1, <1>2, Zenon

\* The invariant of the scheduler holds in every reachable state.
THEOREM SchedulerInvariant == Spec => []SchedulerInv
  BY InitScheduler, StepScheduler, PTL DEF Spec

\* The schedule, the runs and the actors keep their types; in particular no
\* actor computes an occurrence past the one after the present time.
THEOREM SchedulerTypes == Spec => []TypeOK
<1>1. SchedulerInv => TypeOK
  BY Zenon DEF SchedulerInv
<1> QED
  BY <1>1, SchedulerInvariant, PTL

\* An occurrence is requested once per route, whatever crashes, expired leases and
\* replicas: OccurrenceToken and the status test of CreateRun.
THEOREM FiredOnce == Spec => []OncePerOccurrence
<1>1. SchedulerInv => OncePerOccurrence
  BY Zenon DEF SchedulerInv, RequestInv, OncePerOccurrence
<1> QED
  BY <1>1, SchedulerInvariant, PTL

\* No scheduled run outlives its schedule, whatever reconciliations run beside the
\* statements of DeletePipeline: the schedule is deleted first, and its row stays locked
\* until the runs are deleted too.
THEOREM ReapComplete == Spec => []ScheduledHasSchedule
<1>1. SchedulerInv => ScheduledHasSchedule
  BY Zenon DEF SchedulerInv, ReapInv
<1> QED
  BY <1>1, SchedulerInvariant, PTL

\* With the skip policy a single replica never overlaps two occurrences, until a
\* requested run loses its row: hasActiveRuns, and one tick at a time.
THEOREM SkipNeverOverlaps == Spec => []NoOverlap
<1>1. SchedulerInv => NoOverlap
  <2> SUFFICES ASSUME SchedulerInv, setup.policy = "skip", Cardinality(setup.crew) = 1, lost = {}
               PROVE  Cardinality({r[1] : r \in Going}) <= 1
    BY Zenon DEF NoOverlap
  <2>1. TypeOK /\ OverlapInv
    BY Zenon DEF SchedulerInv
  <2>2. IsFiniteSet(setup.crew) /\ setup.crew \subseteq Replicas
    <3>1. setup.crew \in SUBSET Replicas /\ IsFiniteSet(Replicas)
      BY <2>1, ActTypes, SchedulerAssumption, Zenon
    <3> QED
      BY <3>1, FS_Subset, Zenon
  <2>3. PICK a \in Replicas : setup.crew = {a}
    BY <2>2, FS_Singleton, Zenon
  <2>4. Going \subseteq Active
    BY <2>1, Zenon DEF Going, OverlapInv, Active, TypeOK
  <2>5. \A r, s \in Going : r[1] = s[1]
    BY <2>1, <2>3, <2>4, Zenon DEF OverlapInv
  <2>6. CASE Going = {}
    <3>1. {r[1] : r \in Going} = {}
      BY <2>6, Zenon
    <3> QED
      BY <3>1, FS_EmptySet
  <2>7. CASE Going # {}
    <3>1. PICK s \in Going : TRUE
      BY <2>7, Zenon
    <3>2. {r[1] : r \in Going} = {s[1]}
      BY <2>5, <3>1, Zenon
    <3>3. Cardinality({s[1]}) = 1
      BY FS_Singleton, Zenon
    <3> QED
      BY <3>2, <3>3
  <2> QED
    BY <2>6, <2>7, Zenon
<1> QED
  BY <1>1, SchedulerInvariant, PTL
=============================================================================
