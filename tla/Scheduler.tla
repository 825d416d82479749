------------------------------ MODULE Scheduler ------------------------------
(***************************************************************************)
(* One pipeline and its cron schedule: the scheduler that claims and fires *)
(* due occurrences (internal/modules/scheduler), the API that edits the    *)
(* schedule and the pipeline, and the bookkeeping of scheduled runs both   *)
(* of them do (internal/runs/scheduled.go).                                *)
(*                                                                         *)
(* Simplifications.  Occurrences are numbered, and the clock is the number *)
(* of occurrences whose time has come, so NextFire(t) is t + 1.  A run is  *)
(* an occurrence and a route, which is what its identifier is derived      *)
(* from.  The row of a run follows its execution at once (BoundedRun has   *)
(* the tracker between them), and signals are left out.                    *)
(*                                                                         *)
(* The store is Postgres at READ COMMITTED.  A statement is atomic, except *)
(* that a save of the schedule reads the pipeline in its snapshot and      *)
(* writes later, and DeletePipeline is a transaction of several            *)
(* statements: others see what it did only when it commits, and wait for   *)
(* the rows it has locked.                                                 *)
(***************************************************************************)
EXTENDS Integers, FiniteSets

CONSTANTS
  Replicas,        \* processes that may run the scheduler
  Clients,         \* callers of the API
  Routes,          \* routes a pipeline may have, one run each
  MaxOccurrence,   \* bound on the occurrences that come due
  Setups           \* deployments: the replicas that run, the routes of the pipeline, the overlap policy of
                   \* its schedule, and bounds on occurrences, updates, versions, deletions and faults

Events == {"update", "version", "delete", "fault"}

ASSUME SchedulerAssumption ==
  /\ Setups \subseteq [crew : SUBSET Replicas, routes : SUBSET Routes, policy : {"skip", "allow"},
                       horizon : 0..MaxOccurrence, events : [Events -> Nat]]
  /\ Replicas \cap Clients = {} /\ IsFiniteSet(Replicas)
  /\ MaxOccurrence \in Nat

VARIABLES
  setup,      \* one of Setups; it never changes
  clock,      \* occurrences that have come due
  sched,      \* the row of the schedule
  deleted,    \* the pipeline is deleted
  version,    \* the current version of the pipeline
  tx,         \* the transaction of DeletePipeline: how far it is, whether it has the schedule, the runs it deletes
  rows,       \* the status of each run
  pinned,     \* the version each requested run was compiled from
  triggers,   \* runs whose trigger is stored and not yet taken
  executing,  \* runs a worker is executing
  act,        \* what each replica and each client is doing, with its copy of the schedule
  budget,     \* events still to come
  created,    \* history: how often each run was requested
  lost,       \* history: runs whose row was deleted after they were requested
  wanted      \* history: whether the last accepted update enabled the schedule

storeVars == <<deleted, version, tx>>
workVars == <<triggers, executing>>
historyVars == <<created, lost, wanted>>
vars == <<setup, clock, sched, storeVars, rows, pinned, workVars, act, budget, historyVars>>

-----------------------------------------------------------------------------
(* Types *)

NoFire == 0
Occurrences == 1..(MaxOccurrence + 1)
Runs == Occurrences \X Routes
Actors == Replicas \cup Clients
Statuses == {"absent", "scheduled", "requested", "running", "ended"}
Schedules == [exists : BOOLEAN, enabled : BOOLEAN, next : {NoFire} \cup Occurrences,
              lease : {"none", "held", "expired"}]
NoSchedule == [exists |-> FALSE, enabled |-> FALSE, next |-> NoFire, lease |-> "none"]
Txs == [stage : {"none", "marked", "unscheduled", "reaped"}, held : BOOLEAN, doomed : SUBSET Runs]
NoTx == [stage |-> "none", held |-> FALSE, doomed |-> {}]
PCs == {"idle", "check", "advance", "compile", "fire", "dispatch", "redispatch", "undo", "release",
        "load", "save", "list", "drop", "precreate"}

\* An actor between two calls: what it uses of its copy of the schedule, the time
\* of its tick, the version it compiled, the routes still to do, the route in hand,
\* and the scheduled runs it has listed.
Acts == [pc : PCs, enabled : BOOLEAN, next : {NoFire} \cup Occurrences, now : 0..MaxOccurrence, ver : Nat,
         todo : SUBSET Routes, hand : SUBSET Routes, pending : SUBSET Runs]
Idle == [pc |-> "idle", enabled |-> FALSE, next |-> NoFire, now |-> 0, ver |-> 0,
         todo |-> {}, hand |-> {}, pending |-> {}]

TypeOK ==
  /\ setup \in Setups
  /\ clock \in 0..MaxOccurrence
  /\ sched \in Schedules
  /\ deleted \in BOOLEAN /\ version \in Nat /\ tx \in Txs
  /\ rows \in [Runs -> Statuses] /\ pinned \in [Runs -> Nat]
  /\ triggers \subseteq Runs /\ executing \subseteq Runs
  /\ act \in [Actors -> Acts]
  /\ budget \in [Events -> Nat]
  /\ created \in [Runs -> Nat] /\ lost \subseteq Runs /\ wanted \in BOOLEAN

Init ==
  /\ setup \in Setups
  /\ clock = 0
  /\ sched = NoSchedule
  /\ deleted = FALSE /\ version = 0 /\ tx = NoTx
  /\ rows = [r \in Runs |-> "absent"] /\ pinned = [r \in Runs |-> 0]
  /\ triggers = {} /\ executing = {}
  /\ act = [a \in Actors |-> Idle]
  /\ budget = setup.events
  /\ created = [r \in Runs |-> 0] /\ lost = {} /\ wanted = FALSE

Spend(event) == budget[event] > 0 /\ budget' = [budget EXCEPT ![event] = @ - 1]

\* A call fails or a process dies.
Fault == Spend("fault")

Goto(a, p) == act' = [act EXCEPT ![a].pc = p]
Rest(a) == act' = [act EXCEPT ![a] = Idle]

\* A mutant: the occurrence after the next one.
NextFireLater(t) == t + 2

NextFire(t) == t + 1

\* The run of an actor's occurrence on the route in hand: OccurrenceToken makes
\* the occurrence, not the time of the fire, part of its identifier.
Token(a) == act[a].next
InHand(a) == {<<Token(a), r>> : r \in act[a].hand}
-----------------------------------------------------------------------------
(* The scheduler: one tick over a due schedule (runDue) *)

\* Steps of an actor that leave the clock, the pipeline and the workers alone.
Quiet == UNCHANGED <<setup, clock, storeVars, pinned, workVars, historyVars>>

Due == sched.exists /\ sched.enabled /\ sched.next # NoFire /\ sched.next <= clock

\* A mutant: a lease never runs out.
ClaimableUnleased == Due /\ sched.lease = "none" /\ ~tx.held

\* ClaimDue leases an enabled, due schedule that nobody holds; it skips a locked row.
Claimable == Due /\ sched.lease # "held" /\ ~tx.held

ClaimDue(a) ==
  /\ a \in setup.crew /\ act[a] = Idle
  /\ Claimable
  /\ sched' = [sched EXCEPT !.lease = "held"]
  /\ act' = [act EXCEPT ![a] = [Idle EXCEPT !.pc = IF setup.policy = "skip" THEN "check" ELSE "compile",
                                            !.enabled = sched.enabled, !.next = sched.next, !.now = clock]]
  /\ UNCHANGED <<rows, budget>> /\ Quiet

\* A mutant: a run that has not started is not active.
ActiveStarted == {r \in Runs : rows[r] = "running"}

\* hasActiveRuns: runs of this schedule that are requested or running.
Active == {r \in Runs : rows[r] \in {"requested", "running"}}

\* Runs from before the deletion of the pipeline no longer name a schedule that was
\* saved again (ON DELETE SET NULL), and are not found.
CheckOverlap(a) ==
  /\ act[a].pc = "check"
  /\ \/ Goto(a, IF Active = {} THEN "compile" ELSE "advance") /\ UNCHANGED budget
     \/ deleted /\ Goto(a, "compile") /\ UNCHANGED budget
     \/ Goto(a, "release") /\ Fault
  /\ UNCHANGED <<sched, rows>> /\ Quiet

\* SaveSchedule, its snapshot: the statement goes on only for a pipeline that it
\* does not see deleted.
ToSave(a, enabled, next) ==
  /\ ~deleted
  /\ act' = [act EXCEPT ![a] = [Idle EXCEPT !.pc = "save", !.enabled = enabled, !.next = next]]

\* What an actor does next is the reconciliation of this state.
ToReconcile(a, enabled, next) ==
  act' = [act EXCEPT ![a] = [Idle EXCEPT !.pc = "list", !.enabled = enabled, !.next = next]]

\* SaveSchedule, its write: the whole row from the caller's copy, without a lease.  It
\* waits for a transaction that deletes the row and then inserts the row again.
SaveSchedule(a) ==
  /\ act[a].pc = "save"
  /\ ~tx.held
  /\ sched' = [exists |-> TRUE, enabled |-> act[a].enabled, next |-> act[a].next, lease |-> "none"]
  /\ wanted' = IF a \in Clients THEN act[a].enabled ELSE wanted
  /\ ToReconcile(a, act[a].enabled, act[a].next)
  /\ UNCHANGED <<setup, clock, storeVars, rows, pinned, workVars, budget, created, lost>>

\* advance: the occurrence is skipped; an error of the save is only logged.
Advance(a) ==
  /\ act[a].pc = "advance"
  /\ \/ ToSave(a, act[a].enabled, NextFire(act[a].now)) /\ UNCHANGED budget
     \/ deleted /\ ToReconcile(a, act[a].enabled, NextFire(act[a].now)) /\ UNCHANGED budget
     \/ Fault /\ ToReconcile(a, act[a].enabled, NextFire(act[a].now))
  /\ UNCHANGED <<sched, rows>> /\ Quiet

\* fire compiles the current version of the pipeline, unless it is deleted.
Compile(a) ==
  /\ act[a].pc = "compile"
  /\ \/ /\ ~deleted
        /\ act' = [act EXCEPT ![a].pc = "fire", ![a].ver = version, ![a].todo = setup.routes]
        /\ UNCHANGED budget
     \/ deleted /\ Goto(a, "release") /\ UNCHANGED budget
     \/ Goto(a, "release") /\ Fault
  /\ UNCHANGED <<sched, rows>> /\ Quiet

\* A mutant: the foreign key of a run does not wait for the schedule's row.
FreeUnlocked(run) == run \notin tx.doomed

\* No transaction holds the row of the run: deleting a schedule locks its runs, which
\* no longer name it, and the row a new run would name.
Free(run) == ~tx.held /\ run \notin tx.doomed

\* The store allows one active run per version and route.
Fenced(run, ver) == \E other \in Active \ {run} : other[2] = run[2] /\ pinned[other] = ver

\* A mutant: the update arm of CreateRun does not compare the status.
CreateRunAnyStatus(a) ==
  /\ act[a].pc = "fire"
  /\ \E r \in act[a].todo :
       LET run == <<Token(a), r>> IN
       /\ Free(run) /\ sched.exists /\ ~Fenced(run, act[a].ver)
       /\ rows' = [rows EXCEPT ![run] = "requested"]
       /\ pinned' = [pinned EXCEPT ![run] = act[a].ver]
       /\ created' = [created EXCEPT ![run] = @ + 1]
       /\ act' = [act EXCEPT ![a].pc = "dispatch", ![a].todo = @ \ {r}, ![a].hand = {r}]
  /\ UNCHANGED <<setup, clock, sched, storeVars, workVars, budget, lost, wanted>>

\* fire, for one route: CreateRun inserts the run or promotes its scheduled row.  The
\* row names the schedule, which must still exist.
CreateRun(a) ==
  /\ act[a].pc = "fire"
  /\ \E r \in act[a].todo :
       LET run == <<Token(a), r>> IN
       /\ rows[run] \in {"absent", "scheduled"}
       /\ Free(run) /\ sched.exists /\ ~Fenced(run, act[a].ver)
       /\ rows' = [rows EXCEPT ![run] = "requested"]
       /\ pinned' = [pinned EXCEPT ![run] = act[a].ver]
       /\ created' = [created EXCEPT ![run] = @ + 1]
       /\ act' = [act EXCEPT ![a].pc = "dispatch", ![a].todo = @ \ {r}, ![a].hand = {r}]
  /\ UNCHANGED <<setup, clock, sched, storeVars, workVars, budget, lost, wanted>>

\* A run that is already requested is dispatched again, a later one left alone.
CreateConflict(a) ==
  /\ act[a].pc = "fire"
  /\ \E r \in act[a].todo :
       LET run == <<Token(a), r>> IN
       /\ rows[run] \notin {"absent", "scheduled"} /\ Free(run)
       /\ act' = [act EXCEPT ![a].pc = IF rows[run] = "requested" THEN "redispatch" ELSE "fire",
                             ![a].todo = @ \ {r}, ![a].hand = {x \in {r} : rows[run] = "requested"}]
  /\ UNCHANGED <<sched, rows, budget>> /\ Quiet

\* The schedule is gone, the route is taken (ErrRunOverlap), or the call fails.
CreateFails(a) ==
  /\ act[a].pc = "fire"
  /\ \E r \in act[a].todo :
       LET run == <<Token(a), r>> IN
       \/ /\ rows[run] \in {"absent", "scheduled"}
          /\ Free(run) /\ (~sched.exists \/ Fenced(run, act[a].ver))
          /\ UNCHANGED budget
       \/ Fault
  /\ Goto(a, "release")
  /\ UNCHANGED <<sched, rows>> /\ Quiet

Dispatch(a) ==
  /\ act[a].pc \in {"dispatch", "redispatch"}
  /\ triggers' = triggers \cup InHand(a)
  /\ act' = [act EXCEPT ![a].pc = "fire", ![a].hand = {}]
  /\ UNCHANGED <<setup, clock, sched, storeVars, rows, pinned, executing, budget, historyVars>>

\* The publication fails, though the broker may have stored the trigger.
DispatchFails(a) ==
  /\ act[a].pc \in {"dispatch", "redispatch"}
  /\ Fault
  /\ triggers' \in {triggers, triggers \cup InHand(a)}
  /\ Goto(a, IF act[a].pc = "dispatch" THEN "undo" ELSE "release")
  /\ UNCHANGED <<setup, clock, sched, storeVars, rows, pinned, executing, historyVars>>

\* DeleteRun looks at the identifier only.
DeleteRuns(rs) ==
  /\ \A r \in rs : Free(r)
  /\ rows' = [r \in Runs |-> IF r \in rs THEN "absent" ELSE rows[r]]
  /\ lost' = lost \cup {r \in rs : rows[r] \notin {"absent", "scheduled"}}

Undo(a) ==
  /\ act[a].pc = "undo"
  /\ \/ DeleteRuns(InHand(a)) /\ UNCHANGED budget
     \/ Fault /\ UNCHANGED <<rows, lost>>
  /\ Goto(a, "release")
  /\ UNCHANGED <<setup, clock, sched, storeVars, pinned, workVars, created, wanted>>

\* ReleaseScheduleClaim does not ask whose claim it is.
Release(a) ==
  /\ act[a].pc = "release"
  /\ \/ ~tx.held /\ sched' = [sched EXCEPT !.lease = "none"] /\ UNCHANGED budget
     \/ Fault /\ UNCHANGED sched
  /\ Rest(a)
  /\ UNCHANGED rows /\ Quiet

\* Every route is submitted and the schedule is saved; on an error the tick goes on to the next
\* schedule and the lease is left to expire.
Save(a) ==
  /\ act[a].pc = "fire" /\ act[a].todo = {}
  /\ \/ ToSave(a, act[a].enabled, NextFire(act[a].now)) /\ UNCHANGED budget
     \/ deleted /\ Rest(a) /\ UNCHANGED budget
     \/ Fault /\ Rest(a)
  /\ UNCHANGED <<sched, rows>> /\ Quiet

-----------------------------------------------------------------------------
(* ReconcileScheduled, by the scheduler and by the API *)

\* DropScheduled lists the scheduled runs first and deletes them one by one after.
ListScheduled(a) ==
  /\ act[a].pc = "list"
  /\ act' = [act EXCEPT ![a].pc = "drop", ![a].pending = {r \in Runs : rows[r] = "scheduled"}]
  /\ UNCHANGED <<sched, rows, budget>> /\ Quiet

DropScheduled(a) ==
  /\ act[a].pc = "drop"
  /\ \E r \in act[a].pending :
       /\ DeleteRuns({r})
       /\ act' = [act EXCEPT ![a].pending = @ \ {r}]
  /\ UNCHANGED <<setup, clock, sched, storeVars, pinned, workVars, budget, created, wanted>>

\* The next occurrence is compiled and created ahead when the schedule will fire again.
DropDone(a) ==
  /\ act[a].pc = "drop" /\ act[a].pending = {}
  /\ IF act[a].enabled /\ act[a].next # NoFire /\ ~deleted
       THEN act' = [act EXCEPT ![a].pc = "precreate", ![a].todo = setup.routes]
       ELSE Rest(a)
  /\ UNCHANGED <<sched, rows, budget>> /\ Quiet

Precreate(a) ==
  /\ act[a].pc = "precreate"
  /\ sched.exists
  /\ \E r \in act[a].todo :
       /\ Free(<<Token(a), r>>)
       /\ rows' = [rows EXCEPT ![<<Token(a), r>>] = IF @ = "absent" THEN "scheduled" ELSE @]
       /\ act' = [act EXCEPT ![a].todo = @ \ {r}]
  /\ UNCHANGED <<sched, budget>> /\ Quiet

\* All routes are created, or the schedule is gone.
ReconcileDone(a) ==
  /\ act[a].pc = "precreate"
  /\ act[a].todo = {} \/ ~sched.exists
  /\ Rest(a)
  /\ UNCHANGED <<sched, rows, budget>> /\ Quiet

\* A new version of the pipeline reconciles what it finds of the schedule.
LoadSchedule(a) ==
  /\ act[a].pc = "load"
  /\ IF sched.exists THEN ToReconcile(a, sched.enabled, sched.next) ELSE Rest(a)
  /\ UNCHANGED <<sched, rows, budget>> /\ Quiet

\* A failed call ends a reconciliation, which is best effort; a dying process
\* ends whatever it does.
Interrupted(a) ==
  /\ act[a] # Idle
  /\ Fault
  /\ Rest(a)
  /\ UNCHANGED <<sched, rows>> /\ Quiet

Reconcile(a) ==
  \/ SaveSchedule(a) \/ LoadSchedule(a) \/ ListScheduled(a) \/ DropScheduled(a) \/ DropDone(a)
  \/ Precreate(a) \/ ReconcileDone(a)

Fire(a) ==
  \/ CheckOverlap(a) \/ Advance(a) \/ Compile(a) \/ CreateRun(a) \/ CreateConflict(a) \/ CreateFails(a)
  \/ Dispatch(a) \/ DispatchFails(a) \/ Undo(a) \/ Release(a) \/ Save(a)

-----------------------------------------------------------------------------
(* The API *)

\* CreatePipelineSchedule and UpdatePipelineSchedule: a new row computed from the
\* request and the present time is saved and reconciled.
UpdateSchedule(c) ==
  /\ act[c] = Idle
  /\ Spend("update")
  /\ \E on \in BOOLEAN : ToSave(c, on, IF on THEN NextFire(clock) ELSE NoFire)
  /\ UNCHANGED <<sched, rows>> /\ Quiet

\* CreatePipelineVersion locks the row of the pipeline, which must not be deleted.
NewVersion(c) ==
  /\ act[c] = Idle
  /\ ~deleted /\ tx.stage = "none"
  /\ Spend("version")
  /\ version' = version + 1
  /\ Goto(c, "load")
  /\ UNCHANGED <<setup, clock, sched, deleted, tx, rows, pinned, workVars, historyVars>>

\* DeletePipeline marks the pipeline first, which keeps other deletions out. That the
\* pipeline is deleted already does not stop it.
DeletePipeline(c) ==
  /\ act[c] = Idle
  /\ tx.stage = "none"
  /\ Spend("delete")
  /\ tx' = [tx EXCEPT !.stage = "marked"]
  /\ UNCHANGED <<setup, clock, sched, deleted, version, rows, pinned, workVars, act, historyVars>>

Edit(c) == UpdateSchedule(c) \/ NewVersion(c) \/ DeletePipeline(c)

\* It deletes the schedule, if there is one, then the scheduled runs, and commits.
DeleteSchedules ==
  /\ tx.stage = "marked"
  /\ tx' = [tx EXCEPT !.stage = "unscheduled", !.held = sched.exists]
  /\ UNCHANGED <<setup, clock, sched, deleted, version, rows, pinned, workVars, act, budget, historyVars>>

DeleteScheduledRuns ==
  /\ tx.stage = "unscheduled"
  /\ tx' = [tx EXCEPT !.stage = "reaped", !.doomed = {r \in Runs : rows[r] = "scheduled"}]
  /\ UNCHANGED <<setup, clock, sched, deleted, version, rows, pinned, workVars, act, budget, historyVars>>

Commit ==
  /\ tx.stage = "reaped"
  /\ deleted' = TRUE
  /\ sched' = IF tx.held THEN NoSchedule ELSE sched
  /\ rows' = [r \in Runs |-> IF r \in tx.doomed THEN "absent" ELSE rows[r]]
  /\ tx' = NoTx
  /\ UNCHANGED <<setup, clock, version, pinned, workVars, act, budget, historyVars>>

Delete == DeleteSchedules \/ DeleteScheduledRuns \/ Commit

Rollback ==
  /\ tx.stage # "none"
  /\ Fault
  /\ tx' = NoTx
  /\ UNCHANGED <<setup, clock, sched, deleted, version, rows, pinned, workVars, act, historyVars>>

-----------------------------------------------------------------------------
(* Workers and time *)

\* A worker takes a trigger and runs it when the row asks for it (ShouldRun).
Start(r) ==
  /\ r \in triggers
  /\ triggers' = triggers \ {r}
  /\ IF rows[r] = "requested"
       THEN rows' = [rows EXCEPT ![r] = "running"] /\ executing' = executing \cup {r}
       ELSE UNCHANGED <<rows, executing>>
  /\ UNCHANGED <<setup, clock, sched, storeVars, pinned, act, budget, historyVars>>

\* Its end; a row that is gone is not brought back for the schedule.
Finish(r) ==
  /\ r \in executing
  /\ executing' = executing \ {r}
  /\ rows' = [rows EXCEPT ![r] = IF @ = "running" THEN "ended" ELSE @]
  /\ UNCHANGED <<setup, clock, sched, storeVars, pinned, triggers, act, budget, historyVars>>

ComeDue ==
  /\ clock < setup.horizon
  /\ clock' = clock + 1
  /\ UNCHANGED <<setup, sched, storeVars, rows, pinned, workVars, act, budget, historyVars>>

\* ScheduleLeaseTTL has passed since the claim.
Expire ==
  /\ sched.lease = "held"
  /\ sched' = [sched EXCEPT !.lease = "expired"]
  /\ UNCHANGED <<setup, clock, storeVars, rows, pinned, workVars, act, budget, historyVars>>

-----------------------------------------------------------------------------

Next ==
  \/ \E a \in Replicas : ClaimDue(a) \/ Fire(a)
  \/ \E a \in Actors : Reconcile(a) \/ Interrupted(a)
  \/ \E c \in Clients : Edit(c)
  \/ \E r \in Runs : Start(r) \/ Finish(r)
  \/ Delete \/ Rollback \/ ComeDue \/ Expire

Spec == Init /\ [][Next]_vars

\* The scheduler ticks and goes on with a tick, calls of the API return, transactions
\* end, triggers are served, runs end, and a lease runs out.
Fairness ==
  /\ \A a \in Replicas : WF_vars(ClaimDue(a)) /\ WF_vars(Fire(a))
  /\ \A a \in Actors : WF_vars(Reconcile(a))
  /\ \A r \in Runs : WF_vars(Start(r)) /\ WF_vars(Finish(r))
  /\ WF_vars(Delete) /\ WF_vars(Expire)

FairSpec == Spec /\ Fairness

-----------------------------------------------------------------------------
(* Properties *)

Going == Active \cup executing

\* With the skip policy and one replica no two occurrences of a schedule are under
\* way together (runDue, hasActiveRuns), as long as no requested run has lost its
\* row, to the deletion of scheduled ones or to the undo of a dispatch that failed
\* after the trigger was stored.
NoOverlap ==
  setup.policy = "skip" /\ Cardinality(setup.crew) = 1 /\ lost = {}
    => Cardinality({r[1] : r \in Going}) <= 1

\* An occurrence is requested once per route, whatever replicas claim it again
\* after a crash or an expired lease (OccurrenceToken, CreateRun), unless the row
\* that remembers it was deleted.
OncePerOccurrence == \A r \in Runs : created[r] > 1 => r \in lost

\* No scheduled run outlives its schedule: DeletePipeline removes the schedule before
\* the runs, so a reconciliation beside it either commits its row in time to be seen or
\* waits for the schedule and is refused (DeletePipeline, CreateRun).
ScheduledHasSchedule == \A r \in Runs : rows[r] = "scheduled" => sched.exists

\* A requested run that no trigger will start.
Stranded == {r \in Runs : rows[r] = "requested" /\ r \notin triggers}

\* A due occurrence is fired or skipped: claims are released or run out, although the
\* scheduler fails or dies anywhere in a tick (ClaimDue, ReleaseScheduleClaim).  Two
\* schedules fail every tick for ever: that of a deleted pipeline, and one whose
\* route a stranded run keeps.
DueIsServed == Due ~> ~Due \/ deleted \/ [](Stranded # {})

-----------------------------------------------------------------------------
(* What documents and comments say, and the code does not keep *)

\* Pausing a schedule is an update that disables it: it stays disabled until an
\* update enables it.
PauseHolds == sched.exists /\ ~wanted => ~sched.enabled

\* A requested run without a trigger is repaired by publishing the idempotent
\* trigger again, when its occurrence is fired again.
StrandedIsRepaired ==
  \A r \in Runs :
    rows[r] = "requested" /\ r \notin triggers ~> rows[r] # "requested" \/ r \in triggers

=============================================================================
