# Filament: TLA+ models, model checks and proofs

Filament moves data from sources to sinks.  A pipeline route is executed either
as a *bounded* run (read to the end, commit once) or as a *continuous* run (an
endless sequence of epochs).  This directory holds a formal model of that
system: TLA+ modules translated from the Go and SQL sources, TLC configurations
that check them on small instances, and TLAPS proofs of the main results for
instances of any size.  `PROJECT.json` maps every definition to the source
lines it stands for and lists the components, the hazards, the runs and the
theorems.

## 1. The system

| Part | Where | State it owns | What it does |
|---|---|---|---|
| Stream store | `datastore/postgres/stream_*.go` | rows of `replication_streams`, `runs`, `stream_attempts`, `stream_epochs` | transactions under the pipeline lock: activation, successor queue, intent, admission of attempts, leases, epoch certificates |
| Stream supervisor | `internal/modules/streamsupervisor` | retry counters in memory | scans pending runs, admits, retires, yields or dispatches attempts |
| Continuous worker | `runner/continuous*.go`, `streamkit/session.go` | one attempt, open sessions | claim, load, loop over epochs, heartbeat, clean-up, report |
| Continuous API | `server/continuous.go` | none | pause, resume, stop as a change of intent with a revision check |
| Intake | `internal/runs/runs.go` | rows of `runs` | creates or promotes a row, publishes `run.requested` |
| Signals | `internal/runs/signals.go` | rows of `runs` | pause, resume, cancel by status, directly or through the worker |
| Engine, bounded runner | `internal/modules/engine`, `runner/runner.go`, `runner/control.go` | one execution | reads, writes, commits or aborts, publishes exactly one terminal fact |
| Tracker | `internal/modules/tracker` | rows of `runs`, checkpoints, deduplication mark | folds facts into rows, promotes checkpoints |
| Reaper | `internal/modules/reaper` | none | fails runs that stopped making progress |
| Scheduler | `internal/modules/scheduler`, `internal/runs/scheduled.go` | rows of `schedules`, scheduled rows of `runs` | claims due schedules, submits one run per route, prepares the next occurrence |
| Arrow pipeline | `pipeline/*` | bounded channels, builders, pools | carries rows from a source through transformers to writers, with barriers and evidence for epochs |
| Event bus | `eventbus/*` | log, subscriptions | at-least-once delivery with ack and nak |

The parts interact through two media.  Bounded runs live on the event bus: the
intake publishes a request, the engine executes it and publishes facts, and the
tracker alone turns facts into rows.  Continuous runs live in the database: the
row of a stream carries an intent with a revision, the supervisor compares
intent with attempts and acts, and workers report through lease-checked
transactions.  The bus carries only hints for them.  The scheduler is a client
of the intake; the pipeline is the inside of one execution of either kind.

What makes this hard: the supervisor, the API, the workers, the tracker and the
scheduler act on copies of a state that has moved on; leases expire while their
owner still writes; a Job may be delivered twice or never; a worker may die
between any two of "sink committed", "epoch certified" and "source
acknowledged"; facts arrive late and more than once, and the tracker's and the
scheduler's read-modify-write race with signals and updates; a goroutine may be
blocked on a channel whose reader has failed.

### Correctness properties

1. Only one worker executes a stream at a time.
2. Nothing is acknowledged to the source that is not certified, nothing is
   certified that is not durable at the destination.
3. Certified epochs form one chain without gap, fork or regression.
4. A stopped run is not revived, an ended run keeps its status, a completed run
   has nothing left executing, and the status of a live run is the one its
   intent and attempts imply.
5. A stop drains and a waiting run takes over, unless an attempt that cannot be
   proven closed blocks the stream.
6. The row of a bounded run agrees with what its workers did: a running row has
   an execution, a completed row a commit, and a cancel that was taken is obeyed.
7. The checkpoint of a route stays behind what the sink holds, and the
   acknowledgement to a change source behind the checkpoint.
8. A running run ends, and a stored trigger is served.
9. An occurrence of a schedule is requested once per route, occurrences do not
   overlap under `skip`, no scheduled run outlives its schedule, and what is due
   is served.
10. A cursor never covers an unwritten row, a clean end means that every row was
    written, the evidence of an epoch is exact, strict order holds, and a
    pipeline, its source and its barriers always end.

## 2. Modules

| Module | Models |
|---|---|
| `StreamRuntime` | the continuous runtime of one stream generation: store, supervisor, API and workers together |
| `EpochLog` | the abstract delivery contract: deliver, certify what was delivered, acknowledge what was certified |
| `BoundedRun` | one bounded run under Kubernetes dispatch: intake, signals, dispatcher, workers, tracker, reaper |
| `Scheduler` | one pipeline with its schedule: replicas of the scheduler, the API that edits it, the intake they call |
| `Pipeline` | one pipeline of an execution: sources, channels, pools, errors, cancellation, barriers, epochs, and the tracker's view of its cursors |
| `MCStreamRuntime`, `MCBoundedRun`, `MCScheduler`, `MCPipeline` | small instances for TLC: symmetry, plans, deployments, shapes of a pipeline |
| `MCStreamSuccessors` | `StreamRuntime` with a history of accepted stops |
| `StreamRuntimeProofs` | proofs about `StreamRuntime` |
| `BoundedTypeProofs`, `BoundedRunProofs` | proofs about `BoundedRun`, the second extending the first |
| `SchedulerProofs` | proofs about `Scheduler` |
| `PipelineTypeProofs`, `PipelineBatchProofs`, `PipelineOrderProofs`, `PipelineProofs` | proofs about `Pipeline`, each extending the one before |

A definition whose comment begins with "A mutant" is a plausible mistake in the
definition after it.  `PROJECT.json` names, for every property, the mutant that
violates it; nothing else uses these definitions.

### StreamRuntime

A store transaction is one action, because each takes the pipeline lock
(`lockRuntime`).  A supervisor pass and an API signal are two actions each, the
load and the transaction issued on the loaded copy.  A worker takes one action
per call of the epoch loop, so that a crash, an expiry or another actor can come
between any two calls.

| State | Code |
|---|---|
| `curRun`, `desired`, `rev`, `memRev`, `pending`, `retired`, `lastEpoch` | row of `replication_streams` |
| `status`, `ended`, `born` | rows of `runs` |
| `latest`, `attRun`, `attRev`, `term`, `attReason`, `claimed`, `yielding`, `expired` | rows of `stream_attempts` |
| `certToken`, `certPos` | rows of `stream_epochs` |
| `cmd`, `api`, `jobs`, `outdated` | decisions in flight, dispatched Jobs, attempts of an older release |
| `pc`, `held`, `cause`, `stopping`, `yielded`, `hbFailed` | locals of `RunContinuous` and its heartbeat |
| `epoch`, `seenMem`, `sawPending`, `at`, `cov`, `activates` | locals of `runEpochs` |
| `durable`, `acked` | the destination and the source, outside the repository |

| Actions | Code |
|---|---|
| `QueueSuccessor`, `Activate`, `RetireGeneration` | `createRun` and what it calls |
| `SignalLoad`, `SignalSet`, `SignalConflict` | `signalContinuous`, `SetDesiredState` |
| `SupervisorLoad`, `StartAttempt`, `RetireUnclaimedAttempt`, `YieldAttempt`, `Dispatch`, `PauseExhausted`, `CommandRefused` | `reconcileRun`, `yieldStale` and the transactions they call |
| `Upgrade` | a control plane of a new release |
| `Claim`, `LoadState`, `RenewLoaded`, `Abandon` | `ExecuteContinuousAttempt`, `loadContinuousAttemptState` |
| `BindEpoch`, `Read`, `ReadIdle`, `SinkCommit`, `CommitEpoch`, `RenewCertified`, `Acknowledge`, `StepFails` | `runEpochs` |
| `Heartbeat`, `HeartbeatFails` | `startContinuousHeartbeat`, `Heartbeat` of streamkit |
| `Cleanup`, `EndAttempt`, `Exit` | the deferred clean-up, `finishContinuousAttempt`, death of the process |
| `Expire` | the database clock |

`settleStoppedStream` (sync the phase, finish the stopped run, promote a waiting
one) is the tail of every transaction that calls it, never an action.  Data is
abstracted: a position is a number per ordering domain, a row is a domain and a
position, a reason is one of the four classes the supervisor tells apart, time is
the set of expired leases.

### BoundedRun

Every process acts on a copy of the row, and each call to the store, the bus, the
sink or Kubernetes is a step of its own.  A fold of the tracker is three steps
(record as seen or flush, load, save), a signal three (load, compare-and-swap,
publish), a sweep of the reaper three (list, probe, kill).

| State | Code |
|---|---|
| `row` | row of `runs`: status, started and ended stamps, RequestedAt (`id`), whether it holds the request (`req`) |
| `cp` | row of `pipeline_resource_checkpoints` |
| `issued` | trigger times handed out; a trigger time names a Job |
| `client` | a call of `Submit` or `Signal` in progress |
| `inbox`, `queue` | the bus: triggers of the dispatcher, facts of the tracker |
| `trk`, `marked`, `acc` | the fold in progress, `run_dedup_seen`, the accumulated cursor |
| `job`, `spec`, `sig`, `ctl`, `start`, `pos` | a Job and the locals of `RunOne` and `runControl` |
| `reaper` | the sweep in progress |
| `plan`, `rows`, `sink`, `acked` | how the run reads, the source and the destination |
| `open`, `mixed`, `commits`, `undone` | history: executions under way, whether two ever were at once, executions that committed, whether a row was deleted |

| Actions | Code |
|---|---|
| `Schedule`, `CreateRun`, `SubmitAgain`, `DispatchRun`, `DispatchFails`, `DeleteRun` | `Schedule`, `Submit`, `dispatch` |
| `SignalLoad`, `SignalTransition`, `SignalConflict`, `SignalWorker`, `SignalPublish` | `Signal`, `TransitionRun`, `signalFact` |
| `Dispatch`, `Collect` | `onRunRequested`, TTL of a Job |
| `WorkerLoad`, `Prepare`, `Admit`, `AdmitFails` | worker `run`, `prepareRunExecution`, `admit` |
| `Control`, `Plan`, `Seed`, `SeedFails`, `Write`, `Seal`, `Commit`, `Complete`, `Acknowledge`, `Close` | `runControl`, `RunOne`, `resolveExtractor`, `acknowledgeDurableChanges` |
| `CommitPause`, `Stop`, `SetupStopped` | `finishControlled`, `emitControlledIfStopped` |
| `NoRequest`, `SetupFails`, `ReadFails`, `CommitFails`, `Crash`, `Heartbeat` | error paths of `RunOne`, the pod, the heartbeat |
| `Flush`, `Mark`, `Load`, `Save`, `TrackerFails` | `onFact`, `flushRunFor`, `mutate`, `foldCursor`, `evictRun` |
| `ReaperList`, `ReaperProbe`, `ReaperKill` | `reap`, `Workload`, `dead` |

Data is abstracted: the run has one resource with numbered rows, and a cursor is
the number of the last row read.  A plan chooses a full read, an incremental read
or a change stream, when the sink is durable, and whether finished Jobs are
collected.  The dispatcher's load and its creation of the Job are one step,
because the worker checks the row again.  One tracker is modelled: the chart
recommends one control plane replica (`charts/filament/README.md:13`), and its
subscription holds one fact in flight.  A fold is assumed to end before the bus
delivers its fact again.

`issued` numbers the times a process reads.  A trigger carries the time with its
nanoseconds and the row keeps its microseconds, so `CreateRun` leaves the row
with the identifier of the trigger or with another one: a later resubmission may
then start a second Job beside the first.  `DeleteRun` takes with the row what
refers to it (`ON DELETE CASCADE`): the facts recorded as seen, and the route
checkpoint the run wrote.  Without a row an incremental execution cannot seed its
checkpoint (`SeedFails`), and a fact that is not terminal cannot be recorded as
seen (`Mark`): it is delivered again until there is a row.  A terminal fact needs
no record, and a fact that was recorded before the deletion is applied after it;
these two create the row again, without a request.

Two properties have a condition, and both conditions are real limits of the code:

* `CheckpointCovered` holds while no two executions of the run overlap (`mixed`);
  what happens when they do is the finding `cursor_after_commit`.
* `AckedIsPromoted` holds while no row of the run was deleted (`undone`): a
  deletion after a failed publication takes the checkpoint with it, although the
  source may have been released up to it.

### Scheduler

A replica takes one step per call of a tick over a due schedule, and so does a
client of the API.  Both carry a copy of the schedule between their calls.

| State | Code |
|---|---|
| `clock` | the number of occurrences that have come due |
| `sched` | row of `schedules`: enabled, next fire, lease |
| `deleted`, `version` | row of `pipelines` as committed: deleted or not, the latest version |
| `tx` | the open transaction of `DeletePipeline`: its last statement, whether it holds the row of the schedule, the runs it has deleted |
| `rows`, `pinned` | the status of each run, named by occurrence and route, and the version it was compiled from |
| `triggers`, `executing` | stored `run.requested` facts and workers |
| `act` | the tick or the call in progress, with its copy of the schedule, the compiled version, the routes still to do and the runs it has listed |
| `setup` | the deployment: replicas, routes, overlap policy and how many updates, versions, deletions and faults occur |
| `created`, `lost`, `wanted` | history: requests per run, requested runs whose row was deleted, the last accepted update |

| Actions | Code |
|---|---|
| `ClaimDue`, `CheckOverlap`, `Advance`, `Save`, `Release` | `ClaimDueSchedules`, `runDue`, `hasActiveRuns`, `advance`, `ReleaseScheduleClaim` |
| `SaveSchedule` | `SaveSchedule`, as the test of its snapshot (`ToSave`) and the write |
| `Compile`, `CreateRun`, `CreateConflict`, `CreateFails`, `Dispatch`, `DispatchFails`, `Undo` | `loadRunnable`, `fire`, `Submit`, `createRun`, `DeleteRun` |
| `LoadSchedule`, `ListScheduled`, `DropScheduled`, `DropDone`, `Precreate`, `ReconcileDone`, `Interrupted` | `ReconcileScheduled`, `DropScheduled` |
| `UpdateSchedule`, `NewVersion` | `UpdatePipelineSchedule`, `CreatePipelineVersion` |
| `DeletePipeline`, `DeleteSchedules`, `DeleteScheduledRuns`, `Commit`, `Rollback` | the statements of `DeletePipeline` |
| `Start`, `Finish`, `ComeDue`, `Expire` | workers, the clock, `ScheduleLeaseTTL` |

Occurrences are numbered, so `NextFire(t)` is `t + 1`; cron expressions and time
zones are data.

Transactions run at READ COMMITTED, the default of Postgres.  A statement sees
what is committed when it begins and waits for rows that another transaction has
locked.  So the deletion of a pipeline is four steps that may stop between any
two, and while it holds the row of the schedule a save, a release and every write
of a run that names the schedule wait for it; when it commits, such a run fails
its foreign key.  A save tests the pipeline in its snapshot and writes later.  The
index over active runs admits one run per route and pinned version (`Fenced`).  A
deleted pipeline does not compile, so its schedule, if there is one, is claimed
and released without a run.

`DropScheduled` of the code lists scheduled runs and then deletes them by
identifier, without looking at their status again: a run that is fired in between
loses its row.  So does one whose publication failed and is undone although the
trigger was stored.  The history variable `lost` records both, and `NoOverlap` and
`OncePerOccurrence` hold up to it.  `NoOverlap` is stated for one replica, the
number the chart recommends: with two, an update of the API drops the lease of a
tick in progress and a second tick may pass the overlap check beside the first.
The index then stops a second run of the same route and version, and nothing stops
one of another.  `infra.go:316` promises only that one occurrence is not fired
twice, which holds for any number of replicas.

`DueIsServed` names the two cases in which a due occurrence is neither fired nor
skipped: its pipeline is deleted, and a run without a trigger (`Stranded`) keeps
its route and version for ever.

### Pipeline

Every goroutine takes one step per channel operation: the source of each part,
the transformers, the writers, the timer, `CloseIngest` and `Wait`, and the
producer of a stream with its barriers.

| State | Code |
|---|---|
| `outer`, `canceled`, `done`, `err` | the caller's context, the pipeline's own, the done channel, `errVal` |
| `ch`, `xf`, `wr` | both channels, and what each transformer and writer holds |
| `ingest`, `clean`, `src`, `bld`, `asked` | where `CloseIngest` and `Wait` are, the sources, the builders with their open chunk, and which of them the timer asked to flush |
| `ep`, `bar` | the inlet of a stream: the epoch with its rows of each resource, its open transactions, the barrier in progress |
| `written`, `prog` | rows the sink has applied, the cursor the tracker holds for each part |
| `order`, `evidence`, `dropped`, `marked` | history |

| Actions | Code |
|---|---|
| `Row`, `Flush`, `Drain`, `SourceEnds`, `Send`, `SendRefused`, `Tick` | builders and inlets (`arrowbatch/builder.go`, `inlet.go`), the flush timer |
| `CloseIngest`, `CloseFlush`, `CloseChannel`, `Wait`, `Cancel`, `CloseDone` | `pipeline.go` |
| `TakeTransform`, `TransformFails`, `Forward`, `ForwardRefused`, `ExitTransformer` | `transform.go` |
| `TakeBatch`, `Write`, `WriteFails`, `ExitWriter`, `Fold` | `writer.go`, `stream_writer.go`, `foldCursor` of the tracker |
| `BindEpoch`, `SealEpoch`, `Misuse`, `Barrier`, `BarrierFlush`, `BarrierQueue`, `BarrierFails`, `BarrierCanceled`, `BarrierReturns` | `epoch.go`, `control.go`, `barrier.go` |

A context and a done channel are whether they are closed, and a Go `select` is a
choice between its enabled arms.  A resource has one part, and the values of its
columns are left out.  The shapes of `SetupsAssumption` are those the runner
builds: reads that save keys have one writer (`runner/runner.go:193`), so have
streams (`NewStream` in `control.go`), and a strict stream carries no transform
(`newContinuousPipeline` in `runner/continuous.go` passes none).  `CursorCovered` and `SuccessIsComplete` carry one exception, rows
that a transformer gives up after a cancellation (`dropped`): that is the finding
`completion_follows_data`.  A control that the inlet refuses fails the stream
(`Misuse`), as `in.fail` does.  `SetErr` records the error, closes `done` and
cancels in one step, where `setErr` does the three in this order.  A goroutine that
runs between them finds arms of a `select` not yet enabled, as if it had run
earlier; that an error implies `done` and `done` a canceled context holds at this
grain only.  The writer of a stream turns a canceled context into
an error, so a batch lost there never yields the receipt of a barrier.

## 3. Runs

| Run | Instance | Shows |
|---|---|---|
| `stream_safety` | 3 runs, 2 workers, 2 attempts, 3 revisions, 2 epochs, 1 position | ownership, agreement of the rows, final states, what an expiry may not do; certified rows are durable, acknowledgements certified, the chain of epochs, refinement of `EpochLog` |
| `stream_liveness` | 2 runs, 1 worker, 2 attempts, one release change, with fairness | a stop drains, a waiting run takes over |
| `run_control` | full read, 2 executions, a resubmission or a cancel or a heartbeat, one fault, with fairness | running rows are owned, completed rows committed, cancels obeyed, a running run ends, a stored trigger is served |
| `run_checkpoints` | incremental read into a sink durable at Apply, change stream into one durable at Commit; 3 executions, a pause and a resume, or a resume and a fault | the checkpoint stays behind the sink, the acknowledgement behind the checkpoint |
| `schedules` | eleven deployments: two updates; one and two faults, with one and two routes; a new version, with and without `skip`; one and two deletions beside updates or a fault; two replicas with a fault | no overlap, one request per occurrence and route, no scheduled run without its schedule, what is due is served |
| `pipelines` | eight pipelines: keyset reads with none, some and all resources transformed, whole-table reads with one and two writers, a strict stream, a stream with a transform; with failures and cancellation | cursors covered, success complete, evidence exact, strict order, everything ends |
| `stop_keeps_successor` | violation | a stop accepted while a successor waits leaves it waiting |
| `canceled_is_final` | violation | a late `run.started` revives a canceled run |
| `cursor_after_commit` | violation | overlapping executions share the tracker's cursor |
| `pause_holds` | violation | the scheduler's save overwrites a pause |
| `stranded_is_repaired` | violation, under fairness | a run without a trigger makes the scheduler skip its repair, for ever |
| `completion_follows_data` | violation | after a cancellation a part is announced as complete without its rows |

**Bounds of the stream runs.**  Two attempts are the least that allow a takeover,
with a late worker on either side of it; three runs are the least that allow a
successor to be replaced; two epochs are the least that allow a gap or a fork.
Revisions bound the number of requests.  Regressions of a position need two
positions and are left to the proof, which has no bounds at all.  The liveness
run has one worker and reads no rows: progress does not depend on positions, and
a second worker adds only claims that are refused.  Deadlock is not checked: once
every run has ended, or the stream is blocked, the system may stop.

**Bounds of the bounded runs.**  Two executions are the least that overlap or
that follow one another; `run_checkpoints` allows a third identifier, since a
submission may use up two.  One row is the least that may be lost, and two queued
facts the least that let a fact lag behind another (`run_checkpoints` holds one
fact in the queue and one in the fold).  One fault of any kind (a crash, a failed
or half-successful call, a lost message or acknowledgement) may strike at every
step.  The proofs cover any number of executions, rows, facts and faults.
Deadlock is not checked: a run that has ended stays as it is.

**Bounds of the schedules and pipelines.**  Two occurrences are the least that
overlap, two routes the least that let a fire stop half way, two faults the least
that let a publication and its compensating deletion both fail, and two deletions
the least that let one follow a save that brought the schedule back.  A chunk holds two
rows, so a part ends with a full or with an open chunk; a channel has one slot per
writer where the code has two, which blocks senders sooner and hides nothing,
since a slot only delays; two barriers and two epochs let one follow another.

**Fairness.**  The supervisor scans on a timer, the heartbeat beats every second,
each call of a worker is bounded by `MaxWait` or by the drain timeout, and an
accepted API request finishes: these actions are weakly fair.  Nothing is assumed
about submissions, signals, failures, expiry or a dispatched Job being claimed.
For bounded runs the tracker and the reaper are weakly fair, and so are the
dispatcher and the worker of each execution: both are handed work by a durable
subscription or by Kubernetes.  Clients, commands, heartbeats and faults are not.
A scheduler ticks on a timer and goes on with its tick, calls return, an open
transaction goes on or is rolled back, triggers are served and runs end, and a lease runs out.  In a pipeline runnable goroutines run,
`Apply` returns, and a source reads on or returns; a stream session returns once
its pipeline failed or its run was canceled.

**Blocked.**  An attempt that was claimed and did not end cleanly blocks its
stream until an operator intervenes.  The code does this on purpose (comment at
`stream_attempts.go:16`), so both liveness properties hold up to it.

## 4. Findings

Each is a run whose property states what a document or a comment says; the
counterexample of TLC is what the code does.

* `stop_keeps_successor`: `docs/pages/guides/concepts/streaming.mdx:161` promises
  that a stop cancels a waiting successor.  `signalContinuous` skips
  `SetDesiredState` when the intent is already `stopped`, which is always the case
  while a successor waits.
* `canceled_is_final`: `docs/pages/guides/concepts/runs-and-recovery.mdx:26` calls
  `canceled` terminal.  A cancel of a requested run tells no worker; if one has
  already published `run.started`, its fold sets the row to `running` again
  (`tracker.go:211`).
* `cursor_after_commit`: `docs/pages/guides/concepts/integrity-and-checkpoints.mdx:95`
  says that commit-gated progress is not saved before its commit.  Cursors
  accumulate per run, so the completion of one execution promotes what an
  overlapping one has not committed.
* `pause_holds`: `docs/pages/api-reference/service/pipelines.mdx:140` calls an
  update with `is_enabled: false` a pause.  `runDue` saves the whole row from the
  copy it claimed, so a pause stored in between is lost.
* `stranded_is_repaired`: `internal/runs/runs.go:64` says that a requested run
  without a start is repaired by publishing its trigger again.  Under `skip` the
  retry of the occurrence finds its own run active and advances instead, and so
  does every later occurrence.
* `completion_follows_data`: `pipeline/inlet.go:135` says that a part's completion
  never overtakes its data.  After a cancellation `transformBatch` may release a
  batch on the `done` arm of its select and pass the marker behind it on the other.

Seen while modelling, without a run of its own: the comment on `mutate`
(`tracker.go:706`) says that what a fact does not touch is preserved, but
`SaveRun` is unconditional and overwrites a signal stored between load and save; a
second successor of a stream leaves the first one waiting, because
`cancelStreamSuccessor` looks only at the newest row; a fire that fails after some
of its routes loses the others under `skip`; the comment on `SaveSchedule`
(`datastore/postgres/queries/schedules.sql:1`) says that a save racing the deletion
of its pipeline cannot insert the schedule again, but the save tests the pipeline
in its snapshot, waits for the deletion to commit and then inserts the row
(`~deleted \/ ~sched.exists` fails in `Scheduler`).  The row that is left fires
nothing, because a deleted pipeline does not compile, and a second deletion
removes it.

## 5. Proofs

All theorems hold for every value of the constants, from the named assumptions of
the module they are about (`RunsAssumption` and `BoundsAssumption`;
`RunBoundsAssumption` and `PlansAssumption`; `SchedulerAssumption`;
`SetupsAssumption` and `BoundsAssumption` of `Pipeline`).  Each proof
has the same plan: an invariant that is inductive, one lemma per group of actions
and conjunct, and theorems that follow from it.  TLC finds the
inductive invariants (`DeliveryInv`, `PhaseInv`, `RunInv`, `SchedulerInv` and
`PipelineInv`) true on the instances of the `stream_safety`, `run_control`,
`run_checkpoints`, `schedules` and `pipelines` runs as well.

**StreamRuntime.**  `StreamRuntimeProofs`: `DeliveryInvariant`, and from it
`TypeCorrect`, `OneOwner`, `ChainHolds`, `CertifiedDurably`, `AcknowledgedLast` and
`RuntimeImplementsLog` (`Spec => ImplementsEpochLog`); then
`PhaseInvariant`, and from it `StatusAgrees`, `CompletedQuietly`, `EndedForGood`,
`StopForGood` and `ExpiryIsNoProof`.

* `SingleOwner` needs `OwnershipInv`: only the latest attempt may be open, and a
  worker that has not exited holds it, claimed, alone.  This is kept because
  `StartAttempt` asks for a clean predecessor, `EndAttempt` asks for the holder,
  and retiring asks for an unclaimed attempt.
* The delivery properties need the workers in step with the store: until it
  certifies, a worker's position and epoch number are those of the store, because
  nobody else can move them while it holds the attempt; after that its coverage
  accounts for the difference.
* `CommandInv` keeps stale commands from naming attempts that never existed.
* `PhaseAgrees` needs `RunInv` and `QuietInv`: the current run has left the queue,
  the ended runs are those with a final status, they were told to stop, and the
  attempts of a completed run ended cleanly.

**BoundedRun.**  `BoundedTypeProofs`: `TypeCorrect`.  `BoundedRunProofs`:
`RunInvariant`, and from it `CheckpointNeverAhead`, `AcknowledgedIsPromoted`,
`RunningHasOwner`, `CompletedWasCommitted` and `CanceledNeverCommits`.

* `SealInv`: a handle sealed for a commit holds no command.
* `CommitInv`: whatever says completed (a worker, a fact, the copy of a fold, the
  row) was preceded by a commit.
* `OwnerInv`: whatever says running has an open execution behind it, or a terminal
  fact that is still to be folded.  The row alone is not enough, because a fold
  works on a copy and facts wait in the queue.
* `CoverInv`: the core.  A cursor is *pending* when no terminal fact follows it in
  the queue, *promised* when the next one promotes it.  While executions do not
  mix, promised cursors are covered by the sink, and pending ones belong to the
  execution that is open, whose position they do not pass.  A commit covers that
  position before the fact that makes the promise is published.
* `ReqInv` and `AckInv`: unless a row was deleted, an inserted row and every copy
  of it hold the request, so the tracker compares each cursor of a change stream
  with the stored checkpoint and never sets it back.

**Scheduler.**  `SchedulerProofs`: `SchedulerInvariant`, and from it
`SchedulerTypes`, `FiredOnce`, `ReapComplete` and `SkipNeverOverlaps`.

* `ActInv`: who may be at which step of a tick, and for which occurrence.
* `RequestInv`: a run that was requested and not lost has a row that `CreateRun`
  refuses, whatever copies of the schedule are about.
* `ReapInv`: a scheduled run has its schedule, what an open deletion has deleted is
  scheduled, and once it has reaped, with the schedule locked, every scheduled run
  is among what it deletes.  The last part is why its commit leaves none: a run
  inserted later would have waited for the lock (`Free`).
* `OverlapInv`: under `skip` with one replica, the runs under way are those of the
  occurrence that is being fired or was fired last.

**Pipeline.**  `PipelineProofs`: `PipelineInvariant`, and from it `PipelineTypeOK`,
`PipelineCursorCovered`, `PipelineSuccessIsComplete`, `PipelineEvidenceIsExact` and
`PipelineStrictOrder`, for any number of parts, writers, rows, barriers and epochs,
any chunk size and any depth of the channels.  A batch is *in flight* from the
moment its builder hands it out until it is written or given up; the lemma
`FlowStep` says that every step keeps the batches in flight, adds one, writes one,
or loses one with an error or to a transformer that saw `done`.

* `SourceInv`, `DrainInv`, `GoneInv`, `RouteInv`: a source that holds a chunk has an
  empty builder, `CloseIngest` closes the channel behind the last chunk, a reader
  exits on a closed and empty channel, and only planned batches meet a transformer.
* `ItemInv`: the rows in flight and the rows written are disjoint and below what
  the builder has handed out.
* `ApartInv`: batches of one part do not overlap; with one writer they stand in
  line from the source through the channels and pools to the writer.  Neither
  channel alone keeps this, since a batch goes through one channel or through both.
* `CoverInv`: without an error every row that was handed out is written or in
  flight, so a pipeline that drains without an error is complete.
* `FrontInv`, `KeyInv`: what stands before the batch of the only writer is written,
  so the key of that batch covers written rows only.
* `CountInv`: a coarse cursor counts the rows written, each once because batches
  are disjoint, and knows the total of a part from its marker only.
* `FenceInv`, `SettledInv`, `EpochInv`: the control of a barrier is the last of what
  is in flight, so its receipt means that every row is written, and this stays so
  until the next row; the rows of the open epoch and of the sealed ones add up to
  the rows written.
* `OrderInv`: rows of a strict stream are written, in the hands of the writer,
  queued, sent and collected in the order they were appended.  It needs the chunk
  of the previous resource to be sent when `beforeWrite` sees the next one.

**Only model-checked.**  The liveness properties (`StopDrains`, `HandoverHappens`,
`RunningEnds`, `RequestedIsServed`, `DueIsServed`, `PipelineEnds`, `BarrierEnds`):
fairness and ENABLED are beyond the prover.

## 6. Not modelled

* The event bus.  `BoundedRun` and `Scheduler` take the contract of the durable
  bus: at least once, in order per run, a publication that failed may have been
  stored.  The in-process bus of the single-process command drops a message after
  sixteen failed deliveries; no model says what that loses.
* The retry policy of the supervisor.  `StreamRuntime` lets it retry, wait or give
  up at every turn, so safety holds for every policy.
* Of the bounded half: full reads that resume within a run, replayed artifacts,
  bitmap cursors, several resources in one run, several tracker replicas, and the
  in-process engine, which executes the same `RunOne`.
* The encodings of checkpoints, certificates and messages, their size limits, the
  layout of shards and the backfill window of a change stream: formats and data
  without shared state.
* The SQLite store, which mirrors the Postgres contract for bounded runs in one
  process.
* Connectors, transforms, schema policy, compiler, cron arithmetic, identity,
  secrets, notifier, UI and the CRUD part of the API: translation of data or calls
  to outside systems without a protocol of their own.  Kubernetes is modelled by
  its effect, a dispatch that may be served late, twice or never.
* `SetStreamResourceError` and totals, which do not influence control.
