----------------------------- MODULE BoundedRun -----------------------------
(***************************************************************************)
(* One bounded run under Kubernetes dispatch: intake (internal/runs),      *)
(* signals of the API, the dispatcher and its Jobs, the worker (runner),   *)
(* the tracker that folds facts into the row of the run, and the reaper.   *)
(*                                                                         *)
(* Simplifications.  The run has one resource whose rows are numbered; a   *)
(* cursor is the number of the last row read.  An execution identifier (the *)
(* time in the trigger, which names the Job) is a number.  The bus is the  *)
(* queue of facts the tracker has not yet acknowledged and the set of      *)
(* triggers the dispatcher has not; facts nobody folds are left out.       *)
(* A heartbeat stands for every fact whose fold leaves the status alone.   *)
(* Every process acts on a copy of the row that others may have changed.   *)
(***************************************************************************)
EXTENDS Integers, Sequences, FiniteSets

CONSTANTS
  Clients,        \* callers of Submit, Schedule and Signal
  Plans,          \* the plans and deployments a run may have
  MaxExecutions,  \* bound on execution identifiers
  MaxRows,        \* bound on the rows of the source
  MaxQueue,       \* bound on unfolded facts
  Budgets         \* bounds on what a history may hold of each event that could happen for ever

ASSUME PlansAssumption ==
  Plans \subseteq [mode : {"full", "incremental", "cdc"}, afterCommit : BOOLEAN, jobsExpire : BOOLEAN]
ASSUME RunBoundsAssumption ==
  /\ {MaxExecutions, MaxRows, MaxQueue} \subseteq Nat
  /\ Budgets \subseteq [{"submit", "pause", "resume", "cancel", "beat", "fault"} -> Nat]

VARIABLES
  row,       \* the row of the run: status, stamps, RequestedAt, whether it holds the request
  cp,        \* the route checkpoint
  issued,    \* execution identifiers in use
  undone,    \* history: a row of the run was deleted
  client,    \* requests in progress
  inbox,     \* triggers the dispatcher has not acknowledged
  queue,     \* facts the tracker has not acknowledged, oldest first
  trk,       \* what the tracker is doing with the oldest fact, and its copy of the row
  marked,    \* the oldest fact is already recorded in run_dedup_seen
  acc,       \* the cursor the tracker has accumulated in memory
  job,       \* where each Job is
  spec,      \* whether each worker loaded a row that held the request
  sig,       \* the control handle of each worker
  ctl,       \* control messages on their way to each worker
  start,     \* where each worker began to read
  pos,       \* the last row each worker has written
  reaper,    \* what the reaper has found out in this sweep
  plan,      \* how the run reads its resource, whether rows are durable at Commit or already
             \* at Apply, and whether TTLSecondsAfterFinished is set; it never changes
  rows,      \* rows in the source
  sink,      \* rows durable at the destination
  acked,     \* the position acknowledged to the source
  budget,    \* repeated submissions, signals, heartbeats and faults still to come
  open,      \* history: executions whose run.started is published and whose end is not
  mixed,     \* history: an execution began while another was open
  commits    \* history: executions that committed the sink

storeVars == <<row, cp, issued, undone>>
busVars == <<inbox, queue>>
trackerVars == <<trk, marked, acc>>
jobVars == <<job, spec, sig, ctl, start, pos>>
outsideVars == <<plan, rows, sink, acked>>
historyVars == <<open, mixed, commits>>
vars == <<storeVars, client, busVars, trackerVars, jobVars, reaper, outsideVars, budget, historyVars>>

-----------------------------------------------------------------------------
(* Types *)

Executions == 1..MaxExecutions
Positions == 0..MaxRows
NoCursor == -1
Statuses == {"absent", "scheduled", "requested", "running", "paused", "partial",
             "completed", "failed", "canceled"}
Rows == [status : Statuses, started : BOOLEAN, ended : BOOLEAN, id : 0..MaxExecutions, req : BOOLEAN]
NoRow == [status |-> "absent", started |-> FALSE, ended |-> FALSE, id |-> 0, req |-> FALSE]
TerminalFacts == {"completed", "failed", "partial", "canceled", "paused", "pausedAtCommit"}
Facts == [name : {"started", "beat", "batch"} \cup TerminalFacts, pos : Positions]
Fact(name) == [name |-> name, pos |-> 0]
Signals == {"pause", "resume", "cancel"}
Idle == [pc |-> "idle", sig |-> "pause", seen |-> "absent", id |-> 0]
NoFold == [pc |-> "idle", copy |-> NoRow]
ClientPCs == {"idle", "dispatch", "redispatch", "undo", "transition", "publish"}

\* The control handle of a worker is sealed from "sealed" and "stopping" on.
Listening == {"prepared", "admitted", "planned", "reading"}
Active == Listening \cup {"created", "loaded", "sealed", "stopping", "pausing", "committed", "acking", "closing"}
Beating == Active \ {"created"}
JobPCs == Active \cup {"none", "finished"}

Calls == [pc : ClientPCs, sig : Signals, seen : Statuses, id : 0..MaxExecutions]
Events == {"submit", "pause", "resume", "cancel", "beat", "fault"}

StoreType == row \in Rows /\ cp \in Positions /\ issued \in 0..MaxExecutions /\ undone \in BOOLEAN
ClientType == client \in [Clients -> Calls] /\ budget \in [Events -> Nat]
BusType == inbox \subseteq Executions /\ queue \in Seq(Facts) /\ Len(queue) <= MaxQueue
TrackerType ==
  /\ trk \in [pc : {"idle", "apply", "save"}, copy : Rows] /\ marked \in BOOLEAN
  /\ acc \in Positions \cup {NoCursor}
JobType ==
  /\ job \in [Executions -> JobPCs] /\ spec \in [Executions -> BOOLEAN]
  /\ sig \in [Executions -> {"none", "pause", "cancel"}]
  /\ ctl \in [Executions -> SUBSET {"pause", "cancel"}]
  /\ start \in [Executions -> Positions] /\ pos \in [Executions -> Positions]
OutsideType ==
  /\ reaper \in {"idle", "running", "requested", "dead"}
  /\ plan \in Plans /\ rows \in Positions /\ sink \subseteq 1..MaxRows /\ acked \in Positions
HistoryType == open \subseteq Executions /\ mixed \in BOOLEAN /\ commits \subseteq Executions

\* Rows, calls, facts and the locals of workers and tracker keep the shape the
\* schema and the code give them.
TypeOK ==
  StoreType /\ ClientType /\ BusType /\ TrackerType /\ JobType /\ OutsideType /\ HistoryType

Init ==
  /\ row = NoRow /\ cp = 0 /\ issued = 0 /\ undone = FALSE
  /\ client = [c \in Clients |-> Idle]
  /\ inbox = {} /\ queue = <<>>
  /\ trk = NoFold /\ marked = FALSE /\ acc = NoCursor
  /\ job = [e \in Executions |-> "none"] /\ spec = [e \in Executions |-> FALSE]
  /\ sig = [e \in Executions |-> "none"] /\ ctl = [e \in Executions |-> {}]
  /\ start = [e \in Executions |-> 0] /\ pos = [e \in Executions |-> 0]
  /\ reaper = "idle"
  /\ plan \in Plans /\ rows = 0 /\ sink = {} /\ acked = 0
  /\ budget \in Budgets
  /\ open = {} /\ mixed = FALSE /\ commits = {}

Mode == plan.mode
AfterCommit == plan.afterCommit

Spend(event) == budget[event] > 0 /\ budget' = [budget EXCEPT ![event] = @ - 1]

\* A crash, a failed call or a lost message.
Fault == Spend("fault")

Publish(f) == Len(queue) < MaxQueue /\ queue' = Append(queue, f)

-----------------------------------------------------------------------------
(* Intake: Submit and Schedule *)

ClientStep == UNCHANGED <<cp, undone, trackerVars, jobVars, reaper, outsideVars, historyVars>>

Schedule(c) ==
  /\ client[c] = Idle
  /\ row.status = "absent"
  /\ row' = [NoRow EXCEPT !.status = "scheduled", !.req = TRUE]
  /\ UNCHANGED <<issued, client, busVars, budget>> /\ ClientStep

\* CreateRun inserts the row or promotes a scheduled one.  The trigger carries the
\* time the process read, the row what its microsecond column keeps of it: another
\* identifier, unless the reading had no finer part.
CreateRun(c) ==
  /\ client[c] = Idle
  /\ row.status \in {"absent", "scheduled"}
  /\ issued' \in {issued + 1, issued + 2} /\ issued' <= MaxExecutions
  /\ row' = [NoRow EXCEPT !.status = "requested", !.id = issued', !.req = TRUE]
  /\ client' = [client EXCEPT ![c] = [Idle EXCEPT !.pc = "dispatch", !.id = issued + 1]]
  /\ UNCHANGED <<busVars, budget>> /\ ClientStep

\* A repeated Submit finds the row; one that shows no start is dispatched again
\* under the time the row keeps, or now when it has none.
SubmitAgain(c) ==
  /\ client[c] = Idle
  /\ row.status = "requested" /\ ~row.started
  /\ issued' = IF row.id = 0 THEN issued + 1 ELSE issued
  /\ issued' <= MaxExecutions
  /\ Spend("submit")
  /\ client' = [client EXCEPT ![c] =
       [Idle EXCEPT !.pc = "redispatch", !.id = IF row.id = 0 THEN issued + 1 ELSE row.id]]
  /\ UNCHANGED <<row, busVars>> /\ ClientStep

DispatchRun(c) ==
  /\ client[c].pc \in {"dispatch", "redispatch"}
  /\ inbox' = inbox \cup {client[c].id}
  /\ client' = [client EXCEPT ![c] = Idle]
  /\ UNCHANGED <<row, issued, queue, budget>> /\ ClientStep

\* The publication fails, though the broker may have stored the trigger.
DispatchFails(c) ==
  /\ client[c].pc \in {"dispatch", "redispatch"}
  /\ Fault
  /\ inbox' \in {inbox, inbox \cup {client[c].id}}
  /\ client' = [client EXCEPT ![c] = IF @.pc = "dispatch" THEN [@ EXCEPT !.pc = "undo"] ELSE Idle]
  /\ UNCHANGED <<row, issued, queue>> /\ ClientStep

\* What refers to the row goes with it: the record of facts seen, and the route
\* checkpoint the run wrote.
DeleteRun(c) ==
  /\ client[c].pc = "undo"
  /\ row' = NoRow /\ undone' = TRUE
  /\ marked' = FALSE /\ cp' = 0
  /\ client' = [client EXCEPT ![c] = Idle]
  /\ UNCHANGED <<issued, busVars, budget, trk, acc, jobVars, reaper, outsideVars, historyVars>>

\* The caller's process dies, or the next call of its request fails.
ClientDies(c) ==
  /\ client[c] # Idle
  /\ Fault
  /\ client' = [client EXCEPT ![c] = Idle]
  /\ UNCHANGED <<row, issued, busVars>> /\ ClientStep

-----------------------------------------------------------------------------
(* Signals *)

From == [pause |-> {"requested"}, resume |-> {"paused", "partial"},
         cancel |-> {"requested", "paused", "partial"}]
To == [pause |-> "paused", resume |-> "requested", cancel |-> "canceled"]

\* Commands that are only published: to the worker, or to repair a dispatch.
PublishOnly == {<<"pause", "running">>, <<"cancel", "running">>, <<"resume", "requested">>}

SignalLoad(c, s) ==
  /\ client[c] = Idle
  /\ row.status \in From[s] \/ <<s, row.status>> \in PublishOnly
  /\ client' = [client EXCEPT ![c] =
       [pc |-> IF row.status \in From[s] THEN "transition" ELSE "publish",
        sig |-> s, seen |-> row.status, id |-> 0]]
  /\ Spend(s)
  /\ UNCHANGED <<row, issued, busVars>> /\ ClientStep

\* TransitionRun compares the current status with the ones the command starts
\* from; a resume clears the stamps and sets a new RequestedAt.
SignalTransition(c) ==
  LET s == client[c].sig IN
  /\ client[c].pc = "transition"
  /\ row.status \in From[s]
  /\ IF s = "resume"
       THEN /\ issued < MaxExecutions
            /\ issued' = issued + 1
            /\ row' = [row EXCEPT !.status = To[s], !.started = FALSE, !.ended = FALSE, !.id = issued + 1]
       ELSE /\ row' = [row EXCEPT !.status = To[s], !.ended = @ \/ s = "cancel"]
            /\ UNCHANGED issued
  /\ client' = [client EXCEPT ![c].pc = "publish"]
  /\ UNCHANGED <<busVars, budget>> /\ ClientStep

SignalConflict(c) ==
  /\ client[c].pc = "transition"
  /\ row.status \notin From[client[c].sig]
  /\ client' = [client EXCEPT ![c] = Idle]
  /\ UNCHANGED <<row, issued, busVars, budget>> /\ ClientStep

\* signalFact: a command for the worker reaches every open subscription.
SignalWorker(c) ==
  /\ client[c].pc = "publish" /\ client[c].seen = "running"
  /\ ctl' = [e \in Executions |-> IF job[e] \in Listening THEN ctl[e] \cup {client[c].sig} ELSE ctl[e]]
  /\ client' = [client EXCEPT ![c] = Idle]
  /\ UNCHANGED <<storeVars, busVars, budget, trackerVars, job, spec, sig, start, pos, reaper, outsideVars, historyVars>>

SignalPublish(c) ==
  LET s == client[c].sig IN
  /\ client[c].pc = "publish" /\ client[c].seen # "running"
  /\ IF s = "resume"
       THEN /\ issued < MaxExecutions
            /\ issued' = issued + 1
            /\ inbox' = inbox \cup {issued + 1}
            /\ UNCHANGED queue
       ELSE /\ Publish(Fact(To[s]))
            /\ UNCHANGED <<issued, inbox>>
  /\ client' = [client EXCEPT ![c] = Idle]
  /\ UNCHANGED <<row, budget>> /\ ClientStep

Request(c) ==
  \/ Schedule(c) \/ CreateRun(c) \/ SubmitAgain(c)
  \/ DispatchRun(c) \/ DispatchFails(c) \/ DeleteRun(c) \/ ClientDies(c)
  \/ \E s \in Signals : SignalLoad(c, s)
  \/ SignalTransition(c) \/ SignalConflict(c) \/ SignalWorker(c) \/ SignalPublish(c)

-----------------------------------------------------------------------------
(* Dispatch and admission of an execution *)

ShouldRun == row.status \in {"requested", "partial"}

\* A mutant: the trigger is acknowledged although the Job could not be created.
DispatchAcksError(e) ==
  /\ e \in inbox
  /\ inbox' = inbox \ {e}
  /\ \/ job' = [job EXCEPT ![e] = IF ShouldRun /\ @ = "none" THEN "created" ELSE @] /\ UNCHANGED budget
     \/ Fault /\ UNCHANGED job
  /\ UNCHANGED <<storeVars, client, queue, trackerVars, spec, sig, ctl, start, pos, reaper, outsideVars, historyVars>>

\* A Job is named after its trigger: creating it again succeeds and changes
\* nothing.  A trigger whose acknowledgement is lost is delivered again.
Dispatch(e) ==
  /\ e \in inbox
  /\ job' = [job EXCEPT ![e] = IF ShouldRun /\ @ = "none" THEN "created" ELSE @]
  /\ \/ inbox' = inbox \ {e} /\ UNCHANGED budget
     \/ Fault /\ UNCHANGED inbox
  /\ UNCHANGED <<storeVars, client, queue, trackerVars, spec, sig, ctl, start, pos, reaper, outsideVars, historyVars>>

\* Kubernetes deletes a finished Job some time after its end.
Collect(e) ==
  /\ plan.jobsExpire
  /\ job[e] = "finished"
  /\ job' = [job EXCEPT ![e] = "none"]
  /\ UNCHANGED <<storeVars, client, busVars, trackerVars, spec, sig, ctl, start, pos, reaper, outsideVars, budget, historyVars>>

Goto(e, p) == job' = [job EXCEPT ![e] = p]

\* The worker's process is gone and its memory with it.
Gone(e, p) ==
  /\ Goto(e, p)
  /\ spec' = [spec EXCEPT ![e] = FALSE]
  /\ sig' = [sig EXCEPT ![e] = "none"] /\ ctl' = [ctl EXCEPT ![e] = {}]
  /\ start' = [start EXCEPT ![e] = 0] /\ pos' = [pos EXCEPT ![e] = 0]

\* The worker loads the row again before it runs; a missing row is an error.
WorkerLoad(e) ==
  /\ job[e] = "created"
  /\ Goto(e, IF ShouldRun THEN "loaded" ELSE "finished")
  /\ spec' = [spec EXCEPT ![e] = ShouldRun /\ row.req]
  /\ UNCHANGED <<storeVars, client, busVars, trackerVars, sig, ctl, start, pos, reaper, outsideVars, budget, historyVars>>

\* prepareRunExecution subscribes to the commands of the run.
Prepare(e) ==
  /\ job[e] = "loaded"
  /\ Goto(e, "prepared")
  /\ UNCHANGED <<storeVars, client, busVars, trackerVars, spec, sig, ctl, start, pos, reaper, outsideVars, budget, historyVars>>

Opened(e) ==
  /\ Publish(Fact("started"))
  /\ mixed' = (mixed \/ open # {})
  /\ open' = open \cup {e}
  /\ UNCHANGED <<inbox, commits>>

Admit(e) ==
  /\ job[e] = "prepared"
  /\ Opened(e)
  /\ Goto(e, "admitted")
  /\ UNCHANGED <<storeVars, client, trackerVars, spec, sig, ctl, start, pos, reaper, outsideVars, budget>>

\* run.started is not confirmed, though the broker may have stored it: RunOne
\* returns the error and the Job retries or fails.
AdmitFails(e) ==
  /\ job[e] = "prepared"
  /\ Fault
  /\ Opened(e) \/ UNCHANGED <<busVars, historyVars>>
  /\ \E p \in {"created", "finished"} : Gone(e, p)
  /\ UNCHANGED <<storeVars, client, trackerVars, reaper, outsideVars>>

-----------------------------------------------------------------------------
(* Execution *)

\* The end of RunOne with its one terminal fact.  A failure whose fact is lost
\* looks like a Crash.
Finish(e, name) ==
  /\ Publish(Fact(name))
  /\ open' = open \ {e}
  /\ UNCHANGED <<inbox, mixed>>

\* A terminal fact is published once, with a time limit, and may be lost.
FinishOrLose(e, name) ==
  \/ Finish(e, name) /\ UNCHANGED budget
  \/ Fault /\ UNCHANGED <<busVars, open, mixed>>

\* runControl.request: a cancel replaces a pause.
Control(e) ==
  /\ job[e] \in Listening
  /\ \E s \in ctl[e] :
       /\ ctl' = [ctl EXCEPT ![e] = @ \ {s}]
       /\ sig' = [sig EXCEPT ![e] = IF s = "cancel" \/ @ = "none" THEN s ELSE @]
  /\ UNCHANGED <<storeVars, client, busVars, trackerVars, job, spec, start, pos, reaper, outsideVars, budget, historyVars>>

\* Configuration and planning; the extractor loads the cursor to read from.
Plan(e) ==
  /\ job[e] = "admitted" /\ spec[e]
  /\ Goto(e, "planned")
  /\ start' = [start EXCEPT ![e] = IF Mode = "full" THEN 0 ELSE cp]
  /\ pos' = [pos EXCEPT ![e] = start'[e]]
  /\ UNCHANGED <<storeVars, client, busVars, trackerVars, spec, sig, ctl, reaper, outsideVars, budget, historyVars>>

\* An incremental plan is saved as the seed of the checkpoint, which refers to the
\* row; a change stream is acknowledged up to what the store holds.
Seed(e) ==
  /\ job[e] = "planned"
  /\ Mode = "incremental" => row.status # "absent"
  /\ Goto(e, "reading")
  /\ cp' = IF Mode = "incremental" THEN start[e] ELSE cp
  /\ acked' \in {acked, IF Mode = "cdc" THEN cp ELSE acked}
  /\ UNCHANGED <<row, issued, undone, client, busVars, trackerVars, spec, sig, ctl, start, pos, reaper, plan, rows, sink, budget, historyVars>>

SeedFails(e) ==
  /\ job[e] = "planned"
  /\ Mode = "incremental" /\ row.status = "absent"
  /\ FinishOrLose(e, "failed")
  /\ Gone(e, "closing")
  /\ UNCHANGED <<storeVars, client, trackerVars, reaper, outsideVars, commits>>

\* A failure before extraction.
SetupFails(e) ==
  /\ job[e] \in {"loaded", "admitted", "planned"}
  /\ Fault
  /\ Finish(e, "failed")
  /\ Gone(e, "closing")
  /\ UNCHANGED <<storeVars, client, trackerVars, reaper, outsideVars, commits>>

\* The row the worker loaded held no request, which names no pipeline to read.
NoRequest(e) ==
  /\ job[e] = "admitted" /\ ~spec[e]
  /\ FinishOrLose(e, "failed")
  /\ Gone(e, "closing")
  /\ UNCHANGED <<storeVars, client, trackerVars, reaper, outsideVars, commits>>

\* A command that cancels a call before extraction ends the run in its fact; the
\* handle is not sealed and nothing is committed.
SetupStopped(e) ==
  /\ job[e] \in {"admitted", "planned"}
  /\ sig[e] # "none"
  /\ FinishOrLose(e, IF sig[e] = "cancel" THEN "canceled" ELSE "paused")
  /\ Gone(e, "closing")
  /\ UNCHANGED <<storeVars, client, trackerVars, reaper, outsideVars, commits>>

\* One batch: applied to the sink, then announced with its cursor.
Write(e) ==
  /\ job[e] = "reading"
  /\ pos[e] < rows
  /\ pos' = [pos EXCEPT ![e] = @ + 1]
  /\ sink' = IF AfterCommit THEN sink ELSE sink \cup {pos[e] + 1}
  /\ \/ Publish([name |-> "batch", pos |-> pos[e] + 1]) /\ UNCHANGED <<inbox, budget>>
     \/ Fault /\ UNCHANGED busVars
  /\ UNCHANGED <<storeVars, client, trackerVars, job, spec, sig, ctl, start, reaper, plan, rows, acked, historyVars>>

\* isResumableRun: incremental progress that is durable once applied.
Resumable == Mode = "incremental" /\ ~AfterCommit

ReadFails(e) ==
  /\ job[e] = "reading"
  /\ Fault
  /\ Finish(e, IF Resumable THEN "partial" ELSE "failed")
  /\ Gone(e, "closing")
  /\ UNCHANGED <<storeVars, client, trackerVars, reaper, outsideVars, commits>>

\* A mutant: the handle is sealed without a look at the command it holds.
SealIgnoresSignal(e) ==
  /\ job[e] = "reading"
  /\ pos[e] = rows
  /\ Goto(e, "sealed")
  /\ ctl' = [ctl EXCEPT ![e] = {}]
  /\ UNCHANGED <<storeVars, client, busVars, trackerVars, spec, sig, start, pos, reaper, outsideVars, budget, historyVars>>

\* Extraction ended; seal decides between a commit and the command.
Seal(e) ==
  /\ job[e] = "reading"
  /\ \/ sig[e] # "none" /\ Goto(e, "stopping")
     \/ sig[e] = "none" /\ pos[e] = rows /\ Goto(e, "sealed")
  /\ ctl' = [ctl EXCEPT ![e] = {}]
  /\ UNCHANGED <<storeVars, client, busVars, trackerVars, spec, sig, start, pos, reaper, outsideVars, budget, historyVars>>

CommitSink(e) ==
  /\ sink' = IF AfterCommit THEN sink \cup (start[e] + 1)..pos[e] ELSE sink
  /\ commits' = commits \cup {e}
  /\ UNCHANGED <<plan, rows, acked, open, mixed>>

Commit(e) ==
  /\ job[e] = "sealed"
  /\ CommitSink(e)
  /\ Goto(e, "committed")
  /\ UNCHANGED <<storeVars, client, busVars, trackerVars, spec, sig, ctl, start, pos, reaper, budget>>

\* A mutant: a pause announces a commit boundary it did not reach.
PauseUncommitted(e) ==
  /\ job[e] = "stopping"
  /\ sig[e] = "pause" /\ Mode # "full"
  /\ Goto(e, "pausing")
  /\ UNCHANGED <<storeVars, client, busVars, trackerVars, spec, sig, ctl, start, pos, reaper, outsideVars, budget, historyVars>>

\* finishControlled: a pause commits what a resume continues from.
CommitPause(e) ==
  /\ job[e] = "stopping"
  /\ sig[e] = "pause" /\ Mode # "full"
  /\ CommitSink(e)
  /\ Goto(e, "pausing")
  /\ UNCHANGED <<storeVars, client, busVars, trackerVars, spec, sig, ctl, start, pos, reaper, budget>>

\* A mutant: the error of Commit is dropped.
CommitErrorIgnored(e) ==
  /\ job[e] = "sealed" \/ (job[e] = "stopping" /\ sig[e] = "pause" /\ Mode # "full")
  /\ Fault
  /\ Finish(e, "completed")
  /\ Gone(e, "closing")
  /\ UNCHANGED <<storeVars, client, trackerVars, reaper, outsideVars, commits>>

CommitFails(e) ==
  /\ job[e] = "sealed" \/ (job[e] = "stopping" /\ sig[e] = "pause" /\ Mode # "full")
  /\ Fault
  /\ Finish(e, "failed")
  /\ Gone(e, "closing")
  /\ UNCHANGED <<storeVars, client, trackerVars, reaper, outsideVars, commits>>

Stop(e) ==
  /\ \/ /\ job[e] = "stopping" /\ (sig[e] = "cancel" \/ Mode = "full")
        /\ FinishOrLose(e, IF sig[e] = "cancel" THEN "canceled" ELSE "paused")
     \/ /\ job[e] = "pausing"
        /\ FinishOrLose(e, "pausedAtCommit")
  /\ Gone(e, "closing")
  /\ UNCHANGED <<storeVars, client, trackerVars, reaper, outsideVars, commits>>

Complete(e) ==
  /\ job[e] = "committed"
  /\ FinishOrLose(e, "completed")
  /\ Goto(e, "acking")
  /\ UNCHANGED <<storeVars, client, trackerVars, spec, sig, ctl, start, pos, reaper, outsideVars, commits>>

\* A mutant: the position of this execution is acknowledged without the wait.
AcknowledgeAtOnce(e) ==
  /\ job[e] = "acking"
  /\ acked' = IF Mode = "cdc" THEN pos[e] ELSE acked
  /\ Gone(e, "finished")
  /\ UNCHANGED <<storeVars, client, busVars, trackerVars, reaper, plan, rows, sink, budget, historyVars>>

\* acknowledgeDurableChanges waits until the tracker has promoted the cursor of
\* this execution, or gives up after thirty seconds.
Acknowledge(e) ==
  /\ job[e] = "acking"
  /\ acked' \in IF Mode = "cdc" /\ cp >= pos[e] THEN {cp, acked} ELSE {acked}
  /\ Gone(e, "finished")
  /\ UNCHANGED <<storeVars, client, busVars, trackerVars, reaper, plan, rows, sink, budget, historyVars>>

\* The deferred clean-up of RunOne; the heartbeat stops after it.
Close(e) ==
  /\ job[e] = "closing"
  /\ Goto(e, "finished")
  /\ UNCHANGED <<storeVars, client, busVars, trackerVars, spec, sig, ctl, start, pos, reaper, outsideVars, budget, historyVars>>

Heartbeat(e) ==
  /\ job[e] \in Beating
  /\ Spend("beat")
  /\ Publish(Fact("beat"))
  /\ UNCHANGED <<storeVars, client, inbox, trackerVars, jobVars, reaper, outsideVars, historyVars>>

\* The pod dies; the Job starts another one while its back-off limit allows.
Crash(e) ==
  /\ job[e] \in Active
  /\ Fault
  /\ \E p \in {"created", "finished"} : Gone(e, p)
  /\ UNCHANGED <<storeVars, client, busVars, trackerVars, reaper, outsideVars, historyVars>>

Produce ==
  /\ rows < MaxRows
  /\ rows' = rows + 1
  /\ UNCHANGED <<storeVars, client, busVars, trackerVars, jobVars, reaper, plan, sink, acked, budget, historyVars>>

Work(e) ==
  \/ WorkerLoad(e) \/ Prepare(e) \/ Admit(e) \/ Plan(e) \/ Seed(e) \/ SeedFails(e) \/ NoRequest(e)
  \/ SetupStopped(e) \/ Write(e) \/ Seal(e) \/ Commit(e) \/ CommitPause(e) \/ Stop(e) \/ Complete(e) \/ Acknowledge(e) \/ Close(e)

Trouble(e) == AdmitFails(e) \/ SetupFails(e) \/ ReadFails(e) \/ CommitFails(e) \/ Crash(e)

-----------------------------------------------------------------------------
(* The tracker *)

TrackerStep == UNCHANGED <<issued, undone, client, inbox, jobVars, reaper, outsideVars, historyVars>>
Oldest == Head(queue)

\* One fact is in flight at a time (MaxInFlight 1).
Delivered == queue # <<>> /\ trk.pc = "idle"

\* Facts that promote a cursor: the sink is known to have committed.
Promoting == {"completed", "pausedAtCommit"}

\* A mutant: an empty accumulator is promoted as well.
FlushUnguarded ==
  /\ Delivered
  /\ Oldest.name \in TerminalFacts
  /\ cp' = IF Oldest.name \in Promoting THEN acc ELSE cp
  /\ trk' = [trk EXCEPT !.pc = "apply"]
  /\ UNCHANGED <<row, queue, marked, acc, budget>> /\ TrackerStep

\* A mutant: terminal facts are recorded as seen first, like all others.
FlushSeenFirst ==
  /\ Delivered
  /\ Oldest.name \in TerminalFacts
  /\ cp' = IF Oldest.name \in Promoting /\ acc # NoCursor /\ row.req THEN acc ELSE cp
  /\ IF marked THEN queue' = Tail(queue) /\ UNCHANGED trk
               ELSE trk' = [trk EXCEPT !.pc = "apply"] /\ UNCHANGED queue
  /\ marked' = ~marked
  /\ UNCHANGED <<row, acc, budget>> /\ TrackerStep

\* A terminal fact first makes the accumulated cursor durable: for the route when
\* the row still holds the request.  A promotion without a row fails and the fact
\* comes again, and so does any flush of a cursor that is not commit-gated.
Flush ==
  /\ Delivered
  /\ Oldest.name \in TerminalFacts
  /\ \/ acc = NoCursor
     \/ AfterCommit /\ Oldest.name \notin Promoting
     \/ row.status # "absent"
  /\ cp' = IF Oldest.name \in Promoting /\ acc # NoCursor /\ row.req THEN acc ELSE cp
  /\ trk' = [trk EXCEPT !.pc = "apply"]
  /\ UNCHANGED <<row, queue, marked, acc, budget>> /\ TrackerStep

\* Any other fact is recorded as seen first, and skipped when it already is.  The
\* record refers to the row: without one the fact comes again, and the others wait.
Mark ==
  /\ Delivered
  /\ Oldest.name \notin TerminalFacts
  /\ row.status # "absent"
  /\ IF marked THEN queue' = Tail(queue) /\ UNCHANGED trk
               ELSE trk' = [trk EXCEPT !.pc = "apply"] /\ UNCHANGED queue
  /\ marked' = ~marked
  /\ UNCHANGED <<row, cp, acc, budget>> /\ TrackerStep

\* mutate loads the whole row, or starts from an empty one.
Load ==
  /\ trk.pc = "apply"
  /\ trk' = [pc |-> "save",
             copy |-> IF row.status = "absent" THEN [NoRow EXCEPT !.status = "requested"] ELSE row]
  /\ UNCHANGED <<row, cp, queue, marked, acc, budget>> /\ TrackerStep

StatusOf == [started |-> "running", completed |-> "completed", failed |-> "failed", partial |-> "partial",
             canceled |-> "canceled", paused |-> "paused", pausedAtCommit |-> "paused"]

Folded(r, f) ==
  [r EXCEPT !.status = IF f.name \in DOMAIN StatusOf THEN StatusOf[f.name] ELSE @,
            !.started = @ \/ f.name = "started",
            !.ended = @ \/ f.name \in TerminalFacts]

\* SaveRun overwrites the status and the request; stamps are kept once written.
Saved(r) ==
  [r EXCEPT !.started = @ \/ row.started, !.ended = @ \/ row.ended,
            !.id = IF row.id # 0 THEN row.id ELSE @]

\* foldCursor: the newer position of a stream; the last key of a shard whose
\* layout is known.
Advanced(p) ==
  LET base == IF acc = NoCursor /\ trk.copy.req THEN cp ELSE acc
  IN  CASE Mode = "full" -> NoCursor
        [] Mode = "incremental" -> IF base = NoCursor THEN NoCursor ELSE p
        [] Mode = "cdc" -> IF base > p THEN base ELSE p

\* The row is saved, the cursor accumulated or evicted, the fact acknowledged;
\* when the acknowledgement is lost the fact comes again.
Save ==
  /\ trk.pc = "save"
  /\ row' = Saved(Folded(trk.copy, Oldest))
  /\ acc' = CASE Oldest.name \in TerminalFacts -> NoCursor
              [] Oldest.name = "batch" -> Advanced(Oldest.pos)
              [] OTHER -> acc
  /\ trk' = NoFold
  /\ \/ queue' = Tail(queue) /\ marked' = FALSE /\ UNCHANGED budget
     \/ Fault /\ UNCHANGED <<queue, marked>>
  /\ UNCHANGED cp /\ TrackerStep

\* A call of the handler fails, or the process dies and its memory is lost.
TrackerFails ==
  /\ trk.pc # "idle" \/ acc # NoCursor
  /\ Fault
  /\ trk' = NoFold
  /\ acc' \in {acc, NoCursor}
  /\ UNCHANGED <<row, cp, queue, marked>> /\ TrackerStep

Track == Flush \/ Mark \/ Load \/ Save

-----------------------------------------------------------------------------
(* The reaper *)

ReaperStep == UNCHANGED <<storeVars, client, inbox, trackerVars, jobVars, outsideVars, budget, historyVars>>

\* The sweep lists a run nobody has written for a while.
ReaperList ==
  /\ reaper = "idle"
  /\ row.status \in {"running", "requested"}
  /\ reaper' = row.status
  /\ UNCHANGED queue /\ ReaperStep

\* A mutant: a Job that still exists counts as active.
ProbeAnyJob ==
  /\ reaper \in {"running", "requested"}
  /\ reaper' = IF \E e \in Executions : job[e] # "none" THEN "idle" ELSE "dead"
  /\ UNCHANGED queue /\ ReaperStep

\* Workload and dead: a running run is dead without an active Job, a requested
\* one only once a Job of it has finished.
ReaperProbe ==
  /\ reaper \in {"running", "requested"}
  /\ reaper' = IF \/ \E e \in Executions : job[e] \in Active
                  \/ reaper = "requested" /\ \A e \in Executions : job[e] # "finished"
               THEN "idle" ELSE "dead"
  /\ UNCHANGED queue /\ ReaperStep

ReaperKill ==
  /\ reaper = "dead"
  /\ Publish(Fact("failed"))
  /\ reaper' = "idle"
  /\ ReaperStep

Reap == ReaperList \/ ReaperProbe \/ ReaperKill

-----------------------------------------------------------------------------

Next ==
  \/ \E c \in Clients : Request(c)
  \/ \E e \in Executions :
       Dispatch(e) \/ Collect(e) \/ Work(e) \/ Control(e) \/ Heartbeat(e) \/ Trouble(e)
  \/ Track \/ TrackerFails \/ Reap \/ Produce

Spec == Init /\ [][Next]_vars

\* The tracker pumps its subscription, the dispatcher is handed every stored
\* trigger, Jobs run, and the reaper sweeps on a timer.
Fairness ==
  /\ WF_vars(Track) /\ WF_vars(Reap)
  /\ \A e \in Executions : WF_vars(Dispatch(e)) /\ WF_vars(Work(e))

FairSpec == Spec /\ Fairness

-----------------------------------------------------------------------------
(* Properties *)

\* A run's route checkpoint never passes what the sink has made durable, as long
\* as no two executions of the run were under way together: cursors accumulate
\* in the tracker and are promoted only by a fact that proves a commit
\* (persistCheckpoint).
CheckpointCovered == ~mixed => 1..cp \subseteq sink

\* A change stream is never released past the checkpoint in the store
\* (acknowledgeDurableChanges), and the checkpoint does not fall back behind it.
\* The deletion of a row takes the checkpoint with it (ON DELETE CASCADE), so
\* histories with a deletion are left out.
AckedIsPromoted == Mode = "cdc" /\ ~undone => acked <= cp

\* Once the tracker has caught up, a running row has an execution that has not
\* announced its end: no terminal fact is lost between the bus and the row, and
\* no stale copy of the row brings "running" back.
RunningIsOwned == queue = <<>> /\ row.status = "running" => open # {}

\* A row says completed only when some execution of the run committed its sink.
CompletedIsCommitted == row.status = "completed" => commits # {}

\* A cancel that reached the control handle before it was sealed is obeyed: that
\* execution never commits the sink.
CancelNeverCommits ==
  [][\A e \in Executions : sig[e] = "cancel" => (e \in commits' => e \in commits)]_vars

\* A run does not stay running: its worker ends it or the reaper does, although
\* workers die and terminal facts are lost.
RunningEnds == row.status = "running" ~> row.status # "running"

\* A stored trigger is served: the run it is for does not stay requested.
RequestedIsServed == row.status = "requested" /\ inbox # {} ~> row.status # "requested"

-----------------------------------------------------------------------------
(* What documents and comments say, and the code does not keep *)

\* "canceled ... Terminal": a canceled run stays canceled.
CanceledIsFinal == [][row.status = "canceled" => row'.status = "canceled"]_vars

\* Progress of a sink that is durable only at Commit is not saved before that
\* commit succeeds, whatever else executes.
CursorAfterCommit == 1..cp \subseteq sink

=============================================================================
