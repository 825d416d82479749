--------------------------- MODULE StreamRuntime ---------------------------
(***************************************************************************)
(* The continuous runtime of one stream generation: the transactions of    *)
(* the Postgres store (runs, replication_streams, stream_attempts and      *)
(* stream_epochs), the supervisor that reconciles them, the API that       *)
(* changes intent, and the workers that execute admitted attempts.         *)
(*                                                                         *)
(* A store transaction is one action: every one of them runs under the     *)
(* pipeline lock taken by lockRuntime.  A supervisor pass and an API       *)
(* signal are two actions each, the snapshot they load and the             *)
(* transaction they then issue, because nothing is locked in between.  A   *)
(* worker is one action per call of the epoch loop of runner/continuous.go.*)
(*                                                                         *)
(* Abstractions.  A source position is a number per ordering domain, and a *)
(* row is a <<domain, position>> pair.  Wall-clock time is the set of      *)
(* expired leases, which a lease may join at any moment while its attempt  *)
(* is open.  Membership is its revision and whether some member still      *)
(* waits for its baseline.  A reason string is one of the four classes the *)
(* supervisor tells apart.  A column of a table is a function on its keys, *)
(* or the set of keys for which a flag or a timestamp is set.              *)
(***************************************************************************)
EXTENDS Integers, FiniteSets

CONSTANTS
    Runs,          \* run ids that may be submitted for the stream
    NoRun,         \* current_run_id IS NULL
    Workers,       \* worker processes
    Supervisors,   \* replicas of the supervisor
    Domains,       \* ordering domains of the source
    MaxAttempts,   \* bound: fencing tokens issued
    MaxEpochs,     \* bound: epochs certified
    MaxPosition,   \* bound: last position of every domain
    MaxRevision,   \* bound: desired_revision that still accepts a request
    MaxOutdated    \* bound: attempts admitted before the last upgrade

ASSUME RunsAssumption == NoRun \notin Runs
ASSUME BoundsAssumption ==
    /\ MaxAttempts \in Nat
    /\ MaxEpochs \in Nat
    /\ MaxPosition \in Nat
    /\ MaxRevision \in Nat
    /\ MaxOutdated \in Nat

VARIABLES
    \* the row of replication_streams
    curRun, desired, rev, memRev, pending, retired, lastEpoch,
    \* runs: status, ended_at and the order of created_at
    status, ended, born, births,
    \* stream_attempts: last token, run, desired_revision, termination,
    \* reason, claimed_at, yield_requested_at, expires_at
    latest, attRun, attRev, term, attReason, claimed, yielding, expired,
    \* stream_epochs: token and positions
    certToken, certPos,
    \* the control plane: supervisor commands, API signal, dispatched Jobs,
    \* attempts dispatched by an older release
    cmd, api, jobs, outdated,
    \* workers: program point, token, reason of the end, heartbeat flags
    pc, held, cause, stopping, yielded, hbFailed,
    \* workers: locals of the epoch loop
    epoch, seenMem, sawPending, at, cov, activates,
    \* outside the repository: rows durable at the destination and the
    \* position acknowledged to the source
    durable, acked

streamVars  == <<curRun, desired, rev, memRev, pending>>
runVars     == <<status, ended>>
bornVars    == <<born, births>>
attemptVars == <<latest, attRun, attRev, term, attReason, claimed, yielding, expired>>
epochVars   == <<retired, lastEpoch, certToken, certPos>>
storeVars   == <<streamVars, runVars, bornVars, attemptVars, epochVars>>
planeVars   == <<cmd, api, jobs, outdated>>
ownerVars   == <<held, cause, stopping, yielded, hbFailed>>
loopVars    == <<epoch, seenMem, sawPending, at, cov, activates>>
workerVars  == <<pc, ownerVars, loopVars>>
dataVars    == <<durable, acked>>
vars == <<storeVars, planeVars, workerVars, dataVars>>

Tokens    == 1..MaxAttempts
Epochs    == 1..MaxEpochs
Positions == [Domains -> 0..MaxPosition]
Start     == [d \in Domains |-> 0]

Desired  == {"enabled", "paused", "stopped"}
Reasons  == {"none", "upgrade", "failed", "schema"}
Statuses == {"absent", "scheduled", "requested", "running", "paused",
             "completed", "canceled"}
Terminations == {"none", "live", "clean", "unproven"}

Command == [op : {"none", "retire", "yield", "dispatch", "start", "pause"},
            run : Runs \cup {NoRun}, rev : Nat, token : 0..MaxAttempts]
NoCommand == [op |-> "none", run |-> NoRun, rev |-> 0, token |-> 0]

Signal   == [rev : Nat, want : Desired]
NoSignal == [rev |-> 0, want |-> "none"]

\* The program points of a worker that owns a claim: before the cleanup of
\* RunContinuous is installed, in the loop of runEpochs, and in the cleanup.
Looping == {"bind", "reading", "sealed", "sunk", "certified", "acking"}
Executing == {"claimed", "loaded", "cleanup"} \cup Looping
Ending == {"endClean", "endUnproven"}
ProgramPoints == {"idle"} \cup Executing \cup Ending

----------------------------------------------------------------------------
(***************************************************************************)
(* Queries.                                                                *)
(***************************************************************************)

\* LatestStreamPositions: the snapshot stored with the last epoch.
Committed == IF lastEpoch = 0 THEN Start ELSE certPos[lastEpoch]

\* The latest attempt of the route authorises another one.
TakeoverAllowed == latest # 0 => term[latest] = "clean"

\* StreamHasLiveRun
HasLiveRun == curRun # NoRun /\ curRun \notin ended

\* StreamSuccessor: the scheduled runs of the generation, newest first.
Waiting(st) == {r \in Runs : st[r] = "scheduled"}
NewestWaiting(st, bn) == {r \in Waiting(st) : \A q \in Waiting(st) : bn[q] <= bn[r]}

\* currentAttempt: the lease is the latest of the route, belongs to the
\* current run and is open; requireLive also refuses an expired lease.
CurrentAttempt(t, requireLive) ==
    /\ t = latest
    /\ t # 0
    /\ attRun[t] = curRun
    /\ term[t] = "live"
    /\ requireLive => t \notin expired

\* The attempt LoadStreamState reports: the latest one, if it is the run's.
LoadedAttempt == IF latest # 0 /\ attRun[latest] = curRun THEN latest ELSE 0

----------------------------------------------------------------------------
(***************************************************************************)
(* settleStoppedStream, the tail of every transaction that ends an attempt *)
(* or changes intent.  st, en, tm, des and rv are status, ended, term,     *)
(* desired and rev as the transaction left them.                           *)
(***************************************************************************)

\* Fault: the intent is copied into the status of the run.
PhaseIsIntent(tm, des) ==
    IF \E t \in claimed : tm[t] = "live" THEN "running" ELSE des

\* SyncContinuousRunPhase
Phase(tm, des) ==
    IF \E t \in claimed : tm[t] = "live" THEN "running"
    ELSE IF des = "paused" THEN "paused" ELSE "requested"

\* Fault: an attempt that merely ended lets the run complete.
NoneOpen(tm) == \A t \in 1..latest : tm[t] # "live"

\* FinishStoppedContinuousRun requires every attempt to have ended cleanly.
AllClean(tm) == \A t \in 1..latest : tm[t] = "clean"

SyncedStatus(st, en, tm, des) ==
    IF curRun \in en THEN st
    ELSE IF des # "stopped" THEN [st EXCEPT ![curRun] = Phase(tm, des)]
    ELSE IF AllClean(tm) THEN [st EXCEPT ![curRun] = "completed"]
    ELSE st

SyncedEnded(en, tm, des) ==
    IF des = "stopped" /\ AllClean(tm) THEN en \cup {curRun} ELSE en

\* reviseStreamMembership: the new spec leaves the members alone, or moves
\* the revision and may leave members waiting for their baseline.
ReviseMembership ==
    \/ UNCHANGED <<memRev, pending>>
    \/ memRev' = memRev + 1 /\ pending' \in BOOLEAN

\* Fault: promotion looks at the run as it was before it was finished.
SettledBefore(en, tm) == curRun \in ended /\ \A t \in 1..latest : tm[t] # "live"

\* StreamSettled
Settled(en, tm) == curRun \in en /\ \A t \in 1..latest : tm[t] # "live"

\* promoteStreamSuccessor: the newest waiting run becomes the current one.
Promote(st, rv, r) ==
    /\ r \in NewestWaiting(st, born')
    /\ status' = [st EXCEPT ![r] = "requested"]
    /\ curRun' = r
    /\ desired' = "enabled"
    /\ rev' = rv + 1
    /\ ReviseMembership

Settle(st, en, tm, des, rv) ==
    LET synced == SyncedStatus(st, en, tm, des)
        promote == Settled(SyncedEnded(en, tm, des), tm) /\ Waiting(synced) # {}
    IN  /\ ended' = SyncedEnded(en, tm, des)
        /\ \/ promote /\ \E r \in Runs : Promote(synced, rv, r)
           \/ /\ ~promote
              /\ status' = synced
              /\ desired' = des
              /\ rev' = rv
              /\ UNCHANGED <<curRun, memRev, pending>>

----------------------------------------------------------------------------
(***************************************************************************)
(* Admission: Submit of a continuous run.                                  *)
(***************************************************************************)

\* Fault: a repeated submission rewrites its row in any state.
AdmissibleAnyStatus(r) == ~retired /\ rev < MaxRevision

\* CreateRun inserts a row, or rewrites one that is still scheduled.
Admissible(r) ==
    /\ ~retired
    /\ status[r] \in {"absent", "scheduled"}
    /\ rev < MaxRevision

\* created_at is set once, when the row is inserted.
Stamp(r) ==
    /\ born' = IF status[r] = "absent" THEN [born EXCEPT ![r] = births + 1] ELSE born
    /\ births' = births + 1

\* createRun on a stream whose run has not ended: queueStreamSuccessor parks
\* the run, withdraws the newest waiting run unless it is the submitted one,
\* and asks the live run to stop.
QueueSuccessor(r) ==
    /\ Admissible(r)
    /\ HasLiveRun
    /\ Stamp(r)
    /\ LET parked == [status EXCEPT ![r] = "scheduled"]
           older == NewestWaiting(parked, born') \ {r}
           kept == [q \in Runs |-> IF q \in older THEN "canceled" ELSE parked[q]]
       IN  Settle(kept, ended \cup older, term, "stopped", rev + 1)
    /\ UNCHANGED <<attemptVars, epochVars, planeVars, workerVars, dataVars>>

\* createRun otherwise: initializeContinuousActivation.
Activate(r) ==
    /\ Admissible(r)
    /\ ~HasLiveRun
    /\ TakeoverAllowed
    /\ curRun # NoRun => desired = "stopped"
    /\ Stamp(r)
    /\ status' = [status EXCEPT ![r] = "requested"]
    /\ curRun' = r
    /\ desired' = "enabled"
    /\ rev' = rev + 1
    /\ IF curRun = NoRun THEN UNCHANGED <<memRev, pending>> ELSE ReviseMembership
    /\ UNCHANGED <<ended, attemptVars, epochVars, planeVars, workerVars, dataVars>>

\* A submission whose continuity fingerprint differs retires the generation.
\* It is refused while a run of the route is active (the unique index on
\* active runs) or its last attempt did not end cleanly.
RetireGeneration ==
    /\ ~retired
    /\ curRun # NoRun
    /\ ~HasLiveRun
    /\ TakeoverAllowed
    /\ retired' = TRUE
    /\ UNCHANGED <<lastEpoch, certToken, certPos>>
    /\ UNCHANGED <<streamVars, runVars, bornVars, attemptVars, planeVars,
                   workerVars, dataVars>>

----------------------------------------------------------------------------
(***************************************************************************)
(* API signals: signalContinuous loads the state, then SetDesiredState     *)
(* compares the revision it saw.                                           *)
(***************************************************************************)

\* A signal that already matches the loaded intent is accepted and changes
\* nothing.
SignalMatches(want) ==
    /\ curRun # NoRun
    /\ api = NoSignal
    /\ desired = want
    /\ UNCHANGED vars

SignalLoad(want) ==
    /\ curRun # NoRun
    /\ api = NoSignal
    /\ rev < MaxRevision
    /\ desired # want
    /\ desired # "stopped"
    /\ api' = [rev |-> rev, want |-> want]
    /\ UNCHANGED <<cmd, jobs, outdated, storeVars, workerVars, dataVars>>

\* Fault: the last writer of the intent wins.
DesiredStateUnchecked(want, expected) == ~retired

\* SetDesiredState: refused for a retired generation, for leaving "stopped",
\* and when the revision moved.
DesiredStateAllowed(want, expected) ==
    /\ ~retired
    /\ desired = "stopped" => want = "stopped"
    /\ rev = expected

\* A stop cancels the newest waiting run (cancelStreamSuccessor).
SetDesiredState(want, expected) ==
    LET dropped == IF want = "stopped" THEN NewestWaiting(status, born) ELSE {}
        kept == [q \in Runs |-> IF q \in dropped THEN "canceled" ELSE status[q]]
    IN  /\ DesiredStateAllowed(want, expected)
        /\ UNCHANGED <<bornVars, attemptVars, epochVars>>
        /\ Settle(kept, ended \cup dropped, term, want, rev + 1)

SignalSet ==
    /\ api # NoSignal
    /\ SetDesiredState(api.want, api.rev)
    /\ api' = NoSignal
    /\ UNCHANGED <<cmd, jobs, outdated, workerVars, dataVars>>

SignalConflict ==
    /\ api # NoSignal
    /\ ~DesiredStateAllowed(api.want, api.rev)
    /\ api' = NoSignal
    /\ UNCHANGED <<cmd, jobs, outdated, storeVars, workerVars, dataVars>>

----------------------------------------------------------------------------
(***************************************************************************)
(* The supervisor.  reconcileRun decides on a loaded snapshot; the store   *)
(* operation it chose is issued later and re-checks what it needs.         *)
(***************************************************************************)

\* schemaBlocked: the last attempt was refused by schema evolution under the
\* current intent.
SchemaBlocked(t) == attReason[t] = "schema" /\ attRev[t] = rev

\* What reconcileRun does about an open attempt: retire it when nobody
\* claimed it and nobody may, leave an expired or draining one alone, repeat
\* the dispatch of an unclaimed one, ask an outdated one to yield.
OpenDecision(t) ==
    IF t \notin claimed THEN
        IF desired # "enabled" \/ t \in expired THEN {"retire"} ELSE {"dispatch"}
    ELSE IF desired = "enabled" /\ t \notin expired /\ t \in outdated \ yielding
    THEN {"yield"} ELSE {}

\* What it does when the last attempt has ended.  The retry budget and the
\* backoff are local to the supervisor: a failed attempt may be answered by a
\* new one or, once the budget is spent, by a pause.
EndedDecision(t) ==
    IF desired # "enabled" \/ SchemaBlocked(t) \/ term[t] # "clean" THEN {}
    ELSE IF attReason[t] \in {"failed", "schema"} THEN {"start", "pause"}
    ELSE {"start"}

Decisions ==
    LET t == LoadedAttempt IN
    IF t = 0 THEN {op \in {"start"} : desired = "enabled"}
    ELSE IF term[t] = "live" THEN OpenDecision(t) ELSE EndedDecision(t)

SupervisorLoad(s) ==
    /\ cmd[s] = NoCommand
    /\ ~retired
    /\ HasLiveRun
    /\ \E op \in Decisions :
         cmd' = [cmd EXCEPT ![s] = [op |-> op, run |-> curRun, rev |-> rev,
                                    token |-> LoadedAttempt]]
    /\ UNCHANGED <<api, jobs, outdated, storeVars, workerVars, dataVars>>

Answered(s) == cmd' = [cmd EXCEPT ![s] = NoCommand]

\* StartAttempt with a fresh execution id.
StartAllowed(c) ==
    /\ c.run = curRun
    /\ ~retired
    /\ desired = "enabled"
    /\ rev = c.rev
    /\ TakeoverAllowed

StartAttempt(s) ==
    /\ cmd[s].op = "start"
    /\ StartAllowed(cmd[s])
    /\ latest < MaxAttempts
    /\ latest' = latest + 1
    /\ attRun' = [attRun EXCEPT ![latest + 1] = cmd[s].run]
    /\ attRev' = [attRev EXCEPT ![latest + 1] = cmd[s].rev]
    /\ term' = [term EXCEPT ![latest + 1] = "live"]
    \* the Dispatch that follows admission may fail; a later pass repeats it
    /\ jobs' \in {jobs, jobs \cup {latest + 1}}
    /\ Answered(s)
    /\ UNCHANGED <<attReason, claimed, yielding, expired, api, outdated>>
    /\ UNCHANGED <<streamVars, runVars, bornVars, epochVars, workerVars, dataVars>>

\* Fault: a claimed attempt is retired like an unclaimed one.
UnclaimableAny(t) == term[t] = "live" /\ (t \in expired \/ desired # "enabled")

\* Fault: a dispatch is only retired once its lease ran out.
UnclaimableExpired(t) == term[t] = "live" /\ t \notin claimed /\ t \in expired

\* RetireUnclaimedAttempt ends a dispatch nobody claimed; the statement
\* re-checks the claim, the lease and the intent.
Unclaimable(t) ==
    /\ term[t] = "live"
    /\ t \notin claimed
    /\ t \in expired \/ desired # "enabled"

RetireUnclaimedAttempt(s) ==
    /\ cmd[s].op = "retire"
    /\ LET t == cmd[s].token IN
       IF Unclaimable(t)
       THEN /\ term' = [term EXCEPT ![t] = "clean"]
            /\ attReason' = [attReason EXCEPT ![t] = "failed"]
       ELSE UNCHANGED <<term, attReason>>
    /\ UNCHANGED bornVars
    /\ Settle(status, ended, term', desired, rev)
    /\ Answered(s)
    /\ UNCHANGED <<latest, attRun, attRev, claimed, yielding, expired, api,
                   jobs, outdated>>
    /\ UNCHANGED <<epochVars, workerVars, dataVars>>

\* YieldAttempt marks the open attempt of an older release.
YieldAttempt(s) ==
    /\ cmd[s].op = "yield"
    /\ yielding' = yielding \cup {t \in {cmd[s].token} : term[t] = "live"}
    /\ Answered(s)
    /\ UNCHANGED <<latest, attRun, attRev, term, attReason, claimed, expired,
                   api, jobs, outdated>>
    /\ UNCHANGED <<streamVars, runVars, bornVars, epochVars, workerVars, dataVars>>

Dispatch(s) ==
    /\ cmd[s].op = "dispatch"
    /\ jobs' \in {jobs, jobs \cup {cmd[s].token}}
    /\ Answered(s)
    /\ UNCHANGED <<api, outdated, storeVars, workerVars, dataVars>>

\* The retry budget is spent: the supervisor pauses the stream.
PauseExhausted(s) ==
    /\ cmd[s].op = "pause"
    /\ rev < MaxRevision
    /\ SetDesiredState("paused", cmd[s].rev)
    /\ Answered(s)
    /\ UNCHANGED <<api, jobs, outdated, workerVars, dataVars>>

\* The store refuses the command: reconcileRun returns and the pass moves on.
CommandRefused(s) ==
    /\ \/ cmd[s].op = "start" /\ ~StartAllowed(cmd[s])
       \/ cmd[s].op = "pause" /\ ~DesiredStateAllowed("paused", cmd[s].rev)
    /\ Answered(s)
    /\ UNCHANGED <<api, jobs, outdated, storeVars, workerVars, dataVars>>

\* A newer release of the control plane comes up: every attempt so far was
\* dispatched by an older one.
Upgrade ==
    /\ latest <= MaxOutdated
    /\ outdated' = 1..latest
    /\ UNCHANGED <<cmd, api, jobs, storeVars, workerVars, dataVars>>

----------------------------------------------------------------------------
(***************************************************************************)
(* Workers: ExecuteContinuousAttempt, RunContinuous and runEpochs.         *)
(***************************************************************************)

Goto(w, point) ==
    pc' = [pc EXCEPT ![w] = point] /\ UNCHANGED <<ownerVars, loopVars>>

\* The locals of the loop go out of scope when it is left.
ResetLoop(w) ==
    /\ epoch' = [epoch EXCEPT ![w] = 1]
    /\ seenMem' = [seenMem EXCEPT ![w] = 0]
    /\ sawPending' = sawPending \ {w}
    /\ at' = [at EXCEPT ![w] = Start]
    /\ cov' = [cov EXCEPT ![w] = Start]
    /\ activates' = activates \ {w}

\* The loop, or what precedes it, is left with a reason.
Leave(w, point, reason) ==
    /\ pc' = [pc EXCEPT ![w] = point]
    /\ cause' = [cause EXCEPT ![w] = reason]
    /\ stopping' = stopping \ {w}
    /\ ResetLoop(w)
    /\ UNCHANGED <<held, yielded, hbFailed>>

\* The process is gone.
Vacate(w) ==
    /\ pc' = [pc EXCEPT ![w] = "idle"]
    /\ held' = [held EXCEPT ![w] = 0]
    /\ cause' = [cause EXCEPT ![w] = "none"]
    /\ stopping' = stopping \ {w}
    /\ yielded' = yielded \ {w}
    /\ hbFailed' = hbFailed \ {w}
    /\ ResetLoop(w)

\* Fault: the claim does not touch the run.
RunUntouched == status

\* MarkContinuousRunStarted
RunStarted == IF curRun \in ended THEN status ELSE [status EXCEPT ![curRun] = "running"]

\* ClaimStreamAttempt, the one-time claim of a dispatched attempt.  A Job may
\* start more than one process; the others are refused and exit.
Claim(w, t) ==
    /\ pc[w] = "idle"
    /\ t \in jobs
    /\ CurrentAttempt(t, TRUE)
    /\ ~retired
    /\ desired = "enabled"
    /\ t \notin claimed
    /\ claimed' = claimed \cup {t}
    /\ status' = RunStarted
    /\ pc' = [pc EXCEPT ![w] = "claimed"]
    /\ held' = [held EXCEPT ![w] = t]
    /\ UNCHANGED <<ended, latest, attRun, attRev, term, attReason, yielding,
                   expired, cause, stopping, yielded, hbFailed>>
    /\ UNCHANGED <<streamVars, bornVars, epochVars, planeVars, loopVars, dataVars>>

\* loadContinuousAttemptState
LoadState(w) ==
    /\ pc[w] = "claimed"
    /\ LoadedAttempt = held[w]
    /\ desired = "enabled"
    /\ pc' = [pc EXCEPT ![w] = "loaded"]
    /\ at' = [at EXCEPT ![w] = Committed]
    /\ epoch' = [epoch EXCEPT ![w] = lastEpoch + 1]
    /\ seenMem' = [seenMem EXCEPT ![w] = memRev]
    /\ sawPending' = sawPending \cup {v \in {w} : pending}
    /\ UNCHANGED <<cov, activates, ownerVars, storeVars, planeVars, dataVars>>

\* RenewLease succeeds.
Renewable(t) == ~retired /\ CurrentAttempt(t, TRUE)

RenewLoaded(w) ==
    /\ pc[w] = "loaded"
    /\ Renewable(held[w])
    /\ Goto(w, "bind")
    /\ UNCHANGED <<storeVars, planeVars, dataVars>>

\* Before cleanup is installed, every failure ends the attempt as clean.
Abandon(w) ==
    /\ pc[w] \in {"claimed", "loaded"}
    /\ \E reason \in {"failed", "schema"} : Leave(w, "endClean", reason)
    /\ UNCHANGED <<storeVars, planeVars, dataVars>>

\* The head of the epoch loop: return once asked to stop or canceled, else
\* bind the next epoch and begin it at the destination.
BindEpoch(w) ==
    /\ pc[w] = "bind"
    /\ IF w \in stopping THEN Leave(w, "cleanup", "none")
       ELSE IF w \in hbFailed THEN Leave(w, "cleanup", "failed")
       ELSE epoch[w] <= MaxEpochs /\ Goto(w, "reading")
    /\ UNCHANGED <<storeVars, planeVars, dataVars>>

\* session.Read returns coverage: a position for at least one domain, zero
\* standing for a domain it does not cover.  SealEpoch proves the rows passed
\* the pipeline.  An idle read with nothing covered is repeated.
Read(w, c) ==
    /\ pc[w] = "reading"
    /\ c # Start
    /\ pc' = [pc EXCEPT ![w] = "sealed"]
    /\ cov' = [cov EXCEPT ![w] = c]
    /\ activates' \in {activates, activates \cup {v \in {w} : v \in sawPending}}
    /\ UNCHANGED <<epoch, seenMem, sawPending, at>>
    /\ UNCHANGED <<ownerVars, storeVars, planeVars, dataVars>>

\* A read with nothing covered returns once the worker was asked to stop.
ReadIdle(w) ==
    /\ pc[w] = "reading"
    /\ w \in stopping
    /\ Leave(w, "cleanup", "none")
    /\ UNCHANGED <<storeVars, planeVars, dataVars>>

\* validateProgress: domains the epoch does not cover keep their position.
Merge(old, c) == [d \in Domains |-> IF c[d] = 0 THEN old[d] ELSE c[d]]

\* The rows of an epoch: what the session read after its own position.
RowsOf(from, c) ==
    {row \in Domains \X (1..MaxPosition) :
        from[row[1]] < row[2] /\ row[2] <= c[row[1]]}

\* Fault: an error of the destination's commit is ignored.
SinkCommitErrorIgnored(w) ==
    /\ pc[w] = "sealed"
    /\ Goto(w, "sunk")
    /\ UNCHANGED <<storeVars, planeVars, dataVars>>

\* Fault: the source is acknowledged once the destination committed, before
\* the epoch is certified.
SinkCommitThenAck(w) ==
    /\ pc[w] = "sealed"
    /\ durable' = durable \cup RowsOf(at[w], cov[w])
    /\ Goto(w, "certified")
    /\ UNCHANGED <<acked, storeVars, planeVars>>

\* dst.Commit.  The destination may also fail after the rows became durable.
SinkCommit(w) ==
    /\ pc[w] = "sealed"
    /\ durable' = durable \cup RowsOf(at[w], cov[w])
    /\ Goto(w, "sunk") \/ Leave(w, "cleanup", "failed")
    /\ UNCHANGED <<acked, storeVars, planeVars>>

\* CommitEpoch for a certificate that is not stored yet: the sequential
\* epoch, the current membership, progress that does not regress, and a live
\* lease.  It is refused with the generation retired.
CommitAllowed(w) ==
    /\ ~retired
    /\ epoch[w] = lastEpoch + 1
    /\ epoch[w] <= MaxEpochs
    /\ seenMem[w] = memRev
    /\ pending => w \in activates
    /\ \A d \in Domains : cov[w][d] # 0 => Committed[d] <= cov[w][d]
    /\ CurrentAttempt(held[w], TRUE)

\* Fault: the certificate is stored and last_epoch stays behind.
CommitEpochBehind(w) ==
    /\ pc[w] = "sunk"
    /\ CommitAllowed(w)
    /\ certToken' = [certToken EXCEPT ![epoch[w]] = held[w]]
    /\ certPos' = [certPos EXCEPT ![epoch[w]] = Merge(Committed, cov[w])]
    /\ Goto(w, "certified")
    /\ UNCHANGED <<streamVars, retired, lastEpoch>>
    /\ UNCHANGED <<runVars, bornVars, attemptVars, planeVars, dataVars>>

\* The response may be lost: GetEpoch then finds the certificate the worker
\* sent, or fails too and the worker gives up without knowing.
CommitEpoch(w) ==
    /\ pc[w] = "sunk"
    /\ CommitAllowed(w)
    /\ certToken' = [certToken EXCEPT ![epoch[w]] = held[w]]
    /\ certPos' = [certPos EXCEPT ![epoch[w]] = Merge(Committed, cov[w])]
    /\ lastEpoch' = epoch[w]
    /\ pending' = FALSE
    /\ memRev' = IF pending THEN memRev + 1 ELSE memRev
    /\ Goto(w, "certified") \/ Leave(w, "cleanup", "failed")
    /\ UNCHANGED <<curRun, desired, rev, retired>>
    /\ UNCHANGED <<runVars, bornVars, attemptVars, planeVars, dataVars>>

\* The lease is checked once more before the source may forget anything.
RenewCertified(w) ==
    /\ pc[w] = "certified"
    /\ Renewable(held[w])
    /\ Goto(w, "acking")
    /\ UNCHANGED <<storeVars, planeVars, dataVars>>

\* session.Acknowledge, then the reload after a baseline was certified.
Acknowledge(w) ==
    /\ pc[w] = "acking"
    /\ acked' = [d \in Domains |-> IF cov[w][d] > acked[d] THEN cov[w][d] ELSE acked[d]]
    /\ pc' = [pc EXCEPT ![w] = "bind"]
    /\ at' = [at EXCEPT ![w] = Merge(at[w], cov[w])]
    /\ cov' = [cov EXCEPT ![w] = Start]
    /\ epoch' = [epoch EXCEPT ![w] = epoch[w] + 1]
    /\ seenMem' = [seenMem EXCEPT ![w] = IF w \in activates THEN memRev ELSE seenMem[w]]
    /\ sawPending' = sawPending \ {v \in {w} : v \in activates}
    /\ activates' = activates \ {w}
    /\ UNCHANGED <<durable, ownerVars, storeVars, planeVars>>

\* Any call of the loop may fail: the source, the pipeline, the destination,
\* the store, or a refused lease.
StepFails(w) ==
    /\ pc[w] \in Looping
    /\ \E reason \in {"failed", "schema"} : Leave(w, "cleanup", reason)
    /\ UNCHANGED <<storeVars, planeVars, dataVars>>

\* startContinuousHeartbeat: renew, then observe yield, pause and stop.
Heartbeat(w) ==
    /\ pc[w] \in Looping
    /\ w \notin hbFailed
    /\ Renewable(held[w])
    /\ held[w] \in yielding \/ desired # "enabled"
    /\ stopping' = stopping \cup {w}
    /\ yielded' = yielded \cup {v \in {w} : held[w] \in yielding}
    /\ UNCHANGED <<pc, held, cause, hbFailed, loopVars, storeVars, planeVars, dataVars>>

\* A beat fails: the renewal is refused, the store does not answer within a
\* third of the lease, or the drain lasted too long.
HeartbeatFails(w) ==
    /\ pc[w] \in Looping
    /\ hbFailed' = hbFailed \cup {w}
    /\ UNCHANGED <<pc, held, cause, stopping, yielded, loopVars, storeVars,
                   planeVars, dataVars>>

\* The deferred cleanup joins the pipeline, aborts, closes and stops the
\* heartbeat; an error of any of them leaves the termination unproven.
Cleanup(w) ==
    /\ pc[w] = "cleanup"
    /\ \E point \in Ending :
         /\ w \in hbFailed => point = "endUnproven"
         /\ pc' = [pc EXCEPT ![w] = point]
    /\ cause' = IF cause[w] = "none" /\ w \in yielded
                THEN [cause EXCEPT ![w] = "upgrade"] ELSE cause
    /\ UNCHANGED <<held, stopping, yielded, hbFailed, loopVars, storeVars,
                   planeVars, dataVars>>

\* Fault: a clean end is accepted after the lease ran out.
EndAfterExpiry(w) == CurrentAttempt(held[w], FALSE)

\* EndAttempt: a clean end needs a live lease, an unproven one does not.
EndAllowed(w) == CurrentAttempt(held[w], pc[w] = "endClean")

EndAttempt(w) ==
    /\ pc[w] \in Ending
    /\ EndAllowed(w)
    /\ term' = [term EXCEPT ![held[w]] =
                  IF pc[w] = "endClean" THEN "clean" ELSE "unproven"]
    /\ attReason' = [attReason EXCEPT ![held[w]] = cause[w]]
    /\ UNCHANGED bornVars
    /\ Settle(status, ended, term', desired, rev)
    /\ Vacate(w)
    /\ UNCHANGED <<latest, attRun, attRev, claimed, yielding, expired>>
    /\ UNCHANGED <<epochVars, planeVars, dataVars>>

\* The process disappears without cleaning up, or exits because EndAttempt
\* was refused or not answered: its attempt stays open.
Exit(w) ==
    /\ pc[w] # "idle"
    /\ Vacate(w)
    /\ UNCHANGED <<storeVars, planeVars, dataVars>>

\* The lease of an open attempt runs out.
Expire(t) ==
    /\ t <= latest
    /\ term[t] = "live"
    /\ expired' = expired \cup {t}
    /\ UNCHANGED <<latest, attRun, attRev, term, attReason, claimed, yielding>>
    /\ UNCHANGED <<streamVars, runVars, bornVars, epochVars, planeVars,
                   workerVars, dataVars>>

----------------------------------------------------------------------------
Init ==
    /\ curRun = NoRun
    /\ desired = "stopped"
    /\ rev = 0
    /\ memRev = 0
    /\ pending \in BOOLEAN
    /\ retired = FALSE
    /\ lastEpoch = 0
    /\ status = [r \in Runs |-> "absent"]
    /\ ended = {}
    /\ born = [r \in Runs |-> 0]
    /\ births = 0
    /\ latest = 0
    /\ attRun = [t \in Tokens |-> NoRun]
    /\ attRev = [t \in Tokens |-> 0]
    /\ term = [t \in Tokens |-> "none"]
    /\ attReason = [t \in Tokens |-> "none"]
    /\ claimed = {}
    /\ yielding = {}
    /\ expired = {}
    /\ certToken = [e \in Epochs |-> 0]
    /\ certPos = [e \in Epochs |-> Start]
    /\ cmd = [s \in Supervisors |-> NoCommand]
    /\ api = NoSignal
    /\ jobs = {}
    /\ outdated = {}
    /\ pc = [w \in Workers |-> "idle"]
    /\ held = [w \in Workers |-> 0]
    /\ cause = [w \in Workers |-> "none"]
    /\ stopping = {}
    /\ yielded = {}
    /\ hbFailed = {}
    /\ epoch = [w \in Workers |-> 1]
    /\ seenMem = [w \in Workers |-> 0]
    /\ sawPending = {}
    /\ at = [w \in Workers |-> Start]
    /\ cov = [w \in Workers |-> Start]
    /\ activates = {}
    /\ durable = {}
    /\ acked = Start

Submit == \E r \in Runs : QueueSuccessor(r) \/ Activate(r)

Signaling ==
    \/ \E want \in Desired : SignalMatches(want) \/ SignalLoad(want)
    \/ SignalSet
    \/ SignalConflict

Issue(s) ==
    \/ StartAttempt(s)
    \/ RetireUnclaimedAttempt(s)
    \/ YieldAttempt(s)
    \/ Dispatch(s)
    \/ PauseExhausted(s)
    \/ CommandRefused(s)

\* What a worker does next by itself.
Execute(w) ==
    \/ LoadState(w)
    \/ RenewLoaded(w)
    \/ Abandon(w)
    \/ BindEpoch(w)
    \/ \E c \in Positions : Read(w, c)
    \/ ReadIdle(w)
    \/ SinkCommit(w)
    \/ CommitEpoch(w)
    \/ RenewCertified(w)
    \/ Acknowledge(w)
    \/ StepFails(w)
    \/ Cleanup(w)
    \/ EndAttempt(w)

Next ==
    \/ Submit
    \/ RetireGeneration
    \/ Signaling
    \/ Upgrade
    \/ \E s \in Supervisors : SupervisorLoad(s) \/ Issue(s)
    \/ \E w \in Workers :
         \/ \E t \in Tokens : Claim(w, t)
         \/ Execute(w)
         \/ Heartbeat(w)
         \/ HeartbeatFails(w)
         \/ Exit(w)
    \/ \E t \in Tokens : Expire(t)

Spec == Init /\ [][Next]_vars

\* The supervisor scans every second, the heartbeat beats at least as often,
\* every call of a worker is bounded by the boundary's MaxWait or the drain
\* timeout, and the API finishes the requests it accepted.
Fairness ==
    /\ \A s \in Supervisors : WF_vars(SupervisorLoad(s)) /\ WF_vars(Issue(s))
    /\ \A w \in Workers : WF_vars(Execute(w)) /\ WF_vars(Heartbeat(w))
    /\ WF_vars(SignalSet \/ SignalConflict)

FairSpec == Spec /\ Fairness

----------------------------------------------------------------------------
(***************************************************************************)
(* Safety.                                                                 *)
(***************************************************************************)

\* The rows of replication_streams, runs, stream_attempts and stream_epochs.
StreamType ==
    /\ curRun \in Runs \cup {NoRun}
    /\ desired \in Desired
    /\ rev \in Nat
    /\ memRev \in Nat
    /\ pending \in BOOLEAN
RunType ==
    /\ status \in [Runs -> Statuses]
    /\ ended \subseteq Runs
    /\ born \in [Runs -> Nat]
    /\ births \in Nat
AttemptType ==
    /\ latest \in 0..MaxAttempts
    /\ attRun \in [Tokens -> Runs \cup {NoRun}]
    /\ attRev \in [Tokens -> Nat]
    /\ term \in [Tokens -> Terminations]
    /\ attReason \in [Tokens -> Reasons]
    /\ claimed \subseteq Tokens
    /\ yielding \subseteq Tokens
    /\ expired \subseteq Tokens
EpochType ==
    /\ retired \in BOOLEAN
    /\ lastEpoch \in 0..MaxEpochs
    /\ certToken \in [Epochs -> Nat]
    /\ certPos \in [Epochs -> Positions]

\* The control plane, the workers and the world outside.
PlaneType ==
    /\ cmd \in [Supervisors -> Command]
    /\ api \in Signal \cup {NoSignal}
    /\ jobs \subseteq Tokens
    /\ outdated \subseteq Tokens
OwnerType ==
    /\ pc \in [Workers -> ProgramPoints]
    /\ held \in [Workers -> 0..MaxAttempts]
    /\ cause \in [Workers -> Reasons]
    /\ stopping \subseteq Workers
    /\ yielded \subseteq Workers
    /\ hbFailed \subseteq Workers
LoopType ==
    /\ epoch \in [Workers -> Nat]
    /\ seenMem \in [Workers -> Nat]
    /\ sawPending \subseteq Workers
    /\ at \in [Workers -> Positions]
    /\ cov \in [Workers -> Positions]
    /\ activates \subseteq Workers
DataType ==
    /\ durable \subseteq Domains \X (1..MaxPosition)
    /\ acked \in Positions

\* Every variable keeps the shape the store's schema and the worker's locals
\* give it.
TypeOK ==
    /\ StreamType /\ RunType /\ AttemptType /\ EpochType
    /\ PlaneType /\ OwnerType /\ LoopType /\ DataType

\* Two worker processes never execute the stream at the same time: from its
\* claim until its cleanup has joined the source, the pipeline and the sink, a
\* worker is alone, whatever leases expired and Jobs were repeated meanwhile
\* (ClaimStreamAttempt, StartAttempt, RetireUnclaimedAttempt).
SingleOwner ==
    \A v, w \in Workers : pc[v] \in Executing /\ pc[w] \in Executing => v = w

\* Everything below the certified positions is durable at the destination:
\* runEpochs commits the sink first, and no attempt resumes past a gap.
CertifiedIsDurable ==
    \A d \in Domains : \A p \in 1..Committed[d] : <<d, p>> \in durable

\* The source is never told to forget what the store has not certified.
AckedIsCertified == \A d \in Domains : acked[d] <= Committed[d]

\* The stored epochs are 1..last_epoch without a hole, under fencing tokens
\* that never go back and positions that never regress.
EpochChain ==
    /\ \A e \in Epochs : certToken[e] # 0 <=> e <= lastEpoch
    /\ \A e \in 1..(lastEpoch - 1) :
         /\ certToken[e] <= certToken[e + 1]
         /\ \A d \in Domains : certPos[e][d] <= certPos[e + 1][d]

\* The status of a run that is not stopping is the one derived from attempts
\* and intent, in every state between transactions (SyncContinuousRunPhase).
PhaseAgrees ==
    HasLiveRun /\ desired # "stopped" => status[curRun] = Phase(term, desired)

\* A completed run has no open attempt and no worker still executing for it.
CompletedIsQuiet ==
    \A r \in Runs : status[r] = "completed" =>
        /\ \A t \in 1..latest : attRun[t] = r => term[t] = "clean"
        /\ \A w \in Workers : pc[w] \in Executing => attRun[held[w]] # r

\* An expired lease never proves that a claimed worker has stopped: its
\* attempt is not recorded as clean and no attempt is admitted after it.
ExpiryProvesNothing ==
    [][\A t \in claimed \cap expired : term[t] # "clean" =>
         latest' = latest /\ term'[t] # "clean"]_vars

\* A run that was told to stop is never enabled again; only another run may
\* take the stream over.
StopIsFinal ==
    [][desired = "stopped" /\ curRun' = curRun => desired' = "stopped"]_vars

\* An ended run keeps its status for good.
EndedIsFinal ==
    [][\A r \in ended : r \in ended' /\ status'[r] = status[r]]_vars

----------------------------------------------------------------------------
(***************************************************************************)
(* What the safety properties rest on.                                     *)
(***************************************************************************)

\* A command about an attempt names one, and nothing is requested, decided
\* or admitted before the stream has a run.
CommandInv ==
    /\ \A s \in Supervisors :
         cmd[s].op \in {"retire", "yield", "dispatch"} => cmd[s].token # 0
    /\ curRun = NoRun =>
         /\ api = NoSignal
         /\ latest = 0
         /\ \A s \in Supervisors : cmd[s] = NoCommand

\* Takeover is one attempt at a time: only the latest may be open, and a
\* worker process that has not exited holds that one, claimed, by itself.
OwnershipInv ==
    /\ \A t \in Tokens : t < latest => term[t] = "clean"
    /\ \A t \in Tokens : t > latest => term[t] = "none" /\ t \notin claimed
    /\ \A w \in Workers : pc[w] # "idle" =>
         held[w] \in claimed /\ term[held[w]] = "live"
    /\ \A v, w \in Workers : pc[v] # "idle" /\ pc[w] # "idle" => v = w

\* Before its certificate is stored, a worker's local position and epoch
\* number are those of the store; afterwards its coverage accounts for the
\* difference.  Its rows are durable from the sink's commit on.
InStep(w) ==
    /\ pc[w] \in {"loaded", "bind", "reading", "sealed", "sunk"} =>
         at[w] = Committed /\ epoch[w] = lastEpoch + 1
    /\ pc[w] = "sunk" => RowsOf(at[w], cov[w]) \subseteq durable
    /\ pc[w] \in {"certified", "acking"} =>
         Committed = Merge(at[w], cov[w]) /\ epoch[w] = lastEpoch

\* Every worker is in step with the store, and no certificate carries a token
\* that was never issued.
ProgressInv ==
    /\ \A e \in 1..lastEpoch : certToken[e] <= latest
    /\ \A w \in Workers : InStep(w)

\* The inductive invariant of the ownership and delivery arguments.
DeliveryInv ==
    /\ TypeOK
    /\ CommandInv
    /\ OwnershipInv
    /\ EpochChain
    /\ ProgressInv
    /\ CertifiedIsDurable
    /\ AckedIsCertified

----------------------------------------------------------------------------
(***************************************************************************)
(* Liveness.                                                               *)
(***************************************************************************)

\* The stream needs an operator: some claimed attempt did not end cleanly and
\* its worker is gone or lost its lease.
Blocked ==
    \E t \in 1..latest :
        \/ term[t] = "unproven"
        \/ /\ term[t] = "live"
           /\ t \in claimed
           /\ t \in expired \/ \A w \in Workers : held[w] # t

\* A run told to stop drains and completes, unless the stream gets blocked:
\* the heartbeat tells a worker, and the supervisor retires a dispatch nobody
\* claimed.
StopDrains ==
    \A r \in Runs : (curRun = r /\ desired = "stopped") ~> (r \in ended \/ Blocked)

\* A run told to stop while another waits hands the stream over, unless every
\* waiting run is withdrawn or the stream gets blocked.
HandoverHappens ==
    \A r \in Runs :
        (curRun = r /\ desired = "stopped" /\ Waiting(status) # {})
            ~> (curRun # r \/ Waiting(status) = {} \/ Blocked)

----------------------------------------------------------------------------
(***************************************************************************)
(* The runtime implements the delivery contract of module EpochLog.        *)
(***************************************************************************)
Log == INSTANCE EpochLog WITH certified <- Committed

\* Every step of the runtime is, seen from the source and the destination, a
\* delivery, a certification of delivered rows, an acknowledgement of
\* certified ones, or nothing.
ImplementsEpochLog == Log!Spec
=============================================================================
