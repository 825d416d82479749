------------------------ MODULE StreamRuntimeProofs -------------------------
(***************************************************************************)
(* What the runtime keeps for every number of runs, workers, attempts and  *)
(* epochs.  In four parts: every step keeps TypeOK; commands stay well     *)
(* formed, a stream has one owner, and the chain of epochs, the workers and*)
(* the sink stay in step; the theorems that follow, with the refinement of *)
(* EpochLog; and the rows of the runs agree with the stream.               *)
(***************************************************************************)
EXTENDS StreamRuntime, TLAPS

\* The literals the actions store are values of their types.
LEMMA LiteralTypes ==
    /\ {"requested", "running", "paused", "scheduled", "canceled", "completed"}
         \subseteq Statuses
    /\ {"live", "clean", "unproven"} \subseteq Terminations
    /\ {"none", "failed", "schema", "upgrade"} \subseteq Reasons
    /\ {"enabled", "paused", "stopped"} \subseteq Desired
    /\ {"idle", "claimed", "loaded", "bind", "reading", "sealed", "sunk",
        "certified", "acking", "cleanup", "endClean", "endUnproven"}
         \subseteq ProgramPoints
  BY Zenon DEF Statuses, Terminations, Reasons, Desired, ProgramPoints, Executing,
         Looping, Ending

\* The values the variables are reset to, and the positions the model
\* computes, have their types.
LEMMA ValueTypes ==
    ASSUME TypeOK
    PROVE  /\ NoCommand \in Command
           /\ Start \in Positions
           /\ Committed \in Positions
           /\ \A p, c \in Positions : Merge(p, c) \in Positions
           /\ LoadedAttempt \in 0..MaxAttempts
           /\ lastEpoch + 1 \in Nat
           /\ 0 \in 0..MaxAttempts
<1>1. NoCommand \in Command /\ 0 \in 0..MaxAttempts
  BY BoundsAssumption DEF NoCommand, Command
<1>2. Start \in Positions
  BY BoundsAssumption DEF Start, Positions
<1>3. Committed \in Positions
  BY <1>2, BoundsAssumption DEF Committed, TypeOK, EpochType, Epochs
<1>4. \A p, c \in Positions : Merge(p, c) \in Positions
  BY Zenon DEF Merge, Positions
<1>5. LoadedAttempt \in 0..MaxAttempts
  BY BoundsAssumption DEF LoadedAttempt, TypeOK, AttemptType
<1>6. lastEpoch + 1 \in Nat
  BY BoundsAssumption DEF TypeOK, EpochType
<1> QED
  BY <1>1, <1>2, <1>3, <1>4, <1>5, <1>6, Zenon

\* A part of the state that does not change keeps its types.
LEMMA TypeFrame ==
    ASSUME TypeOK
    PROVE  /\ UNCHANGED streamVars => StreamType'
           /\ UNCHANGED <<runVars, bornVars>> => RunType'
           /\ UNCHANGED attemptVars => AttemptType'
           /\ UNCHANGED epochVars => EpochType'
           /\ UNCHANGED planeVars => PlaneType'
           /\ UNCHANGED <<pc, ownerVars>> => OwnerType'
           /\ UNCHANGED loopVars => LoopType'
           /\ UNCHANGED dataVars => DataType'
<1>1. UNCHANGED streamVars => StreamType'
  BY Zenon DEF TypeOK, StreamType, streamVars
<1>2. UNCHANGED <<runVars, bornVars>> => RunType'
  BY Zenon DEF TypeOK, RunType, runVars, bornVars
<1>3. UNCHANGED attemptVars => AttemptType'
  BY Zenon DEF TypeOK, AttemptType, attemptVars
<1>4. UNCHANGED epochVars => EpochType'
  BY Zenon DEF TypeOK, EpochType, epochVars
<1>5. UNCHANGED planeVars => PlaneType'
  BY Zenon DEF TypeOK, PlaneType, planeVars
<1>6. UNCHANGED <<pc, ownerVars>> => OwnerType'
  BY Zenon DEF TypeOK, OwnerType, ownerVars
<1>7. UNCHANGED loopVars => LoopType'
  BY Zenon DEF TypeOK, LoopType, loopVars
<1>8. UNCHANGED dataVars => DataType'
  BY Zenon DEF TypeOK, DataType, dataVars
<1> QED
  BY <1>1, <1>2, <1>3, <1>4, <1>5, <1>6, <1>7, <1>8, Zenon

\* A step that only moves workers.
LEMMA WorkerMove ==
    ASSUME TypeOK, UNCHANGED <<storeVars, planeVars, dataVars>>,
           OwnerType', LoopType'
    PROVE  TypeOK'
  BY TypeFrame, Zenon DEF TypeOK, storeVars

\* A step that leaves the workers and the outside world alone.
LEMMA StoreMove ==
    ASSUME TypeOK, UNCHANGED <<workerVars, dataVars>>,
           StreamType', RunType', AttemptType', EpochType', PlaneType'
    PROVE  TypeOK'
  BY TypeFrame, Zenon DEF TypeOK, workerVars

\* A step of the control plane that leaves the store alone.
LEMMA PlaneMove ==
    ASSUME TypeOK, UNCHANGED <<storeVars, workerVars, dataVars>>, PlaneType'
    PROVE  TypeOK'
  BY TypeFrame, Zenon DEF TypeOK, storeVars, workerVars

\* Leaving the loop keeps the worker's variables typed.
LEMMA LeaveType ==
    ASSUME TypeOK, NEW w \in Workers, NEW point \in ProgramPoints,
           NEW reason \in Reasons, Leave(w, point, reason)
    PROVE  OwnerType' /\ LoopType'
<1>1. OwnerType'
  BY Zenon DEF Leave, TypeOK, OwnerType
<1>2. LoopType'
  BY ValueTypes, Zenon DEF Leave, ResetLoop, TypeOK, LoopType
<1> QED
  BY <1>1, <1>2, Zenon

\* So does the disappearance of the process.
LEMMA VacateType ==
    ASSUME TypeOK, NEW w \in Workers, Vacate(w)
    PROVE  OwnerType' /\ LoopType'
<1>1. OwnerType'
  BY ValueTypes, LiteralTypes, Zenon DEF Vacate, TypeOK, OwnerType
<1>2. LoopType'
  BY ValueTypes, Zenon DEF Vacate, ResetLoop, TypeOK, LoopType
<1> QED
  BY <1>1, <1>2, Zenon

\* And moving to another program point.
LEMMA GotoType ==
    ASSUME TypeOK, NEW w \in Workers, NEW point \in ProgramPoints, Goto(w, point)
    PROVE  OwnerType' /\ LoopType'
<1>1. LoopType'
  BY TypeFrame, Zenon DEF Goto
<1>2. OwnerType'
  BY Zenon DEF Goto, ownerVars, TypeOK, OwnerType
<1> QED
  BY <1>1, <1>2, Zenon

\* A command is answered once, and its fields are typed.
LEMMA CommandTypes ==
    ASSUME TypeOK, NEW s \in Supervisors
    PROVE  /\ Answered(s) => cmd' \in [Supervisors -> Command]
           /\ cmd[s].run \in Runs \cup {NoRun}
           /\ cmd[s].rev \in Nat
           /\ cmd[s].token \in 0..MaxAttempts
           /\ cmd[s].token # 0 => cmd[s].token \in Tokens
<1>1. Answered(s) => cmd' \in [Supervisors -> Command]
  BY ValueTypes, Zenon DEF Answered, TypeOK, PlaneType
<1>2. cmd[s] \in Command
  BY Zenon DEF TypeOK, PlaneType
<1> QED
  BY <1>1, <1>2, BoundsAssumption DEF Command, Tokens

\* settleStoppedStream keeps the stream and its runs typed.
LEMMA SettleType ==
    ASSUME TypeOK, curRun # NoRun,
           NEW st \in [Runs -> Statuses], NEW en \in SUBSET Runs,
           NEW tm, NEW des \in Desired, NEW rv \in Nat,
           Settle(st, en, tm, des, rv)
    PROVE  StreamType' /\ status' \in [Runs -> Statuses] /\ ended' \subseteq Runs
<1> DEFINE synced == SyncedStatus(st, en, tm, des)
<1>1. synced \in [Runs -> Statuses]
  <2>1. Phase(tm, des) \in Statuses /\ "completed" \in Statuses
    BY LiteralTypes, Zenon DEF Phase
  <2> QED
    BY <2>1, Zenon DEF SyncedStatus
<1>2. SyncedEnded(en, tm, des) \subseteq Runs
  BY Zenon DEF SyncedEnded, TypeOK, StreamType
<1>3. ended' \subseteq Runs
  BY <1>2, Zenon DEF Settle
<1>4. ReviseMembership => memRev' \in Nat /\ pending' \in BOOLEAN
  BY DEF ReviseMembership, TypeOK, StreamType
<1>5. CASE \E r \in Runs : Promote(synced, rv, r)
  BY <1>1, <1>3, <1>4, <1>5, LiteralTypes DEF Promote, StreamType
<1>6. CASE /\ status' = synced /\ desired' = des /\ rev' = rv
           /\ UNCHANGED <<curRun, memRev, pending>>
  BY <1>1, <1>3, <1>6, Zenon DEF TypeOK, StreamType
<1> QED
  BY <1>5, <1>6, Zenon DEF Settle

\* An accepted change of intent keeps the store typed.
LEMMA SetDesiredType ==
    ASSUME TypeOK, curRun # NoRun, NEW want \in Desired, NEW expected,
           SetDesiredState(want, expected)
    PROVE  StreamType' /\ RunType' /\ AttemptType' /\ EpochType'
<1> DEFINE dropped == IF want = "stopped" THEN NewestWaiting(status, born) ELSE {}
           kept == [q \in Runs |-> IF q \in dropped THEN "canceled" ELSE status[q]]
<1>1. Settle(kept, ended \cup dropped, term, want, rev + 1)
  BY Zenon DEF SetDesiredState
<1>2. dropped \subseteq Runs
  BY Zenon DEF NewestWaiting, Waiting
<1> HIDE DEF dropped
<1>3. kept \in [Runs -> Statuses] /\ ended \cup dropped \in SUBSET Runs /\ rev + 1 \in Nat
  BY <1>2, LiteralTypes DEF TypeOK, StreamType, RunType
<1> HIDE DEF kept
<1>4. StreamType' /\ status' \in [Runs -> Statuses] /\ ended' \subseteq Runs
  BY <1>1, <1>3, SettleType, Zenon
<1>5. UNCHANGED bornVars /\ UNCHANGED attemptVars /\ UNCHANGED epochVars
  BY Zenon DEF SetDesiredState
<1>6. RunType'
  BY <1>4, <1>5, Zenon DEF bornVars, TypeOK, RunType
<1> QED
  BY <1>4, <1>5, <1>6, TypeFrame, Zenon

\* queueStreamSuccessor writes run statuses and an intent of their types.
LEMMA QueueSuccessorType ==
    ASSUME TypeOK, NEW r \in Runs, QueueSuccessor(r)
    PROVE  TypeOK'
<1> DEFINE parked == [status EXCEPT ![r] = "scheduled"]
           older == NewestWaiting(parked, born') \ {r}
           kept == [q \in Runs |-> IF q \in older THEN "canceled" ELSE parked[q]]
<1>1. born' \in [Runs -> Nat] /\ births' \in Nat
  BY DEF QueueSuccessor, Stamp, TypeOK, RunType
<1>2. Settle(kept, ended \cup older, term, "stopped", rev + 1)
  BY Zenon DEF QueueSuccessor
<1>3. parked \in [Runs -> Statuses] /\ older \subseteq Runs
  BY LiteralTypes, Zenon DEF NewestWaiting, Waiting, TypeOK, RunType
<1> HIDE DEF parked, older
<1>4. kept \in [Runs -> Statuses] /\ ended \cup older \in SUBSET Runs /\ rev + 1 \in Nat
  BY <1>3, LiteralTypes DEF TypeOK, RunType, StreamType
<1>5. curRun # NoRun /\ "stopped" \in Desired
  BY LiteralTypes, Zenon DEF QueueSuccessor, HasLiveRun
<1> HIDE DEF kept
<1>6. StreamType' /\ status' \in [Runs -> Statuses] /\ ended' \subseteq Runs
  BY <1>2, <1>4, <1>5, SettleType, Zenon
<1>7. RunType'
  BY <1>1, <1>6, Zenon DEF RunType
<1> QED
  BY <1>6, <1>7, TypeFrame, StoreMove, Zenon DEF QueueSuccessor

\* The first activation of a stream stores a run and an enabled intent.
LEMMA ActivateType ==
    ASSUME TypeOK, NEW r \in Runs, Activate(r)
    PROVE  TypeOK'
<1>1. RunType'
  BY LiteralTypes DEF Activate, Stamp, TypeOK, RunType
<1>2. StreamType'
  BY LiteralTypes DEF Activate, ReviseMembership, TypeOK, StreamType
<1> QED
  BY <1>1, <1>2, TypeFrame, StoreMove, Zenon DEF Activate

\* Submitting a run keeps the types.
LEMMA SubmitType ==
    ASSUME TypeOK, Submit
    PROVE  TypeOK'
  BY QueueSuccessorType, ActivateType, Zenon DEF Submit

\* An intent that already holds changes nothing.
LEMMA SignalMatchesType ==
    ASSUME TypeOK, CommandInv, NEW want \in Desired, SignalMatches(want)
    PROVE  TypeOK'
  BY TypeFrame, PlaneMove, Zenon DEF SignalMatches, vars

\* The signal handler remembers a revision and an intent.
LEMMA SignalLoadType ==
    ASSUME TypeOK, CommandInv, NEW want \in Desired, SignalLoad(want)
    PROVE  TypeOK'
  BY PlaneMove, Zenon DEF SignalLoad, Signal, TypeOK, PlaneType, StreamType

\* SetDesiredState, called by the API, keeps the types.
LEMMA SignalSetType ==
    ASSUME TypeOK, CommandInv, SignalSet
    PROVE  TypeOK'
<1>1. api \in Signal /\ curRun # NoRun
  BY Zenon DEF SignalSet, TypeOK, PlaneType, CommandInv
<1>2. api.want \in Desired
  BY <1>1, Zenon DEF Signal
<1>3. StreamType' /\ RunType' /\ AttemptType' /\ EpochType'
  BY <1>1, <1>2, SetDesiredType, Zenon DEF SignalSet
<1>4. PlaneType'
  BY Zenon DEF SignalSet, TypeOK, PlaneType
<1> QED
  BY <1>3, <1>4, StoreMove, Zenon DEF SignalSet

\* A refused signal forgets what it loaded.
LEMMA SignalConflictType ==
    ASSUME TypeOK, CommandInv, SignalConflict
    PROVE  TypeOK'
  BY PlaneMove, Zenon DEF SignalConflict, TypeOK, PlaneType

\* Signals keep the types.
LEMMA SignalType ==
    ASSUME TypeOK, CommandInv, Signaling
    PROVE  TypeOK'
  BY SignalMatchesType, SignalLoadType, SignalSetType, SignalConflictType, Zenon DEF Signaling

----------------------------------------------------------------------------

\* A pass of reconcileRun ends in one command.
LEMMA SupervisorLoadType ==
    ASSUME TypeOK, CommandInv, NEW s \in Supervisors, SupervisorLoad(s)
    PROVE  TypeOK'
<1>1. PICK op \in Decisions : cmd' = [cmd EXCEPT ![s] =
          [op |-> op, run |-> curRun, rev |-> rev, token |-> LoadedAttempt]]
  BY Zenon DEF SupervisorLoad
<1>2. op \in {"none", "retire", "yield", "dispatch", "start", "pause"}
  BY Zenon DEF Decisions, OpenDecision, EndedDecision
<1>3. [op |-> op, run |-> curRun, rev |-> rev, token |-> LoadedAttempt] \in Command
  BY <1>2, ValueTypes, Zenon DEF Command, TypeOK, StreamType
<1>4. PlaneType'
  BY <1>1, <1>3, Zenon DEF SupervisorLoad, TypeOK, PlaneType
<1> QED
  BY <1>4, PlaneMove, Zenon DEF SupervisorLoad

\* StartAttempt inserts the next token.
LEMMA StartAttemptType ==
    ASSUME TypeOK, CommandInv, NEW s \in Supervisors, StartAttempt(s)
    PROVE  TypeOK'
<1>1. latest + 1 \in Tokens /\ latest + 1 \in 0..MaxAttempts
  BY BoundsAssumption DEF StartAttempt, TypeOK, AttemptType, Tokens
<1>2. AttemptType'
  BY <1>1, CommandTypes, LiteralTypes, Zenon DEF StartAttempt, TypeOK, AttemptType
<1>3. PlaneType'
  BY <1>1, CommandTypes, Zenon DEF StartAttempt, TypeOK, PlaneType
<1> QED
  BY <1>2, <1>3, TypeFrame, StoreMove, Zenon DEF StartAttempt

\* RetireUnclaimedAttempt closes a row and settles the stream.
LEMMA RetireUnclaimedAttemptType ==
    ASSUME TypeOK, CommandInv, NEW s \in Supervisors, RetireUnclaimedAttempt(s)
    PROVE  TypeOK'
<1>1. AttemptType'
  BY LiteralTypes DEF RetireUnclaimedAttempt, TypeOK, AttemptType
<1>2. cmd[s].op = "retire" /\ Settle(status, ended, term', desired, rev)
  BY Zenon DEF RetireUnclaimedAttempt
<1>3. curRun # NoRun
  BY <1>2 DEF CommandInv, NoCommand
<1>4. /\ status \in [Runs -> Statuses] /\ ended \in SUBSET Runs
      /\ desired \in Desired /\ rev \in Nat
  BY Zenon DEF TypeOK, RunType, StreamType
<1>5. StreamType' /\ status' \in [Runs -> Statuses] /\ ended' \subseteq Runs
  BY <1>2, <1>3, <1>4, SettleType, Zenon
<1>6. RunType'
  BY <1>5, Zenon DEF RetireUnclaimedAttempt, bornVars, TypeOK, RunType
<1>7. PlaneType'
  BY CommandTypes, Zenon DEF RetireUnclaimedAttempt, TypeOK, PlaneType
<1> QED
  BY <1>1, <1>5, <1>6, <1>7, TypeFrame, StoreMove, Zenon DEF RetireUnclaimedAttempt

\* YieldAttempt marks a row.
LEMMA YieldAttemptType ==
    ASSUME TypeOK, CommandInv, NEW s \in Supervisors, YieldAttempt(s)
    PROVE  TypeOK'
<1>1. AttemptType'
  BY CommandTypes, Zenon DEF YieldAttempt, CommandInv, TypeOK, AttemptType
<1>2. PlaneType'
  BY CommandTypes, Zenon DEF YieldAttempt, TypeOK, PlaneType
<1> QED
  BY <1>1, <1>2, TypeFrame, StoreMove, Zenon DEF YieldAttempt

\* A dispatch adds the token to the delivered jobs.
LEMMA DispatchType ==
    ASSUME TypeOK, CommandInv, NEW s \in Supervisors, Dispatch(s)
    PROVE  TypeOK'
  BY CommandTypes, PlaneMove, Zenon DEF Dispatch, CommandInv, TypeOK, PlaneType

\* Pausing an exhausted stream goes through SetDesiredState.
LEMMA PauseExhaustedType ==
    ASSUME TypeOK, CommandInv, NEW s \in Supervisors, PauseExhausted(s)
    PROVE  TypeOK'
<1>1. cmd[s].op = "pause" /\ SetDesiredState("paused", cmd[s].rev)
  BY Zenon DEF PauseExhausted
<1>2. curRun # NoRun /\ "paused" \in Desired
  BY <1>1, LiteralTypes DEF CommandInv, NoCommand
<1>3. StreamType' /\ RunType' /\ AttemptType' /\ EpochType'
  BY <1>1, <1>2, SetDesiredType, Zenon
<1>4. PlaneType'
  BY CommandTypes, Zenon DEF PauseExhausted, TypeOK, PlaneType
<1> QED
  BY <1>3, <1>4, StoreMove, Zenon DEF PauseExhausted

\* A refused command leaves the supervisor without one.
LEMMA CommandRefusedType ==
    ASSUME TypeOK, CommandInv, NEW s \in Supervisors, CommandRefused(s)
    PROVE  TypeOK'
  BY CommandTypes, PlaneMove, Zenon DEF CommandRefused, TypeOK, PlaneType

\* A pass of the supervisor and the command it issues keep the types.
LEMMA SupervisorType ==
    ASSUME TypeOK, CommandInv, NEW s \in Supervisors, SupervisorLoad(s) \/ Issue(s)
    PROVE  TypeOK'
  BY SupervisorLoadType, StartAttemptType, RetireUnclaimedAttemptType, Zenon,
     YieldAttemptType, DispatchType, PauseExhaustedType, CommandRefusedType
  DEF Issue

\* The loaded state of a worker is the state of the store.
LEMMA LoadStateType ==
    ASSUME TypeOK, CommandInv, NEW w \in Workers, LoadState(w)
    PROVE  TypeOK'
<1>1. OwnerType'
  BY LiteralTypes, Zenon DEF LoadState, ownerVars, TypeOK, OwnerType
<1>2. LoopType'
  BY ValueTypes, Zenon DEF LoadState, TypeOK, LoopType, StreamType
<1> QED
  BY <1>1, <1>2, WorkerMove, Zenon DEF LoadState

\* A renewal only moves the worker on.
LEMMA RenewLoadedType ==
    ASSUME TypeOK, CommandInv, NEW w \in Workers, RenewLoaded(w) \/ RenewCertified(w)
    PROVE  TypeOK'
  BY LiteralTypes, GotoType, WorkerMove, Zenon DEF RenewLoaded, RenewCertified

\* A worker that gives up keeps its attempt until it has cleaned up.
LEMMA AbandonType ==
    ASSUME TypeOK, CommandInv, NEW w \in Workers, Abandon(w) \/ ReadIdle(w) \/ StepFails(w)
    PROVE  TypeOK'
  BY LiteralTypes, LeaveType, WorkerMove, Zenon DEF Abandon, ReadIdle, StepFails

\* Binding an epoch moves the worker on, or ends its loop.
LEMMA BindEpochType ==
    ASSUME TypeOK, CommandInv, NEW w \in Workers, BindEpoch(w)
    PROVE  TypeOK'
  BY LiteralTypes, LeaveType, GotoType, WorkerMove, Zenon DEF BindEpoch

\* A read stores the coverage of the epoch.
LEMMA ReadType ==
    ASSUME TypeOK, CommandInv, NEW w \in Workers, NEW c \in Positions, Read(w, c)
    PROVE  TypeOK'
<1>1. OwnerType'
  BY LiteralTypes, Zenon DEF Read, ownerVars, TypeOK, OwnerType
<1>2. LoopType'
  BY Zenon DEF Read, TypeOK, LoopType
<1> QED
  BY <1>1, <1>2, WorkerMove, Zenon DEF Read

\* A sink commit adds rows inside the positions.
LEMMA SinkCommitType ==
    ASSUME TypeOK, CommandInv, NEW w \in Workers, SinkCommit(w)
    PROVE  TypeOK'
<1>1. OwnerType' /\ LoopType'
  BY LiteralTypes, LeaveType, GotoType, Zenon DEF SinkCommit
<1>2. DataType'
  BY Zenon DEF SinkCommit, RowsOf, TypeOK, DataType
<1> QED
  BY <1>1, <1>2, TypeFrame, Zenon DEF SinkCommit, storeVars, TypeOK

\* CommitEpoch inserts a certificate with a position of the stream.
LEMMA CommitEpochType ==
    ASSUME TypeOK, CommandInv, NEW w \in Workers, CommitEpoch(w)
    PROVE  TypeOK'
<1>1. OwnerType' /\ LoopType'
  BY LiteralTypes, LeaveType, GotoType, Zenon DEF CommitEpoch
<1>2. /\ epoch[w] \in Epochs /\ epoch[w] \in 0..MaxEpochs
      /\ held[w] \in Nat /\ cov[w] \in Positions
  BY BoundsAssumption
  DEF CommitEpoch, CommitAllowed, Epochs, TypeOK, EpochType, OwnerType, LoopType
<1>3. Merge(Committed, cov[w]) \in Positions
  BY <1>2, ValueTypes, Zenon
<1>4. EpochType'
  BY <1>2, <1>3, Zenon DEF CommitEpoch, TypeOK, EpochType
<1>5. /\ UNCHANGED <<curRun, desired, rev>>
      /\ memRev' \in {memRev, memRev + 1} /\ pending' = FALSE
  BY Zenon DEF CommitEpoch, TypeOK, StreamType
<1>6. memRev' \in Nat
  BY <1>5 DEF TypeOK, StreamType
<1>7. StreamType'
  BY <1>5, <1>6, Zenon DEF TypeOK, StreamType
<1> QED
  BY <1>1, <1>4, <1>7, TypeFrame, Zenon DEF CommitEpoch, TypeOK

\* An acknowledgement raises the acknowledged position inside the positions.
LEMMA AcknowledgeType ==
    ASSUME TypeOK, CommandInv, NEW w \in Workers, Acknowledge(w)
    PROVE  TypeOK'
<1>1. at[w] \in Positions /\ cov[w] \in Positions /\ acked \in Positions
  BY Zenon DEF TypeOK, LoopType, DataType
<1>2. DataType'
  BY <1>1, Zenon DEF Acknowledge, TypeOK, DataType, Positions
<1>3. Merge(at[w], cov[w]) \in Positions /\ Start \in Positions
  BY <1>1, ValueTypes, Zenon
<1>4. LoopType'
  BY <1>3 DEF Acknowledge, TypeOK, LoopType, StreamType
<1>5. OwnerType'
  BY LiteralTypes, Zenon DEF Acknowledge, ownerVars, TypeOK, OwnerType
<1> QED
  BY <1>2, <1>4, <1>5, TypeFrame, Zenon DEF Acknowledge, storeVars, TypeOK

\* Cleanup chooses how the attempt will be ended.
LEMMA CleanupType ==
    ASSUME TypeOK, CommandInv, NEW w \in Workers, Cleanup(w)
    PROVE  TypeOK'
<1>1. OwnerType'
  BY LiteralTypes, Zenon DEF Cleanup, Ending, TypeOK, OwnerType
<1> QED
  BY <1>1, TypeFrame, WorkerMove, Zenon DEF Cleanup

\* EndAttempt closes the row, settles the stream and frees the worker.
LEMMA EndAttemptType ==
    ASSUME TypeOK, CommandInv, NEW w \in Workers, EndAttempt(w)
    PROVE  TypeOK'
<1>1. AttemptType'
  BY LiteralTypes, Zenon DEF EndAttempt, TypeOK, AttemptType, OwnerType
<1>2. curRun # NoRun /\ Settle(status, ended, term', desired, rev)
  BY Zenon DEF EndAttempt, EndAllowed, CurrentAttempt, CommandInv
<1>3. /\ status \in [Runs -> Statuses] /\ ended \in SUBSET Runs
      /\ desired \in Desired /\ rev \in Nat
  BY Zenon DEF TypeOK, RunType, StreamType
<1>4. StreamType' /\ status' \in [Runs -> Statuses] /\ ended' \subseteq Runs
  BY <1>2, <1>3, SettleType, Zenon
<1>5. RunType'
  BY <1>4, Zenon DEF EndAttempt, bornVars, TypeOK, RunType
<1>6. OwnerType' /\ LoopType'
  BY VacateType, Zenon DEF EndAttempt
<1> QED
  BY <1>1, <1>4, <1>5, <1>6, TypeFrame, Zenon DEF EndAttempt, TypeOK

\* What a worker does by itself keeps the types.
LEMMA ExecuteType ==
    ASSUME TypeOK, CommandInv, NEW w \in Workers, Execute(w)
    PROVE  TypeOK'
  BY LoadStateType, RenewLoadedType, AbandonType, BindEpochType, ReadType, Zenon,
     SinkCommitType, CommitEpochType, AcknowledgeType, CleanupType, EndAttemptType
  DEF Execute

\* Retiring a generation keeps its certificates.
LEMMA RetireGenerationType ==
    ASSUME TypeOK, CommandInv, RetireGeneration
    PROVE  TypeOK'
<1>1. EpochType'
  BY Zenon DEF RetireGeneration, TypeOK, EpochType
<1>2. UNCHANGED <<streamVars, runVars, bornVars, attemptVars, planeVars, workerVars, dataVars>>
  BY Zenon DEF RetireGeneration
<1> QED
  BY <1>1, <1>2, TypeFrame, StoreMove, Zenon

\* A new release makes the open tokens outdated.
LEMMA UpgradeType ==
    ASSUME TypeOK, CommandInv, Upgrade
    PROVE  TypeOK'
<1>1. outdated' \subseteq Tokens
  BY BoundsAssumption DEF Upgrade, TypeOK, AttemptType, Tokens
<1>2. UNCHANGED <<cmd, api, jobs>> /\ UNCHANGED <<storeVars, workerVars, dataVars>>
  BY Zenon DEF Upgrade
<1>3. PlaneType'
  BY <1>1, <1>2, Zenon DEF TypeOK, PlaneType
<1> QED
  BY <1>2, <1>3, PlaneMove, Zenon

\* ClaimStreamAttempt gives the worker its token and starts the run.
LEMMA ClaimType ==
    ASSUME TypeOK, CommandInv, NEW w \in Workers, NEW t \in Tokens, Claim(w, t)
    PROVE  TypeOK'
<1>1. t \in 0..MaxAttempts
  BY BoundsAssumption DEF Tokens
<1>2. OwnerType'
  BY <1>1, LiteralTypes, Zenon DEF Claim, TypeOK, OwnerType
<1>3. AttemptType'
  BY Zenon DEF Claim, TypeOK, AttemptType
<1>4. RunType'
  BY LiteralTypes, Zenon DEF Claim, RunStarted, bornVars, TypeOK, RunType
<1> QED
  BY <1>2, <1>3, <1>4, TypeFrame, Zenon DEF Claim, TypeOK

\* A heartbeat only raises flags of its worker.
LEMMA HeartbeatType ==
    ASSUME TypeOK, CommandInv, NEW w \in Workers, Heartbeat(w) \/ HeartbeatFails(w)
    PROVE  TypeOK'
  BY TypeFrame, WorkerMove, Zenon DEF Heartbeat, HeartbeatFails, TypeOK, OwnerType

\* A worker that exits keeps nothing.
LEMMA ExitType ==
    ASSUME TypeOK, CommandInv, NEW w \in Workers, Exit(w)
    PROVE  TypeOK'
  BY VacateType, WorkerMove, Zenon DEF Exit

\* An expiry only marks a token.
LEMMA ExpireType ==
    ASSUME TypeOK, CommandInv, NEW t \in Tokens, Expire(t)
    PROVE  TypeOK'
  BY TypeFrame, StoreMove, Zenon DEF Expire, TypeOK, AttemptType

\* Every step keeps every variable in its type.
LEMMA TypeStep ==
    ASSUME TypeOK, CommandInv, Next
    PROVE  TypeOK'
  BY SubmitType, RetireGenerationType, SignalType, UpgradeType, SupervisorType, Zenon,
     ClaimType, ExecuteType, HeartbeatType, ExitType, ExpireType
  DEF Next

-----------------------------------------------------------------------------
\* A stream that has a run keeps one: promotion only replaces it.
LEMMA SettleRun ==
    ASSUME NEW st, NEW en, NEW tm, NEW des, NEW rv, Settle(st, en, tm, des, rv)
    PROVE  curRun # NoRun => curRun' # NoRun
  BY RunsAssumption, Zenon DEF Settle, Promote

\* Steps that take no command and answer none keep the commands well formed.
LEMMA CommandFrame ==
    ASSUME CommandInv, UNCHANGED <<cmd, api, latest>>, curRun # NoRun => curRun' # NoRun
    PROVE  CommandInv'
  BY Zenon DEF CommandInv

\* An answered command is forgotten; the stream has had a run all along.
LEMMA AnsweredFrame ==
    ASSUME TypeOK, CommandInv, NEW s \in Supervisors, Answered(s), cmd[s] # NoCommand,
           UNCHANGED api, curRun # NoRun => curRun' # NoRun
    PROVE  CommandInv'
<1>1. \A q \in Supervisors : cmd'[q] = cmd[q] \/ cmd'[q] = NoCommand
  BY Zenon DEF Answered, TypeOK, PlaneType
<1> QED
  BY <1>1 DEF CommandInv, NoCommand

\* A supervisor decides about the run and the token it loaded.
LEMMA SupervisorLoadCommand ==
    ASSUME TypeOK, CommandInv, NEW s \in Supervisors, SupervisorLoad(s)
    PROVE  CommandInv'
<1>1. PICK op \in Decisions : cmd' = [cmd EXCEPT ![s] =
          [op |-> op, run |-> curRun, rev |-> rev, token |-> LoadedAttempt]]
  BY Zenon DEF SupervisorLoad
<1>2. op \in {"retire", "yield", "dispatch"} => LoadedAttempt # 0
  BY Zenon DEF Decisions, OpenDecision, EndedDecision
<1>3. curRun # NoRun /\ curRun' = curRun
  BY Zenon DEF SupervisorLoad, HasLiveRun, storeVars, streamVars
<1> QED
  BY <1>1, <1>2, <1>3, Zenon DEF CommandInv, TypeOK, PlaneType

\* A supervisor that carries out or drops its command forgets it.
LEMMA IssueCommand ==
    ASSUME TypeOK, CommandInv, NEW s \in Supervisors, Issue(s)
    PROVE  CommandInv'
<1>1. Answered(s) /\ cmd[s].op # "none" /\ UNCHANGED api
  BY Zenon DEF Issue, StartAttempt, RetireUnclaimedAttempt, YieldAttempt, Dispatch,
         PauseExhausted, CommandRefused
<1>2. cmd[s] # NoCommand
  BY <1>1 DEF NoCommand
<1>3. curRun # NoRun => curRun' # NoRun
  BY SettleRun, Zenon
  DEF Issue, StartAttempt, RetireUnclaimedAttempt, YieldAttempt, Dispatch,
      PauseExhausted, CommandRefused, SetDesiredState, storeVars, streamVars
<1> QED
  BY <1>1, <1>2, <1>3, AnsweredFrame, Zenon

\* Every step keeps the commands well formed.
LEMMA CommandStep ==
    ASSUME TypeOK, CommandInv, Next
    PROVE  CommandInv'
<1> USE DEF storeVars, streamVars, attemptVars, planeVars
<1>1. CASE Submit
  BY <1>1, CommandFrame, SettleRun, RunsAssumption, Zenon DEF Submit, QueueSuccessor, Activate
<1>2. CASE SignalSet
  <2>1. curRun # NoRun => curRun' # NoRun
    BY <1>2, SettleRun, Zenon DEF SignalSet, SetDesiredState
  <2>2. api' = NoSignal /\ UNCHANGED <<cmd, latest>>
    BY <1>2, Zenon DEF SignalSet, SetDesiredState
  <2> QED
    BY <2>1, <2>2, Zenon DEF CommandInv
<1>3. CASE Signaling /\ ~SignalSet
  BY <1>3, Zenon DEF Signaling, SignalMatches, SignalLoad, SignalConflict, CommandInv, vars
<1>4. CASE RetireGeneration \/ Upgrade \/ \E t \in Tokens : Expire(t)
  BY <1>4, CommandFrame, Zenon DEF RetireGeneration, Upgrade, Expire
<1>5. ASSUME NEW w \in Workers, Execute(w) PROVE CommandInv'
  <2>1. CASE EndAttempt(w)
    BY <2>1, CommandFrame, SettleRun, Zenon DEF EndAttempt
  <2>2. CASE CommitEpoch(w)
    BY <2>2, CommandFrame, Zenon DEF CommitEpoch
  <2>3. CASE ~EndAttempt(w) /\ ~CommitEpoch(w)
    <3>1. UNCHANGED storeVars /\ UNCHANGED planeVars
      BY <1>5, <2>3, Zenon DEF Execute, LoadState, RenewLoaded, Abandon, BindEpoch,
         Read, ReadIdle, SinkCommit, RenewCertified, Acknowledge, StepFails, Cleanup
    <3> QED
      BY <3>1, CommandFrame, Zenon
  <2> QED
    BY <2>1, <2>2, <2>3, Zenon
<1>6. ASSUME NEW w \in Workers,
             \/ \E t \in Tokens : Claim(w, t)
             \/ Heartbeat(w) \/ HeartbeatFails(w) \/ Exit(w)
      PROVE  CommandInv'
  BY <1>6, CommandFrame, Zenon DEF Claim, Heartbeat, HeartbeatFails, Exit
<1> QED
  BY <1>1, <1>2, <1>3, <1>4, <1>5, <1>6, SupervisorLoadCommand, IssueCommand, Zenon
  DEF Next

\* A worker process that has not exited holds the latest attempt.
LEMMA HolderIsLatest ==
    ASSUME TypeOK, OwnershipInv, NEW w \in Workers, pc[w] # "idle"
    PROVE  held[w] = latest /\ latest \in Tokens
<1>1. held[w] \in Tokens /\ term[held[w]] = "live"
  BY Zenon DEF OwnershipInv, TypeOK, AttemptType
<1> QED
  BY <1>1, BoundsAssumption DEF OwnershipInv, TypeOK, OwnerType, AttemptType, Tokens

\* Every step keeps takeover to one attempt and one process at a time.
LEMMA OwnershipStep ==
    ASSUME TypeOK, OwnershipInv, Next
    PROVE  OwnershipInv'
<1> USE DEF storeVars, streamVars, runVars, bornVars, attemptVars,
            epochVars, planeVars, workerVars, ownerVars, loopVars, dataVars
<1>1. ASSUME UNCHANGED <<latest, term, claimed, pc, held>> PROVE OwnershipInv'
  BY <1>1, Zenon DEF OwnershipInv
<1>2. ASSUME NEW w \in Workers, UNCHANGED <<latest, term, claimed, held>>,
             pc[w] # "idle", NEW point \in ProgramPoints,
             pc' = [pc EXCEPT ![w] = point]
      PROVE  OwnershipInv'
  BY <1>2 DEF OwnershipInv, TypeOK
<1>3. ASSUME NEW r \in Runs, QueueSuccessor(r) \/ Activate(r) PROVE OwnershipInv'
  BY <1>1, <1>3, Zenon DEF QueueSuccessor, Activate
<1>4. CASE RetireGeneration \/ Upgrade
  BY <1>1, <1>4, Zenon DEF RetireGeneration, Upgrade
<1>5. CASE Signaling
  BY <1>1, <1>5, Zenon DEF Signaling, SignalMatches, SignalLoad, SignalSet,
     SetDesiredState, SignalConflict, vars
<1>6. ASSUME NEW s \in Supervisors,
             SupervisorLoad(s) \/ YieldAttempt(s) \/ Dispatch(s)
               \/ PauseExhausted(s) \/ CommandRefused(s)
      PROVE  OwnershipInv'
  BY <1>1, <1>6, Zenon DEF SupervisorLoad, YieldAttempt, Dispatch, PauseExhausted,
     SetDesiredState, CommandRefused
<1>7. ASSUME NEW s \in Supervisors, StartAttempt(s) PROVE OwnershipInv'
  <2>1. /\ latest < MaxAttempts /\ latest' = latest + 1
        /\ term' = [term EXCEPT ![latest + 1] = "live"]
        /\ TakeoverAllowed /\ UNCHANGED <<claimed, pc, held>>
    BY <1>7, Zenon DEF StartAttempt, StartAllowed
  <2>2. \A w \in Workers : pc[w] = "idle"
    <3> SUFFICES ASSUME NEW w \in Workers, pc[w] # "idle" PROVE FALSE
      BY Zenon
    <3>1. held[w] = latest /\ latest \in Tokens
      BY HolderIsLatest, Zenon
    <3>2. latest # 0 /\ term[latest] = "live"
      BY <3>1 DEF OwnershipInv, Tokens
    <3> QED
      BY <2>1, <3>2, Zenon DEF TakeoverAllowed
  <2>3. latest + 1 \in Tokens
    BY <2>1, BoundsAssumption DEF TypeOK, AttemptType, Tokens
  <2>4. \A t \in Tokens : t < latest' => term'[t] = "clean"
    BY <2>1, <2>3, BoundsAssumption DEF TakeoverAllowed, OwnershipInv, TypeOK, AttemptType, Tokens
  <2>5. \A t \in Tokens : t > latest' => term'[t] = "none" /\ t \notin claimed'
    BY <2>1, <2>3, BoundsAssumption DEF OwnershipInv, TypeOK, AttemptType, Tokens
  <2> QED
    BY <2>1, <2>2, <2>4, <2>5, Zenon DEF OwnershipInv
<1>8. ASSUME NEW s \in Supervisors, RetireUnclaimedAttempt(s) PROVE OwnershipInv'
  <2> DEFINE t == cmd[s].token
  <2>1. /\ UNCHANGED <<latest, claimed, pc, held>>
        /\ \/ term' = term
           \/ /\ term' = [term EXCEPT ![t] = "clean"]
              /\ term[t] = "live"
              /\ t \notin claimed
    BY <1>8, Zenon DEF RetireUnclaimedAttempt, Unclaimable
  <2> HIDE DEF t
  <2>2. CASE term' = term
    BY <1>1, <2>1, <2>2, Zenon
  <2>3. CASE term' = [term EXCEPT ![t] = "clean"] /\ term[t] = "live" /\ t \notin claimed
    <3>1. \A u \in Tokens : term'[u] = term[u] \/ (term[u] = "live" /\ term'[u] = "clean" /\ u \notin claimed)
      BY <2>3 DEF TypeOK
    <3> QED
      BY <2>1, <3>1 DEF OwnershipInv, TypeOK, AttemptType
  <2> QED
    BY <2>1, <2>2, <2>3, Zenon
<1>9. ASSUME NEW w \in Workers, NEW t \in Tokens, Claim(w, t) PROVE OwnershipInv'
  <2>1. /\ t = latest /\ term[t] = "live" /\ t \notin claimed
        /\ claimed' = claimed \cup {t}
        /\ pc' = [pc EXCEPT ![w] = "claimed"] /\ held' = [held EXCEPT ![w] = t]
        /\ UNCHANGED <<latest, term>>
    BY <1>9, Zenon DEF Claim, CurrentAttempt
  <2>2. \A v \in Workers : pc[v] = "idle"
    BY <2>1, HolderIsLatest DEF OwnershipInv
  <2>3. \A v \in Workers : pc'[v] # "idle" => v = w /\ held'[v] = t
    BY <2>1, <2>2, Zenon DEF TypeOK, OwnerType
  <2>4. \A u \in Tokens : u > latest' => term'[u] = "none" /\ u \notin claimed'
    BY <2>1, BoundsAssumption, Zenon DEF OwnershipInv, TypeOK, Tokens
  <2> QED
    BY <2>1, <2>3, <2>4 DEF OwnershipInv
<1>10. ASSUME NEW w \in Workers,
              LoadState(w) \/ RenewLoaded(w) \/ Abandon(w) \/ BindEpoch(w)
                \/ (\E c \in Positions : Read(w, c)) \/ ReadIdle(w)
       PROVE  OwnershipInv'
  BY <1>2, <1>10, LiteralTypes, Zenon DEF LoadState, RenewLoaded, Abandon, BindEpoch, Read,
     ReadIdle, Leave, Goto
<1>11. ASSUME NEW w \in Workers,
              SinkCommit(w) \/ CommitEpoch(w) \/ RenewCertified(w)
                \/ Acknowledge(w) \/ StepFails(w) \/ Cleanup(w)
       PROVE  OwnershipInv'
  BY <1>2, <1>11, LiteralTypes, Zenon DEF SinkCommit, CommitEpoch, RenewCertified,
     Acknowledge, StepFails, Cleanup, Leave, Goto, Looping, Ending
<1>12. ASSUME NEW w \in Workers, EndAttempt(w) PROVE OwnershipInv'
  <2>1. /\ pc[w] # "idle" /\ UNCHANGED <<latest, claimed>>
        /\ pc' = [pc EXCEPT ![w] = "idle"]
        /\ held' = [held EXCEPT ![w] = 0]
        /\ \E k \in Terminations : term' = [term EXCEPT ![held[w]] = k]
    BY <1>12, LiteralTypes, Zenon DEF EndAttempt, Vacate, Ending
  <2>2. \A v \in Workers : pc'[v] = "idle"
    BY <2>1, Zenon DEF OwnershipInv, TypeOK, OwnerType
  <2>3. \A u \in Tokens : u # latest => term'[u] = term[u]
    BY <2>1, HolderIsLatest DEF TypeOK
  <2> QED
    BY <2>1, <2>2, <2>3, BoundsAssumption DEF OwnershipInv, TypeOK, Tokens
<1>13. ASSUME NEW w \in Workers, Exit(w) PROVE OwnershipInv'
  BY <1>13, Zenon DEF Exit, Vacate, OwnershipInv, TypeOK, OwnerType
<1>14. ASSUME NEW w \in Workers, Heartbeat(w) \/ HeartbeatFails(w)
       PROVE  OwnershipInv'
  BY <1>1, <1>14, Zenon DEF Heartbeat, HeartbeatFails
<1>15. ASSUME NEW t \in Tokens, Expire(t) PROVE OwnershipInv'
  BY <1>1, <1>15, Zenon DEF Expire
<1> QED
  BY <1>3, <1>4, <1>5, <1>6, <1>7, <1>8, <1>9, <1>10, <1>11, <1>12, <1>13,
     <1>14, <1>15
  DEF Next, Submit, Issue, Execute

----------------------------------------------------------------------------
(***************************************************************************)
(* Delivery.                                                               *)
(***************************************************************************)
\* What the store certified depends on its epochs alone.
LEMMA CommittedFrame ==
    ASSUME UNCHANGED <<lastEpoch, certPos>>
    PROVE  Committed' = Committed
  BY Zenon DEF Committed

\* Steps that leave the epochs alone keep what holds of them.
LEMMA EpochFrame ==
    ASSUME EpochChain, CertifiedIsDurable, AckedIsCertified, TypeOK,
           UNCHANGED <<lastEpoch, certToken, certPos, acked>>,
           durable \subseteq durable'
    PROVE  EpochChain' /\ CertifiedIsDurable' /\ AckedIsCertified'
<1>1. EpochChain'
  BY Zenon DEF EpochChain
<1>2. CertifiedIsDurable'
  BY CommittedFrame, Zenon DEF CertifiedIsDurable
<1>3. AckedIsCertified'
  BY CommittedFrame, Zenon DEF AckedIsCertified
<1> QED
  BY <1>1, <1>2, <1>3, Zenon

\* A worker that sits still stays in step.
LEMMA InStepFrame ==
    ASSUME NEW v \in Workers, InStep(v), UNCHANGED <<lastEpoch, certPos>>,
           durable \subseteq durable',
           pc'[v] = pc[v], at'[v] = at[v], cov'[v] = cov[v], epoch'[v] = epoch[v]
    PROVE  InStep(v)'
  BY CommittedFrame, Zenon DEF InStep, RowsOf, Merge

\* The delivery part of the invariant.
DataInv == EpochChain /\ ProgressInv /\ CertifiedIsDurable /\ AckedIsCertified

\* The other workers sit still.
Aside(w) == \A v \in Workers \ {w} : /\ pc'[v] = pc[v] /\ at'[v] = at[v]
                                     /\ cov'[v] = cov[v] /\ epoch'[v] = epoch[v]

\* An action that writes the entries of one worker leaves the others aside.
LEMMA OneMoves ==
    ASSUME TypeOK, NEW w \in Workers, NEW p, NEW a, NEW c, NEW e,
           pc' = [pc EXCEPT ![w] = p], at' \in {at, [at EXCEPT ![w] = a]},
           cov' \in {cov, [cov EXCEPT ![w] = c]}, epoch' \in {epoch, [epoch EXCEPT ![w] = e]}
    PROVE  Aside(w) /\ pc'[w] = p
  BY Zenon DEF Aside, TypeOK, OwnerType, LoopType

\* A step of one worker that certifies and acknowledges nothing.
LEMMA WorkerFrame ==
    ASSUME TypeOK, DataInv, NEW w \in Workers,
           UNCHANGED <<lastEpoch, certToken, certPos, latest, acked>>,
           durable \subseteq durable', Aside(w), InStep(w)'
    PROVE  DataInv'
<1>1. EpochChain' /\ CertifiedIsDurable' /\ AckedIsCertified'
  BY EpochFrame, Zenon DEF DataInv
<1>2. \A v \in Workers : InStep(v)'
  BY InStepFrame, Zenon DEF DataInv, ProgressInv, Aside
<1> QED
  BY <1>1, <1>2, Zenon DEF DataInv, ProgressInv

\* Certifying an epoch of rows that are durable keeps the chain of epochs, and
\* nobody but the certifying worker is past its claim.
LEMMA CommitStep ==
    ASSUME TypeOK, OwnershipInv, DataInv, NEW w \in Workers, CommitEpoch(w)
    PROVE  DataInv'
<1> DEFINE e == epoch[w]
           new == Merge(Committed, cov[w])
<1>1. /\ e = lastEpoch + 1 /\ e \in Epochs /\ lastEpoch \in Nat /\ e \in Nat
      /\ lastEpoch \in 0..MaxEpochs
  BY BoundsAssumption DEF CommitEpoch, CommitAllowed, TypeOK, EpochType, Epochs
<1>2. /\ held[w] = latest /\ latest \in Nat /\ latest # 0
      /\ pc[w] = "sunk" /\ at[w] = Committed
      /\ RowsOf(at[w], cov[w]) \subseteq durable
  <2>1. pc[w] = "sunk" /\ InStep(w) /\ CurrentAttempt(held[w], TRUE)
    BY Zenon DEF CommitEpoch, CommitAllowed, DataInv, ProgressInv
  <2> QED
    BY <2>1, BoundsAssumption DEF InStep, CurrentAttempt, TypeOK, AttemptType
<1>3. /\ certToken' = [certToken EXCEPT ![e] = held[w]]
      /\ certPos' = [certPos EXCEPT ![e] = new]
      /\ lastEpoch' = e
      /\ latest' = latest /\ durable' = durable /\ acked' = acked
  BY Zenon DEF CommitEpoch, attemptVars, dataVars
<1>4. cov[w] \in Positions /\ Committed \in Positions /\ new \in Positions
  BY ValueTypes, Zenon DEF TypeOK, LoopType
<1>5. \A d \in Domains : cov[w][d] # 0 => Committed[d] <= cov[w][d]
  BY Zenon DEF CommitEpoch, CommitAllowed
<1> HIDE DEF e
<1>6. \A d \in Domains : /\ new[d] = IF cov[w][d] = 0 THEN Committed[d] ELSE cov[w][d]
                         /\ Committed[d] \in 0..MaxPosition
                         /\ cov[w][d] \in 0..MaxPosition
                         /\ acked[d] \in 0..MaxPosition
  BY <1>4, Zenon DEF Merge, Positions, TypeOK, DataType
<1> HIDE DEF new
<1>7. Committed' = new
  BY <1>1, <1>3 DEF Committed, TypeOK, EpochType
<1>8. EpochChain'
  <2>1. \A f \in Epochs : certToken'[f] # 0 <=> f <= lastEpoch'
    BY <1>1, <1>2, <1>3, BoundsAssumption DEF DataInv, EpochChain, TypeOK, EpochType, Epochs
  <2>2. \A f \in 1..(lastEpoch' - 1) : certToken'[f] <= certToken'[f + 1]
    <3> SUFFICES ASSUME NEW f \in 1..(lastEpoch' - 1)
                 PROVE  certToken'[f] <= certToken'[f + 1]
      BY Zenon
    <3>1. f \in Epochs /\ f # e /\ f \in 1..lastEpoch /\ f + 1 \in Epochs
      BY <1>1, <1>3, BoundsAssumption DEF Epochs
    <3>2. certToken'[f] = certToken[f] /\ certToken[f] <= latest
      BY <1>3, <3>1 DEF DataInv, ProgressInv, TypeOK
    <3>3. CASE f + 1 = e
      BY <1>2, <1>3, <3>1, <3>2, <3>3, Zenon DEF TypeOK, EpochType
    <3>4. CASE f + 1 # e
      <4>1. f \in 1..(lastEpoch - 1) /\ certToken'[f + 1] = certToken[f + 1]
        BY <1>1, <1>3, <3>1, <3>4 DEF TypeOK
      <4> QED
        BY <3>2, <4>1, Zenon DEF DataInv, EpochChain
    <3> QED
      BY <3>3, <3>4, Zenon
  <2>3. \A f \in 1..(lastEpoch' - 1) : \A d \in Domains : certPos'[f][d] <= certPos'[f + 1][d]
    <3> SUFFICES ASSUME NEW f \in 1..(lastEpoch' - 1), NEW d \in Domains
                 PROVE  certPos'[f][d] <= certPos'[f + 1][d]
      BY Zenon
    <3>1. f \in Epochs /\ f # e /\ f \in 1..lastEpoch /\ f + 1 \in Epochs
      BY <1>1, <1>3, BoundsAssumption DEF Epochs
    <3>2. certPos'[f] = certPos[f]
      BY <1>3, <3>1 DEF TypeOK
    <3>3. CASE f + 1 = e
      <4>1. certPos'[f + 1] = new /\ certPos[f] = Committed
        BY <1>1, <1>3, <3>1, <3>3 DEF Committed, TypeOK, EpochType
      <4> QED
        BY <1>5, <1>6, <3>2, <4>1
    <3>4. CASE f + 1 # e
      <4>1. f \in 1..(lastEpoch - 1) /\ certPos'[f + 1] = certPos[f + 1]
        BY <1>1, <1>3, <3>1, <3>4 DEF TypeOK
      <4> QED
        BY <3>2, <4>1, Zenon DEF DataInv, EpochChain
    <3> QED
      BY <3>3, <3>4, Zenon
  <2> QED
    BY <2>1, <2>2, <2>3, Zenon DEF EpochChain
<1>9. CertifiedIsDurable'
  <2> SUFFICES ASSUME NEW d \in Domains, NEW p \in 1..new[d] PROVE <<d, p>> \in durable
    BY <1>3, <1>7, Zenon DEF CertifiedIsDurable
  <2>1. CASE p <= Committed[d]
    BY <1>6, <2>1 DEF DataInv, CertifiedIsDurable
  <2>2. CASE ~(p <= Committed[d])
    <3>1. cov[w][d] # 0 /\ p <= cov[w][d] /\ p \in 1..MaxPosition /\ Committed[d] < p
      BY <1>6, <2>2, BoundsAssumption
    <3>2. <<d, p>> \in RowsOf(at[w], cov[w])
      BY <1>2, <3>1, Zenon DEF RowsOf
    <3> QED
      BY <1>2, <3>2, Zenon
  <2> QED
    BY <2>1, <2>2, Zenon
<1>10. AckedIsCertified'
  BY <1>3, <1>5, <1>6, <1>7 DEF DataInv, AckedIsCertified
<1>11. \A v \in Workers : InStep(v)'
  <2>1. \A v \in Workers \ {w} : pc[v] = "idle"
    BY <1>2, Zenon DEF OwnershipInv
  <2>2. \A v \in Workers \ {w} : pc'[v] = "idle"
    BY <2>1, Zenon DEF CommitEpoch, Goto, Leave, TypeOK, OwnerType
  <2>3. \A v \in Workers \ {w} : InStep(v)'
    BY <2>2, Zenon DEF InStep
  <2>4. CASE Goto(w, "certified")
    <3>1. pc'[w] = "certified" /\ at'[w] = at[w] /\ cov'[w] = cov[w] /\ epoch'[w] = e
      BY <2>4, Zenon DEF Goto, TypeOK, OwnerType, ownerVars, loopVars, e
    <3>2. Merge(at'[w], cov'[w]) = new
      BY <1>2, <3>1, Zenon DEF new
    <3> QED
      BY <1>3, <1>7, <2>3, <3>1, <3>2, Zenon DEF InStep, Merge
  <2>5. CASE Leave(w, "cleanup", "failed")
    BY <2>3, <2>5, Zenon DEF Leave, InStep, TypeOK, OwnerType
  <2> QED
    BY <2>4, <2>5, Zenon DEF CommitEpoch
<1>12. \A f \in 1..lastEpoch' : certToken'[f] <= latest'
  BY <1>1, <1>2, <1>3, BoundsAssumption DEF DataInv, ProgressInv, TypeOK, EpochType, Epochs
<1> QED
  BY <1>8, <1>9, <1>10, <1>11, <1>12, Zenon DEF DataInv, ProgressInv

\* Acknowledging a certified epoch brings the worker in step again.
LEMMA AcknowledgeStep ==
    ASSUME TypeOK, DataInv, NEW w \in Workers, Acknowledge(w)
    PROVE  DataInv'
<1>1. /\ Committed = Merge(at[w], cov[w]) /\ epoch[w] = lastEpoch
      /\ cov[w] \in Positions
  BY Zenon DEF Acknowledge, DataInv, ProgressInv, InStep, TypeOK, LoopType
<1>2. /\ UNCHANGED <<lastEpoch, certToken, certPos, latest, durable>>
      /\ acked' = [d \in Domains |-> IF cov[w][d] > acked[d] THEN cov[w][d] ELSE acked[d]]
  BY Zenon DEF Acknowledge, storeVars, attemptVars, epochVars
<1>3. Committed' = Committed
  BY <1>2, CommittedFrame, Zenon
<1>4. \A d \in Domains : /\ Committed[d] = IF cov[w][d] = 0 THEN at[w][d] ELSE cov[w][d]
                         /\ acked[d] <= Committed[d]
                         /\ acked[d] \in 0..MaxPosition /\ cov[w][d] \in 0..MaxPosition
  BY <1>1, Zenon DEF Merge, DataInv, AckedIsCertified, TypeOK, DataType, Positions
<1>5. AckedIsCertified'
  BY <1>2, <1>3, <1>4, BoundsAssumption DEF AckedIsCertified
<1>6. EpochChain' /\ CertifiedIsDurable'
  BY <1>2, <1>3, Zenon DEF DataInv, EpochChain, CertifiedIsDurable
<1>7. InStep(w)'
  <2>1. pc'[w] = "bind" /\ at'[w] = Merge(at[w], cov[w]) /\ epoch'[w] = epoch[w] + 1
    BY Zenon DEF Acknowledge, TypeOK, LoopType, OwnerType
  <2> QED
    BY <1>1, <1>2, <1>3, <2>1, Zenon DEF InStep
<1>8. \A v \in Workers \ {w} : InStep(v)'
  <2>1. \A v \in Workers \ {w} : /\ pc'[v] = pc[v] /\ at'[v] = at[v]
                                 /\ cov'[v] = cov[v] /\ epoch'[v] = epoch[v]
    BY DEF Acknowledge, TypeOK
  <2> QED
    BY <1>2, <2>1, InStepFrame, Zenon DEF DataInv, ProgressInv
<1> QED
  BY <1>2, <1>5, <1>6, <1>7, <1>8, Zenon DEF DataInv, ProgressInv

\* Steps that move no worker; admission only raises the latest token.
LEMMA IdleFrame ==
    ASSUME TypeOK, DataInv,
           UNCHANGED <<lastEpoch, certToken, certPos, pc, at, cov, epoch, durable, acked>>,
           latest' \in {latest, latest + 1}
    PROVE  DataInv'
<1>1. EpochChain' /\ CertifiedIsDurable' /\ AckedIsCertified'
  BY EpochFrame, Zenon DEF DataInv
<1>2. \A v \in Workers : InStep(v)'
  BY InStepFrame, Zenon DEF DataInv, ProgressInv
<1>3. \A e \in 1..lastEpoch' : certToken'[e] <= latest'
  BY BoundsAssumption DEF DataInv, ProgressInv, TypeOK, EpochType, AttemptType, Epochs
<1> QED
  BY <1>1, <1>2, <1>3, Zenon DEF DataInv, ProgressInv

\* A worker that leaves its loop, or exits, drops what it read.
LEMMA LeaveStep ==
    ASSUME TypeOK, DataInv, NEW w \in Workers,
           \/ Vacate(w)
           \/ \E point \in {"cleanup", "endClean"}, reason \in Reasons : Leave(w, point, reason),
           UNCHANGED <<lastEpoch, certToken, certPos, latest, acked>>,
           durable \subseteq durable'
    PROVE  DataInv'
<1>1. PICK point \in {"idle", "cleanup", "endClean"} :
        pc' = [pc EXCEPT ![w] = point] /\ ResetLoop(w)
  BY Zenon DEF Leave, Vacate
<1>2. Aside(w) /\ pc'[w] = point
  BY <1>1, OneMoves, Zenon DEF ResetLoop
<1>3. InStep(w)'
  BY <1>2, Zenon DEF InStep
<1> QED
  BY <1>2, <1>3, WorkerFrame, Zenon

\* A worker that only moves on in its loop carries its rows with it.
LEMMA MoveOnStep ==
    ASSUME TypeOK, DataInv, NEW w \in Workers,
           \/ pc[w] = "loaded" /\ Goto(w, "bind")
           \/ pc[w] = "bind" /\ Goto(w, "reading")
           \/ pc[w] = "certified" /\ Goto(w, "acking"),
           UNCHANGED <<storeVars, dataVars>>
    PROVE  DataInv'
<1>1. UNCHANGED <<latest, lastEpoch, certToken, certPos, durable, acked, at, cov, epoch>>
  BY Zenon DEF Goto, loopVars, storeVars, attemptVars, epochVars, dataVars
<1>2. Aside(w) /\ \/ pc[w] \in {"loaded", "bind"} /\ pc'[w] \in {"bind", "reading"}
                  \/ pc[w] = "certified" /\ pc'[w] = "acking"
  BY <1>1, OneMoves, Zenon DEF Goto
<1>3. InStep(w) /\ Committed' = Committed /\ Merge(at[w], cov[w])' = Merge(at[w], cov[w])
  BY <1>1, CommittedFrame, Zenon DEF DataInv, ProgressInv, Merge
<1>4. InStep(w)'
  BY <1>1, <1>2, <1>3, Zenon DEF InStep
<1> QED
  BY <1>1, <1>2, <1>4, WorkerFrame, Zenon

\* The fresh owner of an attempt has read nothing yet.
LEMMA ClaimStep ==
    ASSUME TypeOK, DataInv, NEW w \in Workers, NEW t \in Tokens, Claim(w, t)
    PROVE  DataInv'
<1>1. UNCHANGED <<latest, lastEpoch, certToken, certPos, durable, acked, at, cov, epoch>>
  BY Zenon DEF Claim, loopVars, epochVars, dataVars
<1>2. Aside(w) /\ pc'[w] = "claimed"
  BY <1>1, OneMoves, Zenon DEF Claim
<1>3. InStep(w)'
  BY <1>2, Zenon DEF InStep
<1> QED
  BY <1>1, <1>2, <1>3, WorkerFrame, Zenon

\* A worker starts reading at the position the store certified last.
LEMMA LoadStep ==
    ASSUME TypeOK, DataInv, NEW w \in Workers, LoadState(w)
    PROVE  DataInv'
<1>1. UNCHANGED <<latest, lastEpoch, certToken, certPos, durable, acked, cov>>
  BY Zenon DEF LoadState, storeVars, attemptVars, epochVars, dataVars
<1>2. Aside(w) /\ pc'[w] = "loaded"
  BY <1>1, OneMoves, Zenon DEF LoadState
<1>3. at'[w] = Committed' /\ epoch'[w] = lastEpoch' + 1
  BY <1>1, CommittedFrame, Zenon DEF LoadState, TypeOK, LoopType
<1>4. InStep(w)'
  BY <1>2, <1>3, Zenon DEF InStep
<1> QED
  BY <1>1, <1>2, <1>4, WorkerFrame, Zenon

\* A read moves nothing but the coverage of the open epoch.
LEMMA ReadStep ==
    ASSUME TypeOK, DataInv, NEW w \in Workers, NEW c \in Positions, Read(w, c)
    PROVE  DataInv'
<1>1. UNCHANGED <<latest, lastEpoch, certToken, certPos, durable, acked, at, epoch>>
  BY Zenon DEF Read, storeVars, attemptVars, epochVars, dataVars
<1>2. Aside(w) /\ pc'[w] = "sealed" /\ pc[w] = "reading"
  BY <1>1, OneMoves, Zenon DEF Read
<1>3. InStep(w) /\ Committed' = Committed
  BY <1>1, CommittedFrame, Zenon DEF DataInv, ProgressInv
<1>4. InStep(w)'
  BY <1>1, <1>2, <1>3, Zenon DEF InStep
<1> QED
  BY <1>1, <1>2, <1>4, WorkerFrame, Zenon

-----------------------------------------------------------------------------
\* A sink commit makes the rows of the epoch durable before they are certified.
LEMMA SinkStep ==
    ASSUME TypeOK, DataInv, NEW w \in Workers, SinkCommit(w)
    PROVE  DataInv'
<1>1. /\ UNCHANGED <<latest, lastEpoch, certToken, certPos, acked>>
      /\ durable' = durable \cup RowsOf(at[w], cov[w]) /\ pc[w] = "sealed"
  BY Zenon DEF SinkCommit, storeVars, attemptVars, epochVars
<1>2. durable \subseteq durable'
  BY <1>1, Zenon
<1>3. CASE Goto(w, "sunk")
  <2>1. UNCHANGED <<at, cov, epoch>>
    BY <1>3, Zenon DEF Goto, loopVars
  <2>2. Aside(w) /\ pc'[w] = "sunk"
    BY <1>3, <2>1, OneMoves, Zenon DEF Goto
  <2>3. InStep(w) /\ Committed' = Committed
    BY <1>1, CommittedFrame, Zenon DEF DataInv, ProgressInv
  <2>4. InStep(w)'
    BY <1>1, <2>1, <2>2, <2>3, Zenon DEF InStep, RowsOf
  <2> QED
    BY <1>1, <1>2, <2>2, <2>4, WorkerFrame, Zenon
<1>4. CASE Leave(w, "cleanup", "failed")
  BY <1>1, <1>2, <1>4, LiteralTypes, LeaveStep, Zenon
<1> QED
  BY <1>3, <1>4, Zenon DEF SinkCommit

\* The deferred cleanup reads and certifies nothing.
LEMMA CleanupStep ==
    ASSUME TypeOK, DataInv, NEW w \in Workers, Cleanup(w)
    PROVE  DataInv'
<1>1. UNCHANGED <<latest, lastEpoch, certToken, certPos, durable, acked, at, cov, epoch>>
  BY Zenon DEF Cleanup, loopVars, storeVars, attemptVars, epochVars, dataVars
<1>2. PICK point \in Ending : pc' = [pc EXCEPT ![w] = point]
  BY Zenon DEF Cleanup
<1>3. Aside(w) /\ pc'[w] = point
  BY <1>1, <1>2, OneMoves, Zenon
<1>4. InStep(w)'
  BY <1>3, Zenon DEF InStep, Ending
<1> QED
  BY <1>1, <1>3, <1>4, WorkerFrame, Zenon

\* What a worker does by itself keeps the epochs, the workers and the outside
\* world in step.
LEMMA ExecuteStep ==
    ASSUME TypeOK, OwnershipInv, DataInv, NEW w \in Workers, Execute(w)
    PROVE  DataInv'
<1> USE DEF storeVars, attemptVars, epochVars, dataVars
<1>1. CASE RenewLoaded(w) \/ RenewCertified(w)
  BY <1>1, MoveOnStep, Zenon DEF RenewLoaded, RenewCertified
<1>2. CASE Abandon(w) \/ ReadIdle(w) \/ StepFails(w)
  BY <1>2, LeaveStep, LiteralTypes, Zenon DEF Abandon, ReadIdle, StepFails
<1>3. CASE BindEpoch(w)
  BY <1>3, LeaveStep, MoveOnStep, LiteralTypes, Zenon DEF BindEpoch
<1>4. CASE EndAttempt(w)
  BY <1>4, LeaveStep, Zenon DEF EndAttempt
<1> QED
  BY <1>1, <1>2, <1>3, <1>4, LoadStep, ReadStep, SinkStep, CommitStep,
     AcknowledgeStep, CleanupStep, Zenon
  DEF Execute

\* Every step keeps the epochs, the workers and the outside world in step.
LEMMA DataStep ==
    ASSUME TypeOK, OwnershipInv, DataInv, Next
    PROVE  DataInv'
<1> USE DEF storeVars, attemptVars, epochVars, workerVars, loopVars, dataVars
<1>1. CASE Submit
  BY <1>1, IdleFrame, Zenon DEF Submit, QueueSuccessor, Activate
<1>2. CASE RetireGeneration \/ Upgrade
  BY <1>2, IdleFrame, Zenon DEF RetireGeneration, Upgrade
<1>3. CASE Signaling
  BY <1>3, IdleFrame, Zenon DEF Signaling, SignalMatches, SignalLoad, SignalSet,
     SetDesiredState, SignalConflict, vars
<1>4. ASSUME NEW s \in Supervisors, SupervisorLoad(s) \/ Issue(s) PROVE DataInv'
  BY <1>4, IdleFrame, Zenon DEF SupervisorLoad, Issue, StartAttempt, YieldAttempt, Dispatch,
     RetireUnclaimedAttempt, PauseExhausted, SetDesiredState, CommandRefused
<1>5. ASSUME NEW w \in Workers, Heartbeat(w) \/ HeartbeatFails(w) PROVE DataInv'
  BY <1>5, IdleFrame, Zenon DEF Heartbeat, HeartbeatFails
<1>6. ASSUME NEW w \in Workers, Exit(w) PROVE DataInv'
  BY <1>6, LeaveStep, Zenon DEF Exit
<1>7. ASSUME NEW t \in Tokens, Expire(t) PROVE DataInv'
  BY <1>7, IdleFrame, Zenon DEF Expire
<1> QED
  BY <1>1, <1>2, <1>3, <1>4, <1>5, <1>6, <1>7, ClaimStep, ExecuteStep, Zenon
  DEF Next

\* The invariant holds initially.
LEMMA InitDelivery == Init => DeliveryInv
<1> SUFFICES ASSUME Init PROVE DeliveryInv
  BY Zenon
<1>1. Start \in Positions
  BY BoundsAssumption DEF Start, Positions
<1>2. NoCommand \in Command
  BY BoundsAssumption DEF NoCommand, Command
<1>3. TypeOK
  <2>1. 0 \in 0..MaxEpochs /\ 0 \in 0..MaxAttempts
    BY BoundsAssumption
  <2>2. "absent" \in Statuses /\ "none" \in Terminations
    BY Zenon DEF Statuses, Terminations
  <2> QED
    BY <1>1, <1>2, <2>1, <2>2, LiteralTypes, Zenon DEF Init, TypeOK, DataType, LoopType, OwnerType, PlaneType, EpochType, AttemptType, RunType, StreamType
<1>4. CommandInv
  BY Zenon DEF Init, CommandInv, NoCommand
<1>5. OwnershipInv
  BY BoundsAssumption DEF Init, OwnershipInv, Tokens
<1>6. Committed = Start
  BY Zenon DEF Init, Committed
<1>7. EpochChain /\ ProgressInv
  BY BoundsAssumption DEF Init, EpochChain, ProgressInv, InStep, Epochs
<1>8. CertifiedIsDurable /\ AckedIsCertified
  BY <1>6 DEF Init, CertifiedIsDurable, AckedIsCertified, Start
<1> QED
  BY <1>3, <1>4, <1>5, <1>7, <1>8, Zenon DEF DeliveryInv

\* Every step keeps the invariant.
LEMMA StepDelivery == DeliveryInv /\ [Next]_vars => DeliveryInv'
<1>1. DeliveryInv /\ Next => DeliveryInv'
  BY TypeStep, CommandStep, OwnershipStep, DataStep, Zenon DEF DeliveryInv, DataInv
<1>2. DeliveryInv /\ UNCHANGED vars => DeliveryInv'
  <2> SUFFICES ASSUME DeliveryInv, UNCHANGED vars PROVE DeliveryInv'
    BY Zenon
  <2> USE DEF vars, storeVars, streamVars, runVars, bornVars, attemptVars,
              epochVars, planeVars, workerVars, ownerVars, loopVars, dataVars
  <2>1. TypeOK'
    BY Zenon DEF DeliveryInv, TypeOK, DataType, LoopType, OwnerType, PlaneType, EpochType, AttemptType, RunType, StreamType
  <2>2. CommandInv' /\ OwnershipInv'
    BY Zenon DEF DeliveryInv, CommandInv, OwnershipInv
  <2>3. EpochChain' /\ CertifiedIsDurable' /\ AckedIsCertified'
    BY EpochFrame, Zenon DEF DeliveryInv
  <2>4. ProgressInv'
    BY InStepFrame, Zenon DEF DeliveryInv, ProgressInv
  <2> QED
    BY <2>1, <2>2, <2>3, <2>4, Zenon DEF DeliveryInv
<1> QED
  BY <1>1, <1>2, Zenon

\* The invariant of the runtime holds in every reachable state.
THEOREM DeliveryInvariant == Spec => []DeliveryInv
  BY InitDelivery, StepDelivery, PTL DEF Spec

\* The variables of the store, the control plane and the workers keep their
\* types.
THEOREM TypeCorrect == Spec => []TypeOK
<1>1. DeliveryInv => TypeOK
  BY Zenon DEF DeliveryInv
<1> QED
  BY <1>1, DeliveryInvariant, PTL

\* At most one worker process executes the stream, for any number of runs,
\* workers, supervisors, attempts and upgrades: ClaimStreamAttempt,
\* StartAttempt and RetireUnclaimedAttempt exclude a second one.
THEOREM OneOwner == Spec => []SingleOwner
<1>1. DeliveryInv => SingleOwner
  BY DEF DeliveryInv, OwnershipInv, SingleOwner, Executing, Looping
<1> QED
  BY <1>1, DeliveryInvariant, PTL

\* The epochs the store certified form a chain without holes or regressions:
\* CommitEpoch takes the next number under the latest token.
THEOREM ChainHolds == Spec => []EpochChain
<1>1. DeliveryInv => EpochChain
  BY Zenon DEF DeliveryInv
<1> QED
  BY <1>1, DeliveryInvariant, PTL

\* What is certified is durable at the destination: runEpochs commits the sink
\* before the epoch, and a successor starts where the store stands.
THEOREM CertifiedDurably == Spec => []CertifiedIsDurable
<1>1. DeliveryInv => CertifiedIsDurable
  BY Zenon DEF DeliveryInv
<1> QED
  BY <1>1, DeliveryInvariant, PTL

\* The source is acknowledged no further than the store has certified:
\* runEpochs acknowledges an epoch after its certificate.
THEOREM AcknowledgedLast == Spec => []AckedIsCertified
<1>1. DeliveryInv => AckedIsCertified
  BY Zenon DEF DeliveryInv
<1> QED
  BY <1>1, DeliveryInvariant, PTL

\* What a step does to the delivery state, by the three steps of the loop that
\* touch it.
LEMMA LogStep ==
    ASSUME DeliveryInv, DeliveryInv', Next
    PROVE  [Log!Next]_(Log!logVars)
<1> USE DEF storeVars, streamVars, runVars, bornVars, attemptVars,
            epochVars, planeVars, workerVars, ownerVars, loopVars, dataVars
<1>1. TypeOK /\ TypeOK' /\ Committed \in Positions /\ Committed' \in Positions
  <2>1. TypeOK /\ TypeOK'
    BY Zenon DEF DeliveryInv
  <2>2. Committed \in Positions /\ Start \in Positions
    BY <2>1, ValueTypes, Zenon
  <2>3. lastEpoch' \in 0..MaxEpochs /\ certPos' \in [Epochs -> Positions]
    BY <2>1, Zenon DEF TypeOK, EpochType
  <2>4. Committed' = IF lastEpoch' = 0 THEN Start ELSE certPos'[lastEpoch']
    BY Zenon DEF Committed, Start
  <2> QED
    BY <2>1, <2>2, <2>3, <2>4, BoundsAssumption DEF Epochs
<1>2. ASSUME UNCHANGED <<lastEpoch, certPos, durable, acked>>
      PROVE  UNCHANGED Log!logVars
  BY <1>2, CommittedFrame, Zenon DEF Log!logVars
<1>3. ASSUME NEW w \in Workers, SinkCommit(w) PROVE Log!Deliver
  <2>1. /\ durable' = durable \cup RowsOf(at[w], cov[w])
        /\ UNCHANGED <<lastEpoch, certPos, acked>>
    BY <1>3, Zenon DEF SinkCommit
  <2>2. durable' \subseteq Domains \X (1..MaxPosition)
    BY <1>1, Zenon DEF TypeOK, DataType
  <2> QED
    BY <2>1, <2>2, CommittedFrame, Zenon DEF Log!Deliver
<1>4. ASSUME NEW w \in Workers, CommitEpoch(w) PROVE Log!Certify
  <2>1. UNCHANGED <<durable, acked>>
    BY <1>4, Zenon DEF CommitEpoch
  <2>2. Log!Covered(Committed', durable)
    BY <2>1, Zenon DEF DeliveryInv, CertifiedIsDurable, Log!Covered
  <2>3. Committed' = Merge(Committed, cov[w])
    <3>1. /\ certPos' = [certPos EXCEPT ![epoch[w]] = Merge(Committed, cov[w])]
          /\ lastEpoch' = epoch[w] /\ epoch[w] \in Epochs /\ epoch[w] # 0
      BY <1>1, <1>4, BoundsAssumption DEF CommitEpoch, CommitAllowed, TypeOK, EpochType, Epochs
    <3> QED
      BY <1>1, <3>1, Zenon DEF Committed, TypeOK, EpochType
  <2>4. \A d \in Domains : cov[w][d] # 0 => Committed[d] <= cov[w][d]
    BY <1>4, Zenon DEF CommitEpoch, CommitAllowed
  <2>5. Log!AtMost(Committed, Committed')
    <3>1. \A d \in Domains : Committed[d] \in 0..MaxPosition
      BY <1>1, Zenon DEF Positions
    <3>2. \A d \in Domains :
            Committed'[d] = IF cov[w][d] = 0 THEN Committed[d] ELSE cov[w][d]
      BY <2>3, Zenon DEF Merge
    <3> QED
      BY <2>4, <3>1, <3>2 DEF Log!AtMost
  <2> QED
    BY <1>1, <2>1, <2>2, <2>5, Zenon DEF Log!Certify, Log!Position, Positions
<1>5. ASSUME NEW w \in Workers, Acknowledge(w) PROVE Log!Acknowledge
  <2>1. /\ UNCHANGED <<lastEpoch, certPos, durable>>
        /\ acked' = [d \in Domains |-> IF cov[w][d] > acked[d] THEN cov[w][d] ELSE acked[d]]
    BY <1>5, Zenon DEF Acknowledge
  <2>2. Committed' = Committed
    BY <2>1, CommittedFrame, Zenon
  <2>3. acked \in Positions /\ acked' \in Positions /\ cov[w] \in Positions
    BY <1>1, Zenon DEF TypeOK, DataType, LoopType
  <2>4. Log!AtMost(acked', Committed)
    BY <2>2, Zenon DEF DeliveryInv, AckedIsCertified, Log!AtMost
  <2>5. Log!AtMost(acked, acked')
    BY <2>1, <2>3, BoundsAssumption DEF Log!AtMost, Positions
  <2> QED
    BY <2>1, <2>2, <2>3, <2>4, <2>5, Zenon DEF Log!Acknowledge, Log!Position, Positions
<1>6. ASSUME NEW w \in Workers, Execute(w),
             ~SinkCommit(w), ~CommitEpoch(w), ~Acknowledge(w)
      PROVE  UNCHANGED <<lastEpoch, certPos, durable, acked>>
  BY <1>6, Zenon DEF Execute, LoadState, RenewLoaded, Abandon, BindEpoch, Read, ReadIdle,
     RenewCertified, StepFails, Cleanup, EndAttempt
<1>7. CASE Submit \/ RetireGeneration \/ Signaling \/ Upgrade
  BY <1>2, <1>7, Zenon DEF Submit, QueueSuccessor, Activate, RetireGeneration, Signaling,
     SignalMatches, SignalLoad, SignalSet, SignalConflict, SetDesiredState, Upgrade,
     vars
<1>8. ASSUME NEW s \in Supervisors, SupervisorLoad(s) \/ Issue(s)
      PROVE  UNCHANGED <<lastEpoch, certPos, durable, acked>>
  BY <1>8, Zenon DEF SupervisorLoad, Issue, StartAttempt, RetireUnclaimedAttempt,
     YieldAttempt, Dispatch, PauseExhausted, SetDesiredState, CommandRefused
<1>9. ASSUME NEW w \in Workers, NEW t \in Tokens,
             Claim(w, t) \/ Heartbeat(w) \/ HeartbeatFails(w) \/ Exit(w) \/ Expire(t)
      PROVE  UNCHANGED <<lastEpoch, certPos, durable, acked>>
  BY <1>9, Zenon DEF Claim, Heartbeat, HeartbeatFails, Exit, Expire
<1>10. ASSUME NEW w \in Workers, Heartbeat(w) \/ HeartbeatFails(w) \/ Exit(w)
       PROVE  UNCHANGED <<lastEpoch, certPos, durable, acked>>
  BY <1>10, Zenon DEF Heartbeat, HeartbeatFails, Exit
<1>11. ASSUME NEW t \in Tokens, Expire(t)
       PROVE  UNCHANGED <<lastEpoch, certPos, durable, acked>>
  BY <1>11, Zenon DEF Expire
<1> QED
  BY <1>2, <1>3, <1>4, <1>5, <1>6, <1>7, <1>8, <1>9, <1>10, <1>11, Zenon
  DEF Next, Log!Next

\* The runtime implements the delivery contract: every behaviour of the store,
\* the control plane and the workers is one of EpochLog.
THEOREM RuntimeImplementsLog == Spec => ImplementsEpochLog
<1>1. Init => Log!Init
  BY Zenon DEF Init, Committed, Start, Log!Init
<1>2. DeliveryInv /\ DeliveryInv' /\ [Next]_vars => [Log!Next]_(Log!logVars)
  <2>1. UNCHANGED vars => UNCHANGED Log!logVars
    BY CommittedFrame, Zenon DEF vars, storeVars, epochVars, dataVars, Log!logVars
  <2> QED
    BY <2>1, LogStep, Zenon
<1> QED
  BY <1>1, <1>2, DeliveryInvariant, PTL DEF Spec, ImplementsEpochLog, Log!Spec

-----------------------------------------------------------------------------
Final == {"completed", "canceled"}

\* The current run has left the queue, an ended one was told to stop, and the
\* ended runs are those with a final status.
RunsMatch(st, en, des) ==
    /\ curRun # NoRun => st[curRun] \notin {"absent", "scheduled"}
    /\ curRun \in en => des = "stopped"
    /\ \A r \in Runs : r \in en <=> st[r] \in Final

RunInv == RunsMatch(status, ended, desired)

\* The attempts of a completed run have ended cleanly.
QuietInv ==
    \A r \in Runs : status[r] = "completed" =>
        \A t \in 1..latest : attRun[t] = r => term[t] = "clean"

PhaseInv == RunInv /\ QuietInv /\ PhaseAgrees

\* What a step may do to ended runs and to the intent.
FinalKept == \A r \in ended : r \in ended' /\ status'[r] = status[r]
StopKept == desired = "stopped" /\ curRun' = curRun => desired' = "stopped"

----------------------------------------------------------------------------
(***************************************************************************)
(* settleStoppedStream.                                                    *)
(***************************************************************************)

\* The phase of a run is neither waiting nor final.
LEMMA PhaseValues ==
    ASSUME NEW tm, NEW des
    PROVE  Phase(tm, des) \in {"running", "paused", "requested"}
  BY Zenon DEF Phase

\* Synchronising the current run keeps ended runs and final statuses together.
LEMMA Synced ==
    ASSUME curRun \in Runs, NEW st \in [Runs -> Statuses], NEW en \in SUBSET Runs,
           NEW tm, NEW des, RunsMatch(st, en, des)
    PROVE  /\ SyncedStatus(st, en, tm, des) \in [Runs -> Statuses]
           /\ RunsMatch(SyncedStatus(st, en, tm, des), SyncedEnded(en, tm, des), des)
           /\ \A r \in en : r \in SyncedEnded(en, tm, des)
                            /\ SyncedStatus(st, en, tm, des)[r] = st[r]
           /\ \A r \in Runs : SyncedStatus(st, en, tm, des)[r] = "completed" =>
                                st[r] = "completed" \/ AllClean(tm)
           /\ curRun \notin SyncedEnded(en, tm, des) /\ des # "stopped" =>
                SyncedStatus(st, en, tm, des)[curRun] = Phase(tm, des)
<1> DEFINE synced == SyncedStatus(st, en, tm, des)
           finished == SyncedEnded(en, tm, des)
           ph == Phase(tm, des)
<1>1. ph \in {"running", "paused", "requested"}
  BY PhaseValues, Zenon
<1>2. CASE \/ curRun \in en
           \/ des = "stopped" /\ ~AllClean(tm)
  <2>1. synced = st /\ finished \in {en, en \cup {curRun}}
        /\ (curRun \notin en => finished = en /\ des = "stopped")
    BY <1>2, Zenon DEF SyncedStatus, SyncedEnded
  <2>2. finished = en
    BY <2>1, Zenon
  <2> QED
    BY <2>1, <2>2, Zenon
<1>3. CASE curRun \notin en /\ des # "stopped"
  <2>1. synced = [st EXCEPT ![curRun] = ph] /\ finished = en
    BY <1>3, Zenon DEF SyncedStatus, SyncedEnded
  <2> HIDE DEF synced, finished, ph
  <2>2. synced \in [Runs -> Statuses] /\ RunsMatch(synced, finished, des)
    BY <1>1, <1>3, <2>1, LiteralTypes, Zenon DEF RunsMatch, Final
  <2>3. /\ \A r \in en : r \in finished /\ synced[r] = st[r]
        /\ \A r \in Runs : synced[r] = "completed" => st[r] = "completed"
        /\ synced[curRun] = ph
    BY <1>1, <1>3, <2>1, Zenon
  <2> QED
    BY <2>2, <2>3, Zenon DEF synced, finished, ph
<1>4. CASE curRun \notin en /\ des = "stopped" /\ AllClean(tm)
  <2>1. synced = [st EXCEPT ![curRun] = "completed"] /\ finished = en \cup {curRun}
    BY <1>4, Zenon DEF SyncedStatus, SyncedEnded
  <2> HIDE DEF synced, finished
  <2>2. curRun \notin en /\ des = "stopped"
    BY <1>4, Zenon
  <2>3. synced \in [Runs -> Statuses] /\ RunsMatch(synced, finished, des)
    BY <2>1, <2>2, LiteralTypes, Zenon DEF RunsMatch, Final
  <2>4. \A r \in en : r \in finished /\ synced[r] = st[r]
    BY <2>1, <2>2, Zenon
  <2> QED
    BY <1>4, <2>3, <2>4, Zenon DEF synced, finished
<1> QED
  BY <1>2, <1>3, <1>4, Zenon

\* The tail of a transaction keeps the runs matched to the stream, final
\* statuses and the intent, and completes a run only when all attempts are clean.
LEMMA SettleRuns ==
    ASSUME curRun \in Runs, NEW st \in [Runs -> Statuses], NEW en \in SUBSET Runs,
           NEW tm, NEW des, NEW rv, RunsMatch(st, en, des), Settle(st, en, tm, des, rv)
    PROVE  /\ RunInv'
           /\ \A r \in en : r \in ended' /\ status'[r] = st[r]
           /\ des = "stopped" /\ curRun' = curRun => desired' = "stopped"
           /\ \A r \in Runs : status'[r] = "completed" => st[r] = "completed" \/ AllClean(tm)
<1> DEFINE synced == SyncedStatus(st, en, tm, des)
           finished == SyncedEnded(en, tm, des)
<1>1. /\ synced \in [Runs -> Statuses]
      /\ RunsMatch(synced, finished, des)
      /\ \A r \in en : r \in finished /\ synced[r] = st[r]
      /\ \A r \in Runs : synced[r] = "completed" => st[r] = "completed" \/ AllClean(tm)
  <2>1. synced \in [Runs -> Statuses] /\ RunsMatch(synced, finished, des)
    BY Synced, Zenon
  <2>2. \A r \in en : r \in finished /\ synced[r] = st[r]
    BY Synced, SMT
  <2>3. \A r \in Runs : synced[r] = "completed" => st[r] = "completed" \/ AllClean(tm)
    BY Synced, SMT
  <2> QED
    BY <2>1, <2>2, <2>3, Zenon
<1>2. ended' = finished
  BY Zenon DEF Settle
<1>3. \/ \E r \in Runs : Promote(synced, rv, r)
      \/ status' = synced /\ desired' = des /\ curRun' = curRun
  BY Zenon DEF Settle
<1> HIDE DEF synced, finished
<1>4. CASE status' = synced /\ desired' = des /\ curRun' = curRun
  BY <1>1, <1>2, <1>4, Zenon DEF RunInv, RunsMatch
<1>5. ASSUME NEW r \in Runs, Promote(synced, rv, r) PROVE
        /\ RunInv'
        /\ \A q \in en : q \in ended' /\ status'[q] = st[q]
        /\ des = "stopped" /\ curRun' = curRun => desired' = "stopped"
        /\ \A q \in Runs : status'[q] = "completed" => st[q] = "completed" \/ AllClean(tm)
  <2>1. /\ status' = [synced EXCEPT ![r] = "requested"] /\ curRun' = r /\ desired' = "enabled"
        /\ synced[r] = "scheduled"
    BY <1>5, Zenon DEF Promote, NewestWaiting, Waiting
  <2>2. r # curRun /\ r \notin finished
    BY <1>1, <2>1, RunsAssumption, Zenon DEF RunsMatch, Final
  <2>3. \A q \in Runs : status'[q] = IF q = r THEN "requested" ELSE synced[q]
    BY <1>1, <2>1, Zenon
  <2>4. RunInv'
    BY <1>1, <1>2, <2>1, <2>2, <2>3, Zenon DEF RunInv, RunsMatch, Final
  <2> QED
    BY <1>1, <1>2, <2>1, <2>2, <2>3, <2>4, Zenon
<1> QED
  BY <1>3, <1>4, <1>5, Zenon

\* Every token handed to a worker was issued.
LEMMA ClaimedIssued ==
    ASSUME TypeOK, OwnershipInv
    PROVE  \A t \in claimed : t \in 1..latest
<1>1. latest \in 0..MaxAttempts /\ claimed \subseteq 1..MaxAttempts
  BY Zenon DEF TypeOK, AttemptType, Tokens
<1>2. \A t \in claimed : ~(t > latest)
  BY <1>1, Zenon DEF OwnershipInv, Tokens
<1> QED
  BY <1>1, <1>2, BoundsAssumption

\* After it the status of the current run is the one its intent and attempts give.
LEMMA SettlePhase ==
    ASSUME TypeOK, OwnershipInv, curRun \in Runs, NEW st \in [Runs -> Statuses],
           NEW en \in SUBSET Runs, NEW des, NEW rv, RunsMatch(st, en, des),
           Settle(st, en, term', des, rv), UNCHANGED <<claimed, latest>>
    PROVE  PhaseAgrees'
<1> DEFINE synced == SyncedStatus(st, en, term', des)
           finished == SyncedEnded(en, term', des)
<1>1. /\ synced \in [Runs -> Statuses]
      /\ curRun \notin finished /\ des # "stopped" => synced[curRun] = Phase(term', des)
  BY Synced, Zenon
<1>2. ended' = finished
  BY Zenon DEF Settle
<1>3. \/ Settled(finished, term') /\ \E r \in Runs : Promote(synced, rv, r)
      \/ status' = synced /\ desired' = des /\ curRun' = curRun
  BY Zenon DEF Settle
<1> HIDE DEF synced, finished
<1>4. CASE status' = synced /\ desired' = des /\ curRun' = curRun
  <2>1. Phase(term', des) = Phase(term, desired)'
    BY <1>4, Zenon DEF Phase
  <2> QED
    BY <1>1, <1>2, <1>4, <2>1, Zenon DEF PhaseAgrees, HasLiveRun
<1>5. ASSUME Settled(finished, term'), NEW r \in Runs, Promote(synced, rv, r) PROVE PhaseAgrees'
  <2>1. status' = [synced EXCEPT ![r] = "requested"] /\ curRun' = r /\ desired' = "enabled"
    BY <1>5, Zenon DEF Promote
  <2>2. status'[curRun'] = "requested"
    BY <1>1, <2>1, Zenon
  <2>3. \A t \in claimed' : term'[t] # "live"
    <3>1. \A t \in claimed : t \in 1..latest
      BY ClaimedIssued, Zenon
    <3> QED
      BY <1>5, <3>1, Zenon DEF Settled
  <2> QED
    BY <2>1, <2>2, <2>3, Zenon DEF PhaseAgrees, Phase
<1> QED
  BY <1>3, <1>4, <1>5, Zenon

\* A transaction that leaves the attempts of the route, but perhaps for one that
\* ends, keeps the attempts of completed runs clean.
LEMMA SettleQuiet ==
    ASSUME TypeOK, QuietInv, NEW st \in [Runs -> Statuses],
           \A r \in Runs : st[r] = "completed" => status[r] = "completed",
           \A r \in Runs : status'[r] = "completed" => st[r] = "completed" \/ AllClean(term'),
           \A t \in Tokens : term[t] = "clean" => term'[t] = "clean",
           UNCHANGED <<attRun, latest>>
    PROVE  QuietInv'
<1> SUFFICES ASSUME NEW r \in Runs, status'[r] = "completed",
                    NEW t \in 1..latest, attRun[t] = r
             PROVE  term'[t] = "clean"
  BY Zenon DEF QuietInv
<1>1. t \in Tokens
  BY BoundsAssumption DEF TypeOK, AttemptType, Tokens
<1>2. CASE AllClean(term')
  BY <1>2, Zenon DEF AllClean
<1>3. CASE status[r] = "completed"
  BY <1>1, <1>3, Zenon DEF QuietInv
<1> QED
  BY <1>2, <1>3, Zenon

----------------------------------------------------------------------------
(***************************************************************************)
(* The actions.                                                            *)
(***************************************************************************)

\* A step that touches neither the runs nor the attempts.
LEMMA PhaseFrame ==
    ASSUME PhaseInv, UNCHANGED <<curRun, desired, status, ended, latest, attRun, term, claimed>>
    PROVE  PhaseInv' /\ FinalKept /\ StopKept
<1>1. RunInv' /\ QuietInv'
  BY Zenon DEF PhaseInv, RunInv, RunsMatch, QuietInv
<1>2. PhaseAgrees'
  BY Zenon DEF PhaseInv, PhaseAgrees, HasLiveRun, Phase
<1>3. FinalKept /\ StopKept
  BY Zenon DEF FinalKept, StopKept
<1> QED
  BY <1>1, <1>2, <1>3, Zenon DEF PhaseInv

\* SetDesiredState: the intent moves, and a stop withdraws the newest waiting run.
LEMMA SetDesiredPhase ==
    ASSUME TypeOK, OwnershipInv, PhaseInv, curRun # NoRun, NEW want \in Desired, NEW expected,
           SetDesiredState(want, expected)
    PROVE  PhaseInv' /\ FinalKept /\ StopKept
<1> DEFINE dropped == IF want = "stopped" THEN NewestWaiting(status, born) ELSE {}
           kept == [q \in Runs |-> IF q \in dropped THEN "canceled" ELSE status[q]]
<1>1. /\ Settle(kept, ended \cup dropped, term, want, rev + 1)
      /\ UNCHANGED <<latest, attRun, term, claimed>>
      /\ desired = "stopped" => want = "stopped"
  BY Zenon DEF SetDesiredState, DesiredStateAllowed, attemptVars
<1>2. dropped \in SUBSET Runs /\ \A r \in dropped : status[r] = "scheduled"
  BY Zenon DEF NewestWaiting, Waiting
<1>3. curRun \in Runs /\ status \in [Runs -> Statuses] /\ RunInv /\ QuietInv
      /\ (curRun \in ended => want = "stopped")
  BY <1>1, Zenon DEF TypeOK, StreamType, RunType, PhaseInv, RunInv, RunsMatch
<1> HIDE DEF dropped
<1>4. /\ kept \in [Runs -> Statuses] /\ ended \cup dropped \in SUBSET Runs
      /\ RunsMatch(kept, ended \cup dropped, want)
      /\ \A r \in ended : kept[r] = status[r]
      /\ \A r \in Runs : kept[r] = "completed" => status[r] = "completed"
  BY <1>2, <1>3, LiteralTypes, Zenon DEF TypeOK, RunType, RunInv, RunsMatch, Final
<1> HIDE DEF kept
<1>5. Settle(kept, ended \cup dropped, term', want, rev + 1)
  BY <1>1, Zenon
<1>6. /\ RunInv'
      /\ \A r \in ended \cup dropped : r \in ended' /\ status'[r] = kept[r]
      /\ want = "stopped" /\ curRun' = curRun => desired' = "stopped"
      /\ \A r \in Runs : status'[r] = "completed" => kept[r] = "completed" \/ AllClean(term')
  BY <1>3, <1>4, <1>5, SettleRuns, Zenon
<1>7. PhaseAgrees'
  BY <1>1, <1>3, <1>4, <1>5, SettlePhase, Zenon
<1>8. QuietInv'
  BY <1>1, <1>3, <1>4, <1>6, SettleQuiet, Zenon
<1> QED
  BY <1>1, <1>4, <1>6, <1>7, <1>8, Zenon DEF PhaseInv, FinalKept, StopKept

\* queueStreamSuccessor: the submitted run waits, an older one is withdrawn.
LEMMA QueueSuccessorPhase ==
    ASSUME TypeOK, OwnershipInv, PhaseInv, NEW r \in Runs, QueueSuccessor(r)
    PROVE  PhaseInv' /\ FinalKept /\ StopKept
<1> DEFINE parked == [status EXCEPT ![r] = "scheduled"]
           older == NewestWaiting(parked, born') \ {r}
           kept == [q \in Runs |-> IF q \in older THEN "canceled" ELSE parked[q]]
<1>1. /\ Settle(kept, ended \cup older, term, "stopped", rev + 1)
      /\ UNCHANGED <<latest, attRun, term, claimed>>
      /\ status[r] \in {"absent", "scheduled"} /\ curRun # NoRun
  BY Zenon DEF QueueSuccessor, Admissible, HasLiveRun, attemptVars
<1>2. older \in SUBSET Runs /\ \A q \in older : parked[q] = "scheduled"
  BY Zenon DEF NewestWaiting, Waiting
<1>3. curRun \in Runs /\ curRun # NoRun /\ RunInv /\ QuietInv
  BY <1>1, Zenon DEF TypeOK, StreamType, PhaseInv
<1>4. /\ parked \in [Runs -> Statuses]
      /\ \A q \in Runs : parked[q] = status[q]
                         \/ (status[q] \in {"absent", "scheduled"} /\ parked[q] = "scheduled")
  BY <1>1, LiteralTypes, Zenon DEF TypeOK, RunType
<1> HIDE DEF older, parked
<1>5. /\ kept \in [Runs -> Statuses] /\ ended \cup older \in SUBSET Runs
      /\ RunsMatch(kept, ended \cup older, "stopped")
      /\ \A q \in ended : kept[q] = status[q]
      /\ \A q \in Runs : kept[q] = "completed" => status[q] = "completed"
  BY <1>2, <1>3, <1>4, LiteralTypes, Zenon DEF TypeOK, RunType, RunInv, RunsMatch, Final
<1> HIDE DEF kept
<1>6. Settle(kept, ended \cup older, term', "stopped", rev + 1)
  BY <1>1, Zenon
<1>7. /\ RunInv'
      /\ \A q \in ended \cup older : q \in ended' /\ status'[q] = kept[q]
      /\ curRun' = curRun => desired' = "stopped"
      /\ \A q \in Runs : status'[q] = "completed" => kept[q] = "completed" \/ AllClean(term')
  BY <1>3, <1>5, <1>6, SettleRuns, Zenon
<1>8. PhaseAgrees'
  BY <1>1, <1>3, <1>5, <1>6, SettlePhase, Zenon
<1>9. QuietInv'
  BY <1>1, <1>3, <1>5, <1>7, SettleQuiet, Zenon
<1> QED
  BY <1>5, <1>7, <1>8, <1>9, Zenon DEF PhaseInv, FinalKept, StopKept

\* A transaction that ends one attempt and settles.
LEMMA EndedPhase ==
    ASSUME TypeOK, OwnershipInv, PhaseInv, curRun # NoRun,
           Settle(status, ended, term', desired, rev),
           \A t \in Tokens : term[t] = "clean" => term'[t] = "clean",
           UNCHANGED <<latest, attRun, claimed>>
    PROVE  PhaseInv' /\ FinalKept /\ StopKept
<1>1. /\ curRun \in Runs /\ status \in [Runs -> Statuses] /\ ended \in SUBSET Runs
      /\ RunsMatch(status, ended, desired) /\ QuietInv
  BY Zenon DEF TypeOK, StreamType, RunType, PhaseInv, RunInv
<1>2. /\ RunInv'
      /\ \A r \in ended : r \in ended' /\ status'[r] = status[r]
      /\ desired = "stopped" /\ curRun' = curRun => desired' = "stopped"
      /\ \A r \in Runs : status'[r] = "completed" => status[r] = "completed" \/ AllClean(term')
  BY <1>1, SettleRuns, Zenon
<1>3. PhaseAgrees'
  BY <1>1, SettlePhase, Zenon
<1>4. QuietInv'
  BY <1>1, <1>2, SettleQuiet, Zenon
<1> QED
  BY <1>2, <1>3, <1>4, Zenon DEF PhaseInv, FinalKept, StopKept

\* RetireUnclaimedAttempt and EndAttempt end an open attempt only.
LEMMA RetirePhase ==
    ASSUME TypeOK, CommandInv, OwnershipInv, PhaseInv, NEW s \in Supervisors,
           RetireUnclaimedAttempt(s)
    PROVE  PhaseInv' /\ FinalKept /\ StopKept
<1>1. /\ Settle(status, ended, term', desired, rev) /\ UNCHANGED <<latest, attRun, claimed>>
      /\ cmd[s].op = "retire"
      /\ term' = term \/ term' = [term EXCEPT ![cmd[s].token] = "clean"]
  BY Zenon DEF RetireUnclaimedAttempt
<1>2. \A t \in Tokens : term[t] = "clean" => term'[t] = "clean"
  BY <1>1, Zenon DEF TypeOK, AttemptType
<1>3. cmd[s].op # NoCommand.op
  BY <1>1 DEF NoCommand
<1>4. curRun # NoRun
  BY <1>3, Zenon DEF CommandInv
<1> QED
  BY <1>1, <1>2, <1>4, EndedPhase, Zenon

\* The worker that holds the latest attempt ends it.
LEMMA EndPhase ==
    ASSUME TypeOK, CommandInv, OwnershipInv, PhaseInv, NEW w \in Workers, EndAttempt(w)
    PROVE  PhaseInv' /\ FinalKept /\ StopKept
<1>1. /\ Settle(status, ended, term', desired, rev) /\ UNCHANGED <<latest, attRun, claimed>>
      /\ term[held[w]] = "live" /\ held[w] = latest /\ held[w] # 0
      /\ \E k \in Terminations : term' = [term EXCEPT ![held[w]] = k]
  BY LiteralTypes, Zenon DEF EndAttempt, EndAllowed, CurrentAttempt
<1>2. \A t \in Tokens : term[t] = "clean" => term'[t] = "clean"
  BY <1>1, Zenon DEF TypeOK, AttemptType
<1>3. curRun # NoRun
  BY <1>1, Zenon DEF CommandInv
<1> QED
  BY <1>1, <1>2, <1>3, EndedPhase, Zenon

\* No attempt is open when the latest one authorises another.
LEMMA NoneOpenAtTakeover ==
    ASSUME TypeOK, OwnershipInv, TakeoverAllowed
    PROVE  /\ \A t \in 1..latest : term[t] = "clean"
           /\ \A t \in claimed : term[t] = "clean"
<1>1. \A t \in 1..latest : t \in Tokens /\ (t < latest \/ t = latest) /\ latest # 0
  BY BoundsAssumption DEF TypeOK, AttemptType, Tokens
<1>2. \A t \in 1..latest : term[t] = "clean"
  BY <1>1, Zenon DEF TakeoverAllowed, OwnershipInv
<1>3. \A t \in claimed : t \in 1..latest
  BY ClaimedIssued, Zenon
<1> QED
  BY <1>2, <1>3, Zenon

\* initializeContinuousActivation: a run that was waiting or new takes an idle
\* stream.
LEMMA ActivatePhase ==
    ASSUME TypeOK, OwnershipInv, PhaseInv, NEW r \in Runs, Activate(r)
    PROVE  PhaseInv' /\ FinalKept /\ StopKept
<1>1. /\ status[r] \in {"absent", "scheduled"}
      /\ status' = [status EXCEPT ![r] = "requested"] /\ curRun' = r /\ desired' = "enabled"
      /\ TakeoverAllowed /\ UNCHANGED <<ended, latest, attRun, term, claimed>>
  BY Zenon DEF Activate, Admissible, attemptVars
<1>2. RunInv /\ QuietInv /\ status \in [Runs -> Statuses] /\ ended \subseteq Runs
  BY Zenon DEF PhaseInv, TypeOK, RunType
<1>3. r \notin ended /\ r # curRun
  BY <1>1, <1>2, RunsAssumption, Zenon DEF RunInv, RunsMatch, Final
<1>4. RunInv' /\ QuietInv'
  BY <1>1, <1>2, <1>3, Zenon DEF RunInv, RunsMatch, Final, QuietInv
<1>5. PhaseAgrees'
  BY <1>1, <1>2, NoneOpenAtTakeover, Zenon DEF PhaseAgrees, Phase
<1>6. FinalKept /\ StopKept
  BY <1>1, <1>2, <1>3, Zenon DEF FinalKept, StopKept
<1> QED
  BY <1>4, <1>5, <1>6, Zenon DEF PhaseInv

\* MarkContinuousRunStarted: the claim of the open attempt shows the run running.
LEMMA ClaimPhase ==
    ASSUME TypeOK, CommandInv, OwnershipInv, PhaseInv, NEW w \in Workers, NEW t \in Tokens,
           Claim(w, t)
    PROVE  PhaseInv' /\ FinalKept /\ StopKept
<1>1. /\ status' = RunStarted /\ claimed' = claimed \cup {t}
      /\ t = latest /\ t # 0 /\ term[t] = "live" /\ desired = "enabled"
      /\ UNCHANGED <<curRun, desired, ended, latest, attRun, term>>
  BY Zenon DEF Claim, CurrentAttempt, streamVars
<1>2. /\ RunInv /\ QuietInv /\ status \in [Runs -> Statuses] /\ ended \subseteq Runs
      /\ curRun \in Runs
  BY <1>1, Zenon DEF PhaseInv, TypeOK, RunType, StreamType, CommandInv
<1>3. curRun \notin ended /\ status' = [status EXCEPT ![curRun] = "running"]
  BY <1>1, <1>2, Zenon DEF RunInv, RunsMatch, RunStarted
<1>4. RunInv' /\ QuietInv'
  BY <1>1, <1>2, <1>3 DEF RunInv, RunsMatch, Final, QuietInv
<1>5. PhaseAgrees'
  BY <1>1, <1>2, <1>3, Zenon DEF PhaseAgrees, Phase
<1>6. FinalKept /\ StopKept
  BY <1>1, <1>2, <1>3, Zenon DEF FinalKept, StopKept
<1> QED
  BY <1>4, <1>5, <1>6, Zenon DEF PhaseInv

\* StartAttempt opens an attempt of a run that has not ended; nobody claimed it.
LEMMA StartPhase ==
    ASSUME TypeOK, OwnershipInv, PhaseInv, NEW s \in Supervisors, StartAttempt(s)
    PROVE  PhaseInv' /\ FinalKept /\ StopKept
<1>1. /\ latest < MaxAttempts /\ latest' = latest + 1 /\ desired = "enabled"
      /\ attRun' = [attRun EXCEPT ![latest + 1] = curRun]
      /\ term' = [term EXCEPT ![latest + 1] = "live"]
      /\ UNCHANGED <<curRun, desired, status, ended, claimed>>
  BY Zenon DEF StartAttempt, StartAllowed, streamVars, runVars
<1>2. /\ latest + 1 \in Tokens /\ latest \in Nat
      /\ \A t \in 1..latest' : t \in Tokens /\ (t \in 1..latest \/ t = latest + 1)
      /\ \A t \in claimed : t # latest + 1 /\ t \in Tokens
  BY <1>1, BoundsAssumption DEF TypeOK, AttemptType, OwnershipInv, Tokens
<1>3. \A t \in Tokens : t # latest + 1 => term'[t] = term[t] /\ attRun'[t] = attRun[t]
  BY <1>1, <1>2, Zenon DEF TypeOK, AttemptType
<1>4. attRun'[latest + 1] = curRun
  BY <1>1, <1>2, Zenon DEF TypeOK, AttemptType
<1>5. RunInv' /\ FinalKept /\ StopKept
  BY <1>1, Zenon DEF PhaseInv, RunInv, RunsMatch, FinalKept, StopKept
<1>6. PhaseAgrees'
  <2>1. (\E t \in claimed' : term'[t] = "live") <=> (\E t \in claimed : term[t] = "live")
    BY <1>1, <1>2, <1>3, Zenon
  <2>2. Phase(term, desired)' = Phase(term, desired)
    BY <1>1, <2>1, Zenon DEF Phase
  <2> QED
    BY <1>1, <2>2, Zenon DEF PhaseInv, PhaseAgrees, HasLiveRun
<1>7. QuietInv'
  <2>1. curRun \in Runs => status[curRun] # "completed"
    BY <1>1, Zenon DEF PhaseInv, RunInv, RunsMatch, Final
  <2> SUFFICES ASSUME NEW r \in Runs, status[r] = "completed", NEW t \in 1..latest', attRun'[t] = r
               PROVE  term'[t] = "clean"
    BY <1>1, Zenon DEF QuietInv
  <2>2. t # latest + 1
    BY <1>4, <2>1, Zenon
  <2> QED
    BY <1>2, <1>3, <2>2, Zenon DEF PhaseInv, QuietInv
<1> QED
  BY <1>5, <1>6, <1>7, Zenon DEF PhaseInv

\* Every step keeps the runs matched to the stream, ended runs final and the stop.
LEMMA PhaseStep ==
    ASSUME TypeOK, CommandInv, OwnershipInv, PhaseInv, Next
    PROVE  PhaseInv' /\ FinalKept /\ StopKept
<1> DEFINE Goal == PhaseInv' /\ FinalKept /\ StopKept
           rest == <<curRun, desired, status, ended, latest, attRun, term, claimed>>
<1>1. ASSUME UNCHANGED rest PROVE Goal
  BY <1>1, PhaseFrame, Zenon
<1> HIDE DEF Goal
<1> USE DEF storeVars, streamVars, runVars, bornVars, attemptVars, epochVars, planeVars
<1>2. CASE Submit
  BY <1>2, QueueSuccessorPhase, ActivatePhase, Zenon DEF Submit, Goal
<1>3. CASE RetireGeneration \/ Upgrade \/ \E t \in Tokens : Expire(t)
  <2>1. UNCHANGED rest
    BY <1>3, Zenon DEF RetireGeneration, Upgrade, Expire
  <2> QED
    BY <1>1, <2>1, Zenon DEF Goal
<1>4. CASE SignalSet
  <2>1. api \in Signal /\ curRun # NoRun /\ SetDesiredState(api.want, api.rev)
    BY <1>4, Zenon DEF SignalSet, TypeOK, PlaneType, CommandInv
  <2>2. api.want \in Desired
    BY <2>1, Zenon DEF Signal
  <2> QED
    BY <2>1, <2>2, SetDesiredPhase, Zenon DEF Goal
<1>5. CASE Signaling /\ ~SignalSet
  <2>1. UNCHANGED rest
    BY <1>5, Zenon DEF Signaling, SignalMatches, SignalLoad, SignalConflict, vars
  <2> QED
    BY <1>1, <2>1, Zenon DEF Goal
<1>6. ASSUME NEW s \in Supervisors, PauseExhausted(s) PROVE Goal
  <2>1. SetDesiredState("paused", cmd[s].rev) /\ cmd[s].op = "pause"
    BY <1>6, Zenon DEF PauseExhausted
  <2>2. curRun # NoRun
    BY <2>1 DEF CommandInv, NoCommand
  <2> QED
    BY <2>1, <2>2, LiteralTypes, SetDesiredPhase, Zenon DEF Goal
<1>7. ASSUME NEW s \in Supervisors,
             SupervisorLoad(s) \/ YieldAttempt(s) \/ Dispatch(s) \/ CommandRefused(s)
      PROVE  Goal
  BY <1>1, <1>7, Zenon DEF SupervisorLoad, YieldAttempt, Dispatch, CommandRefused
<1>8. ASSUME NEW s \in Supervisors, Issue(s) PROVE Goal
  BY <1>6, <1>7, <1>8, StartPhase, RetirePhase, Zenon DEF Issue, Goal
<1>9. ASSUME NEW w \in Workers, Execute(w), ~EndAttempt(w) PROVE Goal
  BY <1>1, <1>9, Zenon DEF Execute, LoadState, RenewLoaded, Abandon, BindEpoch, Read, ReadIdle,
     SinkCommit, CommitEpoch, RenewCertified, Acknowledge, StepFails, Cleanup
<1>10. ASSUME NEW w \in Workers, Heartbeat(w) \/ HeartbeatFails(w) \/ Exit(w) PROVE Goal
  BY <1>1, <1>10, Zenon DEF Heartbeat, HeartbeatFails, Exit
<1>11. ASSUME NEW w \in Workers, EndAttempt(w) \/ \E t \in Tokens : Claim(w, t) PROVE Goal
  BY <1>11, EndPhase, ClaimPhase, Zenon DEF Goal
<1> QED
  BY <1>2, <1>3, <1>4, <1>5, <1>7, <1>8, <1>9, <1>10, <1>11, Zenon DEF Next, Goal

\* A claimed attempt whose lease ran out is not recorded as clean, and the next
\* one waits until it is.
LEMMA ExpiryStep ==
    ASSUME TypeOK, OwnershipInv, Next, NEW t \in claimed \cap expired, term[t] # "clean"
    PROVE  latest' = latest /\ term'[t] # "clean"
<1> USE DEF storeVars, streamVars, runVars, bornVars, attemptVars, epochVars, planeVars
<1>1. ASSUME UNCHANGED <<latest, term>> PROVE latest' = latest /\ term'[t] # "clean"
  BY <1>1, Zenon
<1>2. CASE Submit \/ RetireGeneration \/ Signaling \/ Upgrade \/ \E u \in Tokens : Expire(u)
  BY <1>1, <1>2, Zenon DEF Submit, QueueSuccessor, Activate, RetireGeneration, Signaling,
     SignalMatches, SignalLoad, SignalSet, SetDesiredState, SignalConflict, Upgrade, Expire, vars
<1>3. ASSUME NEW s \in Supervisors,
             SupervisorLoad(s) \/ YieldAttempt(s) \/ Dispatch(s) \/ PauseExhausted(s)
               \/ CommandRefused(s)
      PROVE  latest' = latest /\ term'[t] # "clean"
  BY <1>1, <1>3, Zenon DEF SupervisorLoad, YieldAttempt, Dispatch, PauseExhausted,
     SetDesiredState, CommandRefused
<1>4. ASSUME NEW s \in Supervisors PROVE ~StartAttempt(s)
  BY NoneOpenAtTakeover, Zenon DEF StartAttempt, StartAllowed
<1>5. ASSUME NEW s \in Supervisors, RetireUnclaimedAttempt(s)
      PROVE  latest' = latest /\ term'[t] # "clean"
  <2>1. /\ latest' = latest
        /\ \/ term' = term
           \/ /\ term' = [term EXCEPT ![cmd[s].token] = "clean"]
              /\ cmd[s].token \notin claimed
    BY <1>5, Zenon DEF RetireUnclaimedAttempt, Unclaimable
  <2> QED
    BY <2>1, Zenon DEF TypeOK, AttemptType
<1>6. ASSUME NEW w \in Workers, EndAttempt(w)
      PROVE  latest' = latest /\ term'[t] # "clean"
  <2>1. /\ latest' = latest
        /\ term' = [term EXCEPT ![held[w]] = IF pc[w] = "endClean" THEN "clean" ELSE "unproven"]
        /\ pc[w] = "endClean" => held[w] \notin expired
    BY <1>6, Zenon DEF EndAttempt, EndAllowed, CurrentAttempt
  <2> QED
    BY <2>1, Zenon DEF TypeOK, AttemptType
<1>7. ASSUME NEW w \in Workers, Execute(w), ~EndAttempt(w)
      PROVE  latest' = latest /\ term'[t] # "clean"
  BY <1>1, <1>7, Zenon DEF Execute, LoadState, RenewLoaded, Abandon, BindEpoch, Read, ReadIdle,
     SinkCommit, CommitEpoch, RenewCertified, Acknowledge, StepFails, Cleanup
<1>8. ASSUME NEW w \in Workers,
             Heartbeat(w) \/ HeartbeatFails(w) \/ Exit(w) \/ \E u \in Tokens : Claim(w, u)
      PROVE  latest' = latest /\ term'[t] # "clean"
  BY <1>1, <1>8, Zenon DEF Heartbeat, HeartbeatFails, Exit, Claim
<1> QED
  BY <1>2, <1>3, <1>4, <1>5, <1>6, <1>7, <1>8, Zenon DEF Next, Issue

----------------------------------------------------------------------------
(***************************************************************************)
(* Theorems.                                                               *)
(***************************************************************************)

\* The runs of the generation match the stream in every reachable state.
THEOREM PhaseInvariant == Spec => []PhaseInv
<1>1. Init => PhaseInv
  <2> SUFFICES ASSUME Init PROVE PhaseInv
    BY Zenon
  <2>1. /\ curRun = NoRun /\ ended = {} /\ latest = 0
        /\ status = [r \in Runs |-> "absent"]
    BY Zenon DEF Init
  <2> QED
    BY <2>1, Zenon DEF PhaseInv, RunInv, RunsMatch, Final, QuietInv, PhaseAgrees, HasLiveRun
<1>2. DeliveryInv /\ PhaseInv /\ [Next]_vars => PhaseInv'
  <2>1. UNCHANGED vars =>
          UNCHANGED <<curRun, desired, status, ended, latest, attRun, term, claimed>>
    BY Zenon DEF vars, storeVars, streamVars, runVars, attemptVars
  <2> QED
    BY <2>1, PhaseFrame, PhaseStep, Zenon DEF DeliveryInv
<1> QED
  BY <1>1, <1>2, DeliveryInvariant, PTL DEF Spec

\* Between transactions the status of a run that is not stopping is the one its
\* intent and attempts imply: SyncContinuousRunPhase is part of all of them.
THEOREM StatusAgrees == Spec => []PhaseAgrees
<1>1. PhaseInv => PhaseAgrees
  BY Zenon DEF PhaseInv
<1> QED
  BY <1>1, PhaseInvariant, PTL

\* Nothing is open or executing for a completed run: FinishStoppedContinuousRun
\* asks every attempt, and StartAttempt asks the intent.
THEOREM CompletedQuietly == Spec => []CompletedIsQuiet
<1>1. DeliveryInv /\ PhaseInv => CompletedIsQuiet
  <2> SUFFICES ASSUME DeliveryInv, PhaseInv, NEW r \in Runs, status[r] = "completed"
               PROVE  /\ \A t \in 1..latest : attRun[t] = r => term[t] = "clean"
                      /\ \A w \in Workers : pc[w] \in Executing => attRun[held[w]] # r
    BY Zenon DEF CompletedIsQuiet
  <2>1. \A t \in 1..latest : attRun[t] = r => term[t] = "clean"
    BY Zenon DEF PhaseInv, QuietInv
  <2>2. ASSUME NEW w \in Workers, pc[w] \in Executing PROVE attRun[held[w]] # r
    <3>1. pc[w] # "idle"
      BY <2>2, Zenon DEF Executing, Looping
    <3>2. held[w] = latest /\ latest \in Tokens /\ term[held[w]] = "live"
      BY <3>1, HolderIsLatest, Zenon DEF DeliveryInv, OwnershipInv
    <3>3. held[w] \in 1..latest
      BY <3>2, BoundsAssumption DEF Tokens
    <3> QED
      BY <2>1, <3>2, <3>3, Zenon
  <2> QED
    BY <2>1, <2>2, Zenon
<1> QED
  BY <1>1, DeliveryInvariant, PhaseInvariant, PTL

\* An ended run keeps its status: no transaction rewrites it.
THEOREM EndedForGood == Spec => EndedIsFinal
<1>1. DeliveryInv /\ PhaseInv /\ [Next]_vars =>
        [\A r \in ended : r \in ended' /\ status'[r] = status[r]]_vars
  BY PhaseStep, Zenon DEF DeliveryInv, FinalKept
<1> QED
  BY <1>1, DeliveryInvariant, PhaseInvariant, PTL DEF Spec, EndedIsFinal

\* A run told to stop is never enabled again: SetDesiredState refuses it, and
\* promotion and activation replace the run.
THEOREM StopForGood == Spec => StopIsFinal
<1>1. DeliveryInv /\ PhaseInv /\ [Next]_vars =>
        [desired = "stopped" /\ curRun' = curRun => desired' = "stopped"]_vars
  BY PhaseStep, Zenon DEF DeliveryInv, StopKept
<1> QED
  BY <1>1, DeliveryInvariant, PhaseInvariant, PTL DEF Spec, StopIsFinal

\* The end of a lease proves nothing about its worker: EndAttempt wants a live
\* lease for a clean end, RetireUnclaimedAttempt an unclaimed attempt, and
\* StartAttempt a clean predecessor.
THEOREM ExpiryIsNoProof == Spec => ExpiryProvesNothing
<1>1. DeliveryInv /\ [Next]_vars =>
        [\A t \in claimed \cap expired : term[t] # "clean" =>
           latest' = latest /\ term'[t] # "clean"]_vars
  BY ExpiryStep, Zenon DEF DeliveryInv
<1> QED
  BY <1>1, DeliveryInvariant, PTL DEF Spec, ExpiryProvesNothing
=============================================================================
