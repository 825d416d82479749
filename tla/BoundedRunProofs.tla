-------------------------- MODULE BoundedRunProofs --------------------------
(***************************************************************************)
(* What a bounded run keeps for every number of clients, executions, rows, *)
(* facts and faults: a running row has an execution behind it, the source  *)
(* is acknowledged after the checkpoint, every cursor on its way to the    *)
(* checkpoint is covered by the sink or is never promoted, and the theorems*)
(* that follow.                                                            *)
(***************************************************************************)
EXTENDS BoundedTypeProofs

\* Whatever says running has an execution or a terminal fact behind it, after every
\* step.
LEMMA OwnerStep ==
    ASSUME TypeInv, OwnerInv, [Next]_vars
    PROVE  OwnerInv'
<1>1. ASSUME Published, UNCHANGED trk, row' = row \/ row'.status \notin {"running", "completed"}
      PROVE  OwnerInv'
  <2>1. SUFFICES ASSUME open' = {}
                 PROVE  /\ \A i \in 1..Len(queue') : queue'[i].name = "started" => ~Quiet(i, Len(queue) + 1)'
                        /\ row'.status = "running" => ~Quiet(0, Len(queue) + 1)'
                        /\ trk'.pc = "save" /\ trk'.copy.status = "running" => ~Quiet(0, Len(queue) + 1)'
    BY Zenon DEF OwnerInv
  <2>2. CASE queue' = queue /\ open \subseteq open'
    <3>1. open = {} /\ \A i : Quiet(i, Len(queue) + 1)' <=> Quiet(i, Len(queue) + 1)
      BY <2>1, <2>2, Zenon DEF Quiet, Done
    <3> QED
      BY <1>1, <2>2, <3>1, Zenon DEF OwnerInv
  <2>3. ASSUME NEW f \in Facts, queue' = Append(queue, f), f.name = "started" => open' # {},
               f.name \notin TerminalFacts => open \subseteq open'
        PROVE  /\ \A i \in 1..Len(queue') : queue'[i].name = "started" => ~Quiet(i, Len(queue) + 1)'
               /\ row'.status = "running" => ~Quiet(0, Len(queue) + 1)'
               /\ trk'.pc = "save" /\ trk'.copy.status = "running" => ~Quiet(0, Len(queue) + 1)'
    <3>1. \A i \in 1..Len(queue') : queue'[i].name = "started" => i \in 1..Len(queue) /\ queue[i].name = "started"
      BY <2>1, <2>3, Appended
    <3>2. \A i \in 0..Len(queue) : Quiet(i, Len(queue) + 1)' => Quiet(i, Len(queue) + 1) /\ open = {}
      BY <2>1, <2>3, Appended, Zenon
    <3>3. 0 \in 0..Len(queue) /\ \A i \in 1..Len(queue) : i \in 0..Len(queue)
      BY <2>3, Appended
    <3> QED
      BY <1>1, <3>1, <3>2, <3>3, Zenon DEF OwnerInv
  <2> QED
    BY <1>1, <2>2, <2>3, Zenon DEF Published
<1>2. ASSUME NEW c \in Clients, Request(c) PROVE OwnerInv'
  BY <1>1, <1>2, ClientPublishes, Zenon
<1>3. ASSUME NEW e \in Executions,
             Dispatch(e) \/ Collect(e) \/ Work(e) \/ Control(e) \/ Heartbeat(e) \/ Trouble(e)
      PROVE  OwnerInv'
  BY <1>1, <1>3, WorkerPublishes, Zenon
<1>4. CASE Reap \/ Produce \/ UNCHANGED vars
  BY <1>1, <1>4, OthersPublish, Zenon
<1>5. CASE Track \/ TrackerFails
  <2>1. UNCHANGED open /\ queue \in Seq(Facts) /\ Len(queue) \in Nat
    <3>1. UNCHANGED open
      BY <1>5, Zenon DEF Track, Flush, Mark, Load, Save, TrackerFails, TrackerStep, historyVars
    <3>2. queue \in Seq(Facts)
      BY Zenon DEF TypeInv, TypeOK, BusType
    <3> QED
      BY <3>1, <3>2
  <2>2. SUFFICES ASSUME open = {}
                 PROVE  /\ \A i \in 1..Len(queue') : queue'[i].name = "started" => ~Quiet(i, Len(queue) + 1)'
                        /\ row'.status = "running" => ~Quiet(0, Len(queue) + 1)'
                        /\ trk'.pc = "save" /\ trk'.copy.status = "running" => ~Quiet(0, Len(queue) + 1)'
    BY <2>1, Zenon DEF OwnerInv
  <2>3. ASSUME queue' = queue
        PROVE  \A i : Quiet(i, Len(queue) + 1)' <=> Quiet(i, Len(queue) + 1)
    BY <2>3, Zenon DEF Quiet, Done
  <2>4. ASSUME queue # <<>>, queue' = Tail(queue)
        PROVE  /\ \A i \in 1..Len(queue') : queue'[i].name = "started" => ~Quiet(i, Len(queue) + 1)'
               /\ Quiet(0, Len(queue) + 1)' => Quiet(1, Len(queue) + 1)
    <3>1. \A i \in 0..Len(queue') : Quiet(i, Len(queue) + 1)' => Quiet(i + 1, Len(queue) + 1)
      BY <2>4, Dropped
    <3> QED
      BY <2>2, <2>4, <3>1, Dropped DEF OwnerInv
  <2>5. \A i \in 1..Len(queue) : queue[i].name = "started" => ~Quiet(i, Len(queue) + 1)
    BY <2>2, Zenon DEF OwnerInv
  <2>6. NoFold.pc = "idle" /\ trk \in [pc : {"idle", "apply", "save"}, copy : Rows]
    BY Zenon DEF NoFold, TypeInv, TypeOK, TrackerType
  <2>7. CASE Flush \/ TrackerFails \/ (Mark /\ queue' = queue)
    <3>1. row' = row /\ queue' = queue
      BY <2>7, Zenon DEF Flush, Mark, TrackerFails
    <3>2. trk'.pc # "save"
      <4>1. trk' = NoFold \/ trk' = [trk EXCEPT !.pc = "apply"] \/ (trk' = trk /\ trk.pc = "idle")
        BY <2>7, Zenon DEF Flush, Mark, TrackerFails, Delivered
      <4> QED
        BY <2>6, <4>1, Zenon
    <3> QED
      BY <2>2, <2>3, <2>5, <3>1, <3>2, Zenon DEF OwnerInv
  <2>8. CASE Mark /\ queue' # queue
    <3>1. /\ queue # <<>> /\ Oldest.name \notin TerminalFacts /\ queue' = Tail(queue)
          /\ trk' = trk /\ trk.pc = "idle" /\ row' = row
      BY <2>8, Zenon DEF Mark, Delivered
    <3>2. Quiet(0, Len(queue) + 1)' => Quiet(0, Len(queue) + 1)
      <4>1. Len(queue) + 1 \in 1..(Len(queue) + 1)
        BY <2>1
      <4> QED
        BY <2>4, <3>1, <4>1, QuietFromHead, Zenon
    <3>3. trk'.pc # "save"
      BY <3>1, Zenon
    <3> QED
      BY <2>2, <2>4, <3>1, <3>2, <3>3, Zenon DEF OwnerInv
  <2>9. CASE Load
    <3>1. row' = row /\ queue' = queue
      BY <2>9, Zenon DEF Load
    <3>2. trk'.copy.status = "running" => row.status = "running"
      <4>1. [NoRow EXCEPT !.status = "requested"].status = "requested"
        BY Literals, Zenon DEF Rows
      <4> QED
        BY <2>9, <4>1, Zenon DEF Load
    <3> QED
      BY <2>2, <2>3, <2>5, <3>1, <3>2, Zenon DEF OwnerInv
  <2>10. CASE Save
    <3>1. queue # <<>> /\ row' = Saved(Folded(trk.copy, Oldest)) /\ trk.pc = "save" /\ trk' = NoFold
      BY <2>10, Zenon DEF Save, TypeInv, FoldInv
    <3>2. Len(queue) + 1 \in 1..(Len(queue) + 1) /\ 1 \in 1..Len(queue) /\ Oldest = queue[1]
      BY <2>1, <3>1, OldestType DEF TypeInv
    <3>3. row'.status = "running" => ~Quiet(1, Len(queue) + 1)
      <4>1. Oldest.name = "started" => ~Quiet(1, Len(queue) + 1)
        BY <2>5, <3>2, Zenon
      <4>2. trk.copy.status = "running" => ~Quiet(0, Len(queue) + 1)
        BY <2>2, <3>1, Zenon DEF OwnerInv
      <4>3. Oldest.name \in {"beat", "batch"} => Oldest.name \notin TerminalFacts
        BY Zenon DEF TerminalFacts
      <4>4. Oldest.name \in {"beat", "batch"} /\ trk.copy.status = "running" => ~Quiet(1, Len(queue) + 1)
        BY <3>1, <3>2, <4>2, <4>3, QuietFromHead, Zenon
      <4> QED
        BY <3>1, <4>1, <4>4, SavedStatus, Zenon
    <3>4. CASE queue' = Tail(queue)
      BY <2>4, <2>6, <3>1, <3>3, <3>4, Zenon
    <3>5. CASE queue' = queue
      <4>1. Quiet(0, Len(queue) + 1) => Quiet(1, Len(queue) + 1)
        BY <2>1 DEF Quiet
      <4> QED
        BY <2>3, <2>5, <2>6, <3>1, <3>3, <3>5, <4>1, Zenon
    <3> QED
      BY <2>10, <3>4, <3>5, Zenon DEF Save
  <2> QED
    BY <1>5, <2>7, <2>8, <2>9, <2>10, Zenon DEF Track
<1> QED
  BY <1>2, <1>3, <1>4, <1>5, Zenon DEF Next

-----------------------------------------------------------------------------
(* The acknowledged position *)

\* Before the row of the run is inserted nothing of the run exists.
Unborn ==
  /\ row.status = "absent" /\ queue = <<>> /\ reaper = "idle"
  /\ \A e \in Executions : job[e] = "none"
  /\ \A c \in Clients : client[c].pc \notin {"transition", "publish"}

\* Unless a row was deleted: the row, once inserted, holds its request, and so
\* does the copy of a fold.
ReqInv ==
  ~undone => /\ Unborn \/ (row.status # "absent" /\ row.req)
             /\ trk.pc = "save" => trk.copy.status # "absent" /\ trk.copy.req

\* The accumulated cursor of a change stream is not behind the checkpoint, nor is
\* the checkpoint behind what was acknowledged.
AckInv == Mode = "cdc" /\ ~undone => acked <= cp /\ (acc # NoCursor => cp <= acc)

\* Before the row is inserted nobody has a copy of it, and inserting stores the request.
LEMMA UnbornStep ==
    ASSUME TypeInv, Unborn, [Next]_vars, ~undone'
    PROVE  /\ Unborn' \/ (row'.status # "absent" /\ row'.req)
           /\ trk'.pc # "save"
<1>1. trk.pc = "idle" /\ NoFold.pc = "idle"
  BY Zenon DEF Unborn, TypeInv, FoldInv, NoFold
<1>2. CASE UNCHANGED vars
  BY <1>1, <1>2, Zenon DEF vars, Unborn, storeVars, busVars, trackerVars, jobVars
<1>3. ASSUME NEW c \in Clients, Request(c) PROVE (Unborn' \/ (row'.status # "absent" /\ row'.req)) /\ trk'.pc # "save"
  <2>1. CASE Schedule(c) \/ CreateRun(c)
    <3>1. UNCHANGED trk
      BY <2>1, Zenon DEF Schedule, CreateRun, ClientStep, trackerVars
    <3>2. NoRow \in Rows
      BY Literals, Zenon
    <3>3. CASE Schedule(c)
      BY <1>1, <3>1, <3>2, <3>3, Zenon DEF Schedule, Rows
    <3>4. CASE CreateRun(c)
      BY <1>1, <3>1, <3>2, <3>4, Zenon DEF CreateRun, Rows
    <3> QED
      BY <2>1, <3>3, <3>4, Zenon
  <2>2. CASE SubmitAgain(c) \/ SignalTransition(c) \/ SignalConflict(c) \/ SignalWorker(c) \/ SignalPublish(c)
    BY <2>2, Zenon DEF Unborn, SubmitAgain, SignalTransition, SignalConflict, SignalWorker, SignalPublish
  <2>3. CASE \E s \in Signals : SignalLoad(c, s)
    BY <2>3 DEF Unborn, SignalLoad, From, PublishOnly, Signals
  <2>4. CASE DeleteRun(c)
    BY <2>4, Zenon DEF DeleteRun
  <2>5. CASE DispatchRun(c) \/ DispatchFails(c) \/ ClientDies(c)
    <3>1. /\ UNCHANGED <<row, queue, reaper, job, trk>>
          /\ \/ client' = [client EXCEPT ![c] = Idle]
             \/ client' = [client EXCEPT ![c] = IF @.pc = "dispatch" THEN [@ EXCEPT !.pc = "undo"] ELSE Idle]
      BY <2>5, Zenon DEF DispatchRun, DispatchFails, ClientDies, ClientStep, trackerVars, jobVars, busVars
    <3>2. client \in [Clients -> Calls] /\ client[c] \in Calls /\ Idle.pc = "idle"
      BY Zenon DEF TypeInv, TypeOK, ClientType, Idle
    <3>3. [client[c] EXCEPT !.pc = "undo"].pc = "undo"
      BY <3>2, Zenon DEF Calls
    <3>4. /\ client'[c] = Idle \/ client'[c] = [client[c] EXCEPT !.pc = "undo"]
          /\ \A d \in Clients : d # c => client'[d] = client[d]
      BY <3>1, <3>2, Zenon
    <3>5. client'[c].pc \in {"idle", "undo"}
      BY <3>2, <3>3, <3>4, Zenon
    <3>6. ASSUME NEW d \in Clients PROVE client'[d].pc \notin {"transition", "publish"}
      <4>1. CASE d = c
        BY <3>5, <4>1, Zenon
      <4>2. CASE d # c
        BY <3>4, <4>2, Zenon DEF Unborn
      <4> QED
        BY <4>1, <4>2, Zenon
    <3> QED
      BY <1>1, <3>1, <3>6, Zenon DEF Unborn
  <2> QED
    BY <1>3, <2>1, <2>2, <2>3, <2>4, <2>5, Zenon DEF Request
<1>4. ASSUME NEW e \in Executions,
             Dispatch(e) \/ Collect(e) \/ Work(e) \/ Control(e) \/ Heartbeat(e) \/ Trouble(e)
      PROVE  Unborn' /\ trk'.pc # "save"
  <2>1. job[e] = "none" /\ ~ShouldRun
    BY Zenon DEF Unborn, ShouldRun
  <2>2. Dispatch(e)
    BY <1>4, <2>1, Zenon DEF Collect, Work, Control, Heartbeat, Trouble, WorkerLoad, Prepare, Admit, Plan, Seed, NoRequest, SeedFails,
        SetupStopped, Write, Seal, Commit, CommitPause, Stop, Complete, Acknowledge, Close,
        AdmitFails, SetupFails, ReadFails, CommitFails, Crash, Listening, Beating, Active
  <2>3. UNCHANGED <<row, queue, reaper, client, trk>> /\ job' = [job EXCEPT ![e] = IF ShouldRun /\ @ = "none" THEN "created" ELSE @]
    BY <2>2, Zenon DEF Dispatch, storeVars, trackerVars
  <2>4. \A d \in Executions : job'[d] = job[d]
    BY <2>1, <2>3, Zenon DEF TypeInv, TypeOK, JobType
  <2> QED
    BY <1>1, <2>3, <2>4, Zenon DEF Unborn
<1>5. CASE Track
  BY <1>1, <1>5, Zenon DEF Track, Flush, Mark, Load, Save, Delivered, Unborn
<1>6. CASE TrackerFails
  BY <1>1, <1>6, Zenon DEF TrackerFails, TrackerStep, jobVars, Unborn
<1>7. CASE Reap
  BY <1>7, Zenon DEF Reap, ReaperList, ReaperProbe, ReaperKill, Unborn
<1>8. CASE Produce
  BY <1>1, <1>8, Zenon DEF Produce, storeVars, busVars, trackerVars, jobVars, Unborn
<1> QED
  BY <1>2, <1>3, <1>4, <1>5, <1>6, <1>7, <1>8, Zenon DEF Next

\* A signal changes the status of a row and keeps its request.
LEMMA TransitionKeeps ==
    ASSUME TypeInv, NEW c \in Clients, SignalTransition(c)
    PROVE  row'.status # "absent" /\ row'.req = row.req
<1>1. row \in Rows /\ client[c].sig \in Signals
  BY Zenon DEF TypeInv, TypeOK, StoreType, ClientType, Calls
<1>2. To[client[c].sig] # "absent"
  BY <1>1 DEF To, Signals
<1>3. CASE client[c].sig = "resume"
  <2>1. row' = [row EXCEPT !.status = To[client[c].sig], !.started = FALSE, !.ended = FALSE, !.id = issued + 1]
    BY <1>3, Zenon DEF SignalTransition
  <2> QED
    BY <1>1, <1>2, <2>1, Zenon DEF Rows
<1>4. CASE client[c].sig # "resume"
  <2>1. row' = [row EXCEPT !.status = To[client[c].sig], !.ended = @ \/ client[c].sig = "cancel"]
    BY <1>4, Zenon DEF SignalTransition
  <2> QED
    BY <1>1, <1>2, <2>1, Zenon DEF Rows
<1> QED
  BY <1>3, <1>4, Zenon

\* An inserted row stays, with its request.
LEMMA RowStays ==
    ASSUME TypeInv, row.status # "absent", row.req, [Next]_vars, ~undone',
           trk.pc = "save" => trk.copy.status # "absent" /\ trk.copy.req
    PROVE  /\ row'.status # "absent" /\ row'.req
           /\ trk'.pc = "save" => trk'.copy.status # "absent" /\ trk'.copy.req
<1>1. row \in Rows /\ trk \in [pc : {"idle", "apply", "save"}, copy : Rows] /\ NoFold.pc = "idle"
  BY Zenon DEF TypeInv, TypeOK, StoreType, TrackerType, NoFold
<1>2. ASSUME UNCHANGED <<row, trk>> PROVE row'.status # "absent" /\ row'.req /\ (trk'.pc = "save" => trk'.copy.status # "absent" /\ trk'.copy.req)
  BY <1>2, Zenon
<1>3. ASSUME NEW c \in Clients, Request(c)
      PROVE row'.status # "absent" /\ row'.req /\ (trk'.pc = "save" => trk'.copy.status # "absent" /\ trk'.copy.req)
  <2>1. CASE SignalTransition(c)
    <3>1. UNCHANGED trk
      BY <2>1, Zenon DEF SignalTransition, ClientStep, trackerVars
    <3> QED
      BY <2>1, <3>1, TransitionKeeps, Zenon
  <2>2. CASE CreateRun(c)
    <3>1. UNCHANGED trk /\ NoRow \in Rows
      BY <2>2, Literals, Zenon DEF CreateRun, ClientStep, trackerVars
    <3>2. row'.status = "requested" /\ row'.req
      BY <2>2, <3>1, Zenon DEF CreateRun, Rows
    <3> QED
      BY <3>1, <3>2, Zenon
  <2>3. CASE Schedule(c) \/ DeleteRun(c)
    BY <2>3, Zenon DEF Schedule, DeleteRun
  <2>4. CASE ~(SignalTransition(c) \/ CreateRun(c) \/ Schedule(c) \/ DeleteRun(c))
    BY <1>2, <1>3, <2>4, Zenon DEF Request, SubmitAgain, DispatchRun, DispatchFails, ClientDies,
        SignalLoad, SignalConflict, SignalWorker, SignalPublish, ClientStep, storeVars, trackerVars
  <2> QED
    BY <2>1, <2>2, <2>3, <2>4, Zenon
<1>4. ASSUME NEW e \in Executions,
             Dispatch(e) \/ Collect(e) \/ Work(e) \/ Control(e) \/ Heartbeat(e) \/ Trouble(e)
      PROVE UNCHANGED <<row, trk>>
  BY <1>4, WorkerPublishes, Zenon
<1>5. CASE Reap \/ Produce \/ UNCHANGED vars
  BY <1>2, <1>5, OthersPublish, Zenon
<1>6. CASE Flush \/ Mark \/ TrackerFails
  <2>1. UNCHANGED row /\ (trk' = trk \/ trk' = NoFold \/ trk' = [trk EXCEPT !.pc = "apply"])
    BY <1>6, Zenon DEF Flush, Mark, TrackerFails
  <2> QED
    BY <1>1, <2>1, Zenon
<1>7. CASE Load
  BY <1>7, Zenon DEF Load
<1>8. CASE Save
  <2>1. trk.pc = "save" /\ trk' = NoFold /\ row' = Saved(Folded(trk.copy, Oldest)) /\ queue # <<>> /\ trk.copy \in Rows
    BY <1>1, <1>8, Zenon DEF Save, TypeInv, FoldInv
  <2> DEFINE r == Folded(trk.copy, Oldest)
             st == IF Oldest.name \in DOMAIN StatusOf THEN StatusOf[Oldest.name] ELSE trk.copy.status
  <2>2. r = [trk.copy EXCEPT !.status = st, !.started = @ \/ Oldest.name = "started",
                             !.ended = @ \/ Oldest.name \in TerminalFacts]
    BY Zenon DEF Folded
  <2>3. st # "absent"
    <3>1. \A n \in DOMAIN StatusOf : StatusOf[n] # "absent"
      BY DEF StatusOf
    <3> QED
      BY <2>1, <3>1, Zenon
  <2> HIDE DEF st
  <2>4. r.status = st /\ r.req = trk.copy.req /\ DOMAIN r = {"status", "started", "ended", "id", "req"}
    BY <2>1, <2>2, Zenon DEF Rows
  <2> HIDE DEF r
  <2>5. Saved(r).status = r.status /\ Saved(r).req = r.req
    BY <2>4, Zenon DEF Saved
  <2> QED
    BY <1>1, <2>1, <2>3, <2>4, <2>5, Zenon DEF r
<1> QED
  BY <1>2, <1>3, <1>4, <1>5, <1>6, <1>7, <1>8, Zenon DEF Next, Track

\* Nobody changes the plan of the run, and a deletion is not forgotten.
LEMMA UndoneStays ==
    ASSUME [Next]_vars
    PROVE  undone' \in {undone, TRUE} /\ UNCHANGED plan
<1>1. ASSUME NEW c \in Clients, Request(c) PROVE undone' \in {undone, TRUE} /\ UNCHANGED plan
  <2>1. \/ ClientStep
        \/ undone' = TRUE /\ UNCHANGED outsideVars
        \/ UNCHANGED <<storeVars, outsideVars>>
    BY <1>1, Zenon DEF Request, Schedule, CreateRun, SubmitAgain, DispatchRun, DispatchFails, DeleteRun, ClientDies,
        SignalLoad, SignalTransition, SignalConflict, SignalWorker, SignalPublish
  <2> QED
    BY <2>1, Zenon DEF ClientStep, storeVars, outsideVars
<1>2. ASSUME NEW e \in Executions,
             Dispatch(e) \/ Collect(e) \/ Work(e) \/ Control(e) \/ Heartbeat(e) \/ Trouble(e)
      PROVE  undone' \in {undone, TRUE} /\ UNCHANGED plan
  <2>1. UNCHANGED storeVars \/ UNCHANGED undone
    BY <1>2, Zenon DEF Dispatch, Collect, Work, Control, Heartbeat, Trouble, WorkerLoad, Prepare, Admit, Plan, Seed,
        NoRequest, SeedFails, SetupStopped, Write, Seal, Commit, CommitPause, Stop, Complete, Acknowledge, Close,
        AdmitFails, SetupFails, ReadFails, CommitFails, Crash
  <2>2. UNCHANGED outsideVars \/ UNCHANGED plan
    BY <1>2, Zenon DEF Dispatch, Collect, Work, Control, Heartbeat, Trouble, WorkerLoad, Prepare, Admit, Plan, Seed,
        NoRequest, SeedFails, SetupStopped, Write, Seal, Commit, CommitPause, CommitSink, Stop, Complete, Acknowledge, Close,
        AdmitFails, SetupFails, ReadFails, CommitFails, Crash
  <2> QED
    BY <2>1, <2>2, Zenon DEF storeVars, outsideVars
<1>3. CASE Track \/ TrackerFails
  <2>1. TrackerStep
    BY <1>3, Zenon DEF Track, Flush, Mark, Load, Save, TrackerFails
  <2> QED
    BY <2>1, Zenon DEF TrackerStep, outsideVars
<1>4. CASE Reap \/ Produce \/ UNCHANGED vars
  BY <1>4, Zenon DEF vars, storeVars, outsideVars, Reap, ReaperList, ReaperProbe, ReaperKill, ReaperStep, Produce
<1> QED
  BY <1>1, <1>2, <1>3, <1>4, Zenon DEF Next

\* Unless a row was deleted, the inserted row and every copy hold the request.
LEMMA ReqStep ==
    ASSUME TypeInv, ReqInv, [Next]_vars
    PROVE  ReqInv'
<1>1. SUFFICES ASSUME ~undone'
               PROVE  /\ Unborn' \/ (row'.status # "absent" /\ row'.req)
                      /\ trk'.pc = "save" => trk'.copy.status # "absent" /\ trk'.copy.req
  BY Zenon DEF ReqInv
<1>2. ~undone
  BY <1>1, UndoneStays, Zenon
<1>3. CASE Unborn
  BY <1>1, <1>3, UnbornStep, Zenon
<1>4. CASE row.status # "absent" /\ row.req
  BY <1>1, <1>2, <1>4, RowStays, Zenon DEF ReqInv
<1> QED
  BY <1>2, <1>3, <1>4, Zenon DEF ReqInv

\* The source is acknowledged up to the stored checkpoint only.
LEMMA AckStep ==
    ASSUME TypeInv, ReqInv, AckInv, [Next]_vars
    PROVE  AckInv'
<1>1. SUFFICES ASSUME Mode' = "cdc", ~undone'
               PROVE  acked' <= cp' /\ (acc' # NoCursor => cp' <= acc')
  BY Zenon DEF AckInv
<1>2. ~undone
  BY <1>1, UndoneStays, Zenon
<1>3. Mode = "cdc"
  BY <1>1, UndoneStays, Zenon DEF Mode
<1>4. acked <= cp /\ (acc # NoCursor => cp <= acc) /\ cp \in Int /\ acked \in Int /\ (acc # NoCursor => acc \in Int)
  <2>1. cp \in Positions /\ acked \in Positions /\ (acc # NoCursor => acc \in Positions)
    BY Zenon DEF TypeInv, TypeOK, StoreType, OutsideType, TrackerType
  <2> QED
    BY <1>2, <1>3, <2>1, Literals, Zenon DEF AckInv
<1>5. ASSUME UNCHANGED <<cp, acc>>, acked' \in {acked, cp} PROVE acked' <= cp' /\ (acc' # NoCursor => cp' <= acc')
  BY <1>4, <1>5
<1>6. ASSUME NEW c \in Clients, Request(c) PROVE UNCHANGED <<cp, acc, acked>>
  BY <1>1, <1>6, Zenon DEF Request, Schedule, CreateRun, SubmitAgain, DispatchRun, DispatchFails, DeleteRun, ClientDies,
        SignalLoad, SignalTransition, SignalConflict, SignalWorker, SignalPublish, ClientStep, storeVars, trackerVars, outsideVars
<1>7. ASSUME NEW e \in Executions,
             Dispatch(e) \/ Collect(e) \/ Work(e) \/ Control(e) \/ Heartbeat(e) \/ Trouble(e)
      PROVE  UNCHANGED <<cp, acc>> /\ acked' \in {acked, cp}
  <2>1. UNCHANGED acc
    BY <1>7, WorkerPublishes, Zenon
  <2>2. CASE Seed(e)
    BY <1>3, <2>1, <2>2, Zenon DEF Seed
  <2>3. CASE Acknowledge(e)
    <3>1. UNCHANGED cp
      BY <2>3, Zenon DEF Acknowledge, storeVars
    <3> QED
      BY <2>1, <2>3, <3>1, Zenon DEF Acknowledge
  <2>4. CASE Work(e) /\ ~Seed(e) /\ ~Acknowledge(e)
    <3>1. UNCHANGED <<cp, acked>>
      BY <2>4, Zenon DEF Work, storeVars, outsideVars, WorkerLoad, Prepare, Admit, Plan, NoRequest, SeedFails, SetupStopped, Write,
          Seal, Commit, CommitPause, CommitSink, Stop, Complete, Close
    <3> QED
      BY <2>1, <3>1, Zenon
  <2>5. CASE ~Work(e)
    <3>1. UNCHANGED <<cp, acked>>
      BY <1>7, <2>5, Zenon DEF storeVars, outsideVars, Dispatch, Collect, Control, Heartbeat, Trouble, AdmitFails,
          SetupFails, ReadFails, CommitFails, Crash
    <3> QED
      BY <2>1, <3>1, Zenon
  <2> QED
    BY <2>2, <2>3, <2>4, <2>5, Zenon
<1>8. CASE Mark \/ Load \/ Reap \/ Produce \/ UNCHANGED vars
  <2>1. UNCHANGED <<cp, acc, acked>>
    BY <1>8, Zenon DEF Mark, Load, TrackerStep, Reap, ReaperList, ReaperProbe, ReaperKill, ReaperStep, Produce, vars, storeVars,
        trackerVars, outsideVars
  <2> QED
    BY <1>5, <2>1, Zenon
<1>9. CASE Flush
  <2>1. UNCHANGED <<acc, acked>>
    BY <1>9, Zenon DEF Flush, TrackerStep, outsideVars
  <2>2. cp' = cp \/ (cp' = acc /\ acc # NoCursor)
    BY <1>9, Zenon DEF Flush
  <2> QED
    BY <1>4, <2>1, <2>2
<1>10. CASE TrackerFails
  <2>1. UNCHANGED <<cp, acked>> /\ acc' \in {acc, NoCursor}
    BY <1>10, Zenon DEF TrackerFails, TrackerStep, outsideVars
  <2> QED
    BY <1>4, <2>1, Zenon
<1>11. CASE Save
  <2>1. UNCHANGED <<cp, acked>> /\ trk.pc = "save"
    BY <1>11, Zenon DEF Save, TrackerStep, outsideVars
  <2>2. trk.copy.req /\ Oldest.pos \in Int
    <3>1. queue # <<>> /\ Oldest \in Facts
      BY <2>1, OldestType, Zenon DEF TypeInv, FoldInv
    <3>2. Oldest.pos \in Positions
      BY <3>1, Zenon DEF Facts
    <3> QED
      BY <1>2, <2>1, <3>2, Literals, Zenon DEF ReqInv
  <2>3. cp <= Advanced(Oldest.pos)
    BY <1>3, <1>4, <2>2 DEF Advanced
  <2>4. acc' \in {NoCursor, acc, Advanced(Oldest.pos)}
    BY <1>11, Zenon DEF Save
  <2> QED
    BY <1>4, <2>1, <2>3, <2>4, Zenon
<1> QED
  BY <1>5, <1>6, <1>7, <1>8, <1>9, <1>10, <1>11, Zenon DEF Next, Track

-----------------------------------------------------------------------------
\* The states of an execution that knows where it reads; what the sink holds.
Located == InRun \ {"admitted"}
Covered(p) == 1..p \subseteq sink

\* A cursor the tracker holds (at 0) or that a fact of the queue brings.
Cursor(i, p) == IF i = 0 THEN acc = p ELSE queue[i].name = "batch" /\ queue[i].pos = p

\* A cursor no terminal fact follows; a cursor whose next terminal fact promotes it.
Pending(p) == \E i \in 0..Len(queue) : Cursor(i, p) /\ Quiet(i, Len(queue) + 1)
Promised(p) ==
  \E i \in 0..Len(queue), j \in 1..Len(queue) :
    i < j /\ Cursor(i, p) /\ Quiet(i, j) /\ queue[j].name \in Promoting

\* While executions do not mix, the one under way is the open one; what it has
\* read is durable up to where its sink says so; pending cursors are its own.
OpenInv == \A e \in Executions : job[e] \in InRun => open = {e}
ReadInv ==
  \A e \in Executions :
    /\ job[e] \in Located => Covered(start[e])
    /\ job[e] \in Located /\ ~AfterCommit => Covered(pos[e])
    /\ job[e] \in {"pausing", "committed"} => Covered(pos[e])
CursorInv ==
  \A p \in Positions :
    /\ Promised(p) => Covered(p)
    /\ Pending(p) => open # {}
    /\ Pending(p) => \A e \in Executions : job[e] \in InRun => Covered(p) \/ (job[e] \in Located /\ p <= pos[e])
CoverInv == ~mixed => OpenInv /\ ReadInv /\ CursorInv /\ Covered(cp)

-----------------------------------------------------------------------------
(* Cursors on their way to the checkpoint *)

\* A fact that is appended may bring a cursor, promise the pending ones, or end them.
LEMMA AppendCursors ==
    ASSUME TypeInv, NEW f \in Facts, queue' = Append(queue, f), UNCHANGED acc, NEW p \in Positions
    PROVE  /\ Pending(p)' => f.name \notin TerminalFacts /\ (Pending(p) \/ (f.name = "batch" /\ f.pos = p))
           /\ Promised(p)' => Promised(p) \/ (f.name \in Promoting /\ Pending(p))
<1>1. /\ Len(queue) \in Nat /\ Len(queue') = Len(queue) + 1 /\ queue'[Len(queue) + 1] = f
      /\ \A i \in 1..Len(queue) : queue'[i] = queue[i]
  BY Appended, Zenon
<1>2. \A i \in 0..Len(queue) : Cursor(i, p)' => Cursor(i, p)
  BY <1>1 DEF Cursor
<1>3. \A i \in 0..Len(queue') : i \in 0..Len(queue) \/ (i = Len(queue) + 1 /\ i # 0)
  BY <1>1
<1>4. ASSUME Pending(p)' PROVE f.name \notin TerminalFacts /\ (Pending(p) \/ (f.name = "batch" /\ f.pos = p))
  <2>1. PICK i \in 0..Len(queue') : Cursor(i, p)' /\ Quiet(i, Len(queue) + 1)'
    BY <1>4, Zenon DEF Pending
  <2>2. CASE i \in 0..Len(queue)
    <3>1. Cursor(i, p) /\ Quiet(i, Len(queue) + 1) /\ f.name \notin TerminalFacts
      BY <1>2, <2>1, <2>2, Appended, Zenon
    <3> QED
      BY <2>2, <3>1, Zenon DEF Pending
  <2>3. CASE i = Len(queue) + 1 /\ i # 0
    BY <1>1, <2>1, <2>3, Zenon DEF Cursor, TerminalFacts
  <2> QED
    BY <1>3, <2>2, <2>3, Zenon
<1>5. ASSUME Promised(p)' PROVE Promised(p) \/ (f.name \in Promoting /\ Pending(p))
  <2>1. PICK i \in 0..Len(queue'), j \in 1..Len(queue') :
          i < j /\ Cursor(i, p)' /\ Quiet(i, j)' /\ queue'[j].name \in Promoting
    BY <1>5, Zenon DEF Promised
  <2>2. i \in 0..Len(queue) /\ j \in 1..(Len(queue) + 1)
    BY <1>1, <2>1
  <2>3. Cursor(i, p) /\ Quiet(i, j)
    BY <1>2, <2>1, <2>2, Appended, Zenon
  <2>4. CASE j \in 1..Len(queue)
    BY <1>1, <2>1, <2>2, <2>3, <2>4, Zenon DEF Promised
  <2>5. CASE j = Len(queue) + 1
    BY <1>1, <2>1, <2>2, <2>3, <2>5, Zenon DEF Pending
  <2> QED
    BY <1>1, <2>2, <2>4, <2>5
<1> QED
  BY <1>4, <1>5, Zenon

\* What a fold may leave in the accumulator.
Accumulates ==
  acc' \in Positions =>
    /\ Oldest.name \notin TerminalFacts
    /\ acc' = acc \/ (Oldest.name = "batch" /\ acc' \in {cp, Oldest.pos})

\* A cursor after the fold of the oldest fact was one before, or is the checkpoint.
LEMMA ShiftedCursor ==
    ASSUME TypeInv, queue # <<>>, queue' = Tail(queue), Accumulates, NEW p \in Positions,
           NEW i \in 0..Len(queue'), NEW j \in 1..(Len(queue') + 1), Cursor(i, p)', Quiet(i, j)', i < j
    PROVE  \E q \in Positions, h \in 0..Len(queue) :
             Cursor(h, q) /\ h < j + 1 /\ Quiet(h, j + 1) /\ (p = q \/ p = cp)
<1>1. /\ Len(queue) \in Nat \ {0} /\ Len(queue') = Len(queue) - 1
      /\ \A k \in 1..Len(queue') : queue'[k] = queue[k + 1] /\ k + 1 \in 1..Len(queue)
      /\ Quiet(i + 1, j + 1)
  BY Dropped, Zenon
<1>2. CASE i # 0
  <2>1. i + 1 \in 0..Len(queue) /\ Cursor(i + 1, p) /\ i + 1 < j + 1
    BY <1>1, <1>2 DEF Cursor
  <2> QED
    BY <1>1, <2>1, Zenon
<1>3. CASE i = 0
  <2>1. acc' = p /\ Quiet(1, j + 1) /\ Oldest.name \notin TerminalFacts
        /\ (acc' = acc \/ (Oldest.name = "batch" /\ acc' \in {cp, Oldest.pos}))
    BY <1>1, <1>3 DEF Cursor, Accumulates
  <2>2. /\ j + 1 \in 1..(Len(queue) + 1) /\ 0 \in 0..Len(queue) /\ 1 \in 0..Len(queue) /\ 0 < j + 1 /\ 1 < j + 1
        /\ Oldest = queue[1] /\ Oldest.pos \in Positions
    BY <1>1, OldestType DEF Facts, TypeInv
  <2>3. CASE acc' = acc
    <3>1. Quiet(0, j + 1)
      BY <2>1, <2>2, QuietFromHead, Zenon
    <3>2. Cursor(0, p)
      BY <2>1, <2>3, Zenon DEF Cursor
    <3> QED
      BY <2>2, <3>1, <3>2, Zenon
  <2>4. CASE Oldest.name = "batch" /\ acc' \in {cp, Oldest.pos}
    <3>1. Cursor(1, Oldest.pos) /\ (p = Oldest.pos \/ p = cp)
      BY <2>1, <2>2, <2>4 DEF Cursor
    <3> QED
      BY <2>1, <2>2, <3>1, Zenon
  <2> QED
    BY <2>1, <2>3, <2>4, Zenon
<1> QED
  BY <1>2, <1>3, Zenon

\* The same when the acknowledgement of the fact is lost and it stays.
LEMMA KeptCursor ==
    ASSUME TypeInv, queue # <<>>, queue' = queue, Accumulates, NEW p \in Positions,
           NEW i \in 0..Len(queue), NEW j \in 1..(Len(queue) + 1), Cursor(i, p)', Quiet(i, j)', i < j,
           Oldest.name \in TerminalFacts \/ j # 1
    PROVE  \E q \in Positions, h \in 0..Len(queue) :
             Cursor(h, q) /\ h < j /\ Quiet(h, j) /\ (p = q \/ p = cp)
<1>1. Len(queue) \in Nat \ {0} /\ Quiet(i, j) /\ Oldest = queue[1] /\ Oldest.pos \in Positions
  BY OldestType, Zenon DEF Facts, TypeInv, Quiet, Done
<1>2. CASE i # 0
  <2>1. Cursor(i, p)
    BY <1>2, Zenon DEF Cursor
  <2> QED
    BY <1>1, <2>1, Zenon
<1>3. CASE i = 0
  <2>1. acc' = p /\ Oldest.name \notin TerminalFacts
        /\ (acc' = acc \/ (Oldest.name = "batch" /\ acc' \in {cp, Oldest.pos}))
    BY <1>3, Zenon DEF Cursor, Accumulates
  <2>2. 0 \in 0..Len(queue) /\ 1 \in 0..Len(queue) /\ 0 < j /\ 1 < j /\ Quiet(1, j)
    BY <1>1, <1>3, <2>1 DEF Quiet
  <2>3. CASE acc' = acc
    <3>1. Cursor(0, p) /\ Quiet(0, j)
      BY <1>1, <1>3, <2>1, <2>3, Zenon DEF Cursor
    <3> QED
      BY <2>2, <3>1, Zenon
  <2>4. CASE Oldest.name = "batch" /\ acc' \in {cp, Oldest.pos}
    <3>1. Cursor(1, Oldest.pos) /\ (p = Oldest.pos \/ p = cp)
      BY <1>1, <2>1, <2>4 DEF Cursor
    <3> QED
      BY <1>1, <2>2, <3>1, Zenon
  <2> QED
    BY <2>1, <2>3, <2>4, Zenon
<1> QED
  BY <1>2, <1>3, Zenon

\* Folding makes no new cursor pending or promised, except at the checkpoint.
LEMMA FoldCursors ==
    ASSUME TypeInv, queue # <<>>, queue' = Tail(queue) \/ queue' = queue, Accumulates, NEW p \in Positions
    PROVE  /\ Pending(p)' => \E q \in Positions : Pending(q) /\ (p = q \/ p = cp)
           /\ Promised(p)' => Promised(p) \/ p = cp
<1>1. Len(queue) \in Nat \ {0} /\ Oldest = queue[1]
  BY OldestType, Zenon DEF TypeInv
<1>2. ASSUME Pending(p)' PROVE \E q \in Positions : Pending(q) /\ (p = q \/ p = cp)
  <2>1. PICK i \in 0..Len(queue') : Cursor(i, p)' /\ Quiet(i, Len(queue) + 1)'
    BY <1>2, Zenon DEF Pending
  <2>2. PICK n \in Nat : n = Len(queue')
    BY <1>1, Dropped
  <2>3. n + 1 \in 1..(Len(queue') + 1) /\ i < n + 1 /\ Quiet(i, n + 1)'
    BY <2>1, <2>2 DEF Quiet
  <2>4. CASE queue' = Tail(queue)
    <3>1. PICK q \in Positions, h \in 0..Len(queue) :
            Cursor(h, q) /\ Quiet(h, (n + 1) + 1) /\ (p = q \/ p = cp)
      BY <2>1, <2>3, <2>4, ShiftedCursor, Zenon
    <3>2. (n + 1) + 1 = Len(queue) + 1
      BY <1>1, <2>2, <2>4, Dropped
    <3> QED
      BY <3>1, <3>2, Zenon DEF Pending
  <2>5. CASE queue' = queue
    <3>1. n + 1 # 1 /\ n + 1 = Len(queue) + 1 /\ n + 1 \in 1..(Len(queue) + 1) /\ i \in 0..Len(queue)
      BY <1>1, <2>1, <2>2, <2>5
    <3>2. PICK q \in Positions, h \in 0..Len(queue) :
            Cursor(h, q) /\ Quiet(h, n + 1) /\ (p = q \/ p = cp)
      BY <2>1, <2>3, <2>5, <3>1, KeptCursor, Zenon
    <3> QED
      BY <3>1, <3>2, Zenon DEF Pending
  <2> QED
    BY <2>4, <2>5, Zenon
<1>3. ASSUME Promised(p)' PROVE Promised(p) \/ p = cp
  <2>1. PICK i \in 0..Len(queue'), j \in 1..Len(queue') :
          i < j /\ Cursor(i, p)' /\ Quiet(i, j)' /\ queue'[j].name \in Promoting
    BY <1>3, Zenon DEF Promised
  <2>2. CASE queue' = Tail(queue)
    <3>1. j \in 1..(Len(queue') + 1) /\ j + 1 \in 1..Len(queue) /\ queue'[j] = queue[j + 1]
      BY <1>1, <2>1, <2>2, Dropped
    <3>2. PICK q \in Positions, h \in 0..Len(queue) :
            Cursor(h, q) /\ h < j + 1 /\ Quiet(h, j + 1) /\ (p = q \/ p = cp)
      BY <2>1, <2>2, <3>1, ShiftedCursor, Zenon
    <3> QED
      BY <2>1, <3>1, <3>2, Zenon DEF Promised
  <2>3. CASE queue' = queue
    <3>1. j \in 1..(Len(queue) + 1) /\ j \in 1..Len(queue) /\ i \in 0..Len(queue)
      BY <1>1, <2>1, <2>3
    <3>2. Oldest.name \in TerminalFacts \/ j # 1
      BY <1>1, <2>1, <2>3, Zenon DEF Promoting, TerminalFacts
    <3>3. PICK q \in Positions, h \in 0..Len(queue) :
            Cursor(h, q) /\ h < j /\ Quiet(h, j) /\ (p = q \/ p = cp)
      BY <2>1, <2>3, <3>1, <3>2, KeptCursor, Zenon
    <3> QED
      BY <2>1, <2>3, <3>1, <3>3, Zenon DEF Promised
  <2> QED
    BY <2>2, <2>3, Zenon
<1> QED
  BY <1>2, <1>3, Zenon

\* A cursor survives only if it was there: the queue is left alone and the
\* accumulator kept or lost.
LEMMA SameCursors ==
    ASSUME queue' = queue, acc' \in {acc, NoCursor}, NEW p \in Positions
    PROVE  (Pending(p)' => Pending(p)) /\ (Promised(p)' => Promised(p))
<1>1. \A i : Cursor(i, p)' => Cursor(i, p)
  BY Literals, Zenon DEF Cursor
<1>2. \A i, j : Quiet(i, j)' => Quiet(i, j)
  BY Zenon DEF Quiet, Done
<1>3. \A i : Quiet(i, Len(queue) + 1)' => Quiet(i, Len(queue) + 1)
  BY Zenon DEF Quiet, Done
<1> QED
  BY <1>1, <1>2, <1>3, Zenon DEF Pending, Promised

\* The position a batch leaves in the accumulator.
LEMMA AdvancedIs ==
    ASSUME TypeInv, NEW p \in Positions
    PROVE  Advanced(p) \in {NoCursor, p, acc, cp}
<1>1. plan \in Plans /\ Mode \in {"full", "incremental", "cdc"}
  BY PlansAssumption, Zenon DEF TypeInv, TypeOK, OutsideType, Mode
<1> QED
  BY <1>1, Zenon DEF Advanced

-----------------------------------------------------------------------------
(* The checkpoint is covered *)

\* What is durable stays durable, and what lies below it is durable.
LEMMA CoveredMonotone ==
    ASSUME sink \subseteq sink', NEW p \in Positions, NEW q \in Positions
    PROVE  (Covered(p) => Covered(p)') /\ (Covered(p) /\ q <= p => Covered(q))
  BY DEF Covered, Positions

\* A promise is kept: a promoting fact comes from a worker that has committed
\* what it read, and the pending cursors are its own.
LEMMA PromiseKept ==
    ASSUME TypeInv, ReadInv, CursorInv, NEW e \in Executions, job[e] \in {"pausing", "committed"},
           NEW p \in Positions, Pending(p)
    PROVE  Covered(p)
<1>1. pos[e] \in Positions
  BY Zenon DEF TypeInv, TypeOK, JobType
<1>2. Covered(pos[e]) /\ (Covered(p) \/ p <= pos[e])
  BY Zenon DEF ReadInv, CursorInv, InRun
<1> QED
  BY <1>1, <1>2 DEF Covered, Positions

\* Steps that leave the executing workers alone and publish nothing or no cursor.
LEMMA SettledCover ==
    ASSUME TypeInv, CoverInv, UNCHANGED <<sink, plan, mixed, acc>>, cp' \in {cp, 0},
           \A d \in Executions :
             job'[d] \in InRun => /\ job'[d] = job[d] /\ start'[d] = start[d] /\ pos'[d] = pos[d]
                                  /\ open = {d} => open' = {d},
           \/ queue' = queue /\ open' = open
           \/ \E f \in Facts :
                /\ queue' = Append(queue, f) /\ f.name # "batch"
                /\ f.name \notin TerminalFacts => open' = open
                /\ f.name \in Promoting => \E e \in Executions : job[e] \in {"pausing", "committed"}
    PROVE  CoverInv'
<1>1. SUFFICES ASSUME ~mixed PROVE OpenInv' /\ ReadInv' /\ CursorInv' /\ Covered(cp)'
  BY Zenon DEF CoverInv
<1>2. OpenInv /\ ReadInv /\ CursorInv /\ Covered(cp)
  BY <1>1, Zenon DEF CoverInv
<1>3. OpenInv'
  BY <1>2, Zenon DEF OpenInv
<1>4. (AfterCommit' <=> AfterCommit) /\ \A p : Covered(p)' <=> Covered(p)
  BY Zenon DEF AfterCommit, Covered
<1>5. Located \subseteq InRun /\ {"pausing", "committed"} \subseteq InRun
  BY Zenon DEF Located, InRun
<1>6. Covered(cp)'
  <2>1. 1..0 \subseteq sink
    OBVIOUS
  <2> QED
    BY <1>2, <2>1, Zenon DEF Covered
<1>7. ReadInv'
  <2>1. SUFFICES ASSUME NEW d \in Executions, job'[d] \in InRun
                 PROVE  /\ job'[d] \in Located => Covered(start[d])'
                        /\ job'[d] \in Located /\ ~AfterCommit' => Covered(pos[d])'
                        /\ job'[d] \in {"pausing", "committed"} => Covered(pos[d])'
    BY <1>5, Zenon DEF ReadInv
  <2>2. job'[d] = job[d] /\ (Covered(start[d])' <=> Covered(start[d])) /\ (Covered(pos[d])' <=> Covered(pos[d]))
    BY <2>1, Zenon DEF Covered
  <2> QED
    BY <1>2, <1>4, <2>2, Zenon DEF ReadInv
<1>8. ASSUME NEW p \in Positions
      PROVE  (Pending(p)' => Pending(p) /\ open' = open) /\ (Promised(p)' => Covered(p))
  <2>1. CASE queue' = queue /\ open' = open
    BY <1>2, <2>1, SameCursors, Zenon DEF CursorInv
  <2>2. ASSUME NEW f \in Facts, queue' = Append(queue, f), f.name # "batch",
               f.name \notin TerminalFacts => open' = open,
               f.name \in Promoting => \E e \in Executions : job[e] \in {"pausing", "committed"}
        PROVE  (Pending(p)' => Pending(p) /\ open' = open) /\ (Promised(p)' => Covered(p))
    <3>1. Promised(p) => Covered(p)
      BY <1>2, Zenon DEF CursorInv
    <3>2. f.name \in Promoting /\ Pending(p) => Covered(p)
      BY <1>2, <2>2, PromiseKept, Zenon
    <3> QED
      BY <2>2, <3>1, <3>2, AppendCursors, Zenon
  <2> QED
    BY <2>1, <2>2, Zenon
<1>9. CursorInv'
  <2>1. SUFFICES ASSUME NEW p \in Positions
                 PROVE  /\ Promised(p)' => Covered(p)'
                        /\ Pending(p)' => open' # {}
                        /\ Pending(p)' => \A e \in Executions : job'[e] \in InRun =>
                                           Covered(p)' \/ (job'[e] \in Located /\ p <= pos'[e])
    BY Zenon DEF CursorInv
  <2>2. Promised(p)' => Covered(p)'
    BY <1>4, <1>8, Zenon
  <2>3. ASSUME Pending(p)' PROVE open' # {}
    BY <1>2, <1>8, <2>3, Zenon DEF CursorInv
  <2>4. ASSUME Pending(p)', NEW e \in Executions, job'[e] \in InRun
        PROVE  Covered(p)' \/ (job'[e] \in Located /\ p <= pos'[e])
    <3>1. Pending(p) /\ job'[e] = job[e] /\ pos'[e] = pos[e]
      BY <1>8, <2>4, Zenon
    <3>2. Covered(p) \/ (job[e] \in Located /\ p <= pos[e])
      BY <1>2, <2>4, <3>1, Zenon DEF CursorInv
    <3> QED
      BY <1>4, <3>1, <3>2, Zenon
  <2> QED
    BY <2>2, <2>3, <2>4, Zenon
<1> QED
  BY <1>3, <1>6, <1>7, <1>9, Zenon

\* An execution is opened: unless executions mix, no other is under way and no
\* cursor is pending.
LEMMA OpenedCover ==
    ASSUME TypeInv, CoverInv, NEW e \in Executions, Opened(e), UNCHANGED <<cp, sink, acc>>,
           \A d \in Executions : job'[d] \in InRun /\ d # e => job[d] \in InRun,
           job'[e] \notin Located
    PROVE  CoverInv'
<1>1. SUFFICES ASSUME ~mixed' PROVE OpenInv' /\ ReadInv' /\ CursorInv' /\ Covered(cp)'
  BY Zenon DEF CoverInv
<1>2. ~mixed /\ open = {} /\ open' = {e}
  BY <1>1, Zenon DEF Opened
<1>3. OpenInv /\ CursorInv /\ Covered(cp)
  BY <1>2, Zenon DEF CoverInv
<1>4. \A d \in Executions : job'[d] \in InRun => d = e
  BY <1>2, <1>3, Zenon DEF OpenInv
<1>5. Located \subseteq InRun /\ {"pausing", "committed"} \subseteq Located
  BY Zenon DEF Located, InRun
<1>6. OpenInv' /\ ReadInv'
  BY <1>2, <1>4, <1>5, Zenon DEF OpenInv, ReadInv
<1>7. Covered(cp)' /\ \A p : Covered(p)' <=> Covered(p)
  BY <1>3, Zenon DEF Covered
<1>8. ASSUME NEW p \in Positions PROVE ~Pending(p)' /\ (Promised(p)' => Covered(p)')
  <2>1. Fact("started") \in Facts /\ Fact("started").name = "started" /\ queue' = Append(queue, Fact("started"))
    BY FactTypes, Zenon DEF Opened, Publish
  <2>2. Fact("started").name # "batch" /\ Fact("started").name \notin Promoting
    BY <2>1, Zenon DEF Promoting
  <2>3. ~Pending(p) /\ (Promised(p) => Covered(p))
    BY <1>2, <1>3, Zenon DEF CursorInv
  <2> QED
    BY <1>7, <2>1, <2>2, <2>3, AppendCursors, Zenon
<1>9. CursorInv'
  BY <1>8, Zenon DEF CursorInv
<1> QED
  BY <1>6, <1>7, <1>9, Zenon

\* A worker moves on within its execution.
LEMMA ProgressCover ==
    ASSUME TypeInv, CoverInv, NEW e \in Executions, UNCHANGED <<queue, acc, open, mixed, plan>>, sink \subseteq sink',
           \A d \in Executions \ {e} : job'[d] = job[d] /\ start'[d] = start[d] /\ pos'[d] = pos[d],
           job[e] \in InRun, job'[e] \in Located, job[e] \in Located => pos'[e] = pos[e],
           ~mixed => /\ Covered(cp)' /\ Covered(start[e])' /\ (~AfterCommit => Covered(pos[e])')
                     /\ job'[e] \in {"pausing", "committed"} => Covered(pos[e])'
    PROVE  CoverInv'
<1>1. SUFFICES ASSUME ~mixed PROVE OpenInv' /\ ReadInv' /\ CursorInv' /\ Covered(cp)'
  BY Zenon DEF CoverInv
<1>2. OpenInv /\ ReadInv /\ CursorInv /\ open = {e}
  BY <1>1, Zenon DEF CoverInv, OpenInv
<1>3. Located \subseteq InRun /\ {"pausing", "committed"} \subseteq Located
  BY Zenon DEF Located, InRun
<1>4. \A d \in Executions : job'[d] \in InRun => d = e
  BY <1>2, Zenon DEF OpenInv
<1>5. OpenInv'
  BY <1>2, <1>4, Zenon DEF OpenInv
<1>6. AfterCommit' <=> AfterCommit
  BY Zenon DEF AfterCommit
<1>7. ReadInv'
  BY <1>1, <1>3, <1>4, <1>6, Zenon DEF ReadInv
<1>8. ASSUME NEW p \in Positions
      PROVE  /\ Promised(p)' => Covered(p)'
             /\ Pending(p)' => open' # {}
             /\ Pending(p)' => Covered(p)' \/ (job'[e] \in Located /\ p <= pos'[e])
  <2>1. (Pending(p)' => Pending(p)) /\ (Promised(p)' => Promised(p))
    BY SameCursors, Zenon
  <2>2. Covered(p) => Covered(p)'
    BY CoveredMonotone, Zenon
  <2>3. Pending(p) => Covered(p) \/ (job[e] \in Located /\ p <= pos[e])
    BY <1>2, Zenon DEF CursorInv
  <2> QED
    BY <1>2, <2>1, <2>2, <2>3, Zenon DEF CursorInv
<1>9. CursorInv'
  BY <1>4, <1>8, Zenon DEF CursorInv
<1> QED
  BY <1>1, <1>5, <1>7, <1>9, Zenon

\* The tracker works: workers and sink are left alone.
LEMMA FoldedCover ==
    ASSUME TypeInv, CoverInv, UNCHANGED <<job, start, pos, sink, open, mixed, plan>>,
           ~mixed => Covered(cp)',
           \A p \in Positions :
             /\ Pending(p)' => \E q \in Positions : Pending(q) /\ (p = q \/ p = cp)
             /\ Promised(p)' => Promised(p) \/ p = cp
    PROVE  CoverInv'
<1>1. SUFFICES ASSUME ~mixed PROVE OpenInv' /\ ReadInv' /\ CursorInv' /\ Covered(cp)'
  BY Zenon DEF CoverInv
<1>2. OpenInv /\ ReadInv /\ CursorInv /\ Covered(cp)
  BY <1>1, Zenon DEF CoverInv
<1>3. OpenInv' /\ ReadInv'
  BY <1>2, Zenon DEF OpenInv, ReadInv, Covered, AfterCommit
<1>4. \A p : Covered(p)' <=> Covered(p)
  BY Zenon DEF Covered
<1>5. ASSUME NEW p \in Positions
      PROVE  /\ Promised(p)' => Covered(p)'
             /\ Pending(p)' => open' # {}
             /\ Pending(p)' => \A e \in Executions : job'[e] \in InRun =>
                                 Covered(p)' \/ (job'[e] \in Located /\ p <= pos'[e])
  <2>1. Promised(p)' => Covered(p)'
    BY <1>2, <1>4, Zenon DEF CursorInv
  <2>2. ASSUME NEW q \in Positions, Pending(q), p = q \/ p = cp
        PROVE  /\ open' # {}
               /\ \A e \in Executions : job'[e] \in InRun => Covered(p)' \/ (job'[e] \in Located /\ p <= pos'[e])
    BY <1>2, <1>4, <2>2, Zenon DEF CursorInv
  <2> QED
    BY <2>1, <2>2, Zenon
<1>6. CursorInv'
  BY <1>5, Zenon DEF CursorInv
<1> QED
  BY <1>1, <1>3, <1>6, Zenon

\* Writing a row keeps the cursors covered.
LEMMA WriteCover ==
    ASSUME TypeInv, CoverInv, NEW e \in Executions, Write(e)
    PROVE  CoverInv'
<1>1. /\ UNCHANGED <<cp, acc, job, start, plan, open, mixed>> /\ job[e] = "reading"
      /\ sink' = IF AfterCommit THEN sink ELSE sink \cup {pos[e] + 1}
      /\ queue' = queue \/ queue' = Append(queue, [name |-> "batch", pos |-> pos[e] + 1])
  BY Zenon DEF Write, storeVars, trackerVars, historyVars, busVars, Publish
<1>2. /\ pos[e] \in Positions /\ pos[e] + 1 \in Positions /\ pos'[e] = pos[e] + 1
      /\ sink \subseteq sink' /\ "reading" \in Located /\ Located \subseteq InRun
      /\ {"pausing", "committed"} \subseteq Located
  BY <1>1, RunBoundsAssumption DEF Write, TypeInv, TypeOK, JobType, OutsideType, Positions, Located, InRun
<1>3. SUFFICES ASSUME ~mixed PROVE OpenInv' /\ ReadInv' /\ CursorInv' /\ Covered(cp)'
  BY <1>1, Zenon DEF CoverInv
<1>4. OpenInv /\ ReadInv /\ CursorInv /\ Covered(cp) /\ open = {e}
  BY <1>1, <1>2, <1>3, Zenon DEF CoverInv, OpenInv
<1>5. OpenInv' /\ \A d \in Executions : job'[d] \in InRun => d = e
  BY <1>1, <1>4, Zenon DEF OpenInv
<1>6. Covered(cp)' /\ Covered(start[e])'
  BY <1>1, <1>2, <1>4, Zenon DEF Covered, ReadInv
<1>7. ~AfterCommit' => Covered(pos[e])'
  <2>1. ASSUME ~AfterCommit PROVE 1..(pos[e] + 1) \subseteq sink \cup {pos[e] + 1}
    <3>1. 1..pos[e] \subseteq sink
      BY <1>1, <1>2, <1>4, <2>1, Zenon DEF ReadInv, Covered
    <3> QED
      BY <1>2, <3>1 DEF Positions
  <2> QED
    BY <1>1, <1>2, <2>1, Zenon DEF AfterCommit, Covered
<1>8. ReadInv'
  BY <1>1, <1>2, <1>5, <1>6, <1>7, Zenon DEF ReadInv
<1>9. ASSUME NEW p \in Positions
      PROVE  /\ Promised(p)' => Covered(p)'
             /\ Pending(p)' => open' # {}
             /\ Pending(p)' => Covered(p)' \/ (job'[e] \in Located /\ p <= pos'[e])
  <2> DEFINE f == [name |-> "batch", pos |-> pos[e] + 1]
  <2>1. f \in Facts /\ f.name = "batch" /\ f.pos = pos[e] + 1 /\ f.name \notin Promoting
    BY <1>2, FactTypes, Zenon DEF Promoting
  <2>2. queue' = queue \/ queue' = Append(queue, f)
    BY <1>1, Zenon
  <2> HIDE DEF f
  <2>3. (Pending(p)' => Pending(p) \/ p = pos[e] + 1) /\ (Promised(p)' => Promised(p))
    BY <1>1, <2>1, <2>2, SameCursors, AppendCursors, Zenon
  <2>4. Covered(p) => Covered(p)'
    BY <1>2, CoveredMonotone, Zenon
  <2>5. Pending(p) => Covered(p) \/ p <= pos[e]
    BY <1>1, <1>2, <1>4, Zenon DEF CursorInv
  <2>6. Pending(p)' => Covered(p)' \/ p <= pos'[e]
    BY <1>2, <2>3, <2>4, <2>5 DEF Positions
  <2> QED
    BY <1>1, <1>2, <1>4, <2>3, <2>4, <2>6, Zenon DEF CursorInv
<1>10. CursorInv'
  BY <1>5, <1>9, Zenon DEF CursorInv
<1> QED
  BY <1>5, <1>6, <1>8, <1>10, Zenon

\* A commit covers the position of its execution before the fact that promises it.
LEMMA AdvanceCover ==
    ASSUME TypeInv, CoverInv, NEW e \in Executions,
           Plan(e) \/ Seed(e) \/ Seal(e) \/ Commit(e) \/ CommitPause(e)
    PROVE  CoverInv'
<1>1. /\ job \in [Executions -> JobPCs] /\ start \in [Executions -> Positions] /\ pos \in [Executions -> Positions]
      /\ start[e] \in Positions /\ pos[e] \in Positions /\ cp \in Positions
  BY Zenon DEF TypeInv, TypeOK, JobType, StoreType
<1>2. /\ {"planned", "reading", "sealed", "stopping", "pausing", "committed"} \subseteq Located
      /\ Located \subseteq InRun /\ "admitted" \in InRun /\ "admitted" \notin Located
  BY Zenon DEF Located, InRun
<1>3. UNCHANGED <<queue, acc, open, mixed, plan>>
  BY Zenon DEF Plan, Seed, Seal, Commit, CommitPause, CommitSink, busVars, trackerVars, outsideVars, historyVars
<1>4. ~mixed => Covered(cp) /\ ReadInv
  BY Zenon DEF CoverInv
<1>5. CASE Plan(e)
  <2>1. /\ job[e] = "admitted" /\ UNCHANGED <<cp, sink>> /\ Goto(e, "planned")
        /\ start' = [start EXCEPT ![e] = IF Mode = "full" THEN 0 ELSE cp]
        /\ pos' = [pos EXCEPT ![e] = start'[e]]
    BY <1>5, Zenon DEF Plan, storeVars, outsideVars
  <2>2. job'[e] = "planned" /\ \A d \in Executions \ {e} : job'[d] = job[d]
    BY <2>1, Moved, JobLiterals, Zenon
  <2>3. /\ \A d \in Executions \ {e} : start'[d] = start[d] /\ pos'[d] = pos[d]
        /\ start'[e] \in {0, cp} /\ pos'[e] = start'[e]
    BY <1>1, <2>1, Zenon
  <2>4. Covered(0)
    BY DEF Covered
  <2>5. ~mixed => Covered(cp)' /\ Covered(start[e])' /\ Covered(pos[e])'
    BY <1>4, <2>1, <2>3, <2>4, Zenon DEF Covered
  <2> QED
    BY <1>2, <1>3, <2>1, <2>2, <2>3, <2>5, ProgressCover, Zenon
<1>6. CASE Seed(e) \/ Seal(e)
  <2>1. /\ job[e] \in {"planned", "reading"} /\ UNCHANGED <<start, pos, sink>> /\ cp' \in {start[e], cp}
        /\ Goto(e, "reading") \/ Goto(e, "stopping") \/ Goto(e, "sealed")
    BY <1>6, Zenon DEF Seed, Seal, storeVars, outsideVars
  <2>2. /\ job'[e] \in {"reading", "stopping", "sealed"} /\ \A d \in Executions \ {e} : job'[d] = job[d]
    BY <2>1, Moved, JobLiterals, Zenon
  <2>3. /\ job[e] \in Located /\ job'[e] \in Located /\ job'[e] \notin {"pausing", "committed"}
    BY <1>2, <2>1, <2>2, Zenon
  <2>4. ~mixed => Covered(start[e]) /\ (~AfterCommit => Covered(pos[e]))
    BY <1>4, <2>3, Zenon DEF ReadInv
  <2>5. ~mixed => Covered(cp)' /\ Covered(start[e])' /\ (~AfterCommit => Covered(pos[e])')
    BY <1>4, <2>1, <2>4, Zenon DEF Covered
  <2> QED
    BY <1>2, <1>3, <2>1, <2>2, <2>3, <2>5, ProgressCover, Zenon
<1>7. CASE Commit(e) \/ CommitPause(e)
  <2>1. /\ job[e] \in {"sealed", "stopping"} /\ UNCHANGED <<start, pos, cp>>
        /\ sink' = IF AfterCommit THEN sink \cup (start[e] + 1)..pos[e] ELSE sink
        /\ Goto(e, "committed") \/ Goto(e, "pausing")
    BY <1>7, Zenon DEF Commit, CommitPause, CommitSink, storeVars
  <2>2. /\ job'[e] \in {"committed", "pausing"} /\ \A d \in Executions \ {e} : job'[d] = job[d]
    BY <2>1, Moved, JobLiterals, Zenon
  <2>3. job[e] \in Located /\ job'[e] \in Located /\ sink \subseteq sink'
    BY <1>2, <2>1, <2>2, Zenon
  <2>4. ~mixed => Covered(start[e]) /\ (~AfterCommit => Covered(pos[e]))
    BY <1>4, <2>3, Zenon DEF ReadInv
  <2>5. ~mixed => Covered(cp)' /\ Covered(start[e])'
    BY <1>4, <2>1, <2>3, <2>4, Zenon DEF Covered
  <2>6. ~mixed => Covered(pos[e])'
    <3>1. ASSUME ~mixed, AfterCommit PROVE 1..pos[e] \subseteq sink \cup (start[e] + 1)..pos[e]
      BY <1>1, <2>4, <3>1 DEF Covered, Positions
    <3> QED
      BY <2>1, <2>4, <3>1, Zenon DEF Covered
  <2> QED
    BY <1>2, <1>3, <2>1, <2>2, <2>3, <2>5, <2>6, ProgressCover, Zenon
<1> QED
  BY <1>5, <1>6, <1>7, Zenon

\* A fold promotes promised cursors only.
LEMMA TrackCover ==
    ASSUME TypeInv, CoverInv, Track \/ TrackerFails
    PROVE  CoverInv'
<1>1. UNCHANGED <<job, start, pos, sink, open, mixed, plan>>
  BY Zenon DEF Track, Flush, Mark, Load, Save, TrackerFails, TrackerStep, jobVars, outsideVars, historyVars
<1>2. ~mixed => Covered(cp) /\ CursorInv
  BY Zenon DEF CoverInv
<1>3. acc \in Positions \cup {NoCursor} /\ cp \in Positions
  BY Zenon DEF TypeInv, TypeOK, TrackerType, StoreType
<1>4. CASE Flush
  <2>1. /\ UNCHANGED <<queue, acc>> /\ queue # <<>>
        /\ cp' = IF Oldest.name \in Promoting /\ acc # NoCursor /\ row.req THEN acc ELSE cp
    BY <1>4, Zenon DEF Flush, Delivered
  <2>2. ASSUME ~mixed, Oldest.name \in Promoting, acc # NoCursor PROVE Covered(acc)
    <3>1. acc \in Positions
      BY <1>3, <2>2, Zenon
    <3>2. 0 \in 0..Len(queue) /\ 1 \in 1..Len(queue) /\ 0 < 1 /\ Quiet(0, 1) /\ queue[1].name \in Promoting
      BY <2>1, <2>2, OldestType DEF Quiet, TypeInv
    <3>3. Cursor(0, acc)
      BY Zenon DEF Cursor
    <3>4. Promised(acc)
      BY <3>2, <3>3, Zenon DEF Promised
    <3> QED
      BY <1>2, <2>2, <3>1, <3>4, Zenon DEF CursorInv
  <2>3. ~mixed => Covered(cp)'
    BY <1>1, <1>2, <2>1, <2>2, Zenon DEF Covered
  <2> QED
    BY <1>1, <2>1, <2>3, SameCursors, FoldedCover, Zenon
<1>5. CASE Load \/ TrackerFails \/ (Mark /\ queue' = queue)
  <2>1. queue' = queue /\ acc' \in {acc, NoCursor} /\ UNCHANGED cp
    BY <1>5, Zenon DEF Load, TrackerFails, Mark
  <2>2. ~mixed => Covered(cp)'
    BY <1>1, <1>2, <2>1, Zenon DEF Covered
  <2> QED
    BY <1>1, <2>1, <2>2, SameCursors, FoldedCover, Zenon
<1>6. CASE (Mark /\ queue' # queue) \/ Save
  <2>1. queue # <<>> /\ (queue' = Tail(queue) \/ queue' = queue) /\ UNCHANGED cp
    <3>1. Save => queue # <<>>
      BY Zenon DEF Save, TypeInv, FoldInv
    <3> QED
      BY <1>6, <3>1, Zenon DEF Mark, Save, Delivered
  <2>2. Accumulates
    <3>1. CASE Mark
      BY <3>1, Zenon DEF Mark, Accumulates
    <3>2. CASE Save
      <4>1. acc' = CASE Oldest.name \in TerminalFacts -> NoCursor
                     [] Oldest.name = "batch" -> Advanced(Oldest.pos)
                     [] OTHER -> acc
        BY <3>2, Zenon DEF Save
      <4>2. Oldest.pos \in Positions
        BY <2>1, FoldTypes, Zenon
      <4>3. Advanced(Oldest.pos) \in {NoCursor, Oldest.pos, acc, cp} /\ NoCursor \notin Positions
        BY <4>2, AdvancedIs, Literals, Zenon
      <4>4. /\ Oldest.name \in TerminalFacts => acc' = NoCursor
            /\ Oldest.name \notin TerminalFacts /\ Oldest.name = "batch" => acc' = Advanced(Oldest.pos)
            /\ Oldest.name \notin TerminalFacts /\ Oldest.name # "batch" => acc' = acc
        BY <4>1, Zenon DEF TerminalFacts
      <4> QED
        BY <4>3, <4>4, Zenon DEF Accumulates
    <3> QED
      BY <1>6, <3>1, <3>2, Zenon
  <2>3. ~mixed => Covered(cp)'
    BY <1>1, <1>2, <2>1, Zenon DEF Covered
  <2> QED
    BY <1>1, <2>1, <2>2, <2>3, FoldCursors, FoldedCover, Zenon
<1> QED
  BY <1>4, <1>5, <1>6, Zenon DEF Track

\* Everything else is settled: clients, reaper and source do not touch the
\* workers, and a worker that ends its execution leaves it.
LEMMA OutsideCover ==
    ASSUME TypeInv, CoverInv,
           (\E c \in Clients : Request(c)) \/ Reap \/ Produce \/ UNCHANGED vars
    PROVE  CoverInv'
<1>1. UNCHANGED <<sink, plan, mixed, acc, open, job, start, pos>> /\ cp' \in {cp, 0}
  BY Zenon DEF Request, Schedule, CreateRun, SubmitAgain, DispatchRun, DispatchFails, DeleteRun, ClientDies,
        SignalLoad, SignalTransition, SignalConflict, SignalWorker, SignalPublish, ClientStep, Reap, ReaperList, ReaperProbe,
        ReaperKill, ReaperStep, Produce, vars, storeVars, historyVars, trackerVars, jobVars, outsideVars
<1>2. \/ queue' = queue
      \/ \E f \in Facts : queue' = Append(queue, f) /\ f.name \in {"canceled", "paused", "failed"}
  <2>1. CASE queue' = queue
    BY <2>1, Zenon
  <2>2. CASE ReaperKill
    <3>1. Fact("failed") \in Facts /\ Fact("failed").name = "failed"
      BY FactTypes, Zenon DEF TerminalFacts
    <3> QED
      BY <2>2, <3>1, Zenon DEF ReaperKill, Publish
  <2>3. ASSUME NEW c \in Clients, SignalPublish(c), client[c].sig # "resume"
        PROVE  \E f \in Facts : queue' = Append(queue, f) /\ f.name \in {"canceled", "paused", "failed"}
    <3>1. client[c].sig \in Signals
      BY Zenon DEF TypeInv, TypeOK, ClientType, Calls
    <3>2. To[client[c].sig] \in {"canceled", "paused"} /\ {"canceled", "paused"} \subseteq TerminalFacts
      BY <2>3, <3>1 DEF To, Signals, TerminalFacts
    <3>3. queue' = Append(queue, Fact(To[client[c].sig]))
      BY <2>3, Zenon DEF SignalPublish, Publish
    <3> QED
      BY <3>2, <3>3, FactTypes, Zenon
  <2> QED
    BY <2>1, <2>2, <2>3, Zenon DEF Request, Schedule, CreateRun, SubmitAgain, DispatchRun, DispatchFails, DeleteRun,
        ClientDies, SignalLoad, SignalTransition, SignalConflict, SignalWorker, SignalPublish, Reap, ReaperList,
        ReaperProbe, Produce, vars, busVars
<1>3. \A n \in {"canceled", "paused", "failed"} : n # "batch" /\ n \notin Promoting /\ n \in TerminalFacts
  BY Zenon DEF Promoting, TerminalFacts
<1> QED
  BY <1>1, <1>2, <1>3, SettledCover, Zenon

\* The steps of a worker outside the read and the commit keep the cursors covered.
LEMMA LeaveCover ==
    ASSUME TypeInv, CoverInv, NEW e \in Executions,
           \/ Dispatch(e) \/ Collect(e) \/ WorkerLoad(e) \/ Prepare(e) \/ Close(e) \/ Control(e) \/ Heartbeat(e)
           \/ SetupFails(e) \/ ReadFails(e) \/ CommitFails(e) \/ Crash(e)
           \/ NoRequest(e) \/ SeedFails(e) \/ SetupStopped(e) \/ Stop(e) \/ Complete(e) \/ Acknowledge(e)
    PROVE  CoverInv'
<1>1. UNCHANGED <<cp, sink, plan, mixed, acc>>
  BY Zenon DEF Dispatch, Collect, WorkerLoad, Prepare, Close, Control, Heartbeat, SetupFails, ReadFails, CommitFails, Crash,
        NoRequest, SeedFails, SetupStopped, Stop, Complete, Acknowledge, Finish, FinishOrLose, storeVars, historyVars, trackerVars,
        outsideVars
<1>2. ASSUME NEW d \in Executions, job'[d] \in InRun
      PROVE  job'[d] = job[d] /\ start'[d] = start[d] /\ pos'[d] = pos[d]
  BY <1>2, Stays, Zenon DEF Trouble
<1>3. CASE Dispatch(e) \/ Collect(e) \/ WorkerLoad(e) \/ Prepare(e) \/ Close(e) \/ Control(e) \/ Crash(e) \/ Acknowledge(e)
  <2>1. queue' = queue /\ open' = open
    BY <1>3, Zenon DEF Dispatch, Collect, WorkerLoad, Prepare, Close, Control, Crash, Acknowledge, busVars, historyVars
  <2> QED
    BY <1>1, <1>2, <2>1, SettledCover, Zenon
<1>4. CASE Heartbeat(e)
  <2>1. Fact("beat") \in Facts /\ Fact("beat").name = "beat"
    BY FactTypes, Zenon
  <2>2. queue' = Append(queue, Fact("beat")) /\ open' = open
    BY <1>4, Zenon DEF Heartbeat, Publish, historyVars
  <2>3. Fact("beat").name # "batch" /\ Fact("beat").name \notin Promoting
    BY <2>1, Zenon DEF Promoting
  <2> QED
    BY <1>1, <1>2, <2>1, <2>2, <2>3, SettledCover, Zenon
<1>5. CASE SetupFails(e) \/ ReadFails(e) \/ CommitFails(e) \/ NoRequest(e) \/ SeedFails(e) \/ SetupStopped(e) \/ Stop(e) \/ Complete(e)
  <2>1. PICK n \in TerminalFacts : /\ Finish(e, n) \/ FinishOrLose(e, n)
                                   /\ n \in Promoting => job[e] \in {"pausing", "committed"}
    BY <1>5, Zenon DEF SetupFails, ReadFails, CommitFails, NoRequest, SeedFails, SetupStopped, Stop, Complete, TerminalFacts, Promoting
  <2>2. Fact(n) \in Facts /\ Fact(n).name = n /\ n # "batch"
    BY FactTypes, Zenon DEF TerminalFacts
  <2>3. job'[e] \notin InRun
    BY <1>5, Leaves, Zenon
  <2>4. CASE Finish(e, n)
    <3>1. queue' = Append(queue, Fact(n)) /\ open' = open \ {e}
      BY <2>4, Zenon DEF Finish, Publish
    <3>2. \A d \in Executions : job'[d] \in InRun => (open = {d} => open' = {d})
      BY <2>3, <3>1, Zenon
    <3> QED
      BY <1>1, <1>2, <2>1, <2>2, <3>1, <3>2, SettledCover, Zenon
  <2>5. CASE UNCHANGED <<busVars, open, mixed>>
    <3>1. queue' = queue /\ open' = open
      BY <2>5, Zenon DEF busVars
    <3> QED
      BY <1>1, <1>2, <3>1, SettledCover, Zenon
  <2> QED
    BY <2>1, <2>4, <2>5, Zenon DEF FinishOrLose
<1> QED
  BY <1>3, <1>4, <1>5, Zenon

\* Every step keeps the cursors covered.
LEMMA CoverStep ==
    ASSUME TypeInv, CoverInv, [Next]_vars
    PROVE  CoverInv'
<1>1. ASSUME NEW e \in Executions, Admit(e) PROVE CoverInv'
  <2>1. Goto(e, "admitted") /\ Opened(e) /\ UNCHANGED <<cp, sink, acc>>
    BY <1>1, Zenon DEF Admit, storeVars, outsideVars, trackerVars
  <2>2. job'[e] \notin Located /\ \A d \in Executions : job'[d] \in InRun /\ d # e => job[d] \in InRun
    BY <2>1, Moved, JobLiterals, Zenon DEF Located
  <2> QED
    BY <2>1, <2>2, OpenedCover, Zenon
<1>2. ASSUME NEW e \in Executions, AdmitFails(e) PROVE CoverInv'
  <2>1. /\ \E p \in {"created", "finished"} : Gone(e, p)
        /\ UNCHANGED <<cp, sink, acc, plan>> /\ (Opened(e) \/ UNCHANGED <<busVars, historyVars>>)
    BY <1>2, Zenon DEF AdmitFails, storeVars, outsideVars, trackerVars
  <2>2. job'[e] \in {"created", "finished"} /\ \A d \in Executions : d # e => job'[d] = job[d]
    BY <2>1, Moved, JobLiterals, Zenon
  <2>3. job'[e] \notin InRun /\ job'[e] \notin Located
    BY <2>2, Zenon DEF InRun, Located
  <2>4. CASE Opened(e)
    BY <2>1, <2>2, <2>3, <2>4, OpenedCover, Zenon
  <2>5. CASE UNCHANGED <<busVars, historyVars>>
    <3>1. queue' = queue /\ open' = open /\ mixed' = mixed
      BY <2>5, Zenon DEF busVars, historyVars
    <3>2. \A d \in Executions : job'[d] \in InRun => job'[d] = job[d] /\ start'[d] = start[d] /\ pos'[d] = pos[d]
      BY <1>2, Stays, Zenon DEF Trouble
    <3> QED
      BY <2>1, <3>1, <3>2, SettledCover, Zenon
  <2> QED
    BY <2>1, <2>4, <2>5, Zenon
<1>3. ASSUME NEW e \in Executions,
             Dispatch(e) \/ Collect(e) \/ Work(e) \/ Control(e) \/ Heartbeat(e) \/ Trouble(e)
      PROVE  CoverInv'
  BY <1>1, <1>2, <1>3, LeaveCover, AdvanceCover, WriteCover, Zenon DEF Work, Trouble
<1> QED
  BY <1>3, TrackCover, OutsideCover, Zenon DEF Next

-----------------------------------------------------------------------------
(* The theorems *)

RunInv == TypeInv /\ SealInv /\ CommitInv /\ OwnerInv /\ CoverInv /\ ReqInv /\ AckInv

\* A run that was not submitted yet satisfies the invariant.
LEMMA RunInit ==
    ASSUME Init
    PROVE  RunInv
<1>1. TypeInv
  BY TypeInit, Zenon
<1>2. SealInv /\ \A e \in Executions : job[e] \notin InRun /\ job[e] \notin Located /\ job[e] \notin {"pausing", "committed"}
  BY Zenon DEF Init, SealInv, InRun, Located
<1>3. Len(queue) = 0 /\ row.status = "absent" /\ trk.pc = "idle" /\ trk.copy.status = "absent"
  BY Zenon DEF Init, NoRow, NoFold
<1>4. CommitInv
  BY <1>2, <1>3 DEF CommitInv
<1>5. OwnerInv
  BY <1>3 DEF OwnerInv
<1>6. \A p \in Positions : ~Pending(p) /\ ~Promised(p)
  <2>1. \A p \in Positions : acc # p
    BY Literals, Zenon DEF Init
  <2> QED
    BY <1>3, <2>1 DEF Pending, Promised, Cursor
<1>7. Covered(cp)
  BY DEF Init, Covered
<1>8. CoverInv
  BY <1>2, <1>6, <1>7, Zenon DEF CoverInv, OpenInv, ReadInv, CursorInv
<1>9. ReqInv
  BY Zenon DEF Init, ReqInv, Unborn, Idle, NoRow, NoFold
<1>10. AckInv
  BY DEF Init, AckInv
<1> QED
  BY <1>1, <1>2, <1>4, <1>5, <1>8, <1>9, <1>10, Zenon DEF RunInv

\* Every reachable state of a bounded run satisfies the invariant, whatever its clients
\* ask for and whatever crashes, is lost or is delivered twice.
THEOREM RunInvariant == Spec => []RunInv
<1>1. Init => RunInv
  BY RunInit, Zenon
<1>2. RunInv /\ [Next]_vars => RunInv'
  BY TypeStep, SealStep, CommitStep, OwnerStep, CoverStep, ReqStep, AckStep, Zenon DEF RunInv
<1> QED
  BY <1>1, <1>2, PTL DEF Spec

\* Whatever the number of executions, rows, facts and faults, the route checkpoint
\* never passes what the sink has made durable while executions do not mix
\* (persistCheckpoint promotes a cursor only on a fact that proves a commit).
THEOREM CheckpointNeverAhead == Spec => []CheckpointCovered
<1>1. RunInv => CheckpointCovered
  BY Zenon DEF RunInv, CoverInv, Covered, CheckpointCovered
<1> QED
  BY <1>1, RunInvariant, PTL

\* While no row of the run was deleted, the position acknowledged to the source of a
\* change stream never passes the promoted checkpoint.
THEOREM AcknowledgedIsPromoted == Spec => []AckedIsPromoted
<1>1. RunInv => AckedIsPromoted
  BY Zenon DEF RunInv, AckInv, AckedIsPromoted
<1> QED
  BY <1>1, RunInvariant, PTL

\* A running row with nothing left to fold always has an execution that has not
\* announced its end.
THEOREM RunningHasOwner == Spec => []RunningIsOwned
<1>1. RunInv => RunningIsOwned
  <2>1. ASSUME queue = <<>> PROVE Quiet(0, Len(queue) + 1)
    BY <2>1 DEF Quiet
  <2> QED
    BY <2>1, Zenon DEF RunInv, OwnerInv, RunningIsOwned
<1> QED
  BY <1>1, RunInvariant, PTL

\* A row says completed only when some execution of the run committed its sink.
THEOREM CompletedWasCommitted == Spec => []CompletedIsCommitted
<1>1. RunInv => CompletedIsCommitted
  BY Zenon DEF RunInv, CommitInv, CompletedIsCommitted
<1> QED
  BY <1>1, RunInvariant, PTL

\* A cancel that reached the control handle before it was sealed keeps that
\* execution from committing (runControl.seal).
THEOREM CanceledNeverCommits == Spec => CancelNeverCommits
<1>1. RunInv /\ [Next]_vars =>
        [\A e \in Executions : sig[e] = "cancel" => (e \in commits' => e \in commits)]_vars
  BY CommitsStep, Zenon DEF RunInv
<1> QED
  BY <1>1, RunInvariant, PTL DEF Spec, CancelNeverCommits
=============================================================================
