------------------------- MODULE BoundedTypeProofs --------------------------
(***************************************************************************)
(* Every step of a bounded run keeps TypeOK, the calls in progress well    *)
(* formed and the fact of a fold at the head of the queue.  Then what the  *)
(* steps do to its commands and facts: a sealed execution holds no command *)
(* and completed follows a commit.                                         *)
(***************************************************************************)
EXTENDS BoundedRun, TLAPS

\* A trigger has a time, and only a pause or a cancel is sent to a worker.
CallInv ==
  \A c \in Clients :
    /\ client[c].pc \in {"dispatch", "redispatch"} => client[c].id # 0
    /\ client[c].seen = "running" => client[c].sig # "resume"

\* The tracker works on the oldest fact until it has saved the row.
FoldInv == trk.pc # "idle" => queue # <<>>

TypeInv == TypeOK /\ CallInv /\ FoldInv

-----------------------------------------------------------------------------
(* Values *)

\* The values the actions store are values of their types.
LEMMA Literals ==
  /\ NoRow \in Rows /\ Idle \in Calls /\ 0 \in Positions
  /\ \A p \in Positions : p \in Int /\ p # NoCursor
<1>1. NoRow \in Rows
  BY RunBoundsAssumption DEF NoRow, Rows, Statuses
<1>2. Idle \in Calls
  BY RunBoundsAssumption DEF Idle, Calls, ClientPCs, Signals, Statuses
<1>3. 0 \in Positions /\ \A p \in Positions : p \in Int /\ p # NoCursor
  BY RunBoundsAssumption DEF Positions, NoCursor
<1> QED
  BY <1>1, <1>2, <1>3, Zenon

\* Publishing a fact: it becomes the last of the queue.
LEMMA PublishType ==
    ASSUME TypeOK, NEW f \in Facts, Publish(f)
    PROVE  /\ queue' \in Seq(Facts) /\ Len(queue') <= MaxQueue
           /\ queue' = Append(queue, f) /\ Len(queue') = Len(queue) + 1
           /\ queue' # <<>>
  BY RunBoundsAssumption DEF Publish, TypeOK, BusType

\* The oldest fact, and the queue without it.
LEMMA OldestType ==
    ASSUME TypeOK, queue # <<>>
    PROVE  /\ Oldest \in Facts /\ Oldest = queue[1] /\ Len(queue) \in Nat \ {0}
           /\ Tail(queue) \in Seq(Facts) /\ Len(Tail(queue)) = Len(queue) - 1
           /\ Len(Tail(queue)) <= MaxQueue
           /\ \A i \in 1..(Len(queue) - 1) : Tail(queue)[i] = queue[i + 1]
  BY RunBoundsAssumption DEF Oldest, TypeOK, BusType

\* The facts of a run.
LEMMA FactTypes ==
  /\ \A n \in {"started", "beat", "batch"} \cup TerminalFacts : Fact(n) \in Facts /\ Fact(n).name = n
  /\ \A p \in Positions : [name |-> "batch", pos |-> p] \in Facts
<1>1. 0 \in Positions
  BY RunBoundsAssumption DEF Positions
<1> QED
  BY <1>1, Zenon DEF Fact, Facts

\* The parts of a step that is left alone keep their types.
LEMMA FrameTypes ==
    ASSUME TypeInv
    PROVE  /\ UNCHANGED storeVars => StoreType'
           /\ UNCHANGED <<client, budget>> => ClientType'
           /\ UNCHANGED busVars => BusType'
           /\ UNCHANGED trackerVars => TrackerType'
           /\ UNCHANGED jobVars => JobType'
           /\ UNCHANGED <<reaper, outsideVars>> => OutsideType'
           /\ UNCHANGED historyVars => HistoryType'
           /\ UNCHANGED client => CallInv'
           /\ UNCHANGED <<trk, queue>> => FoldInv'
<1> USE DEF TypeInv, TypeOK
<1>1. UNCHANGED storeVars => StoreType'
  BY Zenon DEF storeVars, StoreType
<1>2. UNCHANGED <<client, budget>> => ClientType'
  BY Zenon DEF ClientType
<1>3. UNCHANGED busVars => BusType'
  BY Zenon DEF busVars, BusType
<1>4. UNCHANGED trackerVars => TrackerType'
  BY Zenon DEF trackerVars, TrackerType
<1>5. UNCHANGED jobVars => JobType'
  BY Zenon DEF jobVars, JobType
<1>6. UNCHANGED <<reaper, outsideVars>> => OutsideType'
  BY Zenon DEF outsideVars, OutsideType
<1>7. UNCHANGED historyVars => HistoryType'
  BY Zenon DEF historyVars, HistoryType
<1>8. /\ UNCHANGED client => CallInv'
      /\ UNCHANGED <<trk, queue>> => FoldInv'
  BY Zenon DEF CallInv, FoldInv
<1> QED
  BY <1>1, <1>2, <1>3, <1>4, <1>5, <1>6, <1>7, <1>8, Zenon

\* An event is spent while its budget lasts.
LEMMA SpendType ==
    ASSUME TypeOK, NEW e \in Events, Spend(e)
    PROVE  budget' \in [Events -> Nat]
  BY DEF Spend, TypeOK, ClientType

-----------------------------------------------------------------------------
(* Clients *)

\* A call moves on: its record is replaced.
LEMMA CallMoves ==
    ASSUME TypeInv, NEW c \in Clients, NEW k \in Calls, client' = [client EXCEPT ![c] = k],
           k.pc \in {"dispatch", "redispatch"} => k.id # 0,
           k.seen = "running" => k.sig # "resume"
    PROVE  client' \in [Clients -> Calls] /\ CallInv'
<1>1. client' \in [Clients -> Calls]
  BY Zenon DEF TypeInv, TypeOK, ClientType
<1>2. \A d \in Clients : client'[d] = IF d = c THEN k ELSE client[d]
  BY Zenon DEF TypeInv, TypeOK, ClientType
<1> QED
  BY <1>1, <1>2, Zenon DEF TypeInv, CallInv

\* A step of a client writes the row, the bus and the call.
LEMMA ClientFrame ==
    ASSUME TypeInv, row' \in Rows, issued' \in 0..MaxExecutions,
           \/ ClientStep
           \/ /\ undone' = TRUE /\ marked' = FALSE /\ cp' = 0
              /\ UNCHANGED <<trk, acc, jobVars, reaper, outsideVars, historyVars>>,
           client' \in [Clients -> Calls], CallInv', budget' \in [Events -> Nat],
           inbox' \subseteq Executions, queue' \in Seq(Facts), Len(queue') <= MaxQueue,
           queue' = queue \/ queue' # <<>>
    PROVE  TypeInv'
<1>1. /\ UNCHANGED <<jobVars, historyVars, trk, acc>> /\ UNCHANGED <<reaper, outsideVars>>
      /\ undone' \in BOOLEAN /\ marked' \in BOOLEAN /\ cp' \in Positions
  BY Literals, Zenon DEF ClientStep, trackerVars, TypeInv, TypeOK, StoreType, TrackerType
<1>2. StoreType' /\ ClientType' /\ BusType' /\ TrackerType'
  BY <1>1, Zenon DEF TypeInv, TypeOK, StoreType, ClientType, BusType, TrackerType
<1>3. FoldInv'
  BY <1>1, Zenon DEF TypeInv, FoldInv
<1> QED
  BY <1>1, <1>2, <1>3, FrameTypes, Zenon DEF TypeInv, TypeOK

\* Submit, Schedule and the repair of an undispatched row keep the types.
LEMMA IntakeType ==
    ASSUME TypeInv, NEW c \in Clients,
           Schedule(c) \/ CreateRun(c) \/ SubmitAgain(c) \/ DispatchRun(c) \/ DispatchFails(c)
             \/ DeleteRun(c) \/ ClientDies(c)
    PROVE  TypeInv'
<1> USE DEF storeVars, busVars, Fault
<1>1. /\ client[c] \in Calls /\ Idle \in Calls /\ NoRow \in Rows /\ {"submit", "fault"} \subseteq Events
      /\ row \in Rows /\ issued \in 0..MaxExecutions
      /\ client \in [Clients -> Calls] /\ CallInv /\ budget \in [Events -> Nat]
      /\ inbox \subseteq Executions /\ queue \in Seq(Facts) /\ Len(queue) <= MaxQueue
  BY Literals, Zenon DEF TypeInv, TypeOK, StoreType, ClientType, BusType, Events
<1>2. /\ Idle.pc = "idle" /\ Idle.seen = "absent"
      /\ client[c].pc \in {"dispatch", "redispatch"} => client[c].id \in Executions
  <2>1. client[c].pc \in {"dispatch", "redispatch"} => client[c].id # 0
    BY <1>1, Zenon DEF CallInv
  <2>2. client[c].id \in 0..MaxExecutions
    BY <1>1, Zenon DEF Calls
  <2> QED
    BY <2>1, <2>2, RunBoundsAssumption DEF Idle, Executions
<1>3. CASE Schedule(c)
  <2>1. [NoRow EXCEPT !.status = "scheduled", !.req = TRUE] \in Rows
    BY <1>1, Zenon DEF Rows, Statuses
  <2> QED
    BY <1>1, <1>3, <2>1, ClientFrame, FrameTypes, Zenon DEF Schedule
<1>4. CASE CreateRun(c)
  <2>1. issued' \in 0..MaxExecutions /\ issued + 1 \in 0..MaxExecutions /\ issued + 1 # 0
    BY <1>1, <1>4, RunBoundsAssumption DEF CreateRun
  <2>2. [NoRow EXCEPT !.status = "requested", !.id = issued', !.req = TRUE] \in Rows
    BY <1>1, <2>1, Zenon DEF Rows, Statuses
  <2> DEFINE k == [Idle EXCEPT !.pc = "dispatch", !.id = issued + 1]
  <2>3. k \in Calls /\ k.id # 0 /\ k.seen = "absent"
    BY <1>1, <2>1, Zenon DEF Calls, ClientPCs, Idle
  <2>4. client' = [client EXCEPT ![c] = k]
    BY <1>4, Zenon DEF CreateRun
  <2> HIDE DEF k
  <2>5. client' \in [Clients -> Calls] /\ CallInv'
    BY <2>3, <2>4, CallMoves, Zenon
  <2> QED
    BY <1>1, <1>4, <2>1, <2>2, <2>5, ClientFrame, Zenon DEF CreateRun
<1>5. CASE SubmitAgain(c)
  <2> DEFINE n == IF row.id = 0 THEN issued + 1 ELSE row.id
             k == [Idle EXCEPT !.pc = "redispatch", !.id = n]
  <2>1. /\ issued' \in 0..MaxExecutions /\ n \in 0..MaxExecutions /\ n # 0
    BY <1>1, <1>5, RunBoundsAssumption DEF SubmitAgain, Rows
  <2>2. client' = [client EXCEPT ![c] = k]
    BY <1>5, Zenon DEF SubmitAgain
  <2> HIDE DEF n
  <2>3. k \in Calls /\ k.id # 0 /\ k.seen = "absent"
    BY <1>1, <2>1, Zenon DEF Calls, ClientPCs, Idle
  <2> HIDE DEF k
  <2>4. client' \in [Clients -> Calls] /\ CallInv'
    BY <2>2, <2>3, CallMoves, Zenon
  <2>5. budget' \in [Events -> Nat]
    BY <1>1, <1>5, SpendType, Zenon DEF SubmitAgain, TypeInv
  <2> QED
    BY <1>1, <1>5, <2>1, <2>4, <2>5, ClientFrame, Zenon DEF SubmitAgain
<1>6. CASE DispatchRun(c)
  <2>1. client[c].id \in Executions
    BY <1>2, <1>6, Zenon DEF DispatchRun
  <2>2. client' \in [Clients -> Calls] /\ CallInv'
    BY <1>1, <1>2, <1>6, CallMoves, Zenon DEF DispatchRun
  <2>3. inbox' \subseteq Executions
    BY <1>1, <1>6, <2>1, Zenon DEF DispatchRun
  <2> QED
    BY <1>1, <1>6, <2>2, <2>3, ClientFrame, Zenon DEF DispatchRun
<1>7. CASE DispatchFails(c)
  <2>1. client[c].id \in Executions
    BY <1>2, <1>7, Zenon DEF DispatchFails
  <2>2. inbox' \subseteq Executions /\ budget' \in [Events -> Nat]
    BY <1>1, <1>7, <2>1, SpendType, Zenon DEF DispatchFails, TypeInv
  <2> DEFINE k == IF client[c].pc = "dispatch" THEN [client[c] EXCEPT !.pc = "undo"] ELSE Idle
  <2>3. client' = [client EXCEPT ![c] = k]
    BY <1>1, <1>7, Zenon DEF DispatchFails
  <2>4. k \in Calls /\ k.pc \notin {"dispatch", "redispatch"} /\ (k.seen = "running" => k.sig # "resume")
    BY <1>1, <1>2, Zenon DEF Calls, ClientPCs, CallInv
  <2> HIDE DEF k
  <2>5. client' \in [Clients -> Calls] /\ CallInv'
    BY <2>3, <2>4, CallMoves, Zenon
  <2> QED
    BY <1>1, <1>7, <2>2, <2>5, ClientFrame, Zenon DEF DispatchFails
<1>8. CASE DeleteRun(c) \/ ClientDies(c)
  <2>1. client' \in [Clients -> Calls] /\ CallInv'
    BY <1>1, <1>2, <1>8, CallMoves, Zenon DEF DeleteRun, ClientDies
  <2>2. budget' \in [Events -> Nat] /\ row' \in Rows
    BY <1>1, <1>8, SpendType, Zenon DEF DeleteRun, ClientDies, TypeInv
  <2> QED
    BY <1>1, <1>8, <2>1, <2>2, ClientFrame, Zenon DEF DeleteRun, ClientDies
<1> QED
  BY <1>3, <1>4, <1>5, <1>6, <1>7, <1>8, Zenon

\* Pause, resume and cancel keep the types, whatever the copy of the row they hold.
LEMMA SignalType ==
    ASSUME TypeInv, NEW c \in Clients,
           (\E s \in Signals : SignalLoad(c, s)) \/ SignalTransition(c) \/ SignalConflict(c)
             \/ SignalWorker(c) \/ SignalPublish(c)
    PROVE  TypeInv'
<1> USE DEF storeVars, busVars
<1>1. /\ client[c] \in Calls /\ Idle \in Calls /\ Signals \subseteq Events
      /\ row \in Rows /\ issued \in 0..MaxExecutions
      /\ client \in [Clients -> Calls] /\ CallInv /\ budget \in [Events -> Nat]
      /\ inbox \subseteq Executions /\ queue \in Seq(Facts) /\ Len(queue) <= MaxQueue
  BY Literals, Zenon DEF TypeInv, TypeOK, StoreType, ClientType, BusType, Events, Signals
<1>2. /\ Idle.pc = "idle" /\ Idle.seen = "absent"
      /\ client[c].sig \in Signals /\ row.status \in Statuses
      /\ client[c].seen = "running" => client[c].sig \in {"pause", "cancel"}
  <2>1. client[c].seen = "running" => client[c].sig # "resume"
    BY <1>1, Zenon DEF CallInv
  <2> QED
    BY <1>1, <2>1, Zenon DEF Idle, Calls, Rows, Signals
<1>3. ASSUME NEW s \in Signals, SignalLoad(c, s) PROVE TypeInv'
  <2> DEFINE k == [pc |-> IF row.status \in From[s] THEN "transition" ELSE "publish",
                   sig |-> s, seen |-> row.status, id |-> 0]
  <2>1. row.status \in From[s] \/ <<s, row.status>> \in PublishOnly
    BY <1>3, Zenon DEF SignalLoad
  <2>2. row.status = "running" => s # "resume"
    BY <2>1 DEF From, PublishOnly, Signals
  <2>3. k \in Calls
    BY <1>2, RunBoundsAssumption DEF Calls, ClientPCs
  <2>4. k.pc \notin {"dispatch", "redispatch"} /\ (k.seen = "running" => k.sig # "resume")
    BY <2>2, Zenon
  <2>5. client' = [client EXCEPT ![c] = k]
    BY <1>3, Zenon DEF SignalLoad
  <2> HIDE DEF k
  <2>6. client' \in [Clients -> Calls] /\ CallInv'
    BY <2>3, <2>4, <2>5, CallMoves, Zenon
  <2>7. budget' \in [Events -> Nat]
    BY <1>1, <1>3, SpendType, Zenon DEF SignalLoad, TypeInv
  <2> QED
    BY <1>1, <1>3, <2>6, <2>7, ClientFrame, Zenon DEF SignalLoad
<1>4. CASE SignalTransition(c)
  <2> DEFINE s == client[c].sig
             k == [client[c] EXCEPT !.pc = "publish"]
  <2>1. issued' \in 0..MaxExecutions
    BY <1>1, <1>4, RunBoundsAssumption DEF SignalTransition
  <2>2. To[s] \in Statuses
    BY <1>2 DEF To, Signals, Statuses
  <2>3. row' \in Rows
    <3>1. CASE s = "resume"
      <4>1. /\ row' = [row EXCEPT !.status = To[s], !.started = FALSE, !.ended = FALSE, !.id = issued + 1]
            /\ issued' = issued + 1
        BY <1>4, <3>1, Zenon DEF SignalTransition
      <4> QED
        BY <1>1, <2>1, <2>2, <4>1, Zenon DEF Rows
    <3>2. CASE s # "resume"
      <4>1. row' = [row EXCEPT !.status = To[s], !.ended = @ \/ s = "cancel"]
        BY <1>4, <3>2, Zenon DEF SignalTransition
      <4> QED
        BY <1>1, <2>2, <4>1, Zenon DEF Rows
    <3> QED
      BY <3>1, <3>2, Zenon
  <2>4. client' = [client EXCEPT ![c] = k]
    BY <1>1, <1>4, Zenon DEF SignalTransition
  <2>5. k \in Calls /\ k.pc = "publish" /\ (k.seen = "running" => k.sig # "resume")
    BY <1>1, <1>2, Zenon DEF Calls, ClientPCs
  <2> HIDE DEF k
  <2>6. client' \in [Clients -> Calls] /\ CallInv'
    BY <2>4, <2>5, CallMoves, Zenon
  <2> QED
    BY <1>1, <1>4, <2>1, <2>3, <2>6, ClientFrame, Zenon DEF SignalTransition
<1>5. ASSUME client' = [client EXCEPT ![c] = Idle] PROVE client' \in [Clients -> Calls] /\ CallInv'
  BY <1>1, <1>2, <1>5, CallMoves, Zenon
<1>6. CASE SignalConflict(c)
  BY <1>1, <1>5, <1>6, ClientFrame, Zenon DEF SignalConflict
<1>7. CASE SignalWorker(c)
  <2>1. /\ ctl' = [e \in Executions |-> IF job[e] \in Listening THEN ctl[e] \cup {client[c].sig} ELSE ctl[e]]
        /\ client[c].sig \in {"pause", "cancel"}
    BY <1>2, <1>7, Zenon DEF SignalWorker
  <2>2. ctl \in [Executions -> SUBSET {"pause", "cancel"}]
    BY Zenon DEF TypeInv, TypeOK, JobType
  <2>3. ctl' \in [Executions -> SUBSET {"pause", "cancel"}]
    BY <2>1, <2>2, Zenon
  <2>4. JobType'
    BY <1>7, <2>3, Zenon DEF SignalWorker, TypeInv, TypeOK, JobType
  <2>5. ClientType' /\ CallInv'
    BY <1>1, <1>5, <1>7, Zenon DEF SignalWorker, ClientType
  <2>6. /\ UNCHANGED <<trackerVars, historyVars, trk, queue>> /\ UNCHANGED storeVars /\ UNCHANGED busVars
        /\ UNCHANGED <<reaper, outsideVars>>
    BY <1>7, Zenon DEF SignalWorker, trackerVars
  <2> QED
    BY <2>4, <2>5, <2>6, FrameTypes, Zenon DEF TypeInv, TypeOK
<1>8. CASE SignalPublish(c)
  <2>1. client' \in [Clients -> Calls] /\ CallInv'
    BY <1>5, <1>8, Zenon DEF SignalPublish
  <2>2. CASE client[c].sig = "resume"
    <3>1. issued' \in 0..MaxExecutions /\ issued + 1 \in Executions
      BY <1>1, <1>8, <2>2, RunBoundsAssumption DEF SignalPublish, Executions
    <3>2. inbox' = inbox \cup {issued + 1} /\ UNCHANGED queue
      BY <1>8, <2>2, SMT DEF SignalPublish
    <3>3. inbox' \subseteq Executions
      BY <1>1, <3>1, <3>2, Zenon
    <3> QED
      BY <1>1, <1>8, <2>1, <3>1, <3>2, <3>3, ClientFrame, Zenon DEF SignalPublish
  <2>3. CASE client[c].sig # "resume"
    <3>1. Publish(Fact(To[client[c].sig])) /\ UNCHANGED <<issued, inbox>>
      BY <1>8, <2>3, Zenon DEF SignalPublish
    <3>2. To[client[c].sig] \in TerminalFacts
      BY <1>2, <2>3 DEF To, Signals, TerminalFacts
    <3>3. Fact(To[client[c].sig]) \in Facts
      BY <3>2, FactTypes, Zenon
    <3>4. queue' \in Seq(Facts) /\ Len(queue') <= MaxQueue /\ queue' # <<>>
      BY <3>1, <3>3, PublishType, Zenon DEF TypeInv
    <3> QED
      BY <1>1, <1>8, <2>1, <3>1, <3>4, ClientFrame, Zenon DEF SignalPublish
  <2> QED
    BY <2>2, <2>3, Zenon
<1> QED
  BY <1>3, <1>4, <1>6, <1>7, <1>8, Zenon

-----------------------------------------------------------------------------
(* Workers *)

\* A worker moves on, or is gone.
LEMMA JobMoves ==
    ASSUME TypeInv, NEW e \in Executions, NEW p \in JobPCs
    PROVE  /\ Goto(e, p) => job' \in [Executions -> JobPCs]
           /\ Gone(e, p) => JobType'
<1>1. Goto(e, p) => job' \in [Executions -> JobPCs]
  BY Zenon DEF Goto, TypeInv, TypeOK, JobType
<1>2. 0 \in Positions
  BY RunBoundsAssumption DEF Positions
<1>3. ASSUME Gone(e, p)
      PROVE  /\ spec' \in [Executions -> BOOLEAN] /\ sig' \in [Executions -> {"none", "pause", "cancel"}]
             /\ ctl' \in [Executions -> SUBSET {"pause", "cancel"}]
             /\ start' \in [Executions -> Positions] /\ pos' \in [Executions -> Positions]
  BY <1>2, <1>3, Zenon DEF Gone, TypeInv, TypeOK, JobType
<1> QED
  BY <1>1, <1>3, Zenon DEF Gone, JobType

\* The places of a worker are what Literals are for the other processes.
LEMMA JobLiterals ==
  {"none", "created", "loaded", "finished", "prepared", "admitted", "planned", "reading", "sealed",
   "stopping", "pausing", "committed", "acking", "closing"} \subseteq JobPCs
  BY Zenon DEF JobPCs, Active, Listening

\* A step of a worker leaves the row, the calls, the tracker and the reaper alone.
LEMMA WorkerFrame ==
    ASSUME TypeInv, UNCHANGED <<row, issued, undone, client, trackerVars, reaper, plan>>,
           JobType', BusType', queue' = queue \/ queue' # <<>>, HistoryType',
           cp' \in Positions, budget' \in [Events -> Nat],
           rows' \in Positions, sink' \subseteq 1..MaxRows, acked' \in Positions
    PROVE  TypeInv'
<1>1. StoreType' /\ ClientType' /\ CallInv' /\ TrackerType' /\ FoldInv'
  BY Zenon DEF TypeInv, TypeOK, StoreType, ClientType, TrackerType, CallInv, FoldInv, trackerVars
<1>2. OutsideType'
  BY Zenon DEF TypeInv, TypeOK, OutsideType
<1> QED
  BY <1>1, <1>2, Zenon DEF TypeInv, TypeOK

\* What an execution publishes.
LEMMA OpenedType ==
    ASSUME TypeInv, NEW e \in Executions, Opened(e)
    PROVE  BusType' /\ queue' # <<>> /\ HistoryType'
<1>1. Fact("started") \in Facts
  BY FactTypes, Zenon
<1>2. queue' \in Seq(Facts) /\ Len(queue') <= MaxQueue /\ queue' # <<>>
  BY <1>1, PublishType, Zenon DEF Opened, TypeInv
<1>3. HistoryType'
  BY Zenon DEF Opened, TypeInv, TypeOK, HistoryType
<1> QED
  BY <1>2, <1>3, Zenon DEF Opened, TypeInv, TypeOK, BusType

\* The fact that ends an execution.
LEMMA FinishType ==
    ASSUME TypeInv, NEW e \in Executions, NEW n \in TerminalFacts, Finish(e, n)
    PROVE  BusType' /\ queue' # <<>> /\ open' \subseteq Executions /\ mixed' \in BOOLEAN
<1>1. Fact(n) \in Facts
  BY FactTypes, Zenon
<1>2. queue' \in Seq(Facts) /\ Len(queue') <= MaxQueue /\ queue' # <<>>
  BY <1>1, PublishType, Zenon DEF Finish, TypeInv
<1>3. open' \subseteq Executions /\ mixed' \in BOOLEAN
  BY Zenon DEF Finish, TypeInv, TypeOK, HistoryType
<1> QED
  BY <1>2, <1>3, Zenon DEF Finish, TypeInv, TypeOK, BusType

\* The same, when its publication may fail.
LEMMA FinishOrLoseType ==
    ASSUME TypeInv, NEW e \in Executions, NEW n \in TerminalFacts, FinishOrLose(e, n)
    PROVE  /\ BusType' /\ (queue' = queue \/ queue' # <<>>) /\ open' \subseteq Executions /\ mixed' \in BOOLEAN
           /\ budget' \in [Events -> Nat]
<1>1. BusType /\ open \subseteq Executions /\ mixed \in BOOLEAN /\ budget \in [Events -> Nat] /\ "fault" \in Events
  BY Zenon DEF TypeInv, TypeOK, ClientType, HistoryType, Events
<1>2. CASE Finish(e, n) /\ UNCHANGED budget
  BY <1>1, <1>2, FinishType, Zenon
<1>3. CASE Fault /\ UNCHANGED <<busVars, open, mixed>>
  <2>1. budget' \in [Events -> Nat]
    BY <1>1, <1>3, SpendType, Zenon DEF Fault, TypeInv
  <2> QED
    BY <1>1, <1>3, <2>1, Zenon DEF BusType, busVars
<1> QED
  BY <1>2, <1>3, Zenon DEF FinishOrLose

\* Steps that only move a worker.
LEMMA MoveType ==
    ASSUME TypeInv, NEW e \in Executions,
           Collect(e) \/ WorkerLoad(e) \/ Prepare(e) \/ Control(e) \/ Plan(e) \/ Seal(e) \/ Close(e)
    PROVE  TypeInv'
<1>1. /\ job \in [Executions -> JobPCs] /\ spec \in [Executions -> BOOLEAN]
      /\ sig \in [Executions -> {"none", "pause", "cancel"}]
      /\ ctl \in [Executions -> SUBSET {"pause", "cancel"}]
      /\ start \in [Executions -> Positions] /\ pos \in [Executions -> Positions]
      /\ cp \in Positions /\ 0 \in Positions
  BY RunBoundsAssumption DEF TypeInv, TypeOK, JobType, StoreType, Positions
<1>2. UNCHANGED <<storeVars, client, busVars, trackerVars, reaper, outsideVars, budget, historyVars>>
  BY Zenon DEF Collect, WorkerLoad, Prepare, Control, Plan, Seal, Close
<1>3. SUFFICES JobType'
  <2>1. UNCHANGED <<client, budget>> /\ UNCHANGED <<reaper, outsideVars>> /\ UNCHANGED <<trk, queue>>
    BY <1>2, Zenon DEF busVars, trackerVars
  <2> QED
    BY <1>2, <1>3, <2>1, FrameTypes, Zenon DEF TypeInv, TypeOK
<1>4. CASE Collect(e) \/ Prepare(e) \/ Close(e)
  BY <1>1, <1>4, JobMoves, JobLiterals, Zenon DEF Collect, Prepare, Close, Goto, JobType
<1>5. CASE WorkerLoad(e)
  <2>1. spec' \in [Executions -> BOOLEAN]
    BY <1>1, <1>5, Zenon DEF WorkerLoad
  <2> QED
    BY <1>1, <1>5, <2>1, JobMoves, JobLiterals, Zenon DEF WorkerLoad, JobType
<1>6. CASE Control(e)
  <2>1. PICK s \in ctl[e] :
          /\ ctl' = [ctl EXCEPT ![e] = @ \ {s}]
          /\ sig' = [sig EXCEPT ![e] = IF s = "cancel" \/ @ = "none" THEN s ELSE @]
    BY <1>6, Zenon DEF Control
  <2>2. ctl' \in [Executions -> SUBSET {"pause", "cancel"}] /\ sig' \in [Executions -> {"none", "pause", "cancel"}]
    BY <1>1, <2>1, Zenon
  <2> QED
    BY <1>1, <1>6, <2>2, Zenon DEF Control, JobType
<1>7. CASE Plan(e)
  <2>1. job' \in [Executions -> JobPCs]
    BY <1>7, JobMoves, JobLiterals, Zenon DEF Plan
  <2>2. start' \in [Executions -> Positions]
    BY <1>1, <1>7, Zenon DEF Plan
  <2>3. pos' \in [Executions -> Positions]
    BY <1>1, <1>7, <2>2, Zenon DEF Plan
  <2> QED
    BY <1>1, <1>7, <2>1, <2>2, <2>3, Zenon DEF Plan, JobType
<1>8. CASE Seal(e)
  <2>1. job' \in [Executions -> JobPCs]
    BY <1>8, JobMoves, JobLiterals, Zenon DEF Seal
  <2>2. ctl' \in [Executions -> SUBSET {"pause", "cancel"}]
    BY <1>1, <1>8, Zenon DEF Seal
  <2> QED
    BY <1>1, <1>8, <2>1, <2>2, Zenon DEF Seal, JobType
<1> QED
  BY <1>4, <1>5, <1>6, <1>7, <1>8, Zenon

\* Steps that dispatch, open, end or abandon an execution.
LEMMA PassageType ==
    ASSUME TypeInv, NEW e \in Executions,
           Dispatch(e) \/ Admit(e) \/ AdmitFails(e) \/ SetupFails(e) \/ NoRequest(e) \/ SeedFails(e) \/ SetupStopped(e)
             \/ ReadFails(e) \/ CommitFails(e) \/ Stop(e) \/ Complete(e) \/ Heartbeat(e) \/ Crash(e)
    PROVE  TypeInv'
<1> USE DEF storeVars
<1>1. /\ cp \in Positions /\ rows \in Positions /\ sink \subseteq 1..MaxRows /\ acked \in Positions
      /\ open \subseteq Executions /\ mixed \in BOOLEAN /\ commits \subseteq Executions
      /\ BusType /\ JobType /\ HistoryType /\ budget \in [Events -> Nat] /\ {"fault", "beat"} \subseteq Events
      /\ inbox \subseteq Executions
  BY Zenon DEF TypeInv, TypeOK, StoreType, ClientType, BusType, OutsideType, HistoryType, Events
<1>2. /\ {"failed", "partial", "canceled", "paused", "pausedAtCommit", "completed"} \subseteq TerminalFacts
      /\ {"created", "finished", "closing"} \subseteq JobPCs
  BY JobLiterals, Zenon DEF TerminalFacts
<1>3. Fault => budget' \in [Events -> Nat]
  BY <1>1, SpendType, Zenon DEF Fault, TypeInv
<1>4. \A p \in {"created", "finished", "closing"} : Gone(e, p) => JobType'
  BY <1>2, JobMoves, Zenon
<1>5. CASE Dispatch(e)
  <2>1. job' \in [Executions -> JobPCs]
    BY <1>1, <1>2, <1>5, Zenon DEF Dispatch, JobType
  <2>2. inbox' \subseteq Executions /\ budget' \in [Events -> Nat]
    BY <1>1, <1>3, <1>5, Zenon DEF Dispatch
  <2>3. JobType' /\ BusType' /\ HistoryType'
    BY <1>1, <1>5, <2>1, <2>2, Zenon DEF Dispatch, JobType, BusType, HistoryType, historyVars
  <2> QED
    BY <1>1, <1>5, <2>2, <2>3, WorkerFrame, Zenon DEF Dispatch, outsideVars
<1>6. CASE Admit(e)
  <2>1. job' \in [Executions -> JobPCs]
    BY <1>6, JobMoves, JobLiterals, Zenon DEF Admit
  <2>2. JobType' /\ BusType' /\ HistoryType' /\ queue' # <<>>
    BY <1>1, <1>6, <2>1, OpenedType, Zenon DEF Admit, JobType
  <2> QED
    BY <1>1, <1>6, <2>2, WorkerFrame, Zenon DEF Admit, outsideVars
<1>7. CASE AdmitFails(e)
  <2>1. JobType' /\ budget' \in [Events -> Nat]
    BY <1>3, <1>4, <1>7, Zenon DEF AdmitFails
  <2>2. UNCHANGED <<busVars, historyVars>> => BusType' /\ HistoryType' /\ queue' = queue
    BY <1>1, Zenon DEF BusType, HistoryType, busVars, historyVars
  <2>3. BusType' /\ HistoryType' /\ (queue' = queue \/ queue' # <<>>)
    BY <1>7, <2>2, OpenedType, Zenon DEF AdmitFails
  <2> QED
    BY <1>1, <1>7, <2>1, <2>3, WorkerFrame, Zenon DEF AdmitFails, outsideVars
<1>8. CASE SetupFails(e) \/ ReadFails(e) \/ CommitFails(e)
  <2>1. PICK n \in TerminalFacts :
          /\ Fault /\ Finish(e, n) /\ Gone(e, "closing")
          /\ UNCHANGED <<storeVars, client, trackerVars, reaper, outsideVars, commits>>
    BY <1>2, <1>8, Zenon DEF SetupFails, ReadFails, CommitFails
  <2>2. BusType' /\ queue' # <<>> /\ HistoryType'
    BY <1>1, <2>1, FinishType, Zenon DEF HistoryType
  <2> QED
    BY <1>1, <1>3, <1>4, <2>1, <2>2, WorkerFrame, Zenon DEF outsideVars
<1>9. CASE NoRequest(e) \/ SeedFails(e) \/ SetupStopped(e) \/ Stop(e)
  <2>1. PICK n \in TerminalFacts :
          /\ FinishOrLose(e, n) /\ Gone(e, "closing")
          /\ UNCHANGED <<storeVars, client, trackerVars, reaper, outsideVars, commits>>
    BY <1>2, <1>9, Zenon DEF NoRequest, SeedFails, SetupStopped, Stop
  <2>2. BusType' /\ (queue' = queue \/ queue' # <<>>) /\ HistoryType' /\ budget' \in [Events -> Nat]
    BY <1>1, <2>1, FinishOrLoseType, Zenon DEF HistoryType
  <2> QED
    BY <1>1, <1>4, <2>1, <2>2, WorkerFrame, Zenon DEF outsideVars
<1>10. CASE Complete(e)
  <2>1. job' \in [Executions -> JobPCs]
    BY <1>10, JobMoves, JobLiterals, Zenon DEF Complete
  <2>2. BusType' /\ (queue' = queue \/ queue' # <<>>) /\ HistoryType' /\ budget' \in [Events -> Nat] /\ JobType'
    BY <1>1, <1>2, <1>10, <2>1, FinishOrLoseType, Zenon DEF HistoryType, Complete, JobType
  <2> QED
    BY <1>1, <1>10, <2>2, WorkerFrame, Zenon DEF Complete, outsideVars
<1>11. CASE Heartbeat(e)
  <2>1. Fact("beat") \in Facts
    BY FactTypes, Zenon
  <2>2. queue' \in Seq(Facts) /\ Len(queue') <= MaxQueue /\ queue' # <<>>
    BY <1>11, <2>1, PublishType, Zenon DEF Heartbeat, TypeInv
  <2>3. BusType' /\ budget' \in [Events -> Nat] /\ JobType' /\ HistoryType'
    BY <1>1, <1>11, <2>2, SpendType, FrameTypes, Zenon DEF Heartbeat, BusType, TypeInv
  <2> QED
    BY <1>1, <1>11, <2>2, <2>3, WorkerFrame, Zenon DEF Heartbeat, outsideVars
<1>12. CASE Crash(e)
  <2>1. JobType' /\ budget' \in [Events -> Nat] /\ BusType' /\ HistoryType' /\ queue' = queue
    BY <1>3, <1>4, <1>12, FrameTypes, Zenon DEF Crash, busVars
  <2> QED
    BY <1>1, <1>12, <2>1, WorkerFrame, Zenon DEF Crash, outsideVars
<1> QED
  BY <1>5, <1>6, <1>7, <1>8, <1>9, <1>10, <1>11, <1>12, Zenon

\* Steps that write the checkpoint, the sink or the acknowledgement of the source.
LEMMA DataType ==
    ASSUME TypeInv, NEW e \in Executions,
           Seed(e) \/ Write(e) \/ Commit(e) \/ CommitPause(e) \/ Acknowledge(e)
    PROVE  TypeInv'
<1> USE DEF storeVars
<1>1. /\ cp \in Positions /\ rows \in Positions /\ sink \subseteq 1..MaxRows /\ acked \in Positions
      /\ BusType /\ JobType /\ HistoryType /\ budget \in [Events -> Nat] /\ "fault" \in Events
      /\ commits \subseteq Executions
      /\ start[e] \in Positions /\ pos[e] \in Positions
      /\ pos \in [Executions -> Positions]
  BY Zenon DEF TypeInv, TypeOK, StoreType, ClientType, OutsideType, HistoryType, JobType, Events
<1>2. Fault => budget' \in [Events -> Nat]
  BY <1>1, SpendType, Zenon DEF Fault, TypeInv
<1>3. \A p \in JobPCs : Goto(e, p) /\ UNCHANGED <<spec, sig, ctl, start, pos>> => JobType'
  BY <1>1, JobMoves, Zenon DEF JobType
<1>4. CommitSink(e) => sink' \subseteq 1..MaxRows /\ HistoryType' /\ UNCHANGED <<plan, rows, acked>>
  <2>1. (start[e] + 1)..pos[e] \subseteq 1..MaxRows
    BY <1>1, RunBoundsAssumption DEF Positions
  <2> QED
    BY <1>1, <2>1, Zenon DEF CommitSink, HistoryType
<1>5. CASE Seed(e)
  <2>1. cp' \in Positions /\ acked' \in Positions
    BY <1>1, <1>5, Zenon DEF Seed
  <2>2. JobType' /\ BusType' /\ HistoryType' /\ queue' = queue
    BY <1>3, <1>5, JobLiterals, FrameTypes, Zenon DEF Seed, busVars
  <2> QED
    BY <1>1, <1>5, <2>1, <2>2, WorkerFrame, Zenon DEF Seed
<1>6. CASE Write(e)
  <2>1. pos[e] + 1 \in Positions /\ pos[e] + 1 \in 1..MaxRows
    BY <1>1, <1>6, RunBoundsAssumption DEF Write, Positions
  <2>2. JobType'
    BY <1>1, <1>6, <2>1, Zenon DEF Write, JobType
  <2>3. sink' \subseteq 1..MaxRows
    BY <1>1, <1>6, <2>1, Zenon DEF Write
  <2>4. BusType' /\ (queue' = queue \/ queue' # <<>>) /\ budget' \in [Events -> Nat]
    <3>1. CASE Publish([name |-> "batch", pos |-> pos[e] + 1]) /\ UNCHANGED <<inbox, budget>>
      <4>1. [name |-> "batch", pos |-> pos[e] + 1] \in Facts
        BY <2>1, FactTypes, Zenon
      <4>2. queue' \in Seq(Facts) /\ Len(queue') <= MaxQueue /\ queue' # <<>>
        BY <3>1, <4>1, PublishType, Zenon DEF TypeInv
      <4> QED
        BY <1>1, <3>1, <4>2, Zenon DEF BusType
    <3>2. CASE Fault /\ UNCHANGED busVars
      BY <1>2, <3>2, FrameTypes, Zenon DEF busVars
    <3> QED
      BY <1>6, <3>1, <3>2, Zenon DEF Write
  <2>5. HistoryType'
    BY <1>6, FrameTypes, Zenon DEF Write
  <2> QED
    BY <1>1, <1>6, <2>2, <2>3, <2>4, <2>5, WorkerFrame, Zenon DEF Write
<1>7. CASE Commit(e) \/ CommitPause(e)
  <2>1. JobType' /\ BusType' /\ queue' = queue
    BY <1>3, <1>7, JobLiterals, FrameTypes, Zenon DEF Commit, CommitPause, busVars
  <2> QED
    BY <1>1, <1>4, <1>7, <2>1, WorkerFrame, Zenon DEF Commit, CommitPause
<1>8. CASE Acknowledge(e)
  <2>1. acked' \in Positions
    BY <1>1, <1>8, Zenon DEF Acknowledge
  <2>2. JobType' /\ BusType' /\ HistoryType' /\ queue' = queue
    BY <1>8, JobLiterals, JobMoves, FrameTypes, Zenon DEF Acknowledge, busVars
  <2> QED
    BY <1>1, <1>8, <2>1, <2>2, WorkerFrame, Zenon DEF Acknowledge
<1> QED
  BY <1>5, <1>6, <1>7, <1>8, Zenon

-----------------------------------------------------------------------------
(* The tracker, the reaper, the source *)

\* What a fold stores is a row and a cursor.
LEMMA FoldTypes ==
    ASSUME TypeInv, queue # <<>>
    PROVE  /\ Saved(Folded(trk.copy, Oldest)) \in Rows
           /\ Oldest.pos \in Positions
           /\ Advanced(Oldest.pos) \in Positions \cup {NoCursor}
<1>1. /\ trk.copy \in Rows /\ row \in Rows /\ Oldest \in Facts /\ cp \in Positions
      /\ acc \in Positions \cup {NoCursor} /\ plan \in Plans
  BY OldestType, Zenon DEF TypeInv, TypeOK, TrackerType, StoreType, OutsideType
<1>2. Oldest.pos \in Positions /\ Oldest.name \in {"started", "beat", "batch"} \cup TerminalFacts
  BY <1>1, Zenon DEF Facts
<1>3. Folded(trk.copy, Oldest) \in Rows
  <2> DEFINE st == IF Oldest.name \in DOMAIN StatusOf THEN StatusOf[Oldest.name] ELSE trk.copy.status
  <2>1. st \in Statuses
    <3>1. Oldest.name \in DOMAIN StatusOf => StatusOf[Oldest.name] \in Statuses
      BY <1>2 DEF StatusOf, Statuses, TerminalFacts
    <3> QED
      BY <1>1, <3>1, Zenon DEF Rows
  <2>2. Folded(trk.copy, Oldest) =
          [trk.copy EXCEPT !.status = st, !.started = @ \/ Oldest.name = "started",
                           !.ended = @ \/ Oldest.name \in TerminalFacts]
    BY Zenon DEF Folded
  <2> HIDE DEF st
  <2> QED
    BY <1>1, <2>1, <2>2, Zenon DEF Rows
<1>4. \A r \in Rows : Saved(r) \in Rows
  BY <1>1 DEF Saved, Rows
<1>5. Mode \in {"full", "incremental", "cdc"}
  BY <1>1, PlansAssumption, Zenon DEF Mode
<1>6. Advanced(Oldest.pos) \in Positions \cup {NoCursor}
  BY <1>1, <1>2, <1>5, Zenon DEF Advanced
<1> QED
  BY <1>2, <1>3, <1>4, <1>6, Zenon

\* Folding the oldest fact, step by step, keeps the types.
LEMMA TrackType ==
    ASSUME TypeInv, Track \/ TrackerFails
    PROVE  TypeInv'
<1>1. /\ row \in Rows /\ cp \in Positions /\ queue \in Seq(Facts) /\ Len(queue) <= MaxQueue /\ marked \in BOOLEAN
      /\ acc \in Positions \cup {NoCursor} /\ trk.copy \in Rows /\ NoRow \in Rows
      /\ budget \in [Events -> Nat] /\ trk \in [pc : {"idle", "apply", "save"}, copy : Rows]
      /\ issued \in 0..MaxExecutions /\ inbox \subseteq Executions
  BY Literals, Zenon DEF TypeInv, TypeOK, StoreType, BusType, TrackerType, ClientType
<1>2. SUFFICES /\ row' \in Rows /\ cp' \in Positions /\ queue' \in Seq(Facts) /\ Len(queue') <= MaxQueue
               /\ TrackerType' /\ FoldInv' /\ budget' \in [Events -> Nat] /\ TrackerStep
  <2>1. StoreType' /\ BusType' /\ ClientType' /\ CallInv' /\ JobType' /\ OutsideType' /\ HistoryType'
    <3>1. /\ UNCHANGED client /\ UNCHANGED jobVars /\ UNCHANGED <<reaper, outsideVars>> /\ UNCHANGED historyVars
          /\ UNCHANGED issued /\ UNCHANGED undone /\ UNCHANGED inbox
      BY <1>2, Zenon DEF TrackerStep
    <3> QED
      BY <1>1, <1>2, <3>1, FrameTypes, Zenon DEF StoreType, BusType, ClientType, TypeInv, TypeOK
  <2> QED
    BY <1>2, <2>1, Zenon DEF TypeInv, TypeOK
<1>3. /\ NoFold \in [pc : {"idle", "apply", "save"}, copy : Rows] /\ NoFold.pc = "idle"
      /\ [trk EXCEPT !.pc = "apply"] \in [pc : {"idle", "apply", "save"}, copy : Rows]
  BY <1>1, Zenon DEF NoFold
<1>4. CASE Flush
  BY <1>1, <1>3, <1>4, Zenon DEF Flush, Delivered, TrackerType, FoldInv
<1>5. CASE Mark
  <2>1. queue # <<>>
    BY <1>5, Zenon DEF Mark, Delivered
  <2>2. Tail(queue) \in Seq(Facts) /\ Len(Tail(queue)) <= MaxQueue
    BY <2>1, OldestType, Zenon DEF TypeInv
  <2>3. /\ queue' \in Seq(Facts) /\ Len(queue') <= MaxQueue
        /\ trk' \in [pc : {"idle", "apply", "save"}, copy : Rows] /\ FoldInv'
    BY <1>1, <1>3, <1>5, <2>1, <2>2, Zenon DEF Mark, Delivered, FoldInv
  <2> QED
    BY <1>1, <1>5, <2>3, Zenon DEF Mark, TrackerType
<1>6. CASE Load
  <2>1. trk' \in [pc : {"idle", "apply", "save"}, copy : Rows]
    <3>1. [NoRow EXCEPT !.status = "requested"] \in Rows
      BY <1>1, Zenon DEF Rows, Statuses
    <3> QED
      BY <1>1, <1>6, <3>1, Zenon DEF Load
  <2>2. FoldInv'
    <3>1. queue # <<>>
      BY <1>6, Zenon DEF Load, TypeInv, FoldInv
    <3> QED
      BY <1>6, <3>1, Zenon DEF Load, FoldInv
  <2> QED
    BY <1>1, <1>6, <2>1, <2>2, Zenon DEF Load, TrackerType
<1>7. CASE Save
  <2>1. queue # <<>>
    BY <1>7, Zenon DEF Save, TypeInv, FoldInv
  <2>2. Tail(queue) \in Seq(Facts) /\ Len(Tail(queue)) <= MaxQueue
    BY <2>1, OldestType, Zenon DEF TypeInv
  <2>3. row' \in Rows
    BY <1>7, <2>1, FoldTypes, Zenon DEF Save
  <2>4. acc' \in Positions \cup {NoCursor}
    <3>1. Advanced(Oldest.pos) \in Positions \cup {NoCursor}
      BY <2>1, FoldTypes, Zenon
    <3>2. acc' \in {NoCursor, Advanced(Oldest.pos), acc}
      BY <1>7, Zenon DEF Save
    <3> QED
      BY <1>1, <3>1, <3>2, Zenon
  <2>5. /\ queue' \in Seq(Facts) /\ Len(queue') <= MaxQueue /\ marked' \in BOOLEAN
        /\ budget' \in [Events -> Nat]
    BY <1>1, <1>7, <2>2, SpendType, Zenon DEF Save, Fault, Events, TypeInv
  <2> QED
    BY <1>1, <1>3, <1>7, <2>3, <2>4, <2>5, Zenon DEF Save, TrackerType, FoldInv
<1>8. CASE TrackerFails
  <2>1. budget' \in [Events -> Nat]
    BY <1>8, SpendType, Zenon DEF TrackerFails, Fault, Events, TypeInv
  <2>2. acc' \in Positions \cup {NoCursor}
    BY <1>1, <1>8, Zenon DEF TrackerFails
  <2> QED
    BY <1>1, <1>3, <1>8, <2>1, <2>2, Zenon DEF TrackerFails, TrackerType, FoldInv
<1> QED
  BY <1>4, <1>5, <1>6, <1>7, <1>8, Zenon DEF Track

\* The reaper's list, probe and kill keep the types.
LEMMA ReapType ==
    ASSUME TypeInv, Reap
    PROVE  TypeInv'
<1>1. /\ UNCHANGED storeVars /\ UNCHANGED <<client, budget>> /\ UNCHANGED client /\ UNCHANGED inbox
      /\ UNCHANGED trackerVars /\ UNCHANGED jobVars /\ UNCHANGED outsideVars /\ UNCHANGED historyVars
      /\ UNCHANGED trk
  BY Zenon DEF Reap, ReaperList, ReaperProbe, ReaperKill, ReaperStep, trackerVars
<1>2. BusType' /\ (queue' = queue \/ queue' # <<>>)
  <2>1. BusType
    BY Zenon DEF TypeInv, TypeOK
  <2>2. CASE UNCHANGED queue
    BY <1>1, <2>1, <2>2, Zenon DEF BusType
  <2>3. CASE ReaperKill
    <3>1. Fact("failed") \in Facts
      BY FactTypes, Zenon DEF TerminalFacts
    <3> QED
      BY <1>1, <2>1, <2>3, <3>1, PublishType, Zenon DEF ReaperKill, BusType, TypeInv
  <2> QED
    BY <2>2, <2>3, Zenon DEF Reap, ReaperList, ReaperProbe
<1>3. reaper' \in {"idle", "running", "requested", "dead"}
  BY Zenon DEF Reap, ReaperList, ReaperProbe, ReaperKill
<1>4. OutsideType'
  BY <1>1, <1>3, Zenon DEF TypeInv, TypeOK, OutsideType, outsideVars
<1>5. FoldInv'
  BY <1>1, <1>2, Zenon DEF TypeInv, FoldInv
<1> QED
  BY <1>1, <1>2, <1>4, <1>5, FrameTypes, Zenon DEF TypeInv, TypeOK

\* A new row of the source keeps the types.
LEMMA ProduceType ==
    ASSUME TypeInv, Produce
    PROVE  TypeInv'
<1>1. /\ UNCHANGED storeVars /\ UNCHANGED <<client, budget>> /\ UNCHANGED client /\ UNCHANGED busVars
      /\ UNCHANGED trackerVars /\ UNCHANGED jobVars /\ UNCHANGED historyVars
      /\ UNCHANGED <<trk, queue>>
  BY Zenon DEF Produce, trackerVars, busVars
<1>2. rows' \in Positions
  BY RunBoundsAssumption DEF Produce, TypeInv, TypeOK, OutsideType, Positions
<1>3. OutsideType'
  BY <1>2, Zenon DEF Produce, TypeInv, TypeOK, OutsideType
<1> QED
  BY <1>1, <1>3, FrameTypes, Zenon DEF TypeInv, TypeOK

-----------------------------------------------------------------------------

\* Every step of a bounded run keeps the types.
LEMMA TypeStep ==
    ASSUME TypeInv, [Next]_vars
    PROVE  TypeInv'
<1>1. CASE UNCHANGED vars
  <2>1. /\ UNCHANGED storeVars /\ UNCHANGED <<client, budget>> /\ UNCHANGED client /\ UNCHANGED busVars
        /\ UNCHANGED trackerVars /\ UNCHANGED jobVars /\ UNCHANGED <<reaper, outsideVars>>
        /\ UNCHANGED historyVars /\ UNCHANGED <<trk, queue>>
    BY <1>1, Zenon DEF vars, trackerVars, busVars
  <2> QED
    BY <2>1, FrameTypes, Zenon DEF TypeInv, TypeOK
<1>2. ASSUME NEW c \in Clients, Request(c) PROVE TypeInv'
  BY <1>2, IntakeType, SignalType, Zenon DEF Request
<1>3. ASSUME NEW e \in Executions,
             Dispatch(e) \/ Collect(e) \/ Work(e) \/ Control(e) \/ Heartbeat(e) \/ Trouble(e)
      PROVE  TypeInv'
  BY <1>3, MoveType, PassageType, DataType, Zenon DEF Work, Trouble
<1>4. CASE Track \/ TrackerFails \/ Reap \/ Produce
  BY <1>4, TrackType, ReapType, ProduceType, Zenon
<1> QED
  BY <1>1, <1>2, <1>3, <1>4, Zenon DEF Next

\* A run that was not submitted yet is well typed.
LEMMA TypeInit ==
    ASSUME Init
    PROVE  TypeInv
<1>1. 0 \in Positions /\ 0 \in 0..MaxExecutions /\ Len(<<>>) <= MaxQueue
  BY RunBoundsAssumption DEF Positions
<1>2. StoreType /\ BusType /\ OutsideType /\ HistoryType
  <2>1. StoreType /\ BusType
    <3>1. StoreType
      BY <1>1, Literals, Zenon DEF Init, StoreType
    <3> QED
      BY <1>1, <3>1 DEF Init, BusType
  <2>2. OutsideType
    BY <1>1, Zenon DEF Init, OutsideType
  <2>3. HistoryType
    BY Zenon DEF Init, HistoryType
  <2> QED
    BY <2>1, <2>2, <2>3, Zenon
<1>3. ClientType
  <2>1. client \in [Clients -> Calls]
    BY Literals, Zenon DEF Init
  <2>2. budget \in [Events -> Nat]
    BY RunBoundsAssumption, Zenon DEF Init, Events
  <2> QED
    BY <2>1, <2>2, Zenon DEF ClientType
<1>4. TrackerType /\ FoldInv
  <2>1. trk \in [pc : {"idle", "apply", "save"}, copy : Rows] /\ trk.pc = "idle"
    BY Literals, Zenon DEF Init, NoFold
  <2> QED
    BY <2>1, Zenon DEF Init, TrackerType, FoldInv
<1>5. JobType
  BY <1>1, JobLiterals, Zenon DEF Init, JobType
<1>6. CallInv
  BY Zenon DEF Init, CallInv, Idle
<1> QED
  BY <1>2, <1>3, <1>4, <1>5, <1>6, Zenon DEF TypeInv, TypeOK

\* Every reachable state is well typed, the calls of intake and signals are well formed,
\* and a fold that has begun has its fact at the head of the queue.
THEOREM TypeInvariant == Spec => []TypeInv
<1>1. Init => TypeInv
  BY TypeInit, Zenon
<1>2. TypeInv /\ [Next]_vars => TypeInv'
  BY TypeStep, Zenon
<1> QED
  BY <1>1, <1>2, PTL DEF Spec

\* For every number of clients, executions, rows and facts: rows, calls, facts
\* and the locals of workers and tracker keep their shape.
THEOREM TypeCorrect == Spec => []TypeOK
<1>1. TypeInv => TypeOK
  BY Zenon DEF TypeInv
<1> QED
  BY <1>1, TypeInvariant, PTL

-----------------------------------------------------------------------------
\* Whether a fact ends an execution, and whether none between two others does.
Done(i) == queue[i].name \in TerminalFacts
Quiet(i, j) == \A k \in 1..Len(queue) : i < k /\ k < j => ~Done(k)

\* A handle is sealed for a commit only while it holds no command.
SealInv == \A e \in Executions : job[e] = "sealed" => sig[e] = "none"

\* Whatever says completed - a worker, a fact, the copy of a fold, the row - was
\* preceded by a commit.
CommitInv ==
  /\ \A e \in Executions : job[e] = "committed" => commits # {}
  /\ \A i \in 1..Len(queue) : queue[i].name = "completed" => commits # {}
  /\ "completed" \in {trk.copy.status, row.status} => commits # {}

\* Whatever says running - a fact, the copy of a fold, the row - and is followed
\* by no terminal fact has an open execution behind it.
OwnerInv ==
  open = {} =>
    /\ \A i \in 1..Len(queue) : queue[i].name = "started" => ~Quiet(i, Len(queue) + 1)
    /\ row.status = "running" => ~Quiet(0, Len(queue) + 1)
    /\ trk.pc = "save" /\ trk.copy.status = "running" => ~Quiet(0, Len(queue) + 1)

\* The states of an execution between run.started and its terminal fact.
InRun == {"admitted", "planned", "reading", "sealed", "stopping", "pausing", "committed"}

-----------------------------------------------------------------------------
(* What a step may do to the workers *)

\* Gone and Goto move one worker.
LEMMA Moved ==
    ASSUME TypeInv, NEW e \in Executions, NEW p \in JobPCs, Goto(e, p) \/ Gone(e, p)
    PROVE  job'[e] = p /\ \A d \in Executions \ {e} : job'[d] = job[d]
  BY Zenon DEF Goto, Gone, TypeInv, TypeOK, JobType

\* A worker is sealed by Seal alone, and its handle is not written afterwards.
LEMMA SealStep ==
    ASSUME TypeInv, SealInv, [Next]_vars
    PROVE  SealInv'
<1>1. SUFFICES ASSUME NEW d \in Executions, job'[d] = "sealed" PROVE sig'[d] = "none"
  BY Zenon DEF SealInv
<1>2. job[d] = "sealed" => sig[d] = "none"
  BY Zenon DEF SealInv
<1>3. ASSUME UNCHANGED jobVars PROVE sig'[d] = "none"
  BY <1>1, <1>2, <1>3, Zenon DEF jobVars
<1>4. ASSUME NEW c \in Clients, Request(c) PROVE sig'[d] = "none"
  <2>1. UNCHANGED <<job, sig>>
    BY <1>4, Zenon DEF Request, Schedule, CreateRun, SubmitAgain, DispatchRun, DispatchFails, DeleteRun, ClientDies,
          SignalLoad, SignalTransition, SignalConflict, SignalWorker, SignalPublish, ClientStep, jobVars
  <2> QED
    BY <1>1, <1>2, <2>1, Zenon
<1>5. ASSUME NEW e \in Executions, NEW p \in JobPCs, p # "sealed", Gone(e, p) PROVE sig'[d] = "none"
  <2>1. d # e /\ job[d] = "sealed"
    BY <1>1, <1>5, Moved, Zenon
  <2>2. sig'[d] = sig[d]
    BY <1>5, <2>1, Zenon DEF Gone, TypeInv, TypeOK, JobType
  <2> QED
    BY <1>2, <2>1, <2>2, Zenon
<1>6. ASSUME NEW e \in Executions, NEW p \in JobPCs, p # "sealed", Goto(e, p), UNCHANGED sig PROVE sig'[d] = "none"
  BY <1>1, <1>2, <1>6, Moved, Zenon
<1>7. ASSUME NEW e \in Executions, Control(e) PROVE sig'[d] = "none"
  <2>1. job'[d] = job[d] /\ d # e
    BY <1>1, <1>7, Zenon DEF Control, Listening
  <2>2. sig'[d] = sig[d]
    BY <1>7, <2>1, Zenon DEF Control, TypeInv, TypeOK, JobType
  <2> QED
    BY <1>1, <1>2, <2>1, <2>2, Zenon
<1>8. ASSUME NEW e \in Executions, Seal(e) PROVE sig'[d] = "none"
  <2>1. UNCHANGED sig /\ (Goto(e, "stopping") \/ (sig[e] = "none" /\ Goto(e, "sealed")))
    BY <1>8, Zenon DEF Seal
  <2>2. CASE d = e
    BY <1>1, <2>1, <2>2, Moved, JobLiterals, Zenon
  <2>3. CASE d # e
    BY <1>1, <1>2, <2>1, <2>3, Moved, JobLiterals, Zenon
  <2> QED
    BY <2>2, <2>3, Zenon
<1>9. ASSUME NEW e \in Executions, Dispatch(e) PROVE sig'[d] = "none"
  <2>1. job[d] = "sealed" /\ UNCHANGED sig
    BY <1>1, <1>9, Zenon DEF Dispatch, TypeInv, TypeOK, JobType
  <2> QED
    BY <1>2, <2>1, Zenon
<1>10. ASSUME NEW e \in Executions, Collect(e) \/ WorkerLoad(e) \/ Prepare(e) \/ Close(e) \/ Admit(e) \/ Plan(e)
                \/ Seed(e) \/ Commit(e) \/ CommitPause(e) \/ Complete(e)
       PROVE  sig'[d] = "none"
  <2>1. UNCHANGED sig
    BY <1>10, Zenon DEF Collect, WorkerLoad, Prepare, Close, Admit, Plan, Seed, Commit, CommitPause, Complete
  <2>2. Goto(e, "none") \/ Goto(e, "loaded") \/ Goto(e, "finished") \/ Goto(e, "prepared") \/ Goto(e, "admitted")
          \/ Goto(e, "planned") \/ Goto(e, "reading") \/ Goto(e, "committed") \/ Goto(e, "pausing") \/ Goto(e, "acking")
    BY <1>10, Zenon DEF Collect, WorkerLoad, Prepare, Close, Admit, Plan, Seed, Commit, CommitPause, Complete, Goto
  <2> QED
    BY <1>6, <2>1, <2>2, JobLiterals, Zenon
<1>11. ASSUME NEW e \in Executions, Trouble(e) \/ NoRequest(e) \/ SeedFails(e) \/ SetupStopped(e) \/ Stop(e) \/ Acknowledge(e)
       PROVE  sig'[d] = "none"
  <2>1. \E p \in {"created", "finished", "closing"} : Gone(e, p)
    BY <1>11, Zenon DEF Trouble, AdmitFails, SetupFails, ReadFails, CommitFails, Crash, NoRequest, SeedFails, SetupStopped, Stop,
          Acknowledge
  <2> QED
    BY <1>5, <2>1, JobLiterals, Zenon
<1>12. ASSUME NEW e \in Executions, Write(e) \/ Heartbeat(e) PROVE sig'[d] = "none"
  BY <1>1, <1>2, <1>12, Zenon DEF Write, Heartbeat, jobVars
<1>13. CASE Track \/ TrackerFails \/ Reap \/ Produce \/ UNCHANGED vars
  BY <1>3, <1>13, Zenon DEF Track, Flush, Mark, Load, Save, TrackerFails, TrackerStep, Reap, ReaperList, ReaperProbe,
        ReaperKill, ReaperStep, Produce, vars
<1> QED
  BY <1>4, <1>7, <1>8, <1>9, <1>10, <1>11, <1>12, <1>13, Zenon DEF Next, Work

\* Only Commit and CommitPause add to commits, the one sealed without a command,
\* the other under a pause.
LEMMA CommitsStep ==
    ASSUME TypeInv, SealInv, [Next]_vars, NEW e \in Executions, e \in commits', e \notin commits
    PROVE  sig[e] # "cancel"
<1>1. ASSUME UNCHANGED commits PROVE FALSE
  BY <1>1, Zenon
<1>2. ASSUME NEW c \in Clients, Request(c) PROVE FALSE
  BY <1>1, <1>2, Zenon DEF Request, Schedule, CreateRun, SubmitAgain, DispatchRun, DispatchFails, DeleteRun, ClientDies,
        SignalLoad, SignalTransition, SignalConflict, SignalWorker, SignalPublish, ClientStep, historyVars
<1>3. ASSUME NEW d \in Executions, Dispatch(d) \/ Collect(d) \/ Control(d) \/ Heartbeat(d) \/ Trouble(d) PROVE FALSE
  BY <1>1, <1>3, Zenon DEF Dispatch, Collect, Control, Heartbeat, Trouble, AdmitFails, SetupFails, ReadFails, CommitFails,
        Crash, Opened, historyVars
<1>4. ASSUME NEW d \in Executions, Work(d) PROVE sig[e] # "cancel"
  <2>1. CASE Commit(d)
    <3>1. e = d /\ job[d] = "sealed"
      BY <2>1, Zenon DEF Commit, CommitSink
    <3> QED
      BY <3>1, Zenon DEF SealInv
  <2>2. CASE CommitPause(d)
    BY <2>2, Zenon DEF CommitPause, CommitSink
  <2>3. CASE ~(Commit(d) \/ CommitPause(d))
    BY <1>1, <1>4, <2>3, Zenon DEF Work, WorkerLoad, Prepare, Admit, Opened, Plan, Seed, NoRequest, SeedFails, SetupStopped, Write,
          Seal, Stop, Complete, Acknowledge, Close, historyVars
  <2> QED
    BY <2>1, <2>2, <2>3, Zenon
<1>5. ASSUME Track \/ TrackerFails \/ Reap \/ Produce \/ UNCHANGED vars PROVE FALSE
  BY <1>1, <1>5, Zenon DEF Track, Flush, Mark, Load, Save, TrackerFails, TrackerStep, Reap, ReaperList, ReaperProbe,
        ReaperKill, ReaperStep, Produce, vars, historyVars
<1> QED
  BY <1>2, <1>3, <1>4, <1>5, Zenon DEF Next

-----------------------------------------------------------------------------
(* What a step may do to the queue *)

\* Nothing is published, or a fact is that its publisher may publish.
Published ==
  \/ queue' = queue /\ open \subseteq open'
  \/ \E f \in Facts :
       /\ queue' = Append(queue, f)
       /\ f.name = "completed" => \E e \in Executions : job[e] = "committed"
       /\ f.name = "started" => open' # {}
       /\ f.name \notin TerminalFacts => open \subseteq open'

\* The end of an execution publishes at most its fact.
LEMMA FinishPublishes ==
    ASSUME NEW e \in Executions, NEW n \in TerminalFacts, n = "completed" => job[e] = "committed",
           Finish(e, n) \/ FinishOrLose(e, n)
    PROVE  Published
<1>1. Fact(n) \in Facts /\ Fact(n).name = n /\ n # "started"
  BY FactTypes, Zenon DEF TerminalFacts
<1>2. CASE Finish(e, n)
  BY <1>1, <1>2, Zenon DEF Finish, Publish, Published
<1>3. CASE UNCHANGED <<busVars, open, mixed>>
  BY <1>3, Zenon DEF Published, busVars
<1> QED
  BY <1>2, <1>3, Zenon DEF FinishOrLose

\* A client never writes running or completed, and publishes only the ends of
\* commands.
LEMMA ClientPublishes ==
    ASSUME TypeInv, NEW c \in Clients, Request(c)
    PROVE  Published /\ UNCHANGED <<trk, acc, commits, job>> /\ (row' = row \/ row'.status \notin {"running", "completed"})
<1>1. UNCHANGED <<trk, acc, commits, open, job>>
  BY Zenon DEF Request, Schedule, CreateRun, SubmitAgain, DispatchRun, DispatchFails, DeleteRun, ClientDies,
        SignalLoad, SignalTransition, SignalConflict, SignalWorker, SignalPublish, ClientStep, historyVars, trackerVars, jobVars
<1>2. row' = row \/ row'.status \notin {"running", "completed"}
  <2>1. CASE Schedule(c) \/ CreateRun(c) \/ DeleteRun(c)
    <3>1. row' \in {[NoRow EXCEPT !.status = "scheduled", !.req = TRUE], NoRow,
                     [NoRow EXCEPT !.status = "requested", !.id = issued', !.req = TRUE]}
      BY <2>1, Zenon DEF Schedule, CreateRun, DeleteRun
    <3>2. NoRow \in Rows /\ NoRow.status = "absent"
      BY Literals, Zenon DEF NoRow
    <3>3. [NoRow EXCEPT !.status = "scheduled", !.req = TRUE].status = "scheduled"
      BY <3>2, Zenon DEF Rows
    <3>4. [NoRow EXCEPT !.status = "requested", !.id = issued', !.req = TRUE].status = "requested"
      BY <3>2, Zenon DEF Rows
    <3> QED
      BY <3>1, <3>2, <3>3, <3>4, Zenon
  <2>2. CASE SignalTransition(c)
    <3>1. row \in Rows /\ client[c].sig \in Signals
      BY Zenon DEF TypeInv, TypeOK, StoreType, ClientType, Calls
    <3>2. To[client[c].sig] \notin {"running", "completed"}
      BY <3>1 DEF To, Signals
    <3>3. row'.status = To[client[c].sig]
      BY <2>2, <3>1, Zenon DEF SignalTransition, Rows
    <3> QED
      BY <3>2, <3>3, Zenon
  <2>3. CASE ~(Schedule(c) \/ CreateRun(c) \/ DeleteRun(c) \/ SignalTransition(c))
    BY <2>3, Zenon DEF Request, SubmitAgain, DispatchRun, DispatchFails, ClientDies,
        SignalLoad, SignalConflict, SignalWorker, SignalPublish, storeVars
  <2> QED
    BY <2>1, <2>2, <2>3, Zenon
<1>3. Published
  <2>1. CASE queue' = queue
    BY <1>1, <2>1, Zenon DEF Published
  <2>2. CASE SignalPublish(c) /\ client[c].sig # "resume"
    <3>1. client[c].sig \in Signals
      BY Zenon DEF TypeInv, TypeOK, ClientType, Calls
    <3>2. To[client[c].sig] \in TerminalFacts /\ To[client[c].sig] \notin {"completed", "started"}
      BY <2>2, <3>1 DEF To, Signals, TerminalFacts
    <3>3. queue' = Append(queue, Fact(To[client[c].sig]))
      BY <2>2, Zenon DEF SignalPublish, Publish
    <3> QED
      BY <3>2, <3>3, FactTypes, Zenon DEF Published
  <2> QED
    BY <2>1, <2>2, Zenon DEF Request, Schedule, CreateRun, SubmitAgain, DispatchRun, DispatchFails, DeleteRun, ClientDies,
        SignalLoad, SignalTransition, SignalConflict, SignalWorker, SignalPublish, busVars
<1> QED
  BY <1>1, <1>2, <1>3, Zenon

\* A worker announces completed only once it has committed.
LEMMA WorkerPublishes ==
    ASSUME TypeInv, NEW e \in Executions,
           Dispatch(e) \/ Collect(e) \/ Work(e) \/ Control(e) \/ Heartbeat(e) \/ Trouble(e)
    PROVE  Published /\ UNCHANGED <<row, trk, acc>> /\ commits \subseteq commits'
<1>1. UNCHANGED <<row, trk, acc>>
  BY Zenon DEF Dispatch, Collect, Work, Control, Heartbeat, Trouble, WorkerLoad, Prepare, Admit, Plan, Seed, NoRequest, SeedFails,
        SetupStopped, Write, Seal, Commit, CommitPause, Stop, Complete, Acknowledge, Close,
        AdmitFails, SetupFails, ReadFails, CommitFails, Crash, storeVars, trackerVars
<1>2. commits \subseteq commits'
  BY Zenon DEF Dispatch, Collect, Work, Control, Heartbeat, Trouble, WorkerLoad, Prepare, Admit, Plan, Seed, NoRequest, SeedFails,
        SetupStopped, Write, Seal, Commit, CommitPause, CommitSink, Stop, Complete, Acknowledge, Close,
        AdmitFails, Opened, SetupFails, ReadFails, CommitFails, Crash, historyVars
<1>3. ASSUME Opened(e) PROVE Published
  <2>1. Fact("started") \in Facts /\ Fact("started").name = "started"
    BY FactTypes, Zenon
  <2>2. queue' = Append(queue, Fact("started")) /\ open \subseteq open' /\ open' # {}
    BY <1>3, Zenon DEF Opened, Publish
  <2> QED
    BY <2>1, <2>2, Zenon DEF Published
<1>4. ASSUME queue' = queue, UNCHANGED open PROVE Published
  BY <1>4, Zenon DEF Published
<1>5. CASE Dispatch(e) \/ Collect(e) \/ Control(e) \/ WorkerLoad(e) \/ Prepare(e) \/ Plan(e) \/ Seed(e) \/ Seal(e)
             \/ Commit(e) \/ CommitPause(e) \/ Acknowledge(e) \/ Close(e) \/ Crash(e)
  BY <1>1, <1>2, <1>4, <1>5, Zenon DEF Dispatch, Collect, Control, WorkerLoad, Prepare, Plan, Seed, Seal, Commit, CommitPause,
        CommitSink, Acknowledge, Close, Crash, busVars, historyVars
<1>6. CASE Admit(e) \/ AdmitFails(e)
  BY <1>1, <1>2, <1>3, <1>4, <1>6, Zenon DEF Admit, AdmitFails, busVars, historyVars
<1>7. CASE SetupFails(e) \/ ReadFails(e) \/ CommitFails(e) \/ NoRequest(e) \/ SeedFails(e) \/ SetupStopped(e) \/ Stop(e) \/ Complete(e)
  <2>1. PICK n \in TerminalFacts : /\ Finish(e, n) \/ FinishOrLose(e, n)
                                   /\ n = "completed" => job[e] = "committed"
    BY <1>7, Zenon DEF SetupFails, ReadFails, CommitFails, NoRequest, SeedFails, SetupStopped, Stop, Complete, TerminalFacts
  <2> QED
    BY <1>1, <1>2, <2>1, FinishPublishes, Zenon
<1>8. CASE Heartbeat(e)
  <2>1. Fact("beat") \in Facts /\ Fact("beat").name = "beat"
    BY FactTypes, Zenon
  <2>2. queue' = Append(queue, Fact("beat")) /\ UNCHANGED open
    BY <1>8, Zenon DEF Heartbeat, Publish, historyVars
  <2> QED
    BY <1>1, <1>2, <2>1, <2>2, Zenon DEF Published
<1>9. CASE Write(e)
  <2> DEFINE f == [name |-> "batch", pos |-> pos[e] + 1]
  <2>1. pos[e] + 1 \in Positions /\ UNCHANGED open
    BY <1>9, RunBoundsAssumption DEF Write, historyVars, TypeInv, TypeOK, JobType, OutsideType, Positions
  <2>2. f \in Facts /\ f.name \notin {"completed", "started"}
    BY <2>1, FactTypes, Zenon
  <2>3. queue' = Append(queue, f) \/ queue' = queue
    BY <1>9, Zenon DEF Write, Publish, busVars
  <2> HIDE DEF f
  <2> QED
    BY <1>1, <1>2, <1>4, <2>1, <2>2, <2>3, Zenon DEF Published
<1> QED
  BY <1>1, <1>2, <1>5, <1>6, <1>7, <1>8, <1>9, Zenon DEF Work, Trouble

\* The reaper publishes failed; a source row publishes nothing.
LEMMA OthersPublish ==
    ASSUME TypeInv, Reap \/ Produce \/ UNCHANGED vars
    PROVE  Published /\ UNCHANGED <<row, trk, acc, commits, job>>
<1>1. UNCHANGED <<row, trk, acc, commits, job, open>>
  BY Zenon DEF Reap, ReaperList, ReaperProbe, ReaperKill, ReaperStep, Produce, vars, storeVars, trackerVars, historyVars, jobVars
<1>2. CASE queue' = queue
  BY <1>1, <1>2, Zenon DEF Published
<1>3. CASE ReaperKill
  <2>1. Fact("failed") \in Facts /\ Fact("failed").name = "failed"
    BY FactTypes, Zenon DEF TerminalFacts
  <2>2. queue' = Append(queue, Fact("failed"))
    BY <1>3, Zenon DEF ReaperKill, Publish
  <2> QED
    BY <1>1, <2>1, <2>2, Zenon DEF Published, TerminalFacts
<1> QED
  BY <1>1, <1>2, <1>3, Zenon DEF Reap, ReaperList, ReaperProbe, Produce, vars, busVars

\* A fact is appended: the facts before it keep their places.
LEMMA Appended ==
    ASSUME TypeInv, NEW f \in Facts, queue' = Append(queue, f)
    PROVE  /\ Len(queue) \in Nat /\ Len(queue') = Len(queue) + 1 /\ queue'[Len(queue) + 1] = f
           /\ \A i \in 1..Len(queue) : queue'[i] = queue[i]
           /\ \A i \in 0..Len(queue) :
                Quiet(i, Len(queue) + 1)' => Quiet(i, Len(queue) + 1) /\ f.name \notin TerminalFacts
           /\ \A i \in 0..Len(queue), j \in 1..(Len(queue) + 1) : Quiet(i, j)' => Quiet(i, j)
<1>1. queue \in Seq(Facts)
  BY Zenon DEF TypeInv, TypeOK, BusType
<1>2. /\ Len(queue) \in Nat /\ Len(queue') = Len(queue) + 1 /\ queue'[Len(queue) + 1] = f
      /\ \A i \in 1..Len(queue) : queue'[i] = queue[i]
  BY <1>1
<1>3. ASSUME NEW i \in 0..Len(queue), Quiet(i, Len(queue) + 1)'
      PROVE  Quiet(i, Len(queue) + 1) /\ f.name \notin TerminalFacts
  <2>1. \A k \in 1..(Len(queue) + 1) : i < k => queue'[k].name \notin TerminalFacts
    BY <1>2, <1>3 DEF Quiet, Done
  <2>2. f.name \notin TerminalFacts
    BY <1>2, <2>1
  <2> QED
    BY <1>2, <2>1, <2>2 DEF Quiet, Done
<1>4. ASSUME NEW i \in 0..Len(queue), NEW j \in 1..(Len(queue) + 1), Quiet(i, j)' PROVE Quiet(i, j)
  BY <1>2, <1>4 DEF Quiet, Done
<1> QED
  BY <1>2, <1>3, <1>4, Zenon

\* The oldest fact is dropped: the others move up.
LEMMA Dropped ==
    ASSUME TypeInv, queue # <<>>, queue' = Tail(queue)
    PROVE  /\ Len(queue) \in Nat \ {0} /\ Len(queue') = Len(queue) - 1
           /\ \A i \in 1..Len(queue') : queue'[i] = queue[i + 1] /\ i + 1 \in 1..Len(queue)
           /\ \A i \in 0..Len(queue'), j \in 1..(Len(queue') + 1) : Quiet(i, j)' => Quiet(i + 1, j + 1)
<1>1. /\ Len(queue) \in Nat \ {0} /\ Len(queue') = Len(queue) - 1
      /\ \A i \in 1..(Len(queue) - 1) : queue'[i] = queue[i + 1]
  BY OldestType, Zenon DEF TypeInv
<1>2. \A i \in 1..Len(queue') : queue'[i] = queue[i + 1] /\ i + 1 \in 1..Len(queue)
  BY <1>1
<1>3. ASSUME NEW i \in 0..Len(queue'), NEW j \in 1..(Len(queue') + 1), Quiet(i, j)'
      PROVE  Quiet(i + 1, j + 1)
  <2>1. SUFFICES ASSUME NEW k \in 1..Len(queue), i + 1 < k, k < j + 1 PROVE ~Done(k)
    BY Zenon DEF Quiet
  <2>2. k - 1 \in 1..Len(queue') /\ i < k - 1 /\ k - 1 < j /\ queue'[k - 1] = queue[k]
    BY <1>1, <2>1
  <2> QED
    BY <1>3, <2>2, Zenon DEF Quiet, Done
<1> QED
  BY <1>1, <1>2, <1>3, Zenon

\* Nothing terminal between two facts, seen from one place earlier.
LEMMA QuietFromHead ==
    ASSUME TypeInv, queue # <<>>, NEW j \in 1..(Len(queue) + 1), Quiet(1, j), Oldest.name \notin TerminalFacts
    PROVE  Quiet(0, j)
  BY OldestType DEF Quiet, Done, TypeInv

-----------------------------------------------------------------------------
(* Completed is committed *)

\* Outside the listed actions a worker that is executing stays where it is.
LEMMA Stays ==
    ASSUME TypeInv, NEW e \in Executions,
           \/ Dispatch(e) \/ Collect(e) \/ WorkerLoad(e) \/ Prepare(e) \/ Close(e) \/ Control(e) \/ Heartbeat(e)
           \/ Trouble(e) \/ NoRequest(e) \/ SeedFails(e) \/ SetupStopped(e) \/ Stop(e) \/ Complete(e) \/ Acknowledge(e),
           NEW d \in Executions, job'[d] \in InRun
    PROVE  job'[d] = job[d] /\ start'[d] = start[d] /\ pos'[d] = pos[d]
<1>1. CASE Control(e) \/ Heartbeat(e)
  BY <1>1, Zenon DEF Control, Heartbeat, jobVars
<1>2. CASE Dispatch(e)
  <2>1. UNCHANGED <<start, pos>> /\ job' = [job EXCEPT ![e] = IF ShouldRun /\ @ = "none" THEN "created" ELSE @]
    BY <1>2, Zenon DEF Dispatch
  <2> QED
    BY <1>2, <2>1, Zenon DEF InRun, TypeInv, TypeOK, JobType
<1>3. CASE Collect(e) \/ WorkerLoad(e) \/ Prepare(e) \/ Close(e) \/ Complete(e)
  <2>1. PICK p \in {"none", "loaded", "finished", "prepared", "acking"} : Goto(e, p) /\ UNCHANGED <<start, pos>>
    BY <1>3, Zenon DEF Collect, WorkerLoad, Prepare, Close, Complete, Goto
  <2>2. p \in JobPCs /\ p \notin InRun
    BY JobLiterals, Zenon DEF InRun
  <2> QED
    BY <2>1, <2>2, Moved, Zenon
<1>4. CASE Trouble(e) \/ NoRequest(e) \/ SeedFails(e) \/ SetupStopped(e) \/ Stop(e) \/ Acknowledge(e)
  <2>1. PICK p \in {"created", "finished", "closing"} : Gone(e, p)
    BY <1>4, Zenon DEF Trouble, AdmitFails, SetupFails, ReadFails, CommitFails, Crash, NoRequest, SeedFails, SetupStopped, Stop,
          Acknowledge
  <2>2. p \in JobPCs /\ p \notin InRun
    BY JobLiterals, Zenon DEF InRun
  <2>3. d # e /\ job'[d] = job[d]
    BY <2>1, <2>2, Moved, Zenon
  <2>4. start'[d] = start[d] /\ pos'[d] = pos[d]
    BY <2>1, <2>3, Zenon DEF Gone, TypeInv, TypeOK, JobType
  <2> QED
    BY <2>3, <2>4, Zenon
<1> QED
  BY <1>1, <1>2, <1>3, <1>4, Zenon

\* An execution that fails, stops or completes has left its run.
LEMMA Leaves ==
    ASSUME TypeInv, NEW e \in Executions,
           SetupFails(e) \/ ReadFails(e) \/ CommitFails(e) \/ NoRequest(e) \/ SeedFails(e) \/ SetupStopped(e) \/ Stop(e) \/ Complete(e)
    PROVE  job'[e] \notin InRun
<1>1. Gone(e, "closing") \/ Goto(e, "acking")
  BY Zenon DEF SetupFails, ReadFails, CommitFails, NoRequest, SeedFails, SetupStopped, Stop, Complete
<1>2. job'[e] \in {"closing", "acking"}
  BY <1>1, Moved, JobLiterals, Zenon
<1> QED
  BY <1>2, Zenon DEF InRun

\* A worker is past its commit only when there was one.
LEMMA CommittedStep ==
    ASSUME TypeInv, NEW e \in Executions,
           Dispatch(e) \/ Collect(e) \/ Work(e) \/ Control(e) \/ Heartbeat(e) \/ Trouble(e),
           NEW d \in Executions, job'[d] = "committed"
    PROVE  job[d] = "committed" \/ commits' # {}
<1>1. CASE Write(e)
  BY <1>1, Zenon DEF Write
<1>2. CASE Commit(e)
  BY <1>2, Zenon DEF Commit, CommitSink
<1>3. CASE Admit(e) \/ Plan(e) \/ Seed(e) \/ Seal(e) \/ CommitPause(e)
  <2>1. PICK p \in {"admitted", "planned", "reading", "stopping", "sealed", "pausing"} : Goto(e, p)
    BY <1>3, Zenon DEF Admit, Plan, Seed, Seal, CommitPause
  <2>2. p \in JobPCs /\ p # "committed"
    BY JobLiterals, Zenon
  <2> QED
    BY <2>1, <2>2, Moved, Zenon
<1>4. CASE ~(Write(e) \/ Commit(e) \/ Admit(e) \/ Plan(e) \/ Seed(e) \/ Seal(e) \/ CommitPause(e))
  BY <1>4, Stays, Zenon DEF Work, InRun
<1> QED
  BY <1>1, <1>2, <1>3, <1>4, Zenon

\* What a fold may write into the status: what the fact says, or the copy.
LEMMA SavedStatus ==
    ASSUME TypeInv, queue # <<>>
    PROVE  LET st == Saved(Folded(trk.copy, Oldest)).status IN
           /\ st = "completed" => Oldest.name = "completed" \/ trk.copy.status = "completed"
           /\ st = "running" =>
                Oldest.name = "started" \/ (Oldest.name \in {"beat", "batch"} /\ trk.copy.status = "running")
<1>1. /\ trk.copy \in Rows /\ row \in Rows /\ Oldest.name \in {"started", "beat", "batch"} \cup TerminalFacts
  BY OldestType, Zenon DEF TypeInv, TypeOK, TrackerType, StoreType, Facts
<1> DEFINE st == IF Oldest.name \in DOMAIN StatusOf THEN StatusOf[Oldest.name] ELSE trk.copy.status
           r == Folded(trk.copy, Oldest)
<1>2. r = [trk.copy EXCEPT !.status = st, !.started = @ \/ Oldest.name = "started",
                           !.ended = @ \/ Oldest.name \in TerminalFacts]
  BY Zenon DEF Folded
<1>3. /\ st = "completed" => Oldest.name = "completed" \/ trk.copy.status = "completed"
      /\ st = "running" =>
                Oldest.name = "started" \/ (Oldest.name \in {"beat", "batch"} /\ trk.copy.status = "running")
  <2>1. DOMAIN StatusOf = {"started"} \cup TerminalFacts
    BY Zenon DEF StatusOf, TerminalFacts
  <2>2. \A n \in {"started"} \cup TerminalFacts :
          /\ StatusOf[n] = "completed" => n = "completed"
          /\ StatusOf[n] = "running" => n = "started"
    BY DEF StatusOf, TerminalFacts
  <2>3. Oldest.name \notin DOMAIN StatusOf => Oldest.name \in {"beat", "batch"}
    BY <1>1, <2>1, Zenon
  <2>4. st = IF Oldest.name \in DOMAIN StatusOf THEN StatusOf[Oldest.name] ELSE trk.copy.status
    BY Zenon
  <2> HIDE DEF st
  <2>5. ASSUME Oldest.name \in DOMAIN StatusOf
        PROVE  (st = "completed" => Oldest.name = "completed") /\ (st = "running" => Oldest.name = "started")
    <3>1. st = StatusOf[Oldest.name] /\ Oldest.name \in {"started"} \cup TerminalFacts
      BY <2>1, <2>4, <2>5, Zenon
    <3>2. /\ StatusOf[Oldest.name] = "completed" => Oldest.name = "completed"
          /\ StatusOf[Oldest.name] = "running" => Oldest.name = "started"
      BY <2>2, <3>1, Zenon
    <3> QED
      BY <3>1, <3>2, Zenon
  <2>6. ASSUME Oldest.name \notin DOMAIN StatusOf
        PROVE  st = trk.copy.status /\ Oldest.name \in {"beat", "batch"}
    BY <2>3, <2>4, <2>6, Zenon
  <2> QED
    BY <2>5, <2>6, Zenon
<1> HIDE DEF st
<1>4. r.status = st /\ DOMAIN r = {"status", "started", "ended", "id", "req"}
  BY <1>1, <1>2, Zenon DEF Rows
<1> HIDE DEF r
<1>5. Saved(r).status = r.status
  BY <1>4, Zenon DEF Saved
<1> QED
  BY <1>3, <1>4, <1>5, Zenon DEF r

\* Whatever says completed was preceded by a commit, after every step.
LEMMA CommitStep ==
    ASSUME TypeInv, CommitInv, [Next]_vars
    PROVE  CommitInv'
<1>1. ASSUME Published, UNCHANGED trk, row' = row \/ row'.status \notin {"running", "completed"},
             commits \subseteq commits',
             \A d \in Executions : job'[d] = "committed" => job[d] = "committed" \/ commits' # {}
      PROVE  CommitInv'
  <2>1. commits # {} => commits' # {}
    BY <1>1, Zenon
  <2>2. \A e \in Executions : job'[e] = "committed" => commits' # {}
    BY <1>1, <2>1, Zenon DEF CommitInv
  <2>3. "completed" \in {trk'.copy.status, row'.status} => commits' # {}
    BY <1>1, <2>1, Zenon DEF CommitInv
  <2>4. \A i \in 1..Len(queue') : queue'[i].name = "completed" => commits' # {}
    <3>1. CASE queue' = queue
      BY <2>1, <3>1, Zenon DEF CommitInv
    <3>2. ASSUME NEW f \in Facts, queue' = Append(queue, f),
                 f.name = "completed" => \E e \in Executions : job[e] = "committed"
          PROVE  \A i \in 1..Len(queue') : queue'[i].name = "completed" => commits' # {}
      <4>1. f.name = "completed" => commits' # {}
        BY <2>1, <3>2, Zenon DEF CommitInv
      <4>2. \A i \in 1..Len(queue') : queue'[i] = f \/ (i \in 1..Len(queue) /\ queue'[i] = queue[i])
        BY <3>2, Appended
      <4> QED
        BY <2>1, <4>1, <4>2, Zenon DEF CommitInv
    <3> QED
      BY <1>1, <3>1, <3>2, Zenon DEF Published
  <2> QED
    BY <2>2, <2>3, <2>4, Zenon DEF CommitInv
<1>2. ASSUME NEW c \in Clients, Request(c) PROVE CommitInv'
  BY <1>1, <1>2, ClientPublishes, Zenon
<1>3. ASSUME NEW e \in Executions,
             Dispatch(e) \/ Collect(e) \/ Work(e) \/ Control(e) \/ Heartbeat(e) \/ Trouble(e)
      PROVE  CommitInv'
  <2>1. \A d \in Executions : job'[d] = "committed" => job[d] = "committed" \/ commits' # {}
    BY <1>3, CommittedStep, Zenon
  <2>2. Published /\ UNCHANGED <<row, trk, acc>> /\ commits \subseteq commits'
    BY <1>3, WorkerPublishes, Zenon
  <2> QED
    BY <1>1, <2>1, <2>2, Zenon
<1>4. CASE Reap \/ Produce \/ UNCHANGED vars
  BY <1>1, <1>4, OthersPublish, Zenon
<1>5. CASE Track \/ TrackerFails
  <2>1. UNCHANGED <<job, commits>>
    BY <1>5, Zenon DEF Track, Flush, Mark, Load, Save, TrackerFails, TrackerStep, jobVars, historyVars
  <2>2. queue' = queue \/ (queue # <<>> /\ queue' = Tail(queue))
    BY <1>5, Zenon DEF Track, Flush, Mark, Load, Save, TrackerFails, Delivered, TypeInv, FoldInv
  <2>3. \A i \in 1..Len(queue') : queue'[i].name = "completed" => commits' # {}
    BY <2>1, <2>2, Dropped, Zenon DEF CommitInv
  <2>4. NoFold.copy.status # "completed" /\ trk \in [pc : {"idle", "apply", "save"}, copy : Rows]
    BY Zenon DEF NoFold, NoRow, TypeInv, TypeOK, TrackerType
  <2>5. trk'.copy.status = "completed" => commits # {}
    <3>1. CASE Load
      <4>1. [NoRow EXCEPT !.status = "requested"].status = "requested"
        BY Literals, Zenon DEF Rows
      <4>2. trk'.copy = row \/ trk'.copy.status = "requested"
        BY <3>1, <4>1, Zenon DEF Load
      <4> QED
        BY <4>2, Zenon DEF CommitInv
    <3>2. CASE ~Load
      <4>1. trk' = NoFold \/ trk' = trk \/ trk' = [trk EXCEPT !.pc = "apply"]
        BY <1>5, <3>2, Zenon DEF Track, Flush, Mark, Save, TrackerFails
      <4>2. [trk EXCEPT !.pc = "apply"].copy = trk.copy
        BY <2>4, Zenon
      <4> QED
        BY <2>4, <4>1, <4>2, Zenon DEF CommitInv
    <3> QED
      BY <3>1, <3>2, Zenon
  <2>6. row'.status = "completed" => commits # {}
    <3>1. CASE Save
      <4>1. queue # <<>> /\ row' = Saved(Folded(trk.copy, Oldest))
        BY <3>1, Zenon DEF Save, TypeInv, FoldInv
      <4>2. row'.status = "completed" => Oldest.name = "completed" \/ trk.copy.status = "completed"
        BY <4>1, SavedStatus, Zenon
      <4>3. Oldest.name = "completed" => commits # {}
        BY <4>1, OldestType DEF CommitInv, TypeInv
      <4> QED
        BY <4>2, <4>3, Zenon DEF CommitInv
    <3>2. CASE ~Save
      BY <1>5, <3>2, Zenon DEF Track, Flush, Mark, Load, TrackerFails, CommitInv
    <3> QED
      BY <3>1, <3>2, Zenon
  <2> QED
    BY <2>1, <2>3, <2>5, <2>6, Zenon DEF CommitInv
<1> QED
  BY <1>2, <1>3, <1>4, <1>5, Zenon DEF Next

-----------------------------------------------------------------------------
(* Running is owned *)
=============================================================================
