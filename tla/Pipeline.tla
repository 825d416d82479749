------------------------------ MODULE Pipeline ------------------------------
(***************************************************************************)
(* The extraction loop of package pipeline: builders owned by the source,  *)
(* a bounded channel to a pool of transformers, a bounded channel to a     *)
(* pool of writers, and the tracker's view of what the writers announce.   *)
(* New builds a pipeline for a bounded run, whose source reads each part   *)
(* on its own goroutine.  NewStream builds one for the epochs of a         *)
(* continuous run: one producer, one writer, barriers and evidence.        *)
(*                                                                         *)
(* Simplifications.  Every resource has one part, so a part stands for its *)
(* resource.  The rows of a part are numbered, a cursor is the number of a *)
(* row, and a row is appended in one step.  A context or a done channel is *)
(* whether it is closed; a Go select is a choice between enabled actions.  *)
(* The tracker folds a fact in the step that publishes it.                 *)
(***************************************************************************)
EXTENDS Integers, Sequences, FiniteSets

CONSTANTS
  Parts,        \* resources, each with one builder
  Domains,      \* ordering domains of a stream
  Setups,       \* how the pipeline is built
  Depth,        \* slots of a channel per writer; the code has 2
  BatchRows,    \* rows that fill a chunk
  MaxRows,      \* bound on the rows of a part
  MaxEpochs,    \* bound on epochs bound
  MaxControls   \* bound on barriers

Counts == 0..MaxRows

\* kind: "stream" or the cursors of a bounded read.  A strict stream keeps rows
\* of all resources in order.  Named resources have a transform plan.  The runner
\* gives reads with keys, as NewStream gives streams, one writer, and gives a
\* continuous pipeline no transform.
ASSUME SetupsAssumption ==
  /\ Setups \subseteq [kind : {"keyset", "coarse", "stream"}, strict : BOOLEAN, planned : SUBSET Parts,
                       workers : Nat \ {0}, cancels : BOOLEAN, flushes : BOOLEAN,
                       rows : [Parts -> Counts]]
  /\ \A s \in Setups :
       /\ s.kind # "coarse" => s.workers = 1
       /\ s.strict => s.kind = "stream" /\ s.planned = {}
ASSUME BoundsAssumption ==
  /\ {Depth, BatchRows} \subseteq Nat \ {0}
  /\ {MaxRows, MaxEpochs, MaxControls} \subseteq Nat
  /\ Domains # {}

VARIABLES
  setup,     \* the pipeline; it never changes
  outer,     \* the context given to Start and Barrier is canceled
  canceled,  \* the pipeline's own context is canceled
  done,      \* the done channel is closed
  err,       \* errVal is set
  ch,        \* the transform channel and the writer channel
  xf, wr,    \* what each transformer and each writer holds
  ingest,    \* where CloseIngest and Wait are
  clean,     \* Extract returned nil
  src,       \* where the source is with each part, and what it is sending
  bld,       \* builders: rows ever ended, rows in the open chunk
  asked,     \* builders whose flushReq is set
  ep,        \* the stream inlet: epoch and what it has seen of it
  bar,       \* the barrier in progress
  written,   \* rows of each part applied to the sink and verified
  prog,      \* the tracker's checkpoint of each part
  order,     \* history: the rows of a strict stream, as they were appended
  evidence,  \* history: rows of each part the sealed epochs account for
  dropped,   \* history: parts with rows a transformer gave up
  marked     \* history: parts whose completion was announced

stateVars == <<outer, canceled, done, err>>
poolVars == <<ch, xf, wr>>
sourceVars == <<ingest, clean, src, bld, asked>>
streamVars == <<ep, bar>>
sinkVars == <<written, prog>>
historyVars == <<order, evidence, dropped, marked>>
vars == <<setup, stateVars, poolVars, sourceVars, streamVars, sinkVars, historyVars>>

-----------------------------------------------------------------------------
(* Types *)

Channels == {"transform", "batch"}
Pool == UNION {1..s.workers : s \in Setups}
Workers == 1..setup.workers
Stream == setup.kind = "stream"

Empty == [kind |-> "empty"]
Gone == [kind |-> "gone"]
Control == [kind |-> "control"]
Batches ==
  {b \in [kind : {"rows", "marker"}, part : Parts, lo : Counts, hi : Counts, epoch : 0..MaxEpochs] :
     b.lo <= b.hi}
Items == Batches \cup {Control}

SourcePCs == {"reading", "sending", "draining", "marking", "closing", "ended", "failed"}
Kinds == {"begin", "end", "progress", "member"}
NoBarrier == [pc |-> "none", kind |-> "progress", dom |-> CHOOSE d \in Domains : TRUE]

StateType ==
  /\ {outer, canceled, done, err} \subseteq BOOLEAN
  /\ err => done
  /\ done \/ outer => canceled

PoolType ==
  /\ ch \in [Channels -> Seq(Items)] /\ \A c \in Channels : Len(ch[c]) <= Depth * setup.workers
  /\ xf \in [Workers -> Items \cup {Empty, Gone}] /\ wr \in [Workers -> Batches \cup {Empty, Gone}]

SourceType ==
  /\ ingest \in {"extracting", "flushing", "closed", "waited"} /\ clean \in BOOLEAN
  /\ src \in [Parts -> [pc : SourcePCs, item : Batches \cup {Empty}]]
  /\ bld \in [Parts -> [total : Counts, open : 0..BatchRows]] /\ asked \subseteq Parts
  /\ \A p \in Parts : bld[p].open <= bld[p].total

StreamType ==
  /\ ep \in [n : 0..MaxEpochs, sealed : BOOLEAN, touched : BOOLEAN, completed : SUBSET Domains,
             txns : SUBSET Domains, rows : [Parts -> Nat], controls : 0..MaxControls, active : SUBSET Parts]
  /\ bar \in [pc : {"none", "flush", "wait", "receipt"}, kind : Kinds, dom : Domains]

SinkType ==
  /\ written \in [Parts -> SUBSET (1..MaxRows)]
  /\ prog \in [Parts -> [key : Counts, acked : Nat, want : Counts \cup {-1}, shard : {"open", "done"}]]

HistoryType ==
  /\ order \in Seq(Parts \X (1..MaxRows)) /\ evidence \in [Parts -> Nat]
  /\ dropped \subseteq Parts /\ marked \subseteq Parts

TypeOK ==
  setup \in Setups /\ StateType /\ PoolType /\ SourceType /\ StreamType /\ SinkType /\ HistoryType

Init ==
  /\ setup \in Setups
  /\ outer = FALSE /\ canceled = FALSE /\ done = FALSE /\ err = FALSE
  /\ ch = [c \in Channels |-> <<>>]
  /\ xf = [w \in Workers |-> Empty] /\ wr = [w \in Workers |-> Empty]
  /\ ingest = "extracting" /\ clean = TRUE
  /\ src = [p \in Parts |-> [pc |-> "reading", item |-> Empty]]
  /\ bld = [p \in Parts |-> [total |-> 0, open |-> 0]] /\ asked = {}
  /\ ep = [n |-> 0, sealed |-> FALSE, touched |-> FALSE, completed |-> {}, txns |-> {},
           rows |-> [p \in Parts |-> 0], controls |-> 0, active |-> {}]
  /\ bar = NoBarrier
  /\ written = [p \in Parts |-> {}]
  /\ prog = [p \in Parts |-> [key |-> 0, acked |-> 0, want |-> -1, shard |-> "open"]]
  /\ order = <<>> /\ evidence = [p \in Parts |-> 0] /\ dropped = {} /\ marked = {}

-----------------------------------------------------------------------------
(* Errors and cancellation *)

\* A mutant: the inlet is left to notice the canceled context.
SetErrKeepsDone == err' = TRUE /\ canceled' = TRUE /\ UNCHANGED <<outer, done>>

\* The error, the closed done and the cancellation are three writes in the code.  They
\* are one step here because nobody can tell: every check looks at the error first, and
\* a select that finds done open has its other cases, which a closed done leaves it too.
SetErr == err' = TRUE /\ done' = TRUE /\ canceled' = TRUE /\ UNCHANGED outer

Cancel ==
  /\ setup.cancels /\ ~outer /\ ingest # "waited"
  /\ outer' = TRUE /\ canceled' = TRUE
  /\ UNCHANGED <<setup, done, err, poolVars, sourceVars, streamVars, sinkVars, historyVars>>

\* The goroutine of Start that turns a canceled context into a closed done.
CloseDone ==
  /\ canceled /\ ~done
  /\ done' = TRUE
  /\ UNCHANGED <<setup, outer, canceled, err, poolVars, sourceVars, streamVars, sinkVars, historyVars>>

Ready == ~err /\ ~done

-----------------------------------------------------------------------------
(* Builders and the sends of the source *)

Room(c) == Len(ch[c]) < Depth * setup.workers
Put(c, item) == ch' = [ch EXCEPT ![c] = Append(@, item)]
Route(p) == IF p \in setup.planned THEN "transform" ELSE "batch"

Batch(p, kind, lo, hi) == [kind |-> kind, part |-> p, lo |-> lo, hi |-> hi, epoch |-> ep.n]
Chunk(p) == Batch(p, "rows", bld[p].total - bld[p].open, bld[p].total)
Marker(p) == Batch(p, "marker", 0, bld[p].total)
Hand(p, pc, item) == src' = [src EXCEPT ![p] = [pc |-> pc, item |-> item]]

\* Operations of a stream are serialised; those of a bounded source only per part.
Free(p) == src[p].pc = "reading" /\ (Stream => bar.pc = "none" /\ \A q \in Parts : src[q].item = Empty)
Producing(p) == ingest = "extracting" /\ Free(p)

\* A mutant: a writer switch flushes nothing.
SwitchedAlways(p) == TRUE

\* The resource a strict stream wrote before p has no rows left to flush.
Switched(p) == setup.strict => \A q \in ep.active \ {p} : bld[q].open = 0

\* beforeWrite and EndRow: a full chunk, or one the timer asked for, is flushed.
Row(p) ==
  LET open == bld[p].open + 1
      total == bld[p].total + 1
      full == open >= BatchRows \/ p \in asked
  IN
  /\ Producing(p) /\ total <= setup.rows[p]
  /\ Stream => Ready /\ ~ep.sealed /\ Switched(p)
  /\ bld' = [bld EXCEPT ![p].total = total, ![p].open = IF full THEN 0 ELSE open]
  /\ IF full THEN Hand(p, "sending", Batch(p, "rows", total - open, total)) ELSE UNCHANGED src
  /\ ep' = IF Stream THEN [ep EXCEPT !.touched = TRUE, !.completed = {}, !.active = {p}] ELSE ep
  /\ order' = IF setup.strict THEN Append(order, <<p, total>>) ELSE order
  /\ UNCHANGED <<setup, stateVars, poolVars, ingest, clean, asked, bar, sinkVars, evidence, dropped, marked>>

\* A source that is idle flushes; so does a strict stream before another resource.
Flush(p) ==
  /\ Producing(p) /\ bld[p].open > 0
  /\ setup.flushes \/ (setup.strict /\ p \in ep.active)
  /\ Stream => ~err
  /\ Hand(p, "sending", Chunk(p)) /\ bld' = [bld EXCEPT ![p].open = 0]
  /\ UNCHANGED <<setup, stateVars, poolVars, ingest, clean, asked, streamVars, sinkVars, historyVars>>

\* A bounded part is read: Drain flushes and queues the completion marker.
Drain(p) ==
  /\ ~Stream /\ Producing(p)
  /\ IF bld[p].open > 0 THEN Hand(p, "draining", Chunk(p)) ELSE Hand(p, "marking", Marker(p))
  /\ bld' = [bld EXCEPT ![p].open = 0]
  /\ UNCHANGED <<setup, stateVars, poolVars, ingest, clean, asked, streamVars, sinkVars, historyVars>>

\* A bounded part is read without a marker, or its reader fails.
SourceEnds(p) ==
  /\ ~Stream /\ Producing(p)
  /\ \E pc \in {"ended", "failed"} : Hand(p, pc, Empty)
  /\ UNCHANGED <<setup, stateVars, poolVars, ingest, clean, bld, asked, streamVars, sinkVars, historyVars>>

\* The ticker asks every builder to flush.
Tick ==
  /\ setup.flushes /\ ingest = "extracting" /\ ~canceled
  /\ asked # Parts
  /\ asked' = Parts
  /\ UNCHANGED <<setup, stateVars, poolVars, ingest, clean, src, bld, streamVars, sinkVars, historyVars>>

AfterSend(p) ==
  CASE src[p].pc = "sending" -> [pc |-> "reading", item |-> Empty]
    [] src[p].pc = "draining" -> [pc |-> "marking", item |-> Marker(p)]
    [] OTHER -> [pc |-> "ended", item |-> Empty]

Send(p) ==
  /\ src[p].item # Empty /\ Room(Route(p))
  /\ Put(Route(p), src[p].item)
  /\ src' = [src EXCEPT ![p] = AfterSend(p)]
  /\ asked' = asked \ {p}
  /\ UNCHANGED <<setup, stateVars, xf, wr, ingest, clean, bld, streamVars, sinkVars, historyVars>>

\* done is closed: the batch is released and the source gets the error.  In a
\* stream, and in the flush of CloseIngest, that error fails the pipeline.
SendRefused(p) ==
  /\ src[p].item # Empty /\ done
  /\ IF Stream \/ src[p].pc = "closing" THEN SetErr ELSE UNCHANGED stateVars
  /\ Hand(p, IF Stream THEN "reading" ELSE "failed", Empty)
  /\ ingest' = IF src[p].pc = "closing" THEN "closed" ELSE ingest
  /\ bar' = [bar EXCEPT !.pc = "none"]
  /\ UNCHANGED <<setup, poolVars, clean, bld, asked, ep, sinkVars, historyVars>>

-----------------------------------------------------------------------------
(* CloseIngest and Wait *)

\* A mutant: nothing is flushed after Extract.
CloseIngestDiscards ==
  /\ ingest = "extracting"
  /\ IF Stream THEN bar.pc = "none" /\ \A p \in Parts : src[p].item = Empty
               ELSE \A p \in Parts : src[p].pc \in {"ended", "failed"}
  /\ clean' \in IF Stream THEN IF ep.txns = {} THEN BOOLEAN ELSE {FALSE}
                          ELSE {\A p \in Parts : src[p].pc = "ended"}
  /\ ingest' = "closed"
  /\ IF Stream /\ ~clean' THEN SetErr ELSE UNCHANGED stateVars
  /\ UNCHANGED <<setup, poolVars, src, bld, asked, streamVars, sinkVars, historyVars>>

\* A bounded source returns when all its parts have ended; a stream session
\* returns between two operations.
CloseIngest ==
  /\ ingest = "extracting"
  /\ IF Stream THEN bar.pc = "none" /\ \A p \in Parts : src[p].item = Empty
               ELSE \A p \in Parts : src[p].pc \in {"ended", "failed"}
  /\ clean' \in IF Stream THEN IF ep.txns = {} THEN BOOLEAN ELSE {FALSE}
                          ELSE {\A p \in Parts : src[p].pc = "ended"}
  /\ ingest' = IF clean' THEN "flushing" ELSE "closed"
  /\ IF Stream /\ ~clean' THEN SetErr ELSE UNCHANGED stateVars
  /\ UNCHANGED <<setup, poolVars, src, bld, asked, streamVars, sinkVars, historyVars>>

CloseFlush(p) ==
  /\ ingest = "flushing" /\ bld[p].open > 0
  /\ Stream => ~err
  /\ \A q \in Parts : src[q].item = Empty
  /\ Hand(p, "closing", Chunk(p)) /\ bld' = [bld EXCEPT ![p].open = 0]
  /\ UNCHANGED <<setup, stateVars, poolVars, ingest, clean, asked, streamVars, sinkVars, historyVars>>

\* A mutant: a flush that fails returns before the channel is closed.
CloseChannelFlushed ==
  /\ ingest = "flushing"
  /\ \A p \in Parts : src[p].item = Empty /\ bld[p].open = 0
  /\ ingest' = "closed"
  /\ UNCHANGED <<setup, stateVars, poolVars, clean, src, bld, asked, streamVars, sinkVars, historyVars>>

\* Everything is flushed, or the flush of a failed stream returns its error; the
\* transform channel is closed.
CloseChannel ==
  /\ ingest = "flushing"
  /\ \A p \in Parts : src[p].item = Empty
  /\ (\A p \in Parts : bld[p].open = 0) \/ (Stream /\ err)
  /\ ingest' = "closed"
  /\ UNCHANGED <<setup, stateVars, poolVars, clean, src, bld, asked, streamVars, sinkVars, historyVars>>

\* Wait returns Err after the writers exited.
Wait ==
  /\ ingest = "closed" /\ \A w \in Workers : wr[w] = Gone
  /\ ingest' = "waited" /\ canceled' = TRUE
  /\ UNCHANGED <<setup, outer, done, err, poolVars, clean, src, bld, asked, streamVars, sinkVars, historyVars>>

-----------------------------------------------------------------------------
(* Transformers *)

\* Queued batches of a failed pipeline are released, never transformed.
TakeTransform(w) ==
  /\ xf[w] = Empty /\ ch["transform"] # <<>>
  /\ xf' = [xf EXCEPT ![w] = IF err THEN Empty ELSE Head(ch["transform"])]
  /\ ch' = [ch EXCEPT !["transform"] = Tail(@)]
  /\ UNCHANGED <<setup, stateVars, wr, sourceVars, streamVars, sinkVars, historyVars>>

\* The plan fails or panics; markers and controls have none.
TransformFails(w) ==
  /\ xf[w].kind = "rows"
  /\ xf' = [xf EXCEPT ![w] = Empty] /\ SetErr
  /\ UNCHANGED <<setup, ch, wr, sourceVars, streamVars, sinkVars, historyVars>>

Forward(w) ==
  /\ xf[w] \in Items /\ Room("batch")
  /\ Put("batch", xf[w]) /\ xf' = [xf EXCEPT ![w] = Empty]
  /\ UNCHANGED <<setup, stateVars, wr, sourceVars, streamVars, sinkVars, historyVars>>

\* done is closed: the batch is released and nothing else happens.
ForwardRefused(w) ==
  /\ xf[w] \in Items /\ done
  /\ xf' = [xf EXCEPT ![w] = Empty]
  /\ dropped' = IF xf[w].kind = "rows" THEN dropped \cup {xf[w].part} ELSE dropped
  /\ UNCHANGED <<setup, stateVars, ch, wr, sourceVars, streamVars, sinkVars, order, evidence, marked>>

ExitTransformer(w) ==
  /\ xf[w] = Empty /\ ch["transform"] = <<>> /\ ingest = "closed"
  /\ xf' = [xf EXCEPT ![w] = Gone]
  /\ UNCHANGED <<setup, stateVars, ch, wr, sourceVars, streamVars, sinkVars, historyVars>>

Transformer(w) ==
  /\ w \in Workers
  /\ TakeTransform(w) \/ TransformFails(w) \/ Forward(w) \/ ForwardRefused(w) \/ ExitTransformer(w)

-----------------------------------------------------------------------------
(* Writers *)

\* A batch taken from a failed pipeline, or by a stream whose context is canceled,
\* is released.  A control completes its barrier.
TakeBatch(w) ==
  LET item == Head(ch["batch"])
      stops == Stream /\ canceled
      refused == err \/ stops
  IN
  /\ wr[w] = Empty /\ ch["batch"] # <<>>
  /\ ch' = [ch EXCEPT !["batch"] = Tail(@)]
  /\ IF stops THEN SetErr ELSE UNCHANGED stateVars
  /\ bar' = IF item = Control /\ ~refused THEN [bar EXCEPT !.pc = IF @ = "wait" THEN "receipt" ELSE @] ELSE bar
  /\ wr' = [wr EXCEPT ![w] = IF refused \/ item = Control THEN Empty ELSE item]
  /\ UNCHANGED <<setup, xf, sourceVars, ep, sinkVars, historyVars>>

Rows(b) == b.lo + 1 .. b.hi

\* A mutant: the marker alone completes a part.
FoldMarkerCompletes(b) ==
  LET a == prog[b.part] IN
  IF setup.kind = "keyset" THEN [a EXCEPT !.key = b.hi]
  ELSE [a EXCEPT !.shard = IF b.kind = "marker" THEN "done" ELSE @]

\* foldCursor and foldBitmap on the delta of a batch: a key of the part, or rows
\* written or wanted.  A stream's batches carry no cursor.
Fold(b) ==
  LET a == prog[b.part]
      acked == a.acked + IF b.kind = "rows" THEN b.hi - b.lo ELSE 0
      want == IF b.kind = "marker" THEN b.hi ELSE a.want
  IN CASE setup.kind = "keyset" -> [a EXCEPT !.key = b.hi]
       [] setup.kind = "coarse" ->
            [a EXCEPT !.acked = acked, !.want = want,
                      !.shard = IF want >= 0 /\ acked >= want THEN "done" ELSE @]
       [] OTHER -> a

\* The batch passes Apply and the comparison of checksums, and its fact is
\* published.
Write(w) ==
  LET b == wr[w] IN
  /\ b \in Batches
  /\ wr' = [wr EXCEPT ![w] = Empty]
  /\ written' = IF b.kind = "rows" THEN [written EXCEPT ![b.part] = @ \cup Rows(b)] ELSE written
  /\ ep' = IF b.epoch > 0 THEN [ep EXCEPT !.rows[b.part] = @ + b.hi - b.lo] ELSE ep
  /\ prog' = [prog EXCEPT ![b.part] = Fold(b)]
  /\ marked' = IF b.kind = "marker" THEN marked \cup {b.part} ELSE marked
  /\ UNCHANGED <<setup, stateVars, ch, xf, sourceVars, bar, order, evidence, dropped>>

\* Apply fails or panics, its receipt falls short, or the checksums differ.
WriteFails(w) ==
  /\ wr[w] \in Batches
  /\ wr' = [wr EXCEPT ![w] = Empty] /\ SetErr
  /\ UNCHANGED <<setup, ch, xf, sourceVars, streamVars, sinkVars, historyVars>>

\* The writer channel is closed when the transformers are gone.
ExitWriter(w) ==
  /\ wr[w] = Empty /\ ch["batch"] = <<>> /\ \A t \in Workers : xf[t] = Gone
  /\ wr' = [wr EXCEPT ![w] = Gone]
  /\ UNCHANGED <<setup, stateVars, ch, xf, sourceVars, streamVars, sinkVars, historyVars>>

Writer(w) ==
  /\ w \in Workers
  /\ TakeBatch(w) \/ Write(w) \/ WriteFails(w) \/ ExitWriter(w)

-----------------------------------------------------------------------------
(* Epochs and barriers of a stream *)

Serial == Stream /\ ingest = "extracting" /\ bar.pc = "none" /\ \A p \in Parts : src[p].item = Empty

BindEpoch ==
  /\ Serial /\ Ready /\ ep.n < MaxEpochs
  /\ IF ep.n = 0 THEN ~ep.touched ELSE ep.sealed
  /\ ep' = [ep EXCEPT !.n = @ + 1, !.sealed = FALSE, !.completed = {}, !.rows = [p \in Parts |-> 0]]
  /\ UNCHANGED <<setup, stateVars, poolVars, sourceVars, bar, sinkVars, historyVars>>

SealEpoch ==
  /\ Serial /\ Ready
  /\ ep.n > 0 /\ ~ep.sealed /\ ep.txns = {} /\ ep.completed # {}
  /\ ep' = [ep EXCEPT !.sealed = TRUE]
  /\ evidence' = [p \in Parts |-> evidence[p] + ep.rows[p]]
  /\ UNCHANGED <<setup, stateVars, poolVars, sourceVars, bar, sinkVars, order, dropped, marked>>

\* validateControl: a transaction ends where it is open; everything else, a begin, a
\* progress boundary or an activated member, waits for its end.
Allowed(kind, d) == IF kind = "end" THEN d \in ep.txns ELSE d \notin ep.txns

\* A row after the seal, a control of a canceled caller, or one out of place fails the
\* pipeline.
Misuse ==
  /\ Serial /\ Ready
  /\ \/ ep.sealed
     \/ outer
     \/ \E kind \in Kinds, d \in Domains : ~Allowed(kind, d)
  /\ SetErr
  /\ UNCHANGED <<setup, poolVars, sourceVars, streamVars, sinkVars, historyVars>>

Barrier(kind, d) ==
  /\ Serial /\ Ready /\ ~ep.sealed /\ ~outer
  /\ ep.controls < MaxControls
  /\ Allowed(kind, d)
  /\ bar' = [pc |-> "flush", kind |-> kind, dom |-> d]
  /\ ep' = [ep EXCEPT !.touched = TRUE, !.controls = @ + 1]
  /\ UNCHANGED <<setup, stateVars, poolVars, sourceVars, sinkVars, historyVars>>

BarrierFlush(p) ==
  /\ bar.pc = "flush" /\ ~err /\ bld[p].open > 0
  /\ \A q \in Parts : src[q].item = Empty
  /\ Hand(p, "sending", Chunk(p)) /\ bld' = [bld EXCEPT ![p].open = 0]
  /\ UNCHANGED <<setup, stateVars, poolVars, ingest, clean, asked, streamVars, sinkVars, historyVars>>

Flushed == \A p \in Parts : bld[p].open = 0 /\ src[p].item = Empty

\* A mutant: the control does not follow the batches of the transformers.
BarrierOvertakes ==
  /\ bar.pc = "flush" /\ Flushed /\ Room("batch")
  /\ Put("batch", Control)
  /\ bar' = [bar EXCEPT !.pc = "wait"]
  /\ UNCHANGED <<setup, stateVars, xf, wr, sourceVars, ep, sinkVars, historyVars>>

\* With a transform the control enters behind the batches that were flushed.
BarrierQueue ==
  LET c == IF setup.planned # {} THEN "transform" ELSE "batch" IN
  /\ bar.pc = "flush" /\ Flushed /\ Room(c)
  /\ Put(c, Control)
  /\ bar' = [bar EXCEPT !.pc = "wait"]
  /\ UNCHANGED <<setup, stateVars, xf, wr, sourceVars, ep, sinkVars, historyVars>>

\* A mutant: only a failed flush ends the wait.
BarrierIgnoresDone ==
  /\ bar.pc = "flush" /\ err /\ \A p \in Parts : src[p].item = Empty
  /\ bar' = [bar EXCEPT !.pc = "none"]
  /\ UNCHANGED <<setup, stateVars, poolVars, sourceVars, ep, sinkVars, historyVars>>

\* done is closed while the control waits for room or for its receipt, or a flush
\* finds the pipeline failed.
BarrierFails ==
  /\ \/ bar.pc = "flush" /\ err /\ \A p \in Parts : src[p].item = Empty
     \/ bar.pc = "flush" /\ done /\ Flushed
     \/ bar.pc \in {"wait", "receipt"} /\ done
  /\ bar' = [bar EXCEPT !.pc = "none"]
  /\ UNCHANGED <<setup, stateVars, poolVars, sourceVars, ep, sinkVars, historyVars>>

\* The caller's context is canceled during a barrier.
BarrierCanceled ==
  /\ bar.pc # "none" /\ outer /\ ~err
  /\ SetErr
  /\ UNCHANGED <<setup, poolVars, sourceVars, streamVars, sinkVars, historyVars>>

\* The receipt arrived: acceptControl, and a boundary completes its domain when no
\* transaction is open.
BarrierReturns ==
  LET txns == CASE bar.kind = "begin" -> ep.txns \cup {bar.dom}
                [] bar.kind = "end" -> ep.txns \ {bar.dom}
                [] OTHER -> ep.txns
      completes == ep.n > 0 /\ txns = {} /\ bar.kind \in {"end", "progress"}
  IN
  /\ bar.pc = "receipt"
  /\ bar' = [bar EXCEPT !.pc = "none"]
  /\ IF outer THEN SetErr ELSE UNCHANGED stateVars
  /\ ep' = IF Ready /\ ~outer
             THEN [ep EXCEPT !.txns = txns, !.completed = IF completes THEN @ \cup {bar.dom} ELSE @]
             ELSE ep
  /\ UNCHANGED <<setup, poolVars, sourceVars, sinkVars, historyVars>>

Epoch ==
  \/ BindEpoch \/ SealEpoch \/ Misuse
  \/ \E kind \in Kinds, d \in Domains : Barrier(kind, d)
  \/ \E p \in Parts : BarrierFlush(p)
  \/ BarrierQueue \/ BarrierFails \/ BarrierCanceled \/ BarrierReturns

-----------------------------------------------------------------------------
(* Specification *)

Source(p) == Row(p) \/ Flush(p) \/ Drain(p) \/ SourceEnds(p) \/ Send(p) \/ SendRefused(p) \/ CloseFlush(p)

Next ==
  \/ Cancel \/ CloseDone \/ Tick
  \/ \E p \in Parts : Source(p)
  \/ CloseIngest \/ CloseChannel \/ Wait
  \/ \E w \in Pool : Transformer(w) \/ Writer(w)
  \/ Epoch

Spec == Init /\ [][Next]_vars

\* Goroutines run, Apply returns, and a source either reads on or returns.  A
\* stream session returns once the pipeline failed or the run is canceled.
Fairness ==
  /\ WF_vars(CloseDone) /\ WF_vars(CloseChannel) /\ WF_vars(Wait)
  /\ WF_vars(CloseIngest /\ (Stream => outer \/ err))
  /\ \A p \in Parts : WF_vars(Source(p))
  /\ \A w \in Pool : WF_vars(Transformer(w)) /\ WF_vars(Writer(w))
  /\ WF_vars(BarrierQueue \/ BarrierFails \/ BarrierReturns)
  /\ \A p \in Parts : WF_vars(BarrierFlush(p))

FairSpec == Spec /\ Fairness

-----------------------------------------------------------------------------
(* Properties *)

All(p) == 1..bld[p].total

\* The checkpoint of a part never covers a row the sink does not hold: a key only
\* moves past rows that were written (one writer keeps their order), and a part
\* counts as done only when all its rows were.  The exception are rows a
\* transformer gave up after a cancellation, which a later key skips.
CursorCovered ==
  \A p \in Parts :
    /\ p \notin dropped => 1..prog[p].key \subseteq written[p]
    /\ prog[p].shard = "done" => written[p] = All(p)

\* A bounded pipeline whose source returned nil and whose Wait returns nil has
\* written every row, except what a transformer gave up after a cancellation.
SuccessIsComplete ==
  ingest = "waited" /\ clean /\ ~err => \A p \in Parts \ dropped : written[p] = All(p)

\* The totals SealEpoch returns account for every row of every resource, once, and all
\* of them were applied and verified: nothing is left in a builder, a channel or a pool.
EvidenceIsExact ==
  ep.sealed => \A p \in Parts : written[p] = All(p) /\ evidence[p] = bld[p].total

\* The row that was appended at place i of a strict stream has been written.
Applied(i) == order[i][2] \in written[order[i][1]]

\* A stream of global strict order applies rows in the order they were appended,
\* across resources.
StrictOrder == \A i \in 2..Len(order) : Applied(i) => Applied(i - 1)

\* A pipeline ends: a source blocked on a full channel is released when a writer
\* fails or the run is canceled, and every goroutine exits.
PipelineEnds == (~Stream \/ outer \/ err) ~> ingest = "waited"

\* Barrier returns, with its receipt or with the failure.
BarrierEnds == bar.pc # "none" ~> bar.pc = "none"

\* Markers take the same channel as rows so that the completion of a part never
\* overtakes its data: when it is announced, every row of the part is written.
CompletionFollowsData == \A p \in marked : written[p] = All(p)
=============================================================================
