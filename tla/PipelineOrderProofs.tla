------------------------ MODULE PipelineOrderProofs -------------------------
(***************************************************************************)
(* Order in a stream: the control of a barrier has every row ahead of it,  *)
(* and a strict stream moves rows from stage to stage in the order they were*)
(* appended.                                                               *)
(***************************************************************************)
EXTENDS PipelineBatchProofs

\* Every row that was read is written.
Settled == \A p \in Parts : written[p] = All(p)

\* The control of a barrier is the last of what its channel holds.
LastOnly(s) == \A i \in 1..Len(s) : s[i] = Control => i = Len(s)

\* Until the run is canceled a control has every batch ahead of it: in its
\* channel, and no batch is left upstream.
FenceInv ==
  /\ bar.pc \in {"wait", "receipt"} => Flushed
  /\ ~canceled =>
       /\ LastOnly(ch["batch"]) /\ LastOnly(ch["transform"])
       /\ Control \in Range(ch["transform"]) => bar.pc = "wait"
       /\ \A w \in Workers : xf[w] = Control => bar.pc = "wait" /\ ch["transform"] = <<>>
       /\ Control \in Range(ch["batch"]) =>
            bar.pc = "wait" /\ ch["transform"] = <<>> /\ \A w \in Workers : xf[w] \notin Items

\* At the start there is no barrier.
LEMMA FenceInit == Init => FenceInv
  <1> SUFFICES ASSUME Init PROVE FenceInv BY Zenon
  <1>1. ch["batch"] = <<>> /\ ch["transform"] = <<>> BY Zenon DEF Init, Channels
  <1>2. \A w \in Workers : xf[w] = Empty BY Zenon DEF Init
  <1>3. Range(<<>>) = {} BY DEF Range
  <1>4. LastOnly(<<>>) BY DEF LastOnly
  <1>5. bar.pc = "none" BY Zenon DEF Init, NoBarrier
  <1> QED BY <1>1, <1>2, <1>3, <1>4, <1>5 DEF FenceInv, Empty, Control

\* A control stays the last of its channel while items leave at the head.
LEMMA LastFacts ==
  ASSUME NEW S, NEW s \in Seq(S)
  PROVE  /\ Control \notin Range(s) => LastOnly(s) /\ \A x \in S : LastOnly(Append(s, x))
         /\ LastOnly(s) /\ s # <<>> => LastOnly(Tail(s)) /\ (Head(s) = Control => Tail(s) = <<>>)
  <1>1. ASSUME Control \notin Range(s) PROVE LastOnly(s) /\ \A x \in S : LastOnly(Append(s, x))
    <2>1. \A i \in 1..Len(s) : s[i] # Control BY <1>1 DEF Range
    <2>2. ASSUME NEW x \in S, NEW i \in 1..Len(Append(s, x)), Append(s, x)[i] = Control PROVE i = Len(Append(s, x))
      <3>1. Len(Append(s, x)) = Len(s) + 1 /\ Len(s) \in Nat BY SeqFacts
      <3>2. i \in 1..Len(s) => Append(s, x)[i] = s[i] BY SeqFacts
      <3> QED BY <2>1, <2>2, <3>1, <3>2
    <2> QED BY <2>1, <2>2, Zenon DEF LastOnly
  <1>2. ASSUME LastOnly(s), s # <<>> PROVE LastOnly(Tail(s)) /\ (Head(s) = Control => Tail(s) = <<>>)
    <2>1. Len(s) \in Nat /\ Len(s) > 0 /\ Tail(s) \in Seq(S) /\ Len(Tail(s)) = Len(s) - 1 /\ Head(s) = s[1]
          /\ \A i \in 1..Len(Tail(s)) : Tail(s)[i] = s[i + 1]
      BY <1>2, SeqFacts
    <2> DEFINE n == Len(s)
               t == Tail(s)
    <2>2. \A i \in 1..n : s[i] = Control => i = n BY <1>2, Zenon DEF LastOnly
    <2>3. ASSUME NEW i \in 1..Len(t), t[i] = Control PROVE i = Len(t)
      <3>1. i + 1 \in 1..n /\ s[i + 1] = Control BY <2>1, <2>3
      <3>2. i + 1 = n BY <2>2, <3>1, Zenon
      <3>3. Len(t) = n - 1 /\ n \in Nat /\ i \in Int BY <2>1
      <3> HIDE DEF n, t
      <3> QED BY <3>2, <3>3
    <2>4. LastOnly(t) BY <2>3, Zenon DEF LastOnly
    <2>5. Head(s) = Control => Len(t) = 0
      <3>1. 1 \in 1..n BY <2>1
      <3>2. Head(s) = Control => n = 1 BY <2>1, <2>2, <3>1, Zenon
      <3> QED BY <2>1, <3>2
    <2> QED BY <2>1, <2>4, <2>5, SeqFacts, Zenon
  <1> QED BY <1>1, <1>2, Zenon

\* How a barrier moves.
LEMMA BarMoves ==
  ASSUME TypeOK, [Next]_vars
  PROVE  \/ bar'.pc = bar.pc
         \/ bar'.pc = "none" /\ (canceled \/ bar.pc = "receipt")
         \/ bar'.pc = "flush" /\ bar.pc = "none"
         \/ BarrierQueue /\ bar'.pc = "wait"
         \/ \E w \in Workers : /\ TakeBatch(w) /\ bar.pc = "wait" /\ bar'.pc = "receipt"
                               /\ Head(ch["batch"]) = Control /\ ~err /\ ~(Stream /\ canceled)
  <1>1. bar \in [pc : {"none", "flush", "wait", "receipt"}, kind : Kinds, dom : Domains] BY Zenon DEF TypeOK, StreamType
  <1>2. ASSUME NEW p \in Parts, SendRefused(p) PROVE bar'.pc = "none" /\ canceled
    <2>1. done /\ bar' = [bar EXCEPT !.pc = "none"] BY <1>2, Zenon DEF SendRefused
    <2> QED BY <1>1, <2>1, Zenon DEF TypeOK, StateType
  <1>3. ASSUME NEW w \in Workers, TakeBatch(w), bar' # bar
        PROVE  bar'.pc = bar.pc \/
               (bar.pc = "wait" /\ bar'.pc = "receipt" /\ Head(ch["batch"]) = Control /\ ~err /\ ~(Stream /\ canceled))
    <2>1. /\ Head(ch["batch"]) = Control /\ ~err /\ ~(Stream /\ canceled)
          /\ bar' = [bar EXCEPT !.pc = IF @ = "wait" THEN "receipt" ELSE @]
      BY <1>3, Zenon DEF TakeBatch
    <2> QED BY <1>1, <2>1, Zenon
  <1>4. ASSUME NEW k \in Kinds, NEW d \in Domains, Barrier(k, d) PROVE bar'.pc = "flush" /\ bar.pc = "none"
    BY <1>4, Zenon DEF Barrier, Serial
  <1>5. BarrierQueue => bar'.pc = "wait"
    <2>1. BarrierQueue => bar' = [bar EXCEPT !.pc = "wait"] BY Zenon DEF BarrierQueue
    <2> QED BY <1>1, <2>1, Zenon
  <1>6. BarrierFails => bar'.pc = "none" /\ canceled
    <2>1. BarrierFails => bar' = [bar EXCEPT !.pc = "none"] /\ (err \/ done) BY Zenon DEF BarrierFails
    <2> QED BY <1>1, <2>1, Zenon DEF TypeOK, StateType
  <1>7. BarrierReturns => bar'.pc = "none" /\ bar.pc = "receipt"
    <2>1. BarrierReturns => bar' = [bar EXCEPT !.pc = "none"] /\ bar.pc = "receipt" BY Zenon DEF BarrierReturns
    <2> QED BY <1>1, <2>1, Zenon
  <1>8. \/ bar' = bar \/ BarrierQueue \/ BarrierFails \/ BarrierReturns
        \/ \E p \in Parts : SendRefused(p)
        \/ \E w \in Workers : TakeBatch(w)
        \/ \E k \in Kinds, d \in Domains : Barrier(k, d)
    <2>1. ASSUME NEW p \in Parts, Source(p) PROVE bar' = bar \/ SendRefused(p)
      BY <2>1, Zenon DEF Source, Row, Flush, Drain, SourceEnds, Send, CloseFlush, streamVars
    <2>2. Cancel \/ CloseDone \/ Tick \/ CloseIngest \/ CloseChannel \/ Wait => bar' = bar
      BY Zenon DEF Cancel, CloseDone, Tick, CloseIngest, CloseChannel, Wait, streamVars
    <2>3. ASSUME NEW w, Transformer(w) PROVE bar' = bar
      BY <2>3, Zenon DEF Transformer, TakeTransform, TransformFails, Forward, ForwardRefused, ExitTransformer, streamVars
    <2>4. ASSUME NEW w, Writer(w) PROVE bar' = bar \/ (w \in Workers /\ TakeBatch(w))
      BY <2>4, Zenon DEF Writer, Write, WriteFails, ExitWriter, streamVars
    <2>5. Epoch => \/ bar' = bar \/ BarrierQueue \/ BarrierFails \/ BarrierReturns
                   \/ \E k \in Kinds, d \in Domains : Barrier(k, d)
      BY Zenon DEF Epoch, BindEpoch, SealEpoch, Misuse, BarrierFlush, BarrierCanceled, streamVars
    <2>6. UNCHANGED vars => bar' = bar BY Zenon DEF vars, streamVars
    <2> QED BY <2>1, <2>2, <2>3, <2>4, <2>5, <2>6, Zenon DEF Next
  <1> QED BY <1>2, <1>3, <1>4, <1>5, <1>6, <1>7, <1>8, Zenon

\* BarrierQueue sends the control after the last chunk, and no row is read until the
\* barrier returns.
LEMMA FenceStep == TypeOK /\ SourceInv /\ RouteInv /\ FenceInv /\ [Next]_vars => FenceInv'
  \* Nothing is handed out while a control is on its way.
  <1>FlushedKept. ASSUME TypeOK, SourceInv, Flushed, bar.pc \in {"wait", "receipt"}, [Next]_vars
                  PROVE  Flushed'
    <2> USE <1>FlushedKept
    <2>1. Stream /\ ingest = "extracting" BY Zenon DEF SourceInv
    <2>2. \A p \in Parts : src[p].item = Empty /\ bld[p].open = 0 BY Zenon DEF Flushed
    <2>3. UNCHANGED <<src, bld>> => Flushed' BY Zenon DEF Flushed
    <2>4. ASSUME NEW p \in Parts, Source(p) \/ BarrierFlush(p) PROVE FALSE
      <3>1. ~Row(p) /\ ~Flush(p) BY <2>1, Zenon DEF Row, Flush, Producing, Free
      <3>2. ~Drain(p) /\ ~SourceEnds(p) BY <2>1, Zenon DEF Drain, SourceEnds
      <3>3. ~Send(p) /\ ~SendRefused(p) /\ ~CloseFlush(p) BY <2>1, <2>2, Zenon DEF Send, SendRefused, CloseFlush
      <3>4. ~BarrierFlush(p) BY Zenon DEF BarrierFlush
      <3> QED BY <2>4, <3>1, <3>2, <3>3, <3>4, Zenon DEF Source
    <2>5. Tick \/ CloseIngest \/ CloseChannel \/ Wait => UNCHANGED <<src, bld>>
      BY Zenon DEF Tick, CloseIngest, CloseChannel, Wait
    <2> QED BY <2>3, <2>4, <2>5, SourceStill, Zenon
  \* Without a cancellation a control waits until a writer takes it.
  <1>WaitKept. ASSUME TypeOK, [Next]_vars, ~canceled, bar.pc = "wait", \A w \in Workers : ~TakeBatch(w)
               PROVE  bar'.pc = "wait"
    <2> USE <1>WaitKept
    <2>1. ~BarrierQueue BY Zenon DEF BarrierQueue
    <2> QED BY <2>1, BarMoves, Zenon
  <1> SUFFICES ASSUME TypeOK, SourceInv, RouteInv, FenceInv, [Next]_vars PROVE FenceInv' BY Zenon
  <1> DEFINE C(x) == Control \in Range(x)
             b == ch["batch"]
             t == ch["transform"]
  <1>1. (bar.pc \in {"wait", "receipt"} => Flushed)'
    <2>1. CASE bar.pc \in {"wait", "receipt"} BY <2>1, <1>FlushedKept, Zenon DEF FenceInv
    <2>2. BarrierQueue => Flushed' BY Zenon DEF BarrierQueue, Flushed, sourceVars
    <2> QED BY <2>1, <2>2, BarMoves, Zenon
  <1>2. SUFFICES ASSUME ~canceled'
                 PROVE  /\ LastOnly(b') /\ LastOnly(t')
                        /\ C(t') => bar'.pc = "wait"
                        /\ \A w \in Workers : xf'[w] = Control => bar'.pc = "wait" /\ t' = <<>>
                        /\ C(b') => bar'.pc = "wait" /\ t' = <<>> /\ \A w \in Workers : xf'[w] \notin Items
    <2>1. setup' = setup BY StateMoves, Zenon
    <2> QED BY <1>1, <1>2, <2>1, Zenon DEF FenceInv, Workers
  <1>3. ~canceled BY <1>2, StateMoves, Zenon
  <1>4. /\ LastOnly(b) /\ LastOnly(t) /\ (C(t) => bar.pc = "wait")
        /\ \A w \in Workers : xf[w] = Control => bar.pc = "wait" /\ t = <<>>
        /\ C(b) => bar.pc = "wait" /\ t = <<>> /\ \A w \in Workers : xf[w] \notin Items
    BY <1>3, Zenon DEF FenceInv
  <1>5. /\ ch \in [Channels -> Seq(Items)] /\ "batch" \in Channels /\ "transform" \in Channels
        /\ b \in Seq(Items) /\ t \in Seq(Items)
        /\ xf \in [Workers -> Items \cup {Empty, Gone}]
    BY Zenon DEF TypeOK, PoolType, Channels
  <1>6. Control \in Items /\ Control \notin Batches /\ Empty \notin Items /\ Gone \notin Items /\ ~C(<<>>)
    BY DEF Items, Batches, Control, Empty, Gone, Range
  <1>7. ~err /\ ~done BY <1>3, Zenon DEF TypeOK, StateType
  <1>8. bar.pc = "wait" => \A v, w \in Workers : v = w
    <2>1. bar.pc = "wait" => setup.kind # "coarse" BY Zenon DEF SourceInv, Stream
    <2> QED BY <2>1, SetupFacts DEF TypeOK, Workers
  <1> HIDE DEF b, t
  <1>9. CASE UNCHANGED <<ch, xf, wr>>
    <2>1. ASSUME NEW w \in Workers, TakeBatch(w) PROVE FALSE
      <3>1. b # <<>> /\ ch' = [ch EXCEPT !["batch"] = Tail(@)] BY <2>1, Zenon DEF TakeBatch, b
      <3>2. b = Tail(b) BY <1>5, <1>9, <3>1, Zenon DEF b
      <3>3. Len(b) = Len(b) - 1 /\ Len(b) \in Nat BY <1>5, <3>1, <3>2, SeqFacts, Zenon
      <3> QED BY <3>3
    <2>2. bar.pc = "wait" => bar'.pc = "wait" BY <1>3, <2>1, <1>WaitKept, Zenon
    <2>3. b' = b /\ t' = t /\ xf' = xf BY <1>9, Zenon DEF b, t
    <2> QED BY <1>4, <2>2, <2>3, Zenon
  <1>10. ASSUME NEW p \in Parts, Send(p)
         PROVE  LastOnly(b') /\ LastOnly(t') /\ ~C(b') /\ ~C(t') /\ \A w \in Workers : xf'[w] # Control
    <2>1. src[p].item # Empty /\ Put(Route(p), src[p].item) /\ xf' = xf BY <1>10, Zenon DEF Send
    <2>2. ~Flushed BY <2>1, Zenon DEF Flushed
    <2>3. ~C(b) /\ ~C(t) /\ \A w \in Workers : xf[w] # Control BY <1>4, <2>2, Zenon DEF FenceInv
    <2>4. src[p].item \in Items /\ src[p].item # Control BY <1>6, <2>1, Zenon DEF TypeOK, SourceType, Items
    <2>5. b' \in {b, Append(b, src[p].item)} /\ t' \in {t, Append(t, src[p].item)}
      BY <1>5, <2>1, Zenon DEF Put, Route, b, t
    <2> DEFINE e == src[p].item
    <2> HIDE DEF e
    <2>6. ~C(Append(b, e)) /\ ~C(Append(t, e)) BY <1>5, <2>3, <2>4, RangeAppend DEF e
    <2>7. LastOnly(Append(b, e)) /\ LastOnly(Append(t, e)) /\ LastOnly(b) /\ LastOnly(t)
      BY <1>5, <2>3, <2>4, LastFacts, Zenon DEF e
    <2> QED BY <2>1, <2>3, <2>5, <2>6, <2>7, Zenon DEF e
  <1>11. CASE BarrierQueue
    <2>1. bar.pc = "flush" /\ xf' = xf BY <1>11, Zenon DEF BarrierQueue
    <2>2. ~C(b) /\ ~C(t) /\ \A w \in Workers : xf[w] # Control BY <1>4, <2>1, Zenon
    <2>3. bar'.pc = "wait"
      <3>1. bar' = [bar EXCEPT !.pc = "wait"] BY <1>11, Zenon DEF BarrierQueue
      <3> QED BY <3>1, Zenon DEF TypeOK, StreamType
    <2>4. CASE setup.planned # {}
      <3>1. b' = b /\ t' = Append(t, Control) BY <1>5, <1>11, <2>4, Zenon DEF BarrierQueue, Put, b, t
      <3>2. LastOnly(t') BY <1>5, <1>6, <2>2, <3>1, LastFacts, Zenon
      <3> QED BY <1>4, <2>1, <2>2, <2>3, <3>1, <3>2, Zenon
    <2>5. CASE setup.planned = {}
      <3>1. b' = Append(b, Control) /\ t' = t BY <1>5, <1>11, <2>5, Zenon DEF BarrierQueue, Put, b, t
      <3>2. LastOnly(b') BY <1>5, <1>6, <2>2, <3>1, LastFacts, Zenon
      <3>3. \A w \in Workers : xf[w] \notin Items BY <2>5, Zenon DEF RouteInv, Planned
      <3>4. t = <<>>
        <4>1. Range(t) = {} BY <2>5, Zenon DEF RouteInv, Planned, t
        <4> QED BY <1>5, <4>1, RangeTail, Zenon
      <3> QED BY <1>4, <2>1, <2>2, <2>3, <3>1, <3>2, <3>3, <3>4, Zenon
    <2> QED BY <2>4, <2>5, Zenon
  <1>12. ASSUME NEW w \in Workers, TakeTransform(w)
         PROVE  /\ b' = b /\ ~C(b) /\ LastOnly(t') /\ (C(t') => bar'.pc = "wait")
                /\ \A v \in Workers : xf'[v] = Control => bar'.pc = "wait" /\ t' = <<>>
    <2>1. t # <<>> /\ xf' = [xf EXCEPT ![w] = Head(t)] /\ ch' = [ch EXCEPT !["transform"] = Tail(@)] /\ bar' = bar
      BY <1>7, <1>12, Zenon DEF TakeTransform, streamVars, t
    <2>2. b' = b /\ t' = Tail(t) BY <1>5, <2>1, Zenon DEF b, t
    <2>3. ~C(b) /\ \A v \in Workers : xf[v] # Control BY <1>4, <2>1, Zenon
    <2>4. Head(t) = Control => C(t) BY <1>5, <2>1, RangeTail
    <2>5. C(Tail(t)) => C(t) BY <1>5, <2>1, RangeTail, Zenon
    <2>6. LastOnly(Tail(t)) /\ (Head(t) = Control => Tail(t) = <<>>) BY <1>4, <1>5, <2>1, LastFacts, Zenon
    <2>7. \A v \in Workers : xf'[v] = Control => Head(t) = Control BY <1>5, <2>1, <2>3, Zenon
    <2> QED BY <1>4, <2>1, <2>2, <2>3, <2>4, <2>5, <2>6, <2>7, Zenon
  <1>13. ASSUME NEW w \in Workers, Forward(w)
         PROVE  /\ LastOnly(b') /\ t' = t /\ bar' = bar
                /\ \A v \in Workers : xf'[v] = Control => xf[v] = Control
                /\ C(b') => bar.pc = "wait" /\ t = <<>> /\ \A v \in Workers : xf'[v] \notin Items
    <2>1. xf[w] \in Items /\ Put("batch", xf[w]) /\ xf' = [xf EXCEPT ![w] = Empty] /\ bar' = bar
      BY <1>13, Zenon DEF Forward, streamVars
    <2>2. b' = Append(b, xf[w]) /\ t' = t BY <1>5, <2>1, Zenon DEF Put, b, t
    <2>3. ~C(b) BY <1>4, <2>1, Zenon
    <2>4. LastOnly(b') BY <1>5, <2>1, <2>2, <2>3, LastFacts, Zenon
    <2>5. C(b') => xf[w] = Control BY <1>5, <2>2, <2>3, RangeAppend
    <2>6. xf'[w] = Empty /\ \A v \in Workers \ {w} : xf'[v] = xf[v] BY <1>5, <2>1, Zenon
    <2>7. xf[w] = Control => bar.pc = "wait" /\ t = <<>> /\ \A v \in Workers : v = w BY <1>4, <1>8, Zenon
    <2> QED BY <1>6, <2>1, <2>2, <2>4, <2>5, <2>6, <2>7, Zenon
  <1>14. ASSUME NEW w \in Workers, ExitTransformer(w)
         PROVE  b' = b /\ t' = t /\ bar' = bar /\ \A v \in Workers : xf'[v] = xf[v] \/ xf'[v] = Gone
    BY <1>5, <1>14, Zenon DEF ExitTransformer, streamVars, b, t
  <1>15. ASSUME NEW w \in Workers, TransformFails(w) \/ ForwardRefused(w) \/ WriteFails(w) PROVE FALSE
    BY <1>2, <1>7, <1>15, Zenon DEF TransformFails, ForwardRefused, WriteFails, SetErr
  <1>16. ASSUME NEW w \in Workers, Write(w) \/ ExitWriter(w) PROVE b' = b /\ t' = t /\ bar' = bar /\ xf' = xf
    BY <1>16, Zenon DEF Write, ExitWriter, streamVars, b, t
  <1>17. ASSUME NEW w \in Workers, TakeBatch(w)
         PROVE  /\ LastOnly(b') /\ t' = t /\ xf' = xf
                /\ \/ bar' = bar /\ (C(b') => C(b))
                   \/ ~C(b') /\ t = <<>> /\ \A v \in Workers : xf[v] # Control
    <2>1. b # <<>> /\ ch' = [ch EXCEPT !["batch"] = Tail(@)] /\ xf' = xf
          /\ (Head(b) # Control => bar' = bar)
      BY <1>17, Zenon DEF TakeBatch, b
    <2>2. b' = Tail(b) /\ t' = t BY <1>5, <2>1, Zenon DEF b, t
    <2>3. LastOnly(Tail(b)) /\ (Head(b) = Control => Tail(b) = <<>>) /\ (Head(b) = Control => C(b))
      BY <1>4, <1>5, <2>1, LastFacts, RangeTail, Zenon
    <2>4. C(Tail(b)) => C(b) BY <1>5, <2>1, RangeTail, Zenon
    <2> QED BY <1>4, <1>6, <2>1, <2>2, <2>3, <2>4, Zenon
  <1>18. ASSUME NEW p \in Parts, Send(p)
         PROVE  /\ LastOnly(b') /\ LastOnly(t')
                /\ C(t') => bar'.pc = "wait"
                /\ \A w \in Workers : xf'[w] = Control => bar'.pc = "wait" /\ t' = <<>>
                /\ C(b') => bar'.pc = "wait" /\ t' = <<>> /\ \A w \in Workers : xf'[w] \notin Items
    BY <1>10, <1>18, Zenon
  <1> HIDE DEF C
  <1> QED BY <1>4, <1>6, <1>9, <1>11, <1>12, <1>13, <1>14, <1>15, <1>16, <1>17, <1>18, PoolStill, Zenon

\* The places of the rows in the order they were appended.
Places == 1..Len(order)
\* The row at place i is in batch b, or in the open chunk of its part.
In(i, b) == b.kind = "rows" /\ order[i][1] = b.part /\ order[i][2] \in Rows(b)
Open(i) == order[i][2] > bld[order[i][1]].total - bld[order[i][1]].open
\* The rows of batch b were appended before those of c.
Earlier(b, c) == \A i, j \in Places : In(i, b) /\ In(j, c) => i < j

\* Rows were appended; only the resource that is written has an open chunk.
Placed ==
  /\ \A i \in Places : order[i][2] <= bld[order[i][1]].total
  /\ \A p \in Parts : bld[p].open > 0 => ep.active = {p}
\* The order at each stage: written before unwritten, the writer's batch before what
\* is queued, the queue by position, the queue before the source, both before the open
\* chunk.
AppliedFirst == \A i, j \in Places : Applied(i) /\ ~Applied(j) => i < j
WriterFirst ==
  \A w \in Workers : \A i, j \in Places : In(i, wr[w]) /\ ~Applied(j) /\ ~In(j, wr[w]) => i < j
QueueOrdered ==
  \A k, l \in 1..Len(ch["batch"]) : k < l => Earlier(ch["batch"][k], ch["batch"][l])
QueueFirst == \A b \in Range(ch["batch"]), c \in SourceItems : Earlier(b, c)
OpenLast == \A b \in Range(ch["batch"]) \cup SourceItems : \A i, j \in Places : In(i, b) /\ Open(j) => i < j

\* A strict stream writes, queues, sends and collects rows in the order of their
\* places.
OrderInv ==
  setup.strict => Placed /\ AppliedFirst /\ WriterFirst /\ QueueOrdered /\ QueueFirst /\ OpenLast

\* At the start no row was appended.
LEMMA OrderInit == Init => OrderInv
  <1> SUFFICES ASSUME Init PROVE OrderInv BY Zenon
  <1>1. order = <<>> /\ ch["batch"] = <<>> BY Zenon DEF Init, Channels
  <1>2. Places = {} /\ Range(<<>>) = {} BY <1>1 DEF Places, Range
  <1>3. \A p \in Parts : ~(bld[p].open > 0) BY DEF Init
  <1>4. QueueOrdered BY <1>1 DEF QueueOrdered
  <1> QED BY <1>1, <1>2, <1>3, <1>4, Zenon DEF OrderInv, Placed, AppliedFirst, WriterFirst, QueueFirst, OpenLast, Earlier

\* A strict stream has one writer and nothing to transform.
LEMMA StrictFacts ==
  ASSUME TypeOK, SourceInv, RouteInv, setup.strict
  PROVE  /\ Stream /\ dropped = {} /\ \A v, w \in Workers : v = w
         /\ \A b \in InFlight : \/ \E w \in Workers : b = wr[w]
                                \/ b \in Range(ch["batch"]) \/ b \in SourceItems
         /\ \A p \in Parts : Route(p) = "batch" /\ src[p].pc # "failed"
         /\ \A i : ~In(i, Empty) /\ ~In(i, Gone) /\ ~In(i, Control)
         /\ order \in Seq(Parts \X (1..MaxRows))
  <1>1. setup.planned = {} /\ Stream BY SetupFacts, Zenon DEF TypeOK
  <1>2. \A v, w \in Workers : v = w
    <2>1. setup.kind # "coarse" BY <1>1, Zenon DEF Stream
    <2> QED BY <2>1, SetupFacts DEF TypeOK, Workers
  <1>3. dropped = {} BY <1>1, Zenon DEF RouteInv
  <1>4. ASSUME NEW b \in InFlight
        PROVE  (\E w \in Workers : b = wr[w]) \/ b \in Range(ch["batch"]) \/ b \in SourceItems
    <2>1. b \in Batches /\ ~Blank(b) BY FlightType, Zenon DEF InFlight
    <2>2. b \notin Range(xf)
      <3>1. \A w \in Workers : xf[w] \notin Items BY <1>1, Zenon DEF RouteInv, Planned
      <3>2. b \in Items BY <2>1, Zenon DEF Items
      <3> QED BY <3>1, <3>2, Zenon DEF Range, TypeOK, PoolType
    <2>3. b \notin Range(ch["transform"]) BY <1>1, Zenon DEF RouteInv, Planned
    <2>4. b \in Range(wr) => \E w \in Workers : b = wr[w] BY Zenon DEF Range, TypeOK, PoolType
    <2> QED BY <2>2, <2>3, <2>4, Zenon DEF InFlight, Aboard
  <1>5. \A p \in Parts : Route(p) = "batch" /\ src[p].pc # "failed" BY <1>1, Zenon DEF Route, SourceInv, SourceOK
  <1>6. \A i : ~In(i, Empty) /\ ~In(i, Gone) /\ ~In(i, Control) BY Zenon DEF In, Empty, Gone, Control
  <1>7. order \in Seq(Parts \X (1..MaxRows)) BY Zenon DEF TypeOK, HistoryType
  <1> QED BY <1>1, <1>2, <1>3, <1>4, <1>5, <1>6, <1>7, Zenon

\* Only a row changes the order and the resource that is written.
LEMMA OrderStill ==
  ASSUME TypeOK, [Next]_vars
  PROVE  (\E p \in Parts : Row(p)) \/ (order' = order /\ ep'.active = ep.active)
  <1> DEFINE Same == order' = order /\ ep'.active = ep.active
  <1>1. ep \in [n : 0..MaxEpochs, sealed : BOOLEAN, touched : BOOLEAN, completed : SUBSET Domains,
                txns : SUBSET Domains, rows : [Parts -> Nat], controls : 0..MaxControls, active : SUBSET Parts]
    BY Zenon DEF TypeOK, StreamType
  <1>2. UNCHANGED <<streamVars, historyVars>> => Same BY Zenon DEF streamVars, historyVars
  <1>3. ASSUME NEW p \in Parts, Source(p) PROVE Row(p) \/ Same
    BY <1>3, Zenon DEF Source, Flush, Drain, SourceEnds, Send, SendRefused, CloseFlush, streamVars, historyVars
  <1>4. Cancel \/ CloseDone \/ Tick \/ CloseIngest \/ CloseChannel \/ Wait => Same
    BY Zenon DEF Cancel, CloseDone, Tick, CloseIngest, CloseChannel, Wait, streamVars, historyVars
  <1>5. ASSUME NEW w, Transformer(w) PROVE Same
    BY <1>5, Zenon DEF Transformer, TakeTransform, TransformFails, Forward, ForwardRefused, ExitTransformer,
                       streamVars, historyVars
  <1>6. ASSUME NEW w, Writer(w) PROVE Same
    <2>1. CASE Write(w)
      <3>1. order' = order /\ (ep' = ep \/ \E n : ep' = [ep EXCEPT !.rows = n])
        BY <2>1, Zenon DEF Write
      <3> QED BY <1>1, <3>1, Zenon
    <2> QED BY <1>6, <2>1, Zenon DEF Writer, TakeBatch, WriteFails, ExitWriter, streamVars, historyVars
  <1>7. ASSUME NEW k \in Kinds, NEW d \in Domains, Barrier(k, d) PROVE Same
    <2>1. ep' = [ep EXCEPT !.touched = TRUE, !.controls = @ + 1] /\ order' = order
      BY <1>7, Zenon DEF Barrier, historyVars
    <2> QED BY <1>1, <2>1, Zenon
  <1>8. ASSUME BarrierReturns PROVE Same
    <2>1. order' = order BY <1>8, Zenon DEF BarrierReturns, historyVars
    <2>2. ep' = ep \/ \E x, c : ep' = [ep EXCEPT !.txns = x, !.completed = c]
      BY <1>8, Zenon DEF BarrierReturns
    <2> QED BY <1>1, <2>1, <2>2, Zenon
  <1>9. ASSUME BindEpoch \/ SealEpoch PROVE Same
    <2>1. order' = order BY <1>9, Zenon DEF BindEpoch, SealEpoch, historyVars
    <2>2. CASE BindEpoch
      <3>1. ep' = [ep EXCEPT !.n = @ + 1, !.sealed = FALSE, !.completed = {}, !.rows = [p \in Parts |-> 0]]
        BY <2>2, Zenon DEF BindEpoch
      <3> QED BY <1>1, <2>1, <3>1, Zenon
    <2>3. CASE SealEpoch
      <3>1. ep' = [ep EXCEPT !.sealed = TRUE] BY <2>3, Zenon DEF SealEpoch
      <3> QED BY <1>1, <2>1, <3>1, Zenon
    <2> QED BY <1>9, <2>2, <2>3, Zenon
  <1>10. Misuse \/ BarrierQueue \/ BarrierFails \/ BarrierCanceled \/ (\E p \in Parts : BarrierFlush(p)) => Same
    BY Zenon DEF Misuse, BarrierQueue, BarrierFails, BarrierCanceled, BarrierFlush, streamVars, historyVars
  <1>11. UNCHANGED vars => Same BY Zenon DEF vars, streamVars, historyVars
  <1> HIDE DEF Same
  <1>12. (\E p \in Parts : Row(p)) \/ Same
    BY <1>3, <1>4, <1>5, <1>6, <1>7, <1>8, <1>9, <1>10, <1>11, Zenon DEF Next, Epoch
  <1> QED BY <1>12, Zenon DEF Same

\* Rows move from stage to stage in the order they were appended: appending, handing
\* out, sending, taking and writing each keep it.
LEMMA OrderStep ==
  TypeOK /\ SourceInv /\ RouteInv /\ ItemInv /\ CoverInv /\ OrderInv /\ [Next]_vars => OrderInv'
  \* Steps that move no batch forward.
  <1>OrderFrame. ASSUME TypeOK, SourceInv, RouteInv, OrderInv, setup.strict, UNCHANGED <<setup, order, bld, written>>, ep'.active = ep.active,
                        \A w \in Workers : wr'[w] = wr[w] \/ wr'[w] \in {Empty, Gone},
                        ch'["batch"] = ch["batch"], SourceItems' \subseteq SourceItems \cup {Empty}
                 PROVE  OrderInv'
    <2> USE <1>OrderFrame
    <2>1. Placed /\ AppliedFirst /\ WriterFirst /\ QueueOrdered /\ QueueFirst /\ OpenLast BY Zenon DEF OrderInv
    <2>2. Places' = Places /\ Workers' = Workers BY Zenon DEF Places, Workers
    <2>3. \A i : Applied(i)' = Applied(i) /\ Open(i)' = Open(i) /\ \A b : In(i, b)' = In(i, b)
      BY Zenon DEF Applied, Open, In
    <2>4. \A i : ~In(i, Empty) /\ ~In(i, Gone) BY StrictFacts, Zenon
    <2>5. Placed' BY <2>1, <2>2, Zenon DEF Placed
    <2>6. AppliedFirst' BY <2>1, <2>2, <2>3, Zenon DEF AppliedFirst
    <2>7. WriterFirst' BY <2>1, <2>2, <2>3, <2>4, Zenon DEF WriterFirst
    <2>8. \A b, c : Earlier(b, c) => Earlier(b, c)' BY <2>2, <2>3, Zenon DEF Earlier
    <2>9. QueueOrdered' BY <2>1, <2>8, Zenon DEF QueueOrdered
    <2>10. QueueFirst' /\ OpenLast' BY <2>1, <2>2, <2>3, <2>4, <2>8, Zenon DEF QueueFirst, OpenLast, Earlier
    <2> QED BY <2>5, <2>6, <2>7, <2>9, <2>10, Zenon DEF OrderInv
  \* The batch of a source, or a control, is queued behind what is queued.
  <1>OrderQueue. ASSUME TypeOK, SourceInv, RouteInv, OrderInv, setup.strict,
                        UNCHANGED <<setup, order, bld, written, wr>>, ep'.active = ep.active,
                        NEW e, e \in Items, e \in SourceItems \/ e = Control, ch'["batch"] = Append(ch["batch"], e),
                        SourceItems' \subseteq {Empty}
                 PROVE  OrderInv'
    <2> USE <1>OrderQueue
    <2> DEFINE q == ch["batch"]
    <2>1. Placed /\ AppliedFirst /\ WriterFirst /\ QueueOrdered /\ QueueFirst /\ OpenLast BY Zenon DEF OrderInv
    <2>2. Places' = Places /\ Workers' = Workers BY Zenon DEF Places, Workers
    <2>3. \A i : Applied(i)' = Applied(i) /\ Open(i)' = Open(i) /\ \A b : In(i, b)' = In(i, b)
      BY Zenon DEF Applied, Open, In
    <2>4. \A i : ~In(i, Empty) /\ ~In(i, Control) BY StrictFacts, Zenon
    <2>5. Placed' BY <2>1, <2>2, Zenon DEF Placed
    <2>6. AppliedFirst' BY <2>1, <2>2, <2>3, Zenon DEF AppliedFirst
    <2>7. WriterFirst' BY <2>1, <2>2, <2>3, Zenon DEF WriterFirst
    <2>8. \A b, c : Earlier(b, c) => Earlier(b, c)' BY <2>2, <2>3, Zenon DEF Earlier
    <2>9. q \in Seq(Items) BY Zenon DEF TypeOK, PoolType, Channels
    <2>10. \A b \in Range(q) : Earlier(b, e) BY <2>1, <2>4, Zenon DEF QueueFirst, Earlier
    <2>11. QueueOrdered'
      <3>1. Len(q) \in Nat /\ DOMAIN q = 1..Len(q) /\ Len(Append(q, e)) = Len(q) + 1 BY <2>9, SeqFacts
      <3>2. (\A k \in 1..Len(q) : Append(q, e)[k] = q[k]) /\ Append(q, e)[Len(q) + 1] = e BY <2>9, <3>1
      <3>3. ASSUME NEW k \in 1..(Len(q) + 1), NEW l \in 1..(Len(q) + 1), k < l
            PROVE  Earlier(Append(q, e)[k], Append(q, e)[l])
        <4>1. k \in 1..Len(q) /\ Append(q, e)[k] = q[k] BY <3>1, <3>2, <3>3
        <4>2. CASE l \in 1..Len(q) BY <2>1, <3>2, <3>3, <4>1, <4>2, Zenon DEF QueueOrdered
        <4>3. CASE l = Len(q) + 1
          <5>1. q[k] \in Range(q) BY <3>1, <4>1, Zenon DEF Range
          <5> QED BY <2>10, <3>2, <4>1, <4>3, <5>1, Zenon
        <4> QED BY <3>1, <4>2, <4>3
      <3> QED BY <2>8, <3>1, <3>3, Zenon DEF QueueOrdered
    <2>12. Range(Append(q, e)) = Range(q) \cup {e} BY <2>9, RangeAppend, Zenon
    <2>13. QueueFirst' BY <2>2, <2>3, <2>4, Zenon DEF QueueFirst, Earlier
    <2>14. OpenLast' BY <2>1, <2>2, <2>3, <2>4, <2>12, Zenon DEF OpenLast
    <2> QED BY <2>5, <2>6, <2>7, <2>11, <2>13, <2>14, Zenon DEF OrderInv
  \* A builder hands out its chunk: the rows of the chunk were open, and nothing is
  \* open after them.
  <1>OrderChunk. ASSUME TypeOK, SourceInv, RouteInv, OrderInv, setup.strict, UNCHANGED <<setup, order, written, wr, ch>>,
                        ep'.active = ep.active, NEW p \in Parts, \A q \in Parts : bld'[q].total = bld[q].total,
                        \A q \in Parts \ {p} : bld'[q] = bld[q], NEW b, Makes(p, b), \A q \in Parts : src[q].item = Empty
                 PROVE  OrderInv'
    <2> USE <1>OrderChunk
    <2>1. Placed /\ AppliedFirst /\ WriterFirst /\ QueueOrdered /\ QueueFirst /\ OpenLast BY Zenon DEF OrderInv
    <2>2. Places' = Places /\ Workers' = Workers BY Zenon DEF Places, Workers
    <2>3. \A i : Applied(i)' = Applied(i) /\ \A c : In(i, c)' = In(i, c) BY Zenon DEF Applied, In
    <2>4. \A i : ~In(i, Empty) BY StrictFacts, Zenon
    <2>5. \A i \in Places : order[i] \in Parts \X (1..MaxRows) BY StrictFacts DEF Places
    <2>6. /\ b.kind = "rows" /\ b.part = p /\ b.lo = bld[p].total - bld[p].open /\ b.lo < b.hi
          /\ b.hi = bld[p].total /\ bld'[p].open = 0 /\ SourceItems' \subseteq {Empty, b}
      <3>1. Stream BY StrictFacts, Zenon
      <3>2. SourceItems \subseteq {Empty} BY Zenon DEF SourceItems
      <3> QED BY <3>1, <3>2, Zenon DEF Makes
    <2>7. ep.active = {p} BY <2>1, <2>6, BuilderFacts DEF Placed
    <2>8. \A q \in Parts : bld'[q].open = 0
      <3>1. ASSUME NEW q \in Parts, q # p PROVE bld[q].open = 0
        <4>1. ~(bld[q].open > 0) BY <2>1, <2>7, <3>1, Zenon DEF Placed
        <4> QED BY <4>1, BuilderFacts
      <3> QED BY <2>6, <3>1, Zenon
    <2>9. Placed' BY <2>1, <2>2, <2>5, <2>8 DEF Placed
    <2>10. \A i \in Places : ~Open(i)'
      <3> SUFFICES ASSUME NEW i \in Places PROVE ~Open(i)' BY Zenon
      <3>1. order[i][1] \in Parts /\ order[i][2] \in Nat BY <2>5
      <3>2. order[i][2] <= bld[order[i][1]].total BY <2>1, Zenon DEF Placed
      <3> QED BY <2>8, <3>1, <3>2, BuilderFacts DEF Open
    <2>11. \A i \in Places : In(i, b) => Open(i)
      <3> SUFFICES ASSUME NEW i \in Places, In(i, b) PROVE Open(i) BY Zenon
      <3>1. order[i][1] = p /\ order[i][2] \in bld[p].total - bld[p].open + 1 .. bld[p].total BY <2>6, Zenon DEF In, Rows
      <3> QED BY <3>1, BuilderFacts DEF Open
    <2>12. AppliedFirst' BY <2>1, <2>2, <2>3, Zenon DEF AppliedFirst
    <2>13. WriterFirst' BY <2>1, <2>2, <2>3, Zenon DEF WriterFirst
    <2>14. \A c, d : Earlier(c, d) => Earlier(c, d)' BY <2>2, <2>3, Zenon DEF Earlier
    <2>15. QueueOrdered' BY <2>1, <2>14, Zenon DEF QueueOrdered
    <2>16. QueueFirst' BY <2>1, <2>2, <2>3, <2>4, <2>6, <2>11 DEF QueueFirst, OpenLast, Earlier
    <2>17. OpenLast' BY <2>2, <2>10, Zenon DEF OpenLast
    <2> QED BY <2>9, <2>12, <2>13, <2>15, <2>16, <2>17, Zenon DEF OrderInv
  \* A row is appended: it is the last, and open or in the chunk that is handed out.
  <1>OrderRow. ASSUME TypeOK, SourceInv, RouteInv, ItemInv, OrderInv, setup.strict, NEW p \in Parts, Row(p)
               PROVE  OrderInv'
    <2> USE <1>OrderRow
    <2> DEFINE total == bld[p].total + 1
    <2>1. Placed /\ AppliedFirst /\ WriterFirst /\ QueueOrdered /\ QueueFirst /\ OpenLast BY Zenon DEF OrderInv
    <2>2. Stream /\ order \in Seq(Parts \X (1..MaxRows)) /\ \A i : ~In(i, Empty) BY StrictFacts, Zenon
    <2>0. PICK N \in Nat : N = Len(order) + 1 BY <2>2
    <2>3. /\ order' = Append(order, <<p, total>>) /\ UNCHANGED <<setup, ch, wr, written>>
          /\ ep' = [ep EXCEPT !.touched = TRUE, !.completed = {}, !.active = {p}] /\ Switched(p)
          /\ \A q \in Parts : src[q].item = Empty
      BY <2>2, Zenon DEF Row, Producing, Free, poolVars, sinkVars
    <2>4. /\ Len(order) \in Nat /\ Len(order') = N /\ \A i \in Places : order'[i] = order[i]
          /\ order'[N] = <<p, total>>
      BY <2>0, <2>2, <2>3 DEF Places
    <2>5. Places' = Places \cup {N} /\ (\A i \in Places : i < N) /\ Workers' = Workers
      BY <2>0, <2>3, <2>4 DEF Places, Workers
    <2>6. \A i \in Places : order[i] \in Parts \X (1..MaxRows) BY <2>2 DEF Places
    <2>7. \A i \in Places : Applied(i)' = Applied(i) /\ \A c : In(i, c)' = In(i, c)
      BY <2>3, <2>4, Zenon DEF Applied, In
    <2>8. bld[p].total \in Nat /\ bld[p].open \in Nat /\ bld[p].open <= bld[p].total BY BuilderFacts, Zenon
    <2>9. ~Applied(N)'
      <3>1. written[p] \subseteq 1..(bld[p].total - bld[p].open) BY Zenon DEF ItemInv
      <3>2. total \notin 1..(bld[p].total - bld[p].open) BY <2>8
      <3> HIDE DEF total
      <3> QED BY <2>3, <2>4, <3>1, <3>2 DEF Applied
    <2>10. ASSUME NEW c \in InFlight PROVE ~In(N, c)'
      <3>1. c.hi <= bld[c.part].total - bld[c.part].open /\ c.hi \in Nat /\ c.lo \in Nat
        BY FlightType, BatchFacts, Zenon DEF ItemInv, Sound
      <3>2. c.part = p => total \notin Rows(c) BY <2>8, <3>1 DEF Rows
      <3> HIDE DEF total
      <3> QED BY <2>4, <3>2 DEF In
    <2>11. ASSUME NEW c \in Range(wr) \cup Range(ch["batch"]) PROVE ~In(N, c)'
      <3>1. CASE Blank(c) BY <3>1, Zenon DEF Blank, BatchKinds, In
      <3>2. CASE ~Blank(c) BY <2>10, <3>2, Zenon DEF InFlight, Aboard
      <3> QED BY <3>1, <3>2, Zenon
    <2>12. \A w \in Workers : wr[w] \in Range(wr) BY Zenon DEF Range, TypeOK, PoolType
    <2>13. \A q \in Parts \ {p} : bld'[q] = bld[q] /\ bld[q].open = 0
      <3>1. \A q \in Parts \ {p} : bld'[q] = bld[q] BY BuilderOthers, Zenon DEF BuilderStep
      <3>2. ASSUME NEW q \in Parts \ {p}, bld[q].open > 0 PROVE FALSE
        <4>1. ep.active = {q} BY <2>1, <3>2, Zenon DEF Placed
        <4>2. bld[q].open = 0 BY <2>3, <4>1, Zenon DEF Switched
        <4> QED BY <3>2, <4>2
      <3> QED BY <3>1, <3>2, BuilderFacts
    <2>14. bld'[p].total = total
      <3>1. bld' = [bld EXCEPT ![p].total = total, ![p].open = IF bld[p].open + 1 >= BatchRows \/ p \in asked THEN 0 ELSE bld[p].open + 1]
        BY Zenon DEF Row
      <3> HIDE DEF total
      <3> QED BY <3>1, Zenon DEF TypeOK, SourceType
    <2>15. Placed'
      <3>1. ep'.active = {p} BY <2>3, Zenon DEF TypeOK, StreamType
      <3>2. ASSUME NEW i \in Places PROVE order'[i][2] <= bld'[order'[i][1]].total
        <4>1. order[i][2] <= bld[order[i][1]].total /\ order[i][1] \in Parts /\ order[i][2] \in Nat
          BY <2>1, <2>6 DEF Placed
        <4>2. CASE order[i][1] = p
          <5>1. order[i][2] <= total /\ order'[i] = order[i] BY <2>4, <2>8, <4>1, <4>2
          <5> HIDE DEF total
          <5> QED BY <2>14, <4>2, <5>1, Zenon
        <4>3. CASE order[i][1] # p BY <2>4, <2>13, <4>1, <4>3
        <4> QED BY <4>2, <4>3, Zenon
      <3>3. order'[N][2] <= bld'[order'[N][1]].total BY <2>4, <2>8, <2>14
      <3>4. \A q \in Parts : bld'[q].open > 0 => q = p BY <2>13
      <3> QED BY <2>5, <3>1, <3>2, <3>3, <3>4, Zenon DEF Placed
    <2>16. AppliedFirst' BY <2>1, <2>5, <2>7, <2>9 DEF AppliedFirst
    <2>17. WriterFirst' BY <2>1, <2>3, <2>5, <2>7, <2>11, <2>12 DEF WriterFirst
    <2>18. \A b, c \in Range(ch["batch"]) : Earlier(b, c) => Earlier(b, c)'
      BY <2>5, <2>7, <2>11, Zenon DEF Earlier
    <2>19. QueueOrdered'
      <3>1. \A k \in 1..Len(ch["batch"]) : ch["batch"][k] \in Range(ch["batch"])
        BY SeqFacts, Zenon DEF Range, TypeOK, PoolType, Channels
      <3> QED BY <2>1, <2>3, <2>18, <3>1, Zenon DEF QueueOrdered
    <2>20. CASE Fills(p)
      <3>1. SourceItems' \subseteq {Empty} BY <2>3, <2>20, Zenon DEF SourceItems, Fills
      <3>2. \A i \in Places : Open(i)' => Open(i)
        <4> SUFFICES ASSUME NEW i \in Places PROVE Open(i)' => Open(i) BY Zenon
        <4>1. order[i][1] \in Parts /\ order[i][2] \in Nat BY <2>6
        <4>2. bld'[p].total - bld'[p].open = bld[p].total - bld[p].open BY <2>8, <2>20 DEF Fills
        <4> QED BY <2>4, <2>13, <4>1, <4>2 DEF Open
      <3>3. \A i : ~In(i, Empty)' BY Zenon DEF In, Empty
      <3>4. QueueFirst' BY <3>1, <3>3, Zenon DEF QueueFirst, Earlier
      <3>5. OpenLast' BY <2>1, <2>3, <2>5, <2>7, <2>11, <3>1, <3>2, <3>3 DEF OpenLast
      <3> QED BY <2>15, <2>16, <2>17, <2>19, <3>4, <3>5, Zenon DEF OrderInv
    <2>21. ASSUME NEW b, Makes(p, b) PROVE OrderInv'
      <3>1. /\ b.kind = "rows" /\ b.part = p /\ b.lo = bld[p].total - bld[p].open /\ bld'[p].open = 0
            /\ SourceItems' \subseteq {Empty, b}
        <4>1. SourceItems \subseteq {Empty} BY <2>3, Zenon DEF SourceItems
        <4> QED BY <2>2, <2>21, <4>1, Zenon DEF Makes
      <3>2. \A i \in Places' : ~Open(i)'
        <4> SUFFICES ASSUME NEW i \in Places' PROVE ~Open(i)' BY Zenon
        <4>1. order'[i][2] <= bld'[order'[i][1]].total BY <2>15, Zenon DEF Placed
        <4>2. order'[i][1] \in Parts /\ order'[i][2] \in Nat BY <2>4, <2>5, <2>6, <2>8
        <4>3. bld'[order'[i][1]].open = 0 BY <2>13, <3>1, <4>2
        <4>4. bld'[order'[i][1]].total \in Nat BY <2>8, <2>13, <2>14, <4>2, BuilderFacts
        <4> QED BY <4>1, <4>2, <4>3, <4>4 DEF Open
      <3>3. \A i \in Places : In(i, b) => Open(i)
        <4> SUFFICES ASSUME NEW i \in Places, In(i, b) PROVE Open(i) BY Zenon
        <4>1. order[i][1] = p /\ order[i][2] \in bld[p].total - bld[p].open + 1 .. b.hi BY <3>1, Zenon DEF In, Rows
        <4>2. b.hi \in Nat BY <2>21, BatchFacts, Zenon DEF Makes
        <4> QED BY <2>8, <4>1, <4>2 DEF Open
      <3>4. \A i : ~In(i, Empty)' BY Zenon DEF In, Empty
      <3>5. QueueFirst'
        <4> SUFFICES ASSUME NEW a \in Range(ch["batch"]), NEW i \in Places', NEW j \in Places', In(i, a)', In(j, b)'
                     PROVE  i < j
          BY <2>3, <3>1, <3>4, Zenon DEF QueueFirst, Earlier
        <4>1. i \in Places BY <2>5, <2>11, Zenon
        <4>2. CASE j = N BY <2>5, <4>1, <4>2, Zenon
        <4>3. CASE j \in Places BY <2>1, <2>7, <3>3, <4>1, <4>3, Zenon DEF OpenLast
        <4> QED BY <2>5, <4>2, <4>3, Zenon
      <3>6. OpenLast' BY <3>2, Zenon DEF OpenLast
      <3> QED BY <2>15, <2>16, <2>17, <2>19, <3>5, <3>6, Zenon DEF OrderInv
    <2> QED BY <2>20, <2>21, FlowRow, Zenon
  \* A writer takes the first batch of its channel: what is neither written nor in it
  \* has a later place.
  <1>OrderTake. ASSUME TypeOK, SourceInv, RouteInv, CoverInv, OrderInv, setup.strict, NEW w \in Workers, TakeBatch(w)
                PROVE  OrderInv'
    <2> USE <1>OrderTake
    <2> DEFINE q == ch["batch"]
    <2>1. Placed /\ AppliedFirst /\ WriterFirst /\ QueueOrdered /\ QueueFirst /\ OpenLast BY Zenon DEF OrderInv
    <2>2. /\ UNCHANGED <<setup, order, bld, src, ep, written>> /\ wr[w] = Empty /\ q # <<>>
          /\ ch' = [ch EXCEPT !["batch"] = Tail(@)]
          /\ wr' = [wr EXCEPT ![w] = Empty] \/ (~err /\ wr' = [wr EXCEPT ![w] = Head(q)])
      BY Zenon DEF TakeBatch, sourceVars, sinkVars, historyVars
    <2>3. q \in Seq(Items) /\ q' = Tail(q) BY <2>2, Zenon DEF TypeOK, PoolType, Channels
    <2>4. Places' = Places /\ Workers' = Workers /\ SourceItems' = SourceItems
      BY <2>2, Zenon DEF Places, Workers, SourceItems
    <2>5. \A i : Applied(i)' = Applied(i) /\ Open(i)' = Open(i) /\ \A b : In(i, b)' = In(i, b)
      BY <2>2, Zenon DEF Applied, Open, In
    <2>6. \A i : ~In(i, Empty) BY StrictFacts, Zenon
    <2>7. \A b, c : Earlier(b, c) => Earlier(b, c)' BY <2>4, <2>5, Zenon DEF Earlier
    <2>8. Head(q) \in Range(q) /\ Range(Tail(q)) \subseteq Range(q) /\ Range(q) = {Head(q)} \cup Range(Tail(q))
      BY <2>2, <2>3, RangeTail, Zenon
    <2>9. /\ Len(q) \in Nat /\ Len(Tail(q)) = Len(q) - 1 /\ Head(q) = q[1] /\ DOMAIN q = 1..Len(q)
          /\ \A k \in 1..Len(Tail(q)) : Tail(q)[k] = q[k + 1]
      BY <2>2, <2>3, SeqFacts, Zenon
    <2>10. Placed' BY <2>1, <2>2, <2>4, Zenon DEF Placed
    <2>11. AppliedFirst' BY <2>1, <2>4, <2>5, Zenon DEF AppliedFirst
    <2>12. QueueOrdered'
      <3> SUFFICES ASSUME NEW k \in 1..Len(Tail(q)), NEW l \in 1..Len(Tail(q)), k < l
                   PROVE  Earlier(Tail(q)[k], Tail(q)[l])
        BY <2>3, <2>7, Zenon DEF QueueOrdered
      <3>1. k + 1 \in 1..Len(q) /\ l + 1 \in 1..Len(q) /\ k + 1 < l + 1 BY <2>9
      <3>2. Earlier(q[k + 1], q[l + 1]) BY <2>1, <3>1, Zenon DEF QueueOrdered
      <3> QED BY <2>9, <3>2, Zenon
    <2>13. QueueFirst' /\ OpenLast'
      <3> HIDE DEF q
      <3>1. \A b \in Range(q'), c \in SourceItems : Earlier(b, c)' BY <2>1, <2>3, <2>7, <2>8, Zenon DEF QueueFirst, q
      <3>2. \A b \in Range(q') \cup SourceItems : \A i, j \in Places : In(i, b) /\ Open(j) => i < j
        BY <2>1, <2>3, <2>8, Zenon DEF OpenLast, q
      <3> QED BY <2>4, <2>5, <3>1, <3>2, Zenon DEF QueueFirst, OpenLast, q
    <2>14. WriterFirst'
      <3>1. CASE wr' = [wr EXCEPT ![w] = Empty]
        <4>1. \A v \in Workers : wr'[v] = wr[v] \/ wr'[v] = Empty BY <3>1, Zenon DEF TypeOK, PoolType
        <4> QED BY <2>1, <2>4, <2>5, <2>6, <4>1, Zenon DEF WriterFirst
      <3>2. CASE ~err /\ wr' = [wr EXCEPT ![w] = Head(q)]
        <4>1. \A v \in Workers : wr'[v] = Head(q) /\ wr[v] = Empty
          <5>1. \A v \in Workers : v = w BY StrictFacts, Zenon
          <5> QED BY <2>2, <3>2, <5>1, Zenon DEF TypeOK, PoolType
        <4>2. ASSUME NEW i \in Places, NEW j \in Places, In(i, Head(q)), ~Applied(j), ~In(j, Head(q)) PROVE i < j
          <5>1. CASE Open(j) BY <2>1, <2>8, <4>2, <5>1, Zenon DEF OpenLast
          <5>2. CASE ~Open(j)
            <6>1. order[j] \in Parts \X (1..MaxRows) /\ order[j][2] <= bld[order[j][1]].total
              BY <2>1, StrictFacts DEF Places, Placed
            <6>2. order[j][1] \in Parts /\ order[j][2] \in Nat \ {0} BY <6>1
            <6>3. order[j][2] \in 1..(bld[order[j][1]].total - bld[order[j][1]].open)
              BY <5>2, <6>2, BuilderFacts DEF Open
            <6>4. order[j][1] \notin dropped /\ src[order[j][1]].pc # "failed" BY <6>2, StrictFacts, Zenon
            <6>5. Held(order[j][1], order[j][2]) BY <3>2, <6>2, <6>3, <6>4, Zenon DEF CoverInv
            <6>6. PICK b \in InFlight : In(j, b) BY <4>2, <6>5, Zenon DEF Held, Applied, In
            <6>7. CASE b \in Range(q)
              <7>1. PICK k \in 1..Len(q) : b = q[k] BY <2>9, <6>7, Zenon DEF Range
              <7>2. k # 1 BY <2>9, <4>2, <6>6, <7>1, Zenon
              <7>3. 1 \in 1..Len(q) /\ 1 < k BY <2>9, <7>1, <7>2
              <7> QED BY <2>1, <2>9, <4>2, <6>6, <7>1, <7>3, Zenon DEF QueueOrdered, Earlier
            <6>8. CASE b \in SourceItems BY <2>1, <2>8, <4>2, <6>6, <6>8, Zenon DEF QueueFirst, Earlier
            <6>9. CASE \E v \in Workers : b = wr[v] BY <2>6, <4>1, <6>6, <6>9, Zenon
            <6> QED BY <6>7, <6>8, <6>9, StrictFacts, Zenon
          <5> QED BY <5>1, <5>2, Zenon
        <4> QED BY <2>4, <2>5, <4>1, <4>2, Zenon DEF WriterFirst
      <3> QED BY <2>2, <3>1, <3>2, Zenon
    <2> QED BY <2>10, <2>11, <2>12, <2>13, <2>14, Zenon DEF OrderInv
  \* A batch is written: it goes before everything that is not.
  <1>OrderWrite. ASSUME TypeOK, SourceInv, RouteInv, ItemInv, OrderInv, setup.strict, NEW w \in Workers, Write(w)
                 PROVE  OrderInv'
    <2> USE <1>OrderWrite
    <2> DEFINE b == wr[w]
    <2>1. Placed /\ AppliedFirst /\ WriterFirst /\ QueueOrdered /\ QueueFirst /\ OpenLast BY Zenon DEF OrderInv
    <2>2. /\ UNCHANGED <<setup, order, bld, src, ch>> /\ wr' = [wr EXCEPT ![w] = Empty]
          /\ written' = IF b.kind = "rows" THEN [written EXCEPT ![b.part] = @ \cup Rows(b)] ELSE written
          /\ b \in Batches
          /\ ep' = ep \/ \E n : ep' = [ep EXCEPT !.rows = n]
      BY Zenon DEF Write, sourceVars
    <2>3. ep'.active = ep.active BY <2>2, Zenon DEF TypeOK, StreamType
    <2>4. Places' = Places /\ Workers' = Workers /\ SourceItems' = SourceItems
      BY <2>2, Zenon DEF Places, Workers, SourceItems
    <2>5. \A i : Open(i)' = Open(i) /\ \A c : In(i, c)' = In(i, c) BY <2>2, Zenon DEF Open, In
    <2>6. \A i \in Places : Applied(i)' <=> Applied(i) \/ In(i, b)
      <3> SUFFICES ASSUME NEW i \in Places PROVE Applied(i)' <=> Applied(i) \/ In(i, b) BY Zenon
      <3>1. order[i][1] \in Parts
        <4>1. order[i] \in Parts \X (1..MaxRows) BY StrictFacts DEF Places
        <4> QED BY <4>1, Zenon
      <3>2. written \in [Parts -> SUBSET Nat] BY DEF TypeOK, SinkType
      <3>3. order' = order BY <2>2, Zenon
      <3> HIDE DEF b
      <3> QED BY <2>2, <3>1, <3>2, <3>3, Zenon DEF Applied, In
    <2>7. \A v \in Workers : wr'[v] = Empty
      <3>1. \A v \in Workers : v = w BY StrictFacts, Zenon
      <3> QED BY <2>2, <3>1, Zenon DEF TypeOK, PoolType
    <2>8. \A i : ~In(i, Empty) BY StrictFacts, Zenon
    <2>9. Placed' BY <2>1, <2>2, <2>3, <2>4, Zenon DEF Placed
    <2>10. AppliedFirst' BY <2>1, <2>4, <2>6, Zenon DEF AppliedFirst, WriterFirst
    <2>11. WriterFirst' BY <2>4, <2>5, <2>7, <2>8, Zenon DEF WriterFirst
    <2>12. \A c, d : Earlier(c, d) => Earlier(c, d)' BY <2>4, <2>5, Zenon DEF Earlier
    <2>13. QueueOrdered' BY <2>1, <2>2, <2>12, Zenon DEF QueueOrdered
    <2>14. QueueFirst' /\ OpenLast' BY <2>1, <2>2, <2>4, <2>5, <2>12, Zenon DEF QueueFirst, OpenLast
    <2> QED BY <2>9, <2>10, <2>11, <2>13, <2>14, Zenon DEF OrderInv
  <1> SUFFICES ASSUME TypeOK, SourceInv, RouteInv, ItemInv, CoverInv, OrderInv, [Next]_vars PROVE OrderInv' BY Zenon
  <1>1. setup' = setup BY StateMoves, Zenon
  <1>2. SUFFICES ASSUME setup.strict PROVE OrderInv' BY <1>1, Zenon DEF OrderInv
  <1>3. Stream /\ setup.planned = {} /\ \A p \in Parts : Route(p) = "batch"
    <2>1. setup.planned = {} BY <1>2, SetupFacts, Zenon DEF TypeOK
    <2> QED BY <1>2, <2>1, StrictFacts, Zenon
  <1>4. Alone BY <1>3, Zenon DEF SourceInv
  <1>5. ASSUME NEW p \in Parts, Row(p) PROVE OrderInv' BY <1>2, <1>5, <1>OrderRow, Zenon
  <1>6. SUFFICES ASSUME order' = order, ep'.active = ep.active PROVE OrderInv' BY <1>5, OrderStill, Zenon
  <1>7. ASSUME NEW p \in Parts, Flush(p) \/ CloseFlush(p) \/ BarrierFlush(p) PROVE OrderInv'
    <2>1. PICK b : Makes(p, b) BY <1>7, FlowChunk, Zenon
    <2>2. UNCHANGED <<written, wr, ch>> /\ \A q \in Parts \ {p} : bld'[q] = bld[q]
      BY <1>7, BuilderOthers, Zenon DEF BuilderStep, sinkVars, poolVars
    <2>3. bld' = [bld EXCEPT ![p].open = 0] BY <1>7, Zenon DEF Flush, CloseFlush, BarrierFlush
    <2>4. \A q \in Parts : bld'[q].total = bld[q].total BY <2>3, Zenon DEF TypeOK, SourceType
    <2>5. \A q \in Parts : src[q].item = Empty
      BY <1>3, <1>7, Zenon DEF Flush, Producing, Free, CloseFlush, BarrierFlush
    <2> QED BY <1>1, <1>2, <1>6, <2>1, <2>2, <2>4, <2>5, <1>OrderChunk, Zenon
  <1>8. ASSUME NEW p \in Parts, Send(p) PROVE OrderInv'
    <2>1. /\ UNCHANGED <<bld, written, wr>> /\ src[p].item # Empty /\ Put(Route(p), src[p].item)
          /\ src' = [src EXCEPT ![p] = AfterSend(p)]
      BY <1>8, Zenon DEF Send, sinkVars
    <2>2. src[p].item \in Items /\ src[p].item \in SourceItems
      BY <2>1, Zenon DEF TypeOK, SourceType, Items, SourceItems
    <2>3. ch'["batch"] = Append(ch["batch"], src[p].item)
      BY <1>3, <2>1, Zenon DEF Put, TypeOK, PoolType, Channels
    <2>4. SourceItems' \subseteq {Empty}
      <3>1. AfterSend(p).item = Empty BY <1>3, Zenon DEF SourceInv, SourceOK, AfterSend
      <3>2. \A q \in Parts \ {p} : src[q].item = Empty BY <1>4, <2>1, Zenon DEF Alone
      <3>3. \A q \in Parts : src'[q].item = Empty BY <2>1, <3>1, <3>2, Zenon DEF TypeOK, SourceType
      <3> QED BY <3>3, Zenon DEF SourceItems
    <2> QED BY <1>1, <1>2, <1>6, <2>1, <2>2, <2>3, <2>4, <1>OrderQueue, Zenon
  <1>9. CASE BarrierQueue
    <2>1. UNCHANGED <<bld, src, written, wr>> /\ Flushed /\ Put("batch", Control)
      BY <1>3, <1>9, Zenon DEF BarrierQueue, sourceVars, sinkVars
    <2>2. ch'["batch"] = Append(ch["batch"], Control) BY <2>1, Zenon DEF Put, TypeOK, PoolType, Channels
    <2>3. SourceItems' \subseteq {Empty} BY <2>1, Zenon DEF SourceItems, Flushed
    <2> QED BY <1>1, <1>2, <1>6, <2>1, <2>2, <2>3, <1>OrderQueue, Zenon DEF Items
  <1>10. ASSUME NEW w \in Workers, TakeBatch(w) PROVE OrderInv' BY <1>2, <1>10, <1>OrderTake, Zenon
  <1>11. ASSUME NEW w \in Workers, Write(w) PROVE OrderInv' BY <1>2, <1>11, <1>OrderWrite, Zenon
  <1>12. SUFFICES ASSUME \A p \in Parts : ~Flush(p) /\ ~CloseFlush(p) /\ ~BarrierFlush(p) /\ ~Send(p) /\ ~Row(p),
                         ~BarrierQueue, \A w \in Workers : ~TakeBatch(w) /\ ~Write(w)
                  PROVE  OrderInv'
    BY <1>5, <1>7, <1>8, <1>9, <1>10, <1>11, Zenon
  <1>13. bld' = bld
    <2>1. \A p \in Parts : ~Drain(p) BY <1>3, Zenon DEF Drain
    <2> QED BY <1>12, <2>1, BuilderStill, Zenon DEF BuilderStep
  <1>14. written' = written BY <1>12, SinkStill, Zenon DEF sinkVars
  <1>15. ch'["batch"] = ch["batch"] /\ \A w \in Workers : wr'[w] = wr[w] \/ wr'[w] \in {Empty, Gone}
    <2>1. ASSUME NEW w \in Workers, TakeTransform(w) \/ TransformFails(w) \/ ForwardRefused(w) \/ ExitTransformer(w)
          PROVE  wr' = wr /\ ch'["batch"] = ch["batch"]
      <3>1. wr' = wr /\ (ch' = ch \/ ch' = [ch EXCEPT !["transform"] = Tail(@)])
        BY <2>1, Zenon DEF TakeTransform, TransformFails, ForwardRefused, ExitTransformer
      <3> QED BY <3>1, Zenon DEF TypeOK, PoolType, Channels
    <2>2. \A w \in Workers : ~Forward(w) BY <1>3, Zenon DEF Forward, RouteInv, Planned
    <2>3. ASSUME NEW w \in Workers, WriteFails(w) \/ ExitWriter(w)
          PROVE  ch' = ch /\ \A v \in Workers : wr'[v] = wr[v] \/ wr'[v] \in {Empty, Gone}
      <3>1. ch' = ch /\ (wr' = [wr EXCEPT ![w] = Empty] \/ wr' = [wr EXCEPT ![w] = Gone])
        BY <2>3, Zenon DEF WriteFails, ExitWriter
      <3> QED BY <3>1, Zenon DEF TypeOK, PoolType
    <2> QED BY <1>12, <2>1, <2>2, <2>3, PoolStill, Zenon
  <1>16. SourceItems' \subseteq SourceItems \cup {Empty}
    <2>1. src \in [Parts -> [pc : SourcePCs, item : Batches \cup {Empty}]]
      BY Zenon DEF TypeOK, SourceType
    <2>2. ASSUME NEW p \in Parts, SourceEnds(p) \/ SendRefused(p) PROVE \A q \in Parts : src'[q].item \in {src[q].item, Empty}
      <3>1. \E c : src' = [src EXCEPT ![p] = [pc |-> c, item |-> Empty]] BY <2>2, Zenon DEF SourceEnds, SendRefused, Hand
      <3> QED BY <2>1, <3>1
    <2>3. Tick \/ CloseIngest \/ CloseChannel \/ Wait => \A q \in Parts : src'[q].item = src[q].item
      BY Zenon DEF Tick, CloseIngest, CloseChannel, Wait
    <2>4. \A q \in Parts : src'[q].item \in {src[q].item, Empty}
      <3>1. ASSUME NEW p \in Parts, Source(p) PROVE SourceEnds(p) \/ SendRefused(p)
        BY <1>3, <1>12, <3>1, Zenon DEF Source, Drain
      <3>2. src' = src => \A q \in Parts : src'[q].item \in {src[q].item, Empty} BY Zenon
      <3> QED BY <1>12, <2>2, <2>3, <3>1, <3>2, SourceStill, Zenon
    <2> QED BY <2>4, Zenon DEF SourceItems
  <1> QED BY <1>1, <1>2, <1>6, <1>13, <1>14, <1>15, <1>16, <1>OrderFrame, Zenon

\* Only a strict stream records an order.
PlainInv == ~setup.strict => order = <<>>

\* Row records an order for a strict stream only.
LEMMA PlainStep == TypeOK /\ PlainInv /\ [Next]_vars => PlainInv'
  <1> SUFFICES ASSUME TypeOK, PlainInv, [Next]_vars PROVE PlainInv' BY Zenon
  <1>1. setup' = setup BY StateMoves, Zenon
  <1>2. \A p \in Parts : Row(p) /\ ~setup.strict => order' = order BY Zenon DEF Row
  <1> QED BY <1>1, <1>2, OrderStill, Zenon DEF PlainInv

\* The rows written so far are the first ones appended.
LEMMA StrictHolds == TypeOK /\ OrderInv /\ PlainInv => StrictOrder
  <1> SUFFICES ASSUME TypeOK, OrderInv, PlainInv, NEW i \in 2..Len(order), Applied(i), ~Applied(i - 1) PROVE FALSE
    BY Zenon DEF StrictOrder
  <1>1. Len(order) \in Nat /\ i \in Places /\ i - 1 \in Places BY DEF TypeOK, HistoryType, Places
  <1>2. setup.strict
    <2>1. order # <<>> BY <1>1 DEF Places
    <2> QED BY <2>1, Zenon DEF PlainInv
  <1>3. i < i - 1 BY <1>1, <1>2, Zenon DEF OrderInv, AppliedFirst
  <1> QED BY <1>1, <1>3
=============================================================================
