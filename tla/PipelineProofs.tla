--------------------------- MODULE PipelineProofs ---------------------------
(***************************************************************************)
(* What a pipeline keeps for every number of parts, workers, rows, batches *)
(* and epochs: bitmaps and epochs count what was written, and the theorems *)
(* that follow from the invariant.                                         *)
(***************************************************************************)
EXTENDS PipelineOrderProofs, FiniteSetTheorems

\* A bitmap counts the rows that were written, and is complete when all were.
CountInv ==
  \A p \in Parts :
    /\ setup.kind = "coarse" => prog[p].acked = Cardinality(written[p])
    /\ prog[p].want >= 0 => /\ ~Stream /\ prog[p].want = bld[p].total /\ bld[p].open = 0
                            /\ src[p].pc \notin {"reading", "sending"}
    /\ prog[p].shard = "done" =>
         setup.kind = "coarse" /\ prog[p].want >= 0 /\ prog[p].acked >= prog[p].want

\* No row is written and no part is complete at the start.
LEMMA CountInit == Init => CountInv
  BY FS_EmptySet DEF Init, CountInv

\* Its rows are new, so the count of what is written grows by their number.
LEMMA WriteCounts ==
  ASSUME TypeOK, ItemInv, NEW w \in Workers, Write(w)
  PROVE  LET b == wr[w] IN
         /\ Cardinality(written'[b.part]) = Cardinality(written[b.part]) + (IF b.kind = "rows" THEN b.hi - b.lo ELSE 0)
         /\ Cardinality(written[b.part]) \in Nat
  <1> DEFINE b == wr[w]
             p == b.part
  <1>1. /\ Sound(b) /\ p \in Parts /\ b.lo \in Nat /\ b.hi \in Nat
        /\ written'[p] = written[p] \cup (IF b.kind = "rows" THEN Rows(b) ELSE {})
    BY WriteFacts, BatchFacts, Zenon
  <1> HIDE DEF b
  <1>6. IsFiniteSet(written[p]) /\ Cardinality(written[p]) \in Nat
    <2>1. written[p] \in SUBSET (1..MaxRows) BY <1>1, Zenon DEF TypeOK, SinkType
    <2>2. MaxRows \in Int /\ 1 \in Int BY BoundsAssumption
    <2>3. IsFiniteSet(1..MaxRows) BY <2>2, FS_Interval, Zenon
    <2> QED BY <2>1, <2>3, FS_Subset, FS_CardinalityType, Zenon
  <1>7. CASE b.kind = "rows"
    <2>1. Rows(b) \cap written[p] = {} /\ b.lo < b.hi BY <1>1, <1>7, Zenon DEF Sound
    <2>2. IsFiniteSet(Rows(b)) /\ Cardinality(Rows(b)) = b.hi - b.lo
      <3>1. b.lo + 1 \in Int /\ b.hi \in Int /\ ~(b.lo + 1 > b.hi) BY <1>1, <2>1
      <3>2. IsFiniteSet(b.lo + 1 .. b.hi) /\ Cardinality(b.lo + 1 .. b.hi) = b.hi - (b.lo + 1) + 1
        BY <3>1, FS_Interval, Zenon
      <3> QED BY <1>1, <3>2 DEF Rows
    <2>3. Cardinality(written[p] \cap Rows(b)) = 0
      <3>1. written[p] \cap Rows(b) = {} BY <2>1, Zenon
      <3> QED BY <3>1, FS_EmptySet, Zenon
    <2>4. Cardinality(written[p] \cup Rows(b)) = Cardinality(written[p]) + (b.hi - b.lo) - 0
      BY <1>6, <2>2, <2>3, FS_Union, Zenon
    <2> QED BY <1>1, <1>6, <1>7, <2>4 DEF b
  <1>8. CASE b.kind # "rows"
    <2>1. written'[p] = written[p] BY <1>1, <1>8, Zenon
    <2> QED BY <1>6, <1>8, <2>1 DEF b
  <1> QED BY <1>7, <1>8, Zenon

\* A bitmap counts each batch that is written once, and knows the total of a part only
\* from the batch that ends it.
LEMMA CountStep == TypeOK /\ SourceInv /\ DrainInv /\ ItemInv /\ CountInv /\ [Next]_vars => CountInv'
  <1> SUFFICES ASSUME TypeOK, SourceInv, DrainInv, ItemInv, CountInv, [Next]_vars PROVE CountInv' BY Zenon
  <1>1. setup' = setup BY StateMoves, Zenon
  <1>2. ASSUME NEW p \in Parts, prog'[p].want >= 0, prog'[p].want = prog[p].want
        PROVE  /\ ~Stream /\ prog'[p].want = bld'[p].total /\ bld'[p].open = 0
               /\ src'[p].pc \notin {"reading", "sending"}
    <2>1. /\ ~Stream /\ prog[p].want = bld[p].total /\ bld[p].open = 0 /\ src[p].pc \notin {"reading", "sending"}
      BY <1>2, Zenon DEF CountInv
    <2>2. bld'[p] = bld[p]
      <3>1. CASE bld' = bld BY <3>1, Zenon
      <3>2. ASSUME NEW q \in Parts, BuilderStep(q) PROVE bld'[p] = bld[p]
        <4>1. CASE q # p BY <3>2, <4>1, BuilderOthers, Zenon
        <4>2. CASE q = p
          <5>1. ~Row(q) /\ ~Flush(q) /\ ~Drain(q)
            BY <2>1, <4>2, Zenon DEF Row, Flush, Drain, Producing, Free
          <5>2. ~CloseFlush(q) /\ ~BarrierFlush(q) BY <2>1, <4>2 DEF CloseFlush, BarrierFlush
          <5> QED BY <3>2, <5>1, <5>2, Zenon DEF BuilderStep
        <4> QED BY <4>1, <4>2, Zenon
      <3> QED BY <3>1, <3>2, BuilderStill, Zenon
    <2> QED BY <1>2, <2>1, <2>2, PhaseMoves, Zenon
  <1>3. CASE UNCHANGED sinkVars
    BY <1>1, <1>2, <1>3, Zenon DEF sinkVars, CountInv, Stream
  <1>4. ASSUME NEW w \in Workers, Write(w) PROVE CountInv'
    <2> DEFINE b == wr[w]
    <2>1. /\ b \in Batches /\ Sound(b) /\ b.part \in Parts
          /\ \A p \in Parts \ {b.part} : written'[p] = written[p] /\ prog'[p] = prog[p]
          /\ prog'[b.part] = Fold(b)
          /\ Cardinality(written'[b.part]) = Cardinality(written[b.part]) + (IF b.kind = "rows" THEN b.hi - b.lo ELSE 0)
          /\ Cardinality(written[b.part]) \in Nat
      BY <1>4, WriteFacts, WriteCounts, Zenon
    <2>2. UNCHANGED <<src, bld>> BY <1>4, Zenon DEF Write, sourceVars
    <2> HIDE DEF b
    <2>3. ASSUME NEW p \in Parts
          PROVE  /\ setup.kind = "coarse" => prog'[p].acked = Cardinality(written'[p])
                 /\ prog'[p].want >= 0 => /\ ~Stream /\ prog'[p].want = bld'[p].total /\ bld'[p].open = 0
                                          /\ src'[p].pc \notin {"reading", "sending"}
                 /\ prog'[p].shard = "done" =>
                      setup.kind = "coarse" /\ prog'[p].want >= 0 /\ prog'[p].acked >= prog'[p].want
      <3>1. CASE p # b.part BY <2>1, <2>2, <3>1, Zenon DEF CountInv
      <3>2. CASE p = b.part
        <4>1. /\ b.hi \in Nat /\ b.lo \in Nat /\ b.lo <= b.hi /\ prog[p].acked \in Nat /\ prog[p].want \in Int
              /\ b.kind \in BatchKinds
          BY <2>1, BatchFacts DEF TypeOK, SinkType, Counts
        <4>2. CASE setup.kind # "coarse"
          <5>1. /\ prog'[p].want = prog[p].want /\ prog'[p].shard = prog[p].shard
            BY <2>1, <3>2, <4>2, FoldFacts, SetupFacts, Zenon DEF TypeOK
          <5> QED BY <1>2, <4>2, <5>1, Zenon DEF CountInv
        <4>3. CASE setup.kind = "coarse"
          <5>1. /\ prog'[p].acked = prog[p].acked + (IF b.kind = "rows" THEN b.hi - b.lo ELSE 0)
                /\ prog'[p].want = (IF b.kind = "marker" THEN b.hi ELSE prog[p].want)
                /\ prog'[p].shard = prog[p].shard
                   \/ (prog'[p].shard = "done" /\ prog'[p].want >= 0 /\ prog'[p].acked >= prog'[p].want)
            BY <2>1, <3>2, <4>3, FoldFacts, Zenon
          <5>2. prog'[p].acked = Cardinality(written'[p]) BY <2>1, <3>2, <4>3, <5>1, Zenon DEF CountInv
          <5>3. CASE b.kind = "rows"
            <6>1. prog'[p].want = prog[p].want /\ prog'[p].acked >= prog[p].acked
              BY <4>1, <5>1, <5>3
            <6>2. prog[p].shard = "done" => prog[p].want >= 0 /\ prog[p].acked >= prog[p].want BY Zenon DEF CountInv
            <6> QED BY <1>2, <4>1, <4>3, <5>1, <5>2, <6>1, <6>2
          <5>4. CASE b.kind = "marker"
            <6>1. prog'[p].want = b.hi /\ prog'[p].acked = prog[p].acked BY <4>1, <5>1, <5>4
            <6>2. /\ ~Stream /\ b.hi = bld[p].total /\ src[p].pc \notin {"reading", "sending"}
                  /\ b.hi <= bld[p].total - bld[p].open
              BY <2>1, <3>2, <5>4, Zenon DEF Sound
            <6>3. bld[p].open = 0 BY <4>1, <6>2, BuilderFacts
            <6>4. prog[p].shard = "done" => prog[p].want = b.hi /\ prog[p].acked >= prog[p].want
              BY <6>2, Zenon DEF CountInv
            <6> QED BY <2>2, <4>1, <4>3, <5>1, <5>2, <6>1, <6>2, <6>3, <6>4
          <5> QED BY <4>1, <5>3, <5>4, Zenon DEF BatchKinds
        <4> QED BY <4>2, <4>3, Zenon
      <3> QED BY <3>1, <3>2, Zenon
    <2> QED BY <1>1, <2>3, Zenon DEF CountInv, Stream
  <1> QED BY <1>3, <1>4, SinkStill, Zenon

\* Keys cover written rows, and a part is done when as many rows are written as there
\* are.
LEMMA CoveredHolds == TypeOK /\ ItemInv /\ KeyInv /\ CountInv => CursorCovered
  <1> SUFFICES ASSUME TypeOK, ItemInv, KeyInv, CountInv, NEW p \in Parts, prog[p].shard = "done"
               PROVE  written[p] = All(p)
    BY Zenon DEF CursorCovered, KeyInv
  <1>1. /\ prog[p].want >= 0 /\ prog[p].acked >= prog[p].want /\ prog[p].want = bld[p].total /\ bld[p].open = 0
        /\ prog[p].acked = Cardinality(written[p])
    BY Zenon DEF CountInv
  <1>2. bld[p].total \in Nat /\ bld[p].total - bld[p].open = bld[p].total BY <1>1, BuilderFacts
  <1>3. written[p] \in SUBSET (1..bld[p].total) BY <1>2, Zenon DEF ItemInv
  <1>4. IsFiniteSet(1..bld[p].total) /\ Cardinality(1..bld[p].total) = bld[p].total
    <2>1. 1 \in Int /\ bld[p].total \in Int BY <1>2
    <2>2. IsFiniteSet(1..bld[p].total)
          /\ Cardinality(1..bld[p].total) = IF 1 > bld[p].total THEN 0 ELSE bld[p].total - 1 + 1
      BY <2>1, FS_Interval, Zenon
    <2> QED BY <1>2, <2>2
  <1>5. Cardinality(written[p]) <= Cardinality(1..bld[p].total)
        /\ (Cardinality(1..bld[p].total) = Cardinality(written[p]) => 1..bld[p].total = written[p])
    BY <1>3, <1>4, FS_Subset, Zenon
  <1>6. Cardinality(written[p]) \in Nat
    <2>1. IsFiniteSet(written[p]) BY <1>3, <1>4, FS_Subset, Zenon
    <2> QED BY <2>1, FS_CardinalityType, Zenon
  <1>7. Cardinality(written[p]) = bld[p].total BY <1>1, <1>2, <1>4, <1>5, <1>6
  <1> QED BY <1>4, <1>5, <1>7, Zenon DEF All

\* A control came through since the last row.
Quiet == bar.pc = "receipt" \/ ep.sealed \/ ep.completed # {}
SettledInv == Quiet => Settled

\* The epochs of a stream count the rows that were written under them.
EpochInv ==
  /\ ~Stream => ep.n = 0
  /\ ep.n = 0 => ~ep.sealed /\ ep.completed = {} /\ \A p \in Parts : evidence[p] = 0
  /\ Stream /\ ~ep.touched => \A p \in Parts : bld[p].total = 0
  /\ ep.n > 0 => \A b \in InFlight : b.epoch > 0
  /\ ep.n > 0 => \A p \in Parts : evidence[p] + (IF ep.sealed THEN 0 ELSE ep.rows[p]) = Cardinality(written[p])

\* At the start no epoch is open.
LEMMA EpochInit == Init => SettledInv /\ EpochInv
  <1> SUFFICES ASSUME Init PROVE SettledInv /\ EpochInv BY Zenon
  <1>1. bar.pc = "none" BY Zenon DEF Init, NoBarrier
  <1>2. ep.n = 0 /\ ep.completed = {} BY Zenon DEF Init
  <1>3. ~ep.sealed BY Zenon DEF Init
  <1>4. \A p \in Parts : evidence[p] = 0 /\ bld[p].total = 0 BY Zenon DEF Init
  <1> QED BY <1>1, <1>2, <1>3, <1>4 DEF SettledInv, Quiet, EpochInv

\* Nothing is in flight of a stream whose rows are all written.
LEMMA SettledIsIdle ==
  ASSUME TypeOK, ItemInv, Stream, Settled
  PROVE  InFlight = {}
  <1> SUFFICES ASSUME NEW b \in InFlight PROVE FALSE BY Zenon
  <1>1. b \in Batches /\ Sound(b) BY FlightType, Zenon DEF ItemInv
  <1>2. b.part \in Parts /\ b.lo \in Nat /\ b.hi \in Nat /\ b.kind \in BatchKinds BY <1>1, BatchFacts, Zenon
  <1>3. b.kind = "rows" /\ b.lo < b.hi /\ Rows(b) \cap written[b.part] = {} /\ b.hi <= bld[b.part].total - bld[b.part].open
    BY <1>1, <1>2, Zenon DEF Sound, BatchKinds
  <1>4. b.hi \in Rows(b) BY <1>2, <1>3 DEF Rows
  <1>5. b.hi \in 1..bld[b.part].total BY <1>2, <1>3, BuilderFacts
  <1> QED BY <1>2, <1>3, <1>4, <1>5, Zenon DEF Settled, All

\* What a step does to the epoch.
LEMMA EpochMoves ==
  ASSUME TypeOK, [Next]_vars
  PROVE  \/ BindEpoch \/ SealEpoch \/ \E w \in Workers : Write(w)
         \/ /\ ep'.n = ep.n /\ ep'.sealed = ep.sealed /\ ep'.rows = ep.rows /\ evidence' = evidence
            /\ ep.touched => ep'.touched
            /\ ep'.completed = ep.completed \/ ep'.completed = {} \/ (bar.pc = "receipt" /\ ep.n > 0)
  <1> DEFINE Same == /\ ep'.n = ep.n /\ ep'.sealed = ep.sealed /\ ep'.rows = ep.rows /\ evidence' = evidence
                     /\ ep.touched => ep'.touched
                     /\ ep'.completed = ep.completed \/ ep'.completed = {} \/ (bar.pc = "receipt" /\ ep.n > 0)
  <1>1. ep \in [n : 0..MaxEpochs, sealed : BOOLEAN, touched : BOOLEAN, completed : SUBSET Domains,
                txns : SUBSET Domains, rows : [Parts -> Nat], controls : 0..MaxControls, active : SUBSET Parts]
    BY Zenon DEF TypeOK, StreamType
  <1>2. ep' = ep /\ evidence' = evidence => Same BY Zenon
  <1>3. ASSUME NEW p \in Parts, Source(p) PROVE Same
    <2>1. Row(p) \/ (ep' = ep /\ evidence' = evidence)
      BY <1>3, Zenon DEF Source, Flush, Drain, SourceEnds, Send, SendRefused, CloseFlush, streamVars, historyVars
    <2>2. Row(p) => evidence' = evidence
                    /\ ep' = IF Stream THEN [ep EXCEPT !.touched = TRUE, !.completed = {}, !.active = {p}] ELSE ep
      BY Zenon DEF Row
    <2>3. Row(p) => Same BY <1>1, <2>2, Zenon
    <2> QED BY <1>2, <2>1, <2>3, Zenon
  <1>4. Cancel \/ CloseDone \/ Tick \/ CloseIngest \/ CloseChannel \/ Wait => ep' = ep /\ evidence' = evidence
    BY Zenon DEF Cancel, CloseDone, Tick, CloseIngest, CloseChannel, Wait, streamVars, historyVars
  <1>5. ASSUME NEW w, Transformer(w) PROVE ep' = ep /\ evidence' = evidence
    BY <1>5, Zenon DEF Transformer, TakeTransform, TransformFails, Forward, ForwardRefused, ExitTransformer,
                       streamVars, historyVars
  <1>6. ASSUME NEW w, Writer(w) PROVE (w \in Workers /\ Write(w)) \/ (ep' = ep /\ evidence' = evidence)
    BY <1>6, Zenon DEF Writer, TakeBatch, WriteFails, ExitWriter, streamVars, historyVars
  <1>7. ASSUME NEW k \in Kinds, NEW d \in Domains, Barrier(k, d) PROVE Same
    <2>1. ep' = [ep EXCEPT !.touched = TRUE, !.controls = @ + 1] /\ evidence' = evidence
      BY <1>7, Zenon DEF Barrier, historyVars
    <2> QED BY <1>1, <2>1, Zenon
  <1>8. ASSUME BarrierReturns PROVE Same
    <2>1. evidence' = evidence /\ bar.pc = "receipt" BY <1>8, Zenon DEF BarrierReturns, historyVars
    <2>2. ep' = ep \/ \E x, c : /\ ep' = [ep EXCEPT !.txns = x, !.completed = c]
                                /\ c = ep.completed \/ ep.n > 0
      BY <1>8, Zenon DEF BarrierReturns
    <2> QED BY <1>1, <2>1, <2>2, Zenon
  <1>9. Misuse \/ BarrierQueue \/ BarrierFails \/ BarrierCanceled \/ (\E p \in Parts : BarrierFlush(p))
          => ep' = ep /\ evidence' = evidence
    BY Zenon DEF Misuse, BarrierQueue, BarrierFails, BarrierCanceled, BarrierFlush, streamVars, historyVars
  <1>10. UNCHANGED vars => ep' = ep /\ evidence' = evidence BY Zenon DEF vars, streamVars, historyVars
  <1> HIDE DEF Same
  <1>11. Epoch => BindEpoch \/ SealEpoch \/ Same BY <1>2, <1>7, <1>8, <1>9, Zenon DEF Epoch
  <1>12. BindEpoch \/ SealEpoch \/ (\E w \in Workers : Write(w)) \/ Same
    BY <1>2, <1>3, <1>4, <1>5, <1>6, <1>10, <1>11, Zenon DEF Next
  <1> QED BY <1>12, Zenon DEF Same

\* The rows of a stream that is quiet stay as they are until the next row.
LEMMA SettledStep ==
  TypeOK /\ SourceInv /\ RouteInv /\ ItemInv /\ CoverInv /\ FenceInv /\ EpochInv /\ SettledInv /\ [Next]_vars
    => SettledInv'
  \* When a writer takes the control of a barrier, every row is written.
  <1>ReceiptSettles. ASSUME TypeOK, SourceInv, RouteInv, ItemInv, CoverInv, FenceInv, NEW w \in Workers, TakeBatch(w),
                            bar.pc = "wait", Head(ch["batch"]) = Control, ~err, ~(Stream /\ canceled)
                     PROVE  Settled
    <2> USE <1>ReceiptSettles
    <2>1. Stream /\ ~canceled /\ Flushed BY Zenon DEF SourceInv, FenceInv
    <2>2. ch["batch"] \in Seq(Items) /\ ch["batch"] # <<>> /\ wr[w] = Empty
      BY Zenon DEF TakeBatch, TypeOK, PoolType, Channels
    <2>3. /\ Control \in Range(ch["batch"]) /\ Range(ch["batch"]) = {Control} \cup Range(Tail(ch["batch"]))
      BY <2>2, RangeTail, Zenon
    <2>4. Tail(ch["batch"]) = <<>> BY <2>1, <2>2, LastFacts, Zenon DEF FenceInv
    <2>5. ch["transform"] = <<>> /\ \A v \in Workers : xf[v] \notin Items BY <2>1, <2>3, Zenon DEF FenceInv
    <2>6. InFlight = {}
      <3>1. Range(<<>>) = {} BY DEF Range
      <3>2. \A v \in Workers : v = w
        <4>1. setup.kind # "coarse" BY <2>1, Zenon DEF Stream
        <4> QED BY <4>1, SetupFacts DEF TypeOK, Workers
      <3>3. Range(wr) \subseteq {Empty} BY <2>2, <3>2, Zenon DEF Range, TypeOK, PoolType
      <3>4. Range(xf) \subseteq {Empty, Gone} BY <2>5, Zenon DEF Range, TypeOK, PoolType
      <3>5. SourceItems \subseteq {Empty} BY <2>1, Zenon DEF SourceItems, Flushed
      <3>6. Aboard \cup SourceItems \subseteq {Empty, Gone, Control}
        BY <2>3, <2>4, <2>5, <3>1, <3>3, <3>4, <3>5, Zenon DEF Aboard
      <3> QED BY <3>6, FlightType, Zenon DEF InFlight
    <2>7. dropped = {} BY <2>1, Zenon DEF RouteInv, TypeOK, StateType
    <2>8. ASSUME NEW p \in Parts PROVE written[p] = All(p)
      <3>1. src[p].pc # "failed" /\ bld[p].open = 0 BY <2>1, Zenon DEF SourceInv, SourceOK, Flushed
      <3>2. \A r \in 1..(bld[p].total - bld[p].open) : r \in written[p] BY <2>6, <2>7, <3>1, Zenon DEF CoverInv, Held
      <3>3. bld[p].total - bld[p].open = bld[p].total BY <3>1, BuilderFacts
      <3> QED BY <3>2, <3>3, Zenon DEF ItemInv, All
    <2> QED BY <2>8, Zenon DEF Settled
  <1> SUFFICES ASSUME TypeOK, SourceInv, RouteInv, ItemInv, CoverInv, FenceInv, EpochInv, SettledInv, [Next]_vars, Quiet'
               PROVE  Settled'
    BY Zenon DEF SettledInv
  <1>1. ep \in [n : 0..MaxEpochs, sealed : BOOLEAN, touched : BOOLEAN, completed : SUBSET Domains,
                txns : SUBSET Domains, rows : [Parts -> Nat], controls : 0..MaxControls, active : SUBSET Parts]
    BY Zenon DEF TypeOK, StreamType
  <1>2. Settled /\ Stream
    <2>1. ASSUME Quiet PROVE Stream BY <2>1, Zenon DEF SourceInv, EpochInv, Quiet
    <2>2. ASSUME ~Quiet PROVE Settled /\ Stream
      <3>1. bar'.pc = "receipt" => Settled /\ Stream
        <4>1. bar'.pc = "receipt" =>
                \E w \in Workers : /\ TakeBatch(w) /\ bar.pc = "wait"
                                   /\ Head(ch["batch"]) = Control /\ ~err /\ ~(Stream /\ canceled)
          BY <2>2, BarMoves, Zenon DEF Quiet
        <4> QED BY <4>1, <1>ReceiptSettles, Zenon DEF SourceInv
      <3>2. ~BindEpoch \/ bar'.pc = "receipt"
        <4>1. BindEpoch => ep' = [ep EXCEPT !.n = @ + 1, !.sealed = FALSE, !.completed = {}, !.rows = [p \in Parts |-> 0]]
          BY Zenon DEF BindEpoch
        <4>2. BindEpoch => ~ep'.sealed /\ ep'.completed = {} BY <1>1, <4>1, Zenon
        <4> QED BY <4>2, Zenon DEF Quiet
      <3>3. ~SealEpoch BY <2>2, Zenon DEF SealEpoch, Quiet
      <3>4. ASSUME NEW w \in Workers, Write(w), bar'.pc # "receipt" PROVE FALSE
        <4>1. ep' = ep \/ \E r : ep' = [ep EXCEPT !.rows = r] BY <3>4, Zenon DEF Write
        <4>2. ep'.sealed = ep.sealed /\ ep'.completed = ep.completed BY <1>1, <4>1, Zenon
        <4> QED BY <2>2, <3>4, <4>2, Zenon DEF Quiet
      <3> QED BY <2>2, <3>1, <3>2, <3>3, <3>4, EpochMoves, Zenon DEF Quiet
    <2> QED BY <2>1, <2>2, Zenon DEF SettledInv
  <1>3. written' = written
    <2>1. ASSUME NEW w \in Workers, Write(w) PROVE FALSE
      <3>1. wr[w] \in InFlight BY <2>1, WriteFacts, Zenon
      <3> QED BY <1>2, <3>1, SettledIsIdle, Zenon
    <2> QED BY <2>1, SinkStill, Zenon DEF sinkVars
  <1>4. \A p \in Parts : bld'[p].total = bld[p].total
    <2>1. ASSUME NEW q \in Parts, BuilderStep(q), NEW p \in Parts PROVE bld'[p].total = bld[p].total
      <3>1. ~Row(q)
        <4>1. SUFFICES ASSUME Row(q) PROVE FALSE BY Zenon
        <4>2. bar.pc = "none" /\ bar' = bar BY <1>2, <4>1, Zenon DEF Row, Producing, Free
        <4>3. ~ep.sealed /\ ep' = [ep EXCEPT !.touched = TRUE, !.completed = {}, !.active = {q}]
          BY <1>2, <4>1, Zenon DEF Row
        <4>4. ~ep'.sealed /\ ep'.completed = {} BY <1>1, <4>3, Zenon
        <4> QED BY <4>2, <4>4, Zenon DEF Quiet
      <3>2. bld' = [bld EXCEPT ![q].open = 0]
        BY <2>1, <3>1, Zenon DEF BuilderStep, Flush, CloseFlush, BarrierFlush, Drain
      <3> QED BY <3>2, Zenon DEF TypeOK, SourceType
    <2> QED BY <2>1, BuilderStill, Zenon
  <1> QED BY <1>2, <1>3, <1>4, Zenon DEF Settled, All

\* Every row of an epoch is counted, and no row of an earlier one.
LEMMA EpochStep ==
  TypeOK /\ SourceInv /\ ItemInv /\ EpochInv /\ SettledInv /\ [Next]_vars => EpochInv'
  <1> SUFFICES ASSUME TypeOK, SourceInv, ItemInv, EpochInv, SettledInv, [Next]_vars PROVE EpochInv' BY Zenon
  <1>1. ep \in [n : 0..MaxEpochs, sealed : BOOLEAN, touched : BOOLEAN, completed : SUBSET Domains,
                txns : SUBSET Domains, rows : [Parts -> Nat], controls : 0..MaxControls, active : SUBSET Parts]
    BY Zenon DEF TypeOK, StreamType
  <1>2. setup' = setup /\ Stream' = Stream BY StateMoves, Zenon DEF Stream
  <1>3. ep.n \in Nat /\ ep.rows \in [Parts -> Nat] BY <1>1, BoundsAssumption
  <1>4. CASE BindEpoch
    <2>1. ep' = [ep EXCEPT !.n = @ + 1, !.sealed = FALSE, !.completed = {}, !.rows = [p \in Parts |-> 0]]
          /\ Stream /\ (IF ep.n = 0 THEN ~ep.touched ELSE ep.sealed)
          /\ UNCHANGED <<poolVars, sourceVars, sinkVars, historyVars>>
      BY <1>4, Zenon DEF BindEpoch, Serial
    <2>2. ep'.n = ep.n + 1 /\ ep'.rows = [p \in Parts |-> 0] /\ (ep'.touched <=> ep.touched) BY <1>1, <2>1, Zenon
    <2>3. ~ep'.sealed BY <1>1, <2>1, Zenon
    <2>4. InFlight' = InFlight /\ bld' = bld /\ written' = written /\ evidence' = evidence
      BY <2>1, Zenon DEF InFlight, Aboard, SourceItems, poolVars, sourceVars, sinkVars, historyVars
    <2>5. CASE ep.n = 0
      <3>1. \A p \in Parts : bld[p].total = 0 /\ evidence[p] = 0 BY <2>1, <2>5, Zenon DEF EpochInv
      <3>2. \A p \in Parts : written[p] = {} /\ All(p) = {}
        BY <3>1, BuilderFacts DEF ItemInv, All
      <3>3. InFlight = {} BY <2>1, <3>2, SettledIsIdle, Zenon DEF Settled
      <3>4. \A p \in Parts : evidence'[p] + ep'.rows[p] = Cardinality(written'[p])
        <4>1. ASSUME NEW p \in Parts PROVE evidence'[p] = 0 /\ ep'.rows[p] = 0 /\ written'[p] = {}
          BY <2>2, <2>4, <3>1, <3>2, Zenon
        <4>2. Cardinality({}) = 0 BY FS_EmptySet, Zenon
        <4> QED BY <4>1, <4>2
      <3>5. ep'.n > 0 BY <2>2, <2>5
      <3> QED BY <1>2, <2>1, <2>3, <2>4, <3>1, <3>3, <3>4, <3>5 DEF EpochInv
    <2>6. CASE ep.n # 0
      <3>1. \A p \in Parts : evidence[p] = Cardinality(written[p]) /\ evidence[p] \in Nat
        BY <1>3, <2>1, <2>6 DEF EpochInv, TypeOK, HistoryType
      <3>2. ep'.n > 0 /\ ep.n > 0 BY <1>3, <2>2, <2>6
      <3>3. \A p \in Parts : evidence'[p] + ep'.rows[p] = Cardinality(written'[p]) BY <2>2, <2>4, <3>1
      <3> QED BY <1>2, <2>1, <2>2, <2>3, <2>4, <3>2, <3>3 DEF EpochInv
    <2> QED BY <2>5, <2>6, Zenon
  <1>5. CASE SealEpoch
    <2>1. /\ ep' = [ep EXCEPT !.sealed = TRUE] /\ evidence' = [p \in Parts |-> evidence[p] + ep.rows[p]]
          /\ ep.n > 0 /\ ~ep.sealed /\ Stream /\ UNCHANGED <<poolVars, sourceVars, sinkVars>>
      BY <1>5, Zenon DEF SealEpoch, Serial
    <2>2. ep'.n = ep.n /\ ep'.rows = ep.rows /\ (ep'.touched <=> ep.touched) BY <1>1, <2>1, Zenon
    <2>3. ep'.sealed BY <1>1, <2>1, Zenon
    <2>4. InFlight' = InFlight /\ bld' = bld /\ written' = written
      BY <2>1, Zenon DEF InFlight, Aboard, SourceItems, poolVars, sourceVars, sinkVars
    <2>5. \A p \in Parts : evidence'[p] + 0 = Cardinality(written'[p])
      BY <1>3, <2>1, <2>4 DEF EpochInv, TypeOK, HistoryType
    <2> QED BY <1>2, <1>3, <2>1, <2>2, <2>3, <2>4, <2>5 DEF EpochInv
  <1>6. ASSUME NEW w \in Workers, Write(w) PROVE EpochInv'
    <2> DEFINE b == wr[w]
    <2>1. /\ b \in Batches /\ b \in InFlight /\ Sound(b) /\ b.part \in Parts
          /\ \A p \in Parts \ {b.part} : written'[p] = written[p]
          /\ Cardinality(written'[b.part]) = Cardinality(written[b.part]) + (IF b.kind = "rows" THEN b.hi - b.lo ELSE 0)
          /\ Cardinality(written[b.part]) \in Nat
      BY <1>6, WriteFacts, WriteCounts, Zenon
    <2>2. b.lo \in Nat /\ b.hi \in Nat /\ b.epoch \in Nat /\ b.kind \in BatchKinds BY <2>1, BatchFacts, Zenon
    <2>3. /\ ep' = IF b.epoch > 0 THEN [ep EXCEPT !.rows[b.part] = @ + b.hi - b.lo] ELSE ep
          /\ UNCHANGED <<bld, evidence>>
      BY <1>6, Zenon DEF Write, sourceVars
    <2>4. InFlight' \subseteq InFlight BY <1>6, FlowWriter, Zenon DEF Loses
    <2> HIDE DEF b
    <2>5. ep'.n = ep.n /\ (ep'.sealed <=> ep.sealed) /\ (ep'.touched <=> ep.touched) /\ ep'.completed = ep.completed
      BY <1>1, <2>3, Zenon
    <2>6. ASSUME ep.n > 0, NEW p \in Parts
          PROVE  evidence'[p] + (IF ep'.sealed THEN 0 ELSE ep'.rows[p]) = Cardinality(written'[p])
      <3>1. Stream BY <1>3, <2>6 DEF EpochInv
      <3>2. b.epoch > 0 /\ b.kind = "rows" BY <2>1, <2>2, <2>6, <3>1, Zenon DEF EpochInv, Sound, BatchKinds
      <3>3. ~ep.sealed BY <2>1, <3>1, SettledIsIdle, Zenon DEF SettledInv, Quiet
      <3>4. ep' = [ep EXCEPT !.rows[b.part] = @ + b.hi - b.lo] BY <2>3, <3>2, Zenon
      <3>5. ep'.rows = [ep.rows EXCEPT ![b.part] = @ + b.hi - b.lo] BY <1>1, <3>4, Zenon
      <3>6. evidence[p] + ep.rows[p] = Cardinality(written[p]) /\ evidence[p] \in Nat
        BY <2>6, <3>3, Zenon DEF EpochInv, TypeOK, HistoryType
      <3>7. evidence'[p] = evidence[p] BY <2>3, Zenon
      <3>8. evidence[p] + ep'.rows[p] = Cardinality(written'[p])
        BY <1>3, <2>1, <2>2, <3>2, <3>5, <3>6
      <3> QED BY <2>5, <3>3, <3>7, <3>8, Zenon
    <2> QED BY <1>2, <2>3, <2>4, <2>5, <2>6, Zenon DEF EpochInv
  <1>7. ASSUME ep'.n = ep.n, ep'.sealed = ep.sealed, ep'.rows = ep.rows, evidence' = evidence,
               ep.touched => ep'.touched,
               ep'.completed = ep.completed \/ ep'.completed = {} \/ (bar.pc = "receipt" /\ ep.n > 0),
               \A w \in Workers : ~Write(w)
        PROVE  EpochInv'
    <2>1. written' = written BY <1>7, SinkStill, Zenon DEF sinkVars
    <2>2. ASSUME Stream, ~ep'.touched, NEW p \in Parts PROVE bld'[p].total = 0
      <3>1. bld[p].total = 0 BY <1>7, <2>2, Zenon DEF EpochInv
      <3>2. ASSUME NEW q \in Parts, BuilderStep(q) PROVE bld'[p].total = bld[p].total
        <4>1. ~Row(q)
          <5>1. Row(q) => ep' = [ep EXCEPT !.touched = TRUE, !.completed = {}, !.active = {q}] BY <2>2, Zenon DEF Row
          <5> QED BY <1>1, <2>2, <5>1, Zenon
        <4>2. bld' = [bld EXCEPT ![q].open = 0]
          BY <3>2, <4>1, Zenon DEF BuilderStep, Flush, CloseFlush, BarrierFlush, Drain
        <4> QED BY <4>2, Zenon DEF TypeOK, SourceType
      <3> QED BY <3>1, <3>2, BuilderStill, Zenon
    <2>3. ASSUME ep.n > 0, NEW b \in InFlight' PROVE b.epoch > 0
      <3>1. b \in InFlight \/ b.epoch = ep.n BY FlowStep, Zenon DEF Loses, Fills, Makes
      <3> QED BY <2>3, <3>1, Zenon DEF EpochInv
    <2> QED BY <1>2, <1>3, <1>7, <2>1, <2>2, <2>3 DEF EpochInv
  <1> QED BY <1>4, <1>5, <1>6, <1>7, EpochMoves, Zenon

\* A sealed epoch is quiet, so its evidence counts exactly the rows of the builders.
LEMMA EvidenceHolds == TypeOK /\ EpochInv /\ SettledInv => EvidenceIsExact
  <1> SUFFICES ASSUME TypeOK, EpochInv, SettledInv, ep.sealed, NEW p \in Parts
               PROVE  written[p] = All(p) /\ evidence[p] = bld[p].total
    BY Zenon DEF EvidenceIsExact
  <1>1. written[p] = All(p) BY Zenon DEF SettledInv, Quiet, Settled
  <1>2. ep.n > 0 /\ evidence[p] \in Nat
    BY BoundsAssumption DEF EpochInv, TypeOK, StreamType, HistoryType
  <1>3. evidence[p] + 0 = Cardinality(written[p]) BY <1>2, Zenon DEF EpochInv
  <1>4. Cardinality(1..bld[p].total) = bld[p].total
    <2>1. 1 \in Int /\ bld[p].total \in Int /\ bld[p].total \in Nat BY BuilderFacts
    <2>2. IsFiniteSet(1..bld[p].total) /\ Cardinality(1..bld[p].total) = IF 1 > bld[p].total THEN 0 ELSE bld[p].total - 1 + 1
      BY <2>1, FS_Interval, Zenon
    <2> QED BY <2>1, <2>2
  <1> QED BY <1>1, <1>2, <1>3, <1>4 DEF All

-----------------------------------------------------------------------------
(* The inductive invariant and the theorems *)

\* The inductive invariant.
PipelineInv ==
  /\ TypeOK /\ SourceInv /\ DrainInv /\ GoneInv /\ RouteInv
  /\ ItemInv /\ ApartInv /\ CoverInv /\ FrontInv /\ KeyInv /\ CountInv
  /\ FenceInv /\ SettledInv /\ EpochInv
  /\ OrderInv /\ PlainInv

\* What holds at the start.
LEMMA PipelineInit == Init => PipelineInv
  <1>1. Init => PlainInv BY Zenon DEF Init, PlainInv
  <1> QED
    BY <1>1, TypeInit, SourceInit, DrainInit, ItemInit, CoverInit, FrontInit, CountInit, FenceInit, EpochInit,
       OrderInit, Zenon DEF PipelineInv

\* Every step of the pipeline keeps the invariant.
LEMMA PipelineStep == PipelineInv /\ [Next]_vars => PipelineInv'
  <1> SUFFICES ASSUME PipelineInv, [Next]_vars PROVE PipelineInv' BY Zenon
  <1>1. TypeOK' /\ SourceInv' /\ DrainInv' /\ GoneInv' /\ RouteInv'
    BY TypeStep, SourceStep, DrainStep, GoneStep, RouteStep, Zenon DEF PipelineInv
  <1>2. ItemInv' /\ ApartInv' /\ CoverInv' /\ FrontInv'
    BY ItemStep, ApartStep, CoverStep, FrontStep, Zenon DEF PipelineInv
  <1>3. KeyInv' /\ CountInv'
    BY KeyStep, CountStep, Zenon DEF PipelineInv
  <1>4. FenceInv' /\ SettledInv' /\ EpochInv'
    BY FenceStep, SettledStep, EpochStep, Zenon DEF PipelineInv
  <1>5. OrderInv' /\ PlainInv'
    BY OrderStep, PlainStep, Zenon DEF PipelineInv
  <1> QED BY <1>1, <1>2, <1>3, <1>4, <1>5, Zenon DEF PipelineInv

\* Every reachable state of a pipeline satisfies the invariant: the behaviours of its
\* sources, channels, pools, barriers and epochs keep what the properties below rest on.
THEOREM PipelineInvariant == Spec => []PipelineInv
  BY PipelineInit, PipelineStep, PTL DEF Spec

\* Every variable of a pipeline keeps its type: states, pools, channels within their
\* capacity, builders, epochs and progress.
THEOREM PipelineTypeOK == Spec => []TypeOK
  <1>1. PipelineInv => TypeOK BY Zenon DEF PipelineInv
  <1> QED BY <1>1, PipelineInvariant, PTL

\* The checkpoint saved while a pipeline runs never covers a row that the sink does not
\* hold, for every number of parts, workers, rows, batches and ticks: a key only moves
\* past written rows, and a coarse shard is done only when all its rows are written
\* (progress.go, writer.go).
THEOREM PipelineCursorCovered == Spec => []CursorCovered
  <1>1. PipelineInv => CursorCovered BY CoveredHolds, Zenon DEF PipelineInv
  <1> QED BY <1>1, PipelineInvariant, PTL

\* A bounded pipeline whose source and whose Wait return nil has written every row it
\* read, but for what a transformer gave up after a cancellation: whatever the order in
\* which sources flush, channels fill, writers fail and CloseIngest drains.
THEOREM PipelineSuccessIsComplete == Spec => []SuccessIsComplete
  <1>1. PipelineInv => SuccessIsComplete BY CompleteHolds, Zenon DEF PipelineInv
  <1> QED BY <1>1, PipelineInvariant, PTL

\* SealEpoch of a stream returns totals that count every row of every resource once, and
\* all of them are written, for every interleaving of rows, ticks, chunks, the barrier
\* and its control with the transformers and the writer.
THEOREM PipelineEvidenceIsExact == Spec => []EvidenceIsExact
  <1>1. PipelineInv => EvidenceIsExact BY EvidenceHolds, Zenon DEF PipelineInv
  <1> QED BY <1>1, PipelineInvariant, PTL

\* A stream of global strict order applies rows in the order they were appended, across
\* resources, however they are grouped into chunks.
THEOREM PipelineStrictOrder == Spec => []StrictOrder
  <1>1. PipelineInv => StrictOrder BY StrictHolds, Zenon DEF PipelineInv
  <1> QED BY <1>1, PipelineInvariant, PTL
=============================================================================
