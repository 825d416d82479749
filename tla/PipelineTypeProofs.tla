------------------------- MODULE PipelineTypeProofs -------------------------
(***************************************************************************)
(* Every step of a pipeline keeps TypeOK, the source and what it sends in  *)
(* agreement, a closed channel drained before its readers exit, and only   *)
(* planned batches in the transform channel.  Then how batches flow: every *)
(* step keeps the batches in flight, hands out one, writes one or loses one*)
(* with an error.                                                          *)
(***************************************************************************)
EXTENDS Pipeline, Functions, TLAPS

\* What the proofs use of a setup.
LEMMA SetupFacts ==
  ASSUME setup \in Setups
  PROVE  /\ setup.workers \in Nat \ {0} /\ Depth * setup.workers \in Nat
         /\ setup.planned \subseteq Parts
         /\ setup.rows \in [Parts -> Counts]
         /\ setup.kind \in {"keyset", "coarse", "stream"}
         /\ setup.kind # "coarse" => setup.workers = 1
         /\ setup.strict => Stream /\ setup.planned = {}
  BY SetupsAssumption, BoundsAssumption DEF Stream

\* Sequences, as the channels use them.
LEMMA SeqFacts ==
  ASSUME NEW S, NEW s \in Seq(S)
  PROVE  /\ Len(s) \in Nat /\ DOMAIN s = 1..Len(s) /\ (s = <<>> <=> Len(s) = 0)
         /\ s # <<>> => /\ Head(s) \in S /\ Head(s) = s[1]
                        /\ Tail(s) \in Seq(S) /\ Len(Tail(s)) = Len(s) - 1
                        /\ \A i \in 1..Len(Tail(s)) : Tail(s)[i] = s[i + 1]
         /\ \A x \in S : Append(s, x) \in Seq(S) /\ Len(Append(s, x)) = Len(s) + 1
  <1>1. Len(s) \in Nat /\ DOMAIN s = 1..Len(s) /\ (s = <<>> <=> Len(s) = 0) OBVIOUS
  <1>2. s # <<>> => /\ Head(s) \in S /\ Head(s) = s[1]
                    /\ Tail(s) \in Seq(S) /\ Len(Tail(s)) = Len(s) - 1
    OBVIOUS
  <1>3. s # <<>> => \A i \in 1..Len(Tail(s)) : Tail(s)[i] = s[i + 1] OBVIOUS
  <1>4. \A x \in S : Append(s, x) \in Seq(S) /\ Len(Append(s, x)) = Len(s) + 1 OBVIOUS
  <1> QED BY <1>1, <1>2, <1>3, <1>4, Zenon

\* Putting an item into a channel adds it to what the channel holds.
LEMMA RangeAppend ==
  ASSUME NEW S, NEW s \in Seq(S), NEW x
  PROVE  Range(Append(s, x)) = Range(s) \cup {x}
  <1>1. DOMAIN s = 1..Len(s) /\ Len(s) \in Nat BY SeqFacts, Zenon
  <1>2. /\ DOMAIN Append(s, x) = 1..(Len(s) + 1)
        /\ \A i \in 1..Len(s) : Append(s, x)[i] = s[i]
        /\ Append(s, x)[Len(s) + 1] = x
    BY <1>1
  <1> QED BY <1>1, <1>2 DEF Range

\* A channel holds the item at its head and the items of its tail.
LEMMA RangeTail ==
  ASSUME NEW S, NEW s \in Seq(S), s # <<>>
  PROVE  /\ Head(s) \in Range(s) /\ Range(Tail(s)) \subseteq Range(s)
         /\ Range(s) = {Head(s)} \cup Range(Tail(s))
  <1>1. /\ DOMAIN s = 1..Len(s) /\ Len(s) \in Nat \ {0} /\ Head(s) = s[1]
        /\ Tail(s) \in Seq(S) /\ Len(Tail(s)) = Len(s) - 1
        /\ \A i \in 1..Len(Tail(s)) : Tail(s)[i] = s[i + 1]
    BY SeqFacts
  <1>2. DOMAIN Tail(s) = 1..(Len(s) - 1) BY <1>1, SeqFacts, Zenon
  <1>3. ASSUME NEW c \in Range(Tail(s)) PROVE c \in Range(s)
    <2>1. PICK i \in 1..(Len(s) - 1) : c = s[i + 1] BY <1>1, <1>2, Zenon DEF Range
    <2>2. i + 1 \in 1..Len(s) BY <1>1
    <2> QED BY <1>1, <2>1, <2>2, Zenon DEF Range
  <1>4. Head(s) \in Range(s) BY <1>1 DEF Range
  <1>5. ASSUME NEW c \in Range(s), c # Head(s) PROVE c \in Range(Tail(s))
    <2>1. PICK i \in 1..Len(s) : c = s[i] BY <1>1, Zenon DEF Range
    <2>2. i - 1 \in 1..(Len(s) - 1) /\ Tail(s)[i - 1] = s[i] BY <1>1, <1>5, <2>1
    <2> QED BY <1>2, <2>1, <2>2, Zenon DEF Range
  <1> QED BY <1>3, <1>4, <1>5, Zenon

\* A pool whose goroutine w takes or gives up an item differs only there.
LEMMA RangeExcept ==
  ASSUME NEW f, f = [d \in DOMAIN f |-> f[d]], NEW d \in DOMAIN f, NEW x
  PROVE  LET g == [f EXCEPT ![d] = x] IN
         /\ DOMAIN g = DOMAIN f /\ x \in Range(g) /\ f[d] \in Range(f)
         /\ \A c \in Range(g) : c = x \/ \E e \in DOMAIN f \ {d} : c = f[e]
         /\ Range(g) \subseteq Range(f) \cup {x} /\ Range(f) \subseteq Range(g) \cup {f[d]}
  BY Zenon DEF Range


-----------------------------------------------------------------------------
\* The batches a source hands out.
LEMMA BatchType ==
  ASSUME StreamType, SourceType, NEW p \in Parts
  PROVE  /\ Chunk(p) \in Batches /\ Marker(p) \in Batches
         /\ \A k \in {"rows", "marker"} : \A lo, hi \in Counts : lo <= hi => Batch(p, k, lo, hi) \in Batches
  <1>1. ep.n \in 0..MaxEpochs BY Zenon DEF StreamType
  <1>2. /\ bld[p].total \in 0..MaxRows /\ bld[p].open \in 0..BatchRows /\ bld[p].open <= bld[p].total
    BY Zenon DEF SourceType, Counts
  <1>3. \A k \in {"rows", "marker"} : \A lo, hi \in Counts : lo <= hi => Batch(p, k, lo, hi) \in Batches
    BY <1>1, Zenon DEF Batch, Batches
  <1>4. /\ bld[p].total - bld[p].open \in Counts /\ bld[p].total \in Counts /\ 0 \in Counts
        /\ bld[p].total - bld[p].open <= bld[p].total /\ 0 <= bld[p].total
    BY <1>2, BoundsAssumption DEF Counts
  <1> QED BY <1>3, <1>4, Zenon DEF Chunk, Marker

\* A new pipeline is well typed: no goroutine holds a batch.
LEMMA TypeInit == Init => TypeOK
  <1> SUFFICES ASSUME Init PROVE TypeOK BY Zenon
  <1>1. setup \in Setups BY Zenon DEF Init
  <1>2. StateType BY Zenon DEF Init, StateType
  <1>3. PoolType
    <2>1. \A c \in Channels : Len(<<>>) <= Depth * setup.workers BY <1>1, SetupFacts
    <2> QED BY <2>1 DEF Init, PoolType
  <1>4. SourceType
    <2>1. 0 \in Counts /\ 0 \in 0..BatchRows BY BoundsAssumption DEF Counts
    <2> QED BY <2>1 DEF Init, SourceType, SourcePCs
  <1>5. StreamType
    <2>1. 0 \in 0..MaxEpochs /\ 0 \in 0..MaxControls BY BoundsAssumption
    <2>2. bar \in [pc : {"none", "flush", "wait", "receipt"}, kind : Kinds, dom : Domains]
      BY BoundsAssumption, Zenon DEF Init, NoBarrier, Kinds
    <2>3. ep \in [n : 0..MaxEpochs, sealed : BOOLEAN, touched : BOOLEAN, completed : SUBSET Domains,
             txns : SUBSET Domains, rows : [Parts -> Nat], controls : 0..MaxControls, active : SUBSET Parts]
      BY <2>1, Zenon DEF Init
    <2> QED BY <2>2, <2>3, Zenon DEF StreamType
  <1>6. SinkType
    <2>1. 0 \in Counts BY BoundsAssumption DEF Counts
    <2> QED BY <2>1, Zenon DEF Init, SinkType
  <1>7. HistoryType BY DEF Init, HistoryType
  <1> QED BY <1>1, <1>2, <1>3, <1>4, <1>5, <1>6, <1>7, Zenon DEF TypeOK

-----------------------------------------------------------------------------
(* Types: what a step may do to each group of variables. *)

\* Every step keeps the types: first the moves on sources, channels, pools and
\* chunks the actions share, then one step for each group of actions.
LEMMA TypeStep == TypeOK /\ [Next]_vars => TypeOK'
  <1>TypeFrames. ASSUME TypeOK, setup' = setup
                 PROVE  /\ UNCHANGED stateVars => StateType'
                        /\ UNCHANGED poolVars => PoolType'
                        /\ UNCHANGED sourceVars => SourceType'
                        /\ UNCHANGED streamVars => StreamType'
                        /\ UNCHANGED sinkVars => SinkType'
                        /\ UNCHANGED historyVars => HistoryType'
    <2> USE <1>TypeFrames
    <2>1. UNCHANGED stateVars => StateType' BY DEF TypeOK, stateVars, StateType
    <2>2. UNCHANGED poolVars => PoolType' BY Zenon DEF TypeOK, poolVars, PoolType, Workers
    <2>3. UNCHANGED sourceVars => SourceType' BY Zenon DEF TypeOK, sourceVars, SourceType
    <2>4. UNCHANGED streamVars => StreamType' BY Zenon DEF TypeOK, streamVars, StreamType
    <2>5. UNCHANGED sinkVars => SinkType' BY Zenon DEF TypeOK, sinkVars, SinkType
    <2>6. UNCHANGED historyVars => HistoryType' BY Zenon DEF TypeOK, historyVars, HistoryType
    <2> QED BY <2>1, <2>2, <2>3, <2>4, <2>5, <2>6, Zenon
  <1>SetErrType. StateType /\ SetErr => StateType'
    BY Zenon DEF StateType, SetErr
  <1>HandType. ASSUME SourceType, NEW p \in Parts, NEW pc \in SourcePCs, NEW item \in Batches \cup {Empty},
                      Hand(p, pc, item)
               PROVE  src' \in [Parts -> [pc : SourcePCs, item : Batches \cup {Empty}]]
    BY <1>HandType, Zenon DEF SourceType, Hand
  \* The open chunk of a builder is handed out.
  <1>ChunkType. ASSUME SourceType, StreamType, NEW p \in Parts, NEW pc \in SourcePCs,
                       Hand(p, pc, Chunk(p)), bld' = [bld EXCEPT ![p].open = 0], UNCHANGED <<ingest, clean, asked>>
                PROVE  SourceType'
    <2> USE <1>ChunkType
    <2>1. src' \in [Parts -> [pc : SourcePCs, item : Batches \cup {Empty}]]
      BY BatchType, <1>HandType, Zenon
    <2>2. 0 \in 0..BatchRows BY BoundsAssumption
    <2>3. bld' \in [Parts -> [total : Counts, open : 0..BatchRows]]
      BY <2>2, Zenon DEF SourceType
    <2>4. ASSUME NEW q \in Parts PROVE bld'[q].open <= bld'[q].total
      <3>1. CASE q = p BY <3>1 DEF SourceType, Counts
      <3>2. CASE q # p BY <3>2, Zenon DEF SourceType
      <3> QED BY <3>1, <3>2, Zenon
    <2> QED BY <2>1, <2>3, <2>4, Zenon DEF SourceType
  <1>PutType. ASSUME TypeOK, NEW c \in Channels, NEW item \in Items, Room(c), Put(c, item)
              PROVE  /\ ch' \in [Channels -> Seq(Items)]
                     /\ \A d \in Channels : Len(ch'[d]) <= Depth * setup.workers
    <2> USE <1>PutType
    <2>1. ch \in [Channels -> Seq(Items)] /\ \A d \in Channels : Len(ch[d]) <= Depth * setup.workers
      BY Zenon DEF TypeOK, PoolType
    <2>2. Depth * setup.workers \in Nat BY SetupFacts, Zenon DEF TypeOK
    <2>3. ch' \in [Channels -> Seq(Items)] BY <2>1 DEF Put
    <2>4. ASSUME NEW d \in Channels PROVE Len(ch'[d]) <= Depth * setup.workers
      <3>1. CASE d = c
        <4>1. Len(ch'[d]) = Len(ch[c]) + 1 BY <2>1, <3>1, SeqFacts DEF Put
        <4> QED BY <2>1, <2>2, <4>1 DEF Room
      <3>2. CASE d # c BY <2>1, <3>2, Zenon DEF Put
      <3> QED BY <3>1, <3>2, Zenon
    <2> QED BY <2>3, <2>4, Zenon
  <1>DrawType. ASSUME TypeOK, NEW c \in Channels, ch[c] # <<>>, ch' = [ch EXCEPT ![c] = Tail(@)]
               PROVE  /\ Head(ch[c]) \in Items
                      /\ ch' \in [Channels -> Seq(Items)]
                      /\ \A d \in Channels : Len(ch'[d]) <= Depth * setup.workers
    <2> USE <1>DrawType
    <2>1. ch \in [Channels -> Seq(Items)] /\ \A d \in Channels : Len(ch[d]) <= Depth * setup.workers
      BY Zenon DEF TypeOK, PoolType
    <2>2. Depth * setup.workers \in Nat BY SetupFacts, Zenon DEF TypeOK
    <2>3. Head(ch[c]) \in Items /\ Tail(ch[c]) \in Seq(Items) /\ Len(Tail(ch[c])) = Len(ch[c]) - 1
      BY <2>1, SeqFacts, Zenon
    <2>4. ch' \in [Channels -> Seq(Items)] BY <2>1, <2>3, Zenon
    <2>5. ASSUME NEW d \in Channels PROVE Len(ch'[d]) <= Depth * setup.workers
      <3>1. CASE d = c BY <2>1, <2>2, <2>3, <3>1
      <3>2. CASE d # c BY <2>1, <3>2, Zenon
      <3> QED BY <3>1, <3>2, Zenon
    <2> QED BY <2>3, <2>4, <2>5, Zenon
  <1>TypeRow. ASSUME TypeOK, NEW p \in Parts, Row(p)
              PROVE  TypeOK'
    <2> USE <1>TypeRow
    <2> DEFINE open == bld[p].open + 1
               total == bld[p].total + 1
               full == open >= BatchRows \/ p \in asked
    <2>1. setup' = setup /\ UNCHANGED stateVars /\ UNCHANGED poolVars /\ UNCHANGED sinkVars
          /\ UNCHANGED <<ingest, clean, asked, bar, evidence, dropped, marked>>
      BY Zenon DEF Row
    <2>2. bld[p].open \in 0..BatchRows /\ bld[p].total \in Nat /\ total <= setup.rows[p] /\ setup.rows[p] \in Counts
          /\ bld[p].open <= bld[p].total
      BY SetupFacts DEF TypeOK, SourceType, Row, Counts
    <2>3. total \in 1..MaxRows /\ total \in Counts /\ open \in Nat /\ (~full => open \in 0..BatchRows)
          /\ total - open \in Counts /\ total - open <= total /\ open <= total
      BY <2>2, BoundsAssumption DEF Counts
    <2>4. bld' = [bld EXCEPT ![p].total = total, ![p].open = IF full THEN 0 ELSE open]
      BY Zenon DEF Row
    <2>5. bld' \in [Parts -> [total : Counts, open : 0..BatchRows]]
      <3>1. (IF full THEN 0 ELSE open) \in 0..BatchRows BY <2>3, BoundsAssumption
      <3> HIDE DEF open, total, full
      <3> QED BY <2>3, <2>4, <3>1, Zenon DEF TypeOK, SourceType
    <2>6. \A q \in Parts : bld'[q].open <= bld'[q].total
      <3>1. (IF full THEN 0 ELSE open) <= total BY <2>3
      <3> HIDE DEF open, total, full
      <3> QED BY <2>4, <3>1, Zenon DEF TypeOK, SourceType
    <2>7. src' \in [Parts -> [pc : SourcePCs, item : Batches \cup {Empty}]]
      <3>1. CASE full
        <4>1. Hand(p, "sending", Batch(p, "rows", total - open, total)) BY <3>1, Zenon DEF Row
        <4>2. Batch(p, "rows", total - open, total) \in Batches BY <2>3, BatchType, Zenon DEF TypeOK
        <4> HIDE DEF open, total, full
        <4> QED BY <4>1, <4>2, <1>HandType, Zenon DEF TypeOK, SourcePCs
      <3>2. CASE ~full
        <4>1. src' = src BY <3>2, Zenon DEF Row
        <4> QED BY <4>1, Zenon DEF TypeOK, SourceType
      <3> QED BY <3>1, <3>2, Zenon
    <2>8. SourceType' BY <2>1, <2>5, <2>6, <2>7, Zenon DEF TypeOK, SourceType
    <2>9. StreamType'
      <3>1. ep' = IF Stream THEN [ep EXCEPT !.touched = TRUE, !.completed = {}, !.active = {p}] ELSE ep
        BY Zenon DEF Row
      <3> QED BY <2>1, <3>1, Zenon DEF TypeOK, StreamType
    <2>10. HistoryType'
      <3>1. order' = IF setup.strict THEN Append(order, <<p, total>>) ELSE order BY Zenon DEF Row
      <3>2. order' \in Seq(Parts \X (1..MaxRows))
        <4> HIDE DEF total
        <4> QED BY <3>1, <2>3, SeqFacts, Zenon DEF TypeOK, HistoryType
      <3> QED BY <2>1, <3>2, Zenon DEF TypeOK, HistoryType
    <2> QED BY <2>1, <2>8, <2>9, <2>10, <1>TypeFrames, Zenon DEF TypeOK
  <1>TypeChunk. ASSUME TypeOK, NEW p \in Parts, Flush(p) \/ CloseFlush(p) \/ BarrierFlush(p)
                PROVE  TypeOK'
    <2> USE <1>TypeChunk
    <2>1. /\ setup' = setup /\ UNCHANGED stateVars /\ UNCHANGED poolVars /\ UNCHANGED streamVars
          /\ UNCHANGED sinkVars /\ UNCHANGED historyVars /\ UNCHANGED <<ingest, clean, asked>>
          /\ bld' = [bld EXCEPT ![p].open = 0]
      BY Zenon DEF Flush, CloseFlush, BarrierFlush
    <2>2. \E pc \in SourcePCs : Hand(p, pc, Chunk(p))
      BY Zenon DEF Flush, CloseFlush, BarrierFlush, SourcePCs
    <2>3. SourceType' BY <2>1, <2>2, <1>ChunkType, Zenon DEF TypeOK
    <2> QED BY <2>1, <2>3, <1>TypeFrames, Zenon DEF TypeOK
  <1>TypeSource. ASSUME TypeOK, NEW p \in Parts, Drain(p) \/ SourceEnds(p) \/ Send(p) \/ SendRefused(p)
                 PROVE  TypeOK'
    <2> USE <1>TypeSource
    <2>1. CASE Drain(p)
      <3>1. /\ setup' = setup /\ UNCHANGED stateVars /\ UNCHANGED poolVars /\ UNCHANGED streamVars
            /\ UNCHANGED sinkVars /\ UNCHANGED historyVars /\ UNCHANGED <<ingest, clean, asked>>
            /\ bld' = [bld EXCEPT ![p].open = 0]
            /\ IF bld[p].open > 0 THEN Hand(p, "draining", Chunk(p)) ELSE Hand(p, "marking", Marker(p))
        BY <2>1, Zenon DEF Drain
      <3>2. CASE bld[p].open > 0
        <4>1. SourceType' BY <3>1, <3>2, <1>ChunkType, Zenon DEF TypeOK, SourcePCs
        <4> QED BY <3>1, <4>1, <1>TypeFrames, Zenon DEF TypeOK
      <3>3. CASE ~(bld[p].open > 0)
        <4>1. bld[p].open = 0 BY <3>3 DEF TypeOK, SourceType
        <4>2. bld' = bld BY <3>1, <4>1, Zenon DEF TypeOK, SourceType
        <4>3. src' \in [Parts -> [pc : SourcePCs, item : Batches \cup {Empty}]]
          BY <3>1, <3>3, BatchType, <1>HandType, Zenon DEF TypeOK, SourcePCs
        <4>4. SourceType' BY <3>1, <4>2, <4>3, Zenon DEF TypeOK, SourceType
        <4> QED BY <3>1, <4>4, <1>TypeFrames, Zenon DEF TypeOK
      <3> QED BY <3>2, <3>3, Zenon
    <2>2. CASE SourceEnds(p)
      <3>1. /\ setup' = setup /\ UNCHANGED stateVars /\ UNCHANGED poolVars /\ UNCHANGED streamVars
            /\ UNCHANGED sinkVars /\ UNCHANGED historyVars /\ UNCHANGED <<ingest, clean, bld, asked>>
        BY <2>2, Zenon DEF SourceEnds
      <3>2. src' \in [Parts -> [pc : SourcePCs, item : Batches \cup {Empty}]]
        BY <2>2, <1>HandType, Zenon DEF SourceEnds, TypeOK, SourcePCs
      <3>3. SourceType' BY <3>1, <3>2, Zenon DEF TypeOK, SourceType
      <3> QED BY <3>1, <3>3, <1>TypeFrames, Zenon DEF TypeOK
    <2>3. CASE Send(p)
      <3>1. /\ setup' = setup /\ UNCHANGED stateVars /\ UNCHANGED streamVars
            /\ UNCHANGED sinkVars /\ UNCHANGED historyVars /\ UNCHANGED <<ingest, clean, bld, xf, wr>>
            /\ asked' = asked \ {p}
            /\ src[p].item # Empty /\ Room(Route(p)) /\ Put(Route(p), src[p].item)
            /\ src' = [src EXCEPT ![p] = AfterSend(p)]
        BY <2>3, Zenon DEF Send
      <3>2. src[p].item \in Batches BY <3>1, Zenon DEF TypeOK, SourceType
      <3>3. AfterSend(p) \in [pc : SourcePCs, item : Batches \cup {Empty}]
        BY BatchType, Zenon DEF AfterSend, TypeOK, SourcePCs
      <3>4. SourceType' BY <3>1, <3>3, Zenon DEF TypeOK, SourceType
      <3>5. Route(p) \in Channels /\ src[p].item \in Items BY <3>2, Zenon DEF Route, Channels, Items
      <3>6. PoolType' BY <3>1, <3>5, <1>PutType, Zenon DEF TypeOK, PoolType, Workers
      <3> QED BY <3>1, <3>4, <3>6, <1>TypeFrames, Zenon DEF TypeOK
    <2>4. CASE SendRefused(p)
      <3>1. /\ setup' = setup /\ UNCHANGED poolVars /\ ep' = ep
            /\ UNCHANGED sinkVars /\ UNCHANGED historyVars /\ UNCHANGED <<clean, bld, asked>>
            /\ ingest' = IF src[p].pc = "closing" THEN "closed" ELSE ingest
            /\ bar' = [bar EXCEPT !.pc = "none"]
            /\ Hand(p, IF Stream THEN "reading" ELSE "failed", Empty)
            /\ SetErr \/ UNCHANGED stateVars
        BY <2>4, Zenon DEF SendRefused
      <3>2. src' \in [Parts -> [pc : SourcePCs, item : Batches \cup {Empty}]]
        BY <3>1, <1>HandType, Zenon DEF TypeOK, SourcePCs
      <3>3. SourceType' BY <3>1, <3>2, Zenon DEF TypeOK, SourceType
      <3>4. StreamType' BY <3>1, Zenon DEF TypeOK, StreamType
      <3>5. StateType' BY <3>1, <1>SetErrType, <1>TypeFrames, Zenon DEF TypeOK
      <3> QED BY <3>1, <3>3, <3>4, <3>5, <1>TypeFrames, Zenon DEF TypeOK
    <2> QED BY <2>1, <2>2, <2>3, <2>4, Zenon
  <1>TypeClose. ASSUME TypeOK, Cancel \/ CloseDone \/ Tick \/ CloseIngest \/ CloseChannel \/ Wait
                PROVE  TypeOK'
    <2> USE <1>TypeClose
    <2>1. CASE Cancel
      <3>1. StateType' BY <2>1, Zenon DEF Cancel, TypeOK, StateType
      <3> QED BY <2>1, <3>1, <1>TypeFrames, Zenon DEF Cancel, TypeOK
    <2>2. CASE CloseDone
      <3>1. StateType' BY <2>2, Zenon DEF CloseDone, TypeOK, StateType
      <3> QED BY <2>2, <3>1, <1>TypeFrames, Zenon DEF CloseDone, TypeOK
    <2>3. CASE Tick
      <3>1. SourceType' BY <2>3, Zenon DEF Tick, TypeOK, SourceType
      <3> QED BY <2>3, <3>1, <1>TypeFrames, Zenon DEF Tick, TypeOK
    <2>4. CASE CloseIngest
      <3>1. /\ ingest' \in {"flushing", "closed"} /\ clean' \in BOOLEAN
        BY <2>4, Zenon DEF CloseIngest
      <3>2. SourceType' BY <2>4, <3>1, Zenon DEF CloseIngest, TypeOK, SourceType
      <3>3. StateType' BY <2>4, <1>SetErrType, <1>TypeFrames, Zenon DEF CloseIngest, TypeOK
      <3> QED BY <2>4, <3>2, <3>3, <1>TypeFrames, Zenon DEF CloseIngest, TypeOK
    <2>5. CASE CloseChannel
      <3>1. SourceType' BY <2>5, Zenon DEF CloseChannel, TypeOK, SourceType
      <3> QED BY <2>5, <3>1, <1>TypeFrames, Zenon DEF CloseChannel, TypeOK
    <2>6. CASE Wait
      <3>1. SourceType' BY <2>6, Zenon DEF Wait, TypeOK, SourceType
      <3>2. StateType' BY <2>6, Zenon DEF Wait, TypeOK, StateType
      <3> QED BY <2>6, <3>1, <3>2, <1>TypeFrames, Zenon DEF Wait, TypeOK
    <2> QED BY <2>1, <2>2, <2>3, <2>4, <2>5, <2>6, Zenon
  \* A pool keeps its type when one of its goroutines takes, drops or ends.
  <1>TypeTransformer. ASSUME TypeOK, NEW w \in Workers,
                             TakeTransform(w) \/ TransformFails(w) \/ Forward(w) \/ ForwardRefused(w) \/ ExitTransformer(w)
                      PROVE  TypeOK'
    <2> USE <1>TypeTransformer
    <2>1. /\ setup' = setup /\ wr' = wr /\ UNCHANGED sourceVars /\ UNCHANGED streamVars /\ UNCHANGED sinkVars
          /\ UNCHANGED <<order, evidence, marked>>
      BY Zenon DEF TakeTransform, TransformFails, Forward, ForwardRefused, ExitTransformer, historyVars
    <2>2. /\ ch \in [Channels -> Seq(Items)] /\ \A c \in Channels : Len(ch[c]) <= Depth * setup.workers
          /\ xf \in [Workers -> Items \cup {Empty, Gone}] /\ wr \in [Workers -> Batches \cup {Empty, Gone}]
      BY Zenon DEF TypeOK, PoolType
    <2>3. StateType' BY <1>SetErrType, <1>TypeFrames, <2>1, Zenon DEF TypeOK, TakeTransform, TransformFails, Forward, ForwardRefused, ExitTransformer
    <2>4. HistoryType'
      <3>1. dropped' \subseteq Parts
        <4>1. CASE ForwardRefused(w)
          <5>1. xf[w].kind = "rows" => xf[w].part \in Parts
            BY <2>2 DEF Items, Batches, Control, Empty, Gone
          <5> QED BY <4>1, <5>1, Zenon DEF ForwardRefused, TypeOK, HistoryType
        <4>2. CASE ~ForwardRefused(w)
          BY <4>2, Zenon DEF TakeTransform, TransformFails, Forward, ExitTransformer, historyVars, TypeOK, HistoryType
        <4> QED BY <4>1, <4>2, Zenon
      <3> QED BY <2>1, <3>1, Zenon DEF TypeOK, HistoryType
    <2>5. /\ ch' \in [Channels -> Seq(Items)] /\ \A c \in Channels : Len(ch'[c]) <= Depth * setup.workers
          /\ xf' \in [Workers -> Items \cup {Empty, Gone}]
      <3>1. CASE TakeTransform(w)
        <4>1. "transform" \in Channels /\ ch["transform"] # <<>> /\ ch' = [ch EXCEPT !["transform"] = Tail(@)]
              /\ xf' = [xf EXCEPT ![w] = IF err THEN Empty ELSE Head(ch["transform"])]
          BY <3>1, Zenon DEF TakeTransform, Channels
        <4> QED BY <2>2, <4>1, <1>DrawType, Zenon
      <3>2. CASE TransformFails(w) BY <2>2, <3>2, Zenon DEF TransformFails
      <3>3. CASE Forward(w)
        <4>1. "batch" \in Channels /\ xf[w] \in Items /\ Room("batch") /\ Put("batch", xf[w])
              /\ xf' = [xf EXCEPT ![w] = Empty]
          BY <3>3, Zenon DEF Forward, Channels
        <4> QED BY <2>2, <4>1, <1>PutType, Zenon
      <3>4. CASE ForwardRefused(w) BY <2>2, <3>4, Zenon DEF ForwardRefused
      <3>5. CASE ExitTransformer(w) BY <2>2, <3>5, Zenon DEF ExitTransformer
      <3> QED BY <3>1, <3>2, <3>3, <3>4, <3>5, Zenon
    <2>6. PoolType' BY <2>1, <2>2, <2>5, Zenon DEF PoolType, Workers
    <2> QED BY <2>1, <2>3, <2>4, <2>6, <1>TypeFrames, Zenon DEF TypeOK
  \* What a batch adds to the checkpoint of its part.
  <1>FoldType. ASSUME SinkType, NEW b \in Batches
               PROVE  Fold(b) \in [key : Counts, acked : Nat, want : Counts \cup {-1}, shard : {"open", "done"}]
    <2> USE <1>FoldType
    <2>1. /\ b.part \in Parts /\ b.hi \in Counts /\ b.hi - b.lo \in Nat
      BY DEF Batches, Counts
    <2>2. prog[b.part] \in [key : Counts, acked : Nat, want : Counts \cup {-1}, shard : {"open", "done"}]
      BY <2>1, Zenon DEF SinkType
    <2>3. prog[b.part].acked + (IF b.kind = "rows" THEN b.hi - b.lo ELSE 0) \in Nat
      BY <2>1, <2>2
    <2>4. (IF b.kind = "marker" THEN b.hi ELSE prog[b.part].want) \in Counts \cup {-1}
      BY <2>1, <2>2, Zenon
    <2>5. CASE setup.kind = "keyset" BY <2>1, <2>2, <2>5, Zenon DEF Fold
    <2>6. CASE setup.kind = "coarse" BY <2>2, <2>3, <2>4, <2>6, Zenon DEF Fold
    <2>7. CASE setup.kind \notin {"keyset", "coarse"} BY <2>2, <2>7, Zenon DEF Fold
    <2> QED BY <2>5, <2>6, <2>7, Zenon
  <1>TypeWriter. ASSUME TypeOK, NEW w \in Workers, TakeBatch(w) \/ Write(w) \/ WriteFails(w) \/ ExitWriter(w)
                 PROVE  TypeOK'
    <2> USE <1>TypeWriter
    <2>1. /\ setup' = setup /\ xf' = xf /\ UNCHANGED sourceVars /\ UNCHANGED <<order, evidence, dropped>>
      BY Zenon DEF TakeBatch, Write, WriteFails, ExitWriter, historyVars
    <2>2. /\ ch \in [Channels -> Seq(Items)] /\ \A c \in Channels : Len(ch[c]) <= Depth * setup.workers
          /\ xf \in [Workers -> Items \cup {Empty, Gone}] /\ wr \in [Workers -> Batches \cup {Empty, Gone}]
      BY Zenon DEF TypeOK, PoolType
    <2>3. StateType' BY <1>SetErrType, <1>TypeFrames, <2>1, Zenon DEF TypeOK, TakeBatch, Write, WriteFails, ExitWriter
    <2>4. CASE TakeBatch(w)
      <3> DEFINE item == Head(ch["batch"])
      <3>1. /\ "batch" \in Channels /\ ch["batch"] # <<>> /\ ch' = [ch EXCEPT !["batch"] = Tail(@)]
            /\ \/ wr' = [wr EXCEPT ![w] = Empty]
               \/ item # Control /\ wr' = [wr EXCEPT ![w] = item]
            /\ \/ bar' = bar
               \/ bar' = [bar EXCEPT !.pc = IF @ = "wait" THEN "receipt" ELSE @]
            /\ ep' = ep /\ UNCHANGED sinkVars /\ UNCHANGED historyVars
        BY <2>4, Zenon DEF TakeBatch, Channels
      <3>2. item # Control => item \in Batches BY <3>1, <1>DrawType, Zenon DEF Items
      <3>3. wr' \in [Workers -> Batches \cup {Empty, Gone}]
        <4> HIDE DEF item
        <4> QED BY <2>2, <3>1, <3>2, Zenon
      <3>4. PoolType' BY <2>1, <2>2, <3>1, <3>3, <1>DrawType, Zenon DEF PoolType, Workers
      <3>5. StreamType' BY <3>1, Zenon DEF TypeOK, StreamType
      <3> QED BY <2>1, <2>3, <3>1, <3>4, <3>5, <1>TypeFrames, Zenon DEF TypeOK
    <2>5. CASE Write(w)
      <3> DEFINE b == wr[w]
      <3>1. /\ b \in Batches /\ wr' = [wr EXCEPT ![w] = Empty] /\ ch' = ch /\ bar' = bar
            /\ written' = IF b.kind = "rows" THEN [written EXCEPT ![b.part] = @ \cup Rows(b)] ELSE written
            /\ ep' = IF b.epoch > 0 THEN [ep EXCEPT !.rows[b.part] = @ + b.hi - b.lo] ELSE ep
            /\ prog' = [prog EXCEPT ![b.part] = Fold(b)]
            /\ marked' = IF b.kind = "marker" THEN marked \cup {b.part} ELSE marked
        BY <2>5, Zenon DEF Write
      <3>2. /\ b.part \in Parts /\ b.lo \in Counts /\ b.hi \in Counts /\ b.lo <= b.hi
        BY <3>1, Zenon DEF Batches
      <3>3. Rows(b) \subseteq 1..MaxRows BY <3>2, BoundsAssumption DEF Rows, Counts
      <3>4. PoolType' BY <2>1, <2>2, <3>1, Zenon DEF PoolType, Workers
      <3>5. ep' \in [n : 0..MaxEpochs, sealed : BOOLEAN, touched : BOOLEAN, completed : SUBSET Domains,
               txns : SUBSET Domains, rows : [Parts -> Nat], controls : 0..MaxControls, active : SUBSET Parts]
        <4>1. ep.rows[b.part] + b.hi - b.lo \in Nat BY <3>2 DEF TypeOK, StreamType, Counts
        <4> HIDE DEF b
        <4> QED BY <3>1, <3>2, <4>1, Zenon DEF TypeOK, StreamType
      <3>6. StreamType' BY <3>1, <3>5, Zenon DEF TypeOK, StreamType
      <3>7. written' \in [Parts -> SUBSET (1..MaxRows)]
        <4> HIDE DEF b
        <4> QED BY <3>1, <3>2, <3>3, Zenon DEF TypeOK, SinkType
      <3>8. SinkType' BY <3>1, <3>2, <3>7, <1>FoldType, Zenon DEF TypeOK, SinkType
      <3>9. HistoryType' BY <2>1, <3>1, <3>2, Zenon DEF TypeOK, HistoryType
      <3> QED BY <2>1, <2>3, <3>4, <3>6, <3>8, <3>9, <1>TypeFrames, Zenon DEF TypeOK
    <2>6. CASE WriteFails(w) \/ ExitWriter(w)
      <3>1. /\ ch' = ch /\ UNCHANGED streamVars /\ UNCHANGED sinkVars /\ UNCHANGED historyVars
            /\ \E x \in {Empty, Gone} : wr' = [wr EXCEPT ![w] = x]
        BY <2>6, Zenon DEF WriteFails, ExitWriter
      <3>2. PoolType' BY <2>1, <2>2, <3>1, Zenon DEF PoolType, Workers
      <3> QED BY <2>1, <2>3, <3>1, <3>2, <1>TypeFrames, Zenon DEF TypeOK
    <2> QED BY <2>4, <2>5, <2>6, Zenon
  <1>TypeEpoch. ASSUME TypeOK,
                       \/ BindEpoch \/ SealEpoch \/ Misuse
                       \/ \E kind \in Kinds, d \in Domains : Barrier(kind, d)
                       \/ BarrierQueue \/ BarrierFails \/ BarrierCanceled \/ BarrierReturns
                PROVE  TypeOK'
    <2> USE <1>TypeEpoch
    <2>1. /\ setup' = setup /\ xf' = xf /\ wr' = wr /\ UNCHANGED sourceVars /\ UNCHANGED sinkVars
          /\ UNCHANGED <<order, dropped, marked>>
      BY Zenon DEF BindEpoch, SealEpoch, Misuse, Barrier, BarrierQueue, BarrierFails, BarrierCanceled,
                   BarrierReturns, historyVars, poolVars
    <2>2. CASE BindEpoch
      <3>1. ep.n + 1 \in 0..MaxEpochs /\ [p \in Parts |-> 0] \in [Parts -> Nat]
        <4>1. ep.n \in 0..MaxEpochs BY Zenon DEF TypeOK, StreamType
        <4>2. ep.n < MaxEpochs BY <2>2, Zenon DEF BindEpoch
        <4> QED BY <4>1, <4>2, BoundsAssumption
      <3>2. ep' = [ep EXCEPT !.n = @ + 1, !.sealed = FALSE, !.completed = {}, !.rows = [p \in Parts |-> 0]]
            /\ bar' = bar
        BY <2>2, Zenon DEF BindEpoch
      <3>3. StreamType' BY <3>1, <3>2, Zenon DEF TypeOK, StreamType
      <3> QED BY <2>1, <2>2, <3>3, <1>TypeFrames, Zenon DEF BindEpoch, TypeOK
    <2>3. CASE SealEpoch
      <3>1. StreamType' BY <2>3, Zenon DEF SealEpoch, TypeOK, StreamType
      <3>2. ep.rows \in [Parts -> Nat] BY Zenon DEF TypeOK, StreamType
      <3>3. evidence' \in [Parts -> Nat] BY <2>3, <3>2 DEF SealEpoch, TypeOK, HistoryType
      <3>4. HistoryType' BY <2>1, <3>3, Zenon DEF TypeOK, HistoryType
      <3> QED BY <2>1, <2>3, <3>1, <3>4, <1>TypeFrames, Zenon DEF SealEpoch, TypeOK
    <2>4. CASE Misuse \/ BarrierCanceled
      <3>1. SetErr /\ UNCHANGED poolVars /\ UNCHANGED streamVars /\ UNCHANGED historyVars
        BY <2>4, Zenon DEF Misuse, BarrierCanceled
      <3> QED BY <2>1, <3>1, <1>SetErrType, <1>TypeFrames, Zenon DEF TypeOK
    <2>5. ASSUME NEW kind \in Kinds, NEW d \in Domains, Barrier(kind, d)
          PROVE  TypeOK'
      <3>1. ep.controls + 1 \in 0..MaxControls
        <4>1. ep.controls \in 0..MaxControls BY Zenon DEF TypeOK, StreamType
        <4>2. ep.controls < MaxControls BY <2>5, Zenon DEF Barrier
        <4> QED BY <4>1, <4>2, BoundsAssumption
      <3>2. /\ bar' = [pc |-> "flush", kind |-> kind, dom |-> d]
            /\ ep' = [ep EXCEPT !.touched = TRUE, !.controls = @ + 1]
        BY <2>5, Zenon DEF Barrier
      <3>3. StreamType' BY <2>5, <3>1, <3>2, Zenon DEF TypeOK, StreamType
      <3> QED BY <2>1, <2>5, <3>3, <1>TypeFrames, Zenon DEF Barrier, TypeOK
    <2>6. CASE BarrierQueue
      <3>1. \E c \in Channels : Room(c) /\ Put(c, Control)
        BY <2>6, Zenon DEF BarrierQueue, Channels
      <3>2. /\ ch' \in [Channels -> Seq(Items)] /\ \A c \in Channels : Len(ch'[c]) <= Depth * setup.workers
        BY <3>1, <1>PutType, Zenon DEF Items
      <3>3. PoolType' BY <2>1, <3>2, Zenon DEF TypeOK, PoolType, Workers
      <3>4. StreamType' BY <2>6, Zenon DEF BarrierQueue, TypeOK, StreamType
      <3> QED BY <2>1, <2>6, <3>3, <3>4, <1>TypeFrames, Zenon DEF BarrierQueue, TypeOK
    <2>7. CASE BarrierFails
      <3>1. StreamType' BY <2>7, Zenon DEF BarrierFails, TypeOK, StreamType
      <3> QED BY <2>1, <2>7, <3>1, <1>TypeFrames, Zenon DEF BarrierFails, TypeOK
    <2>8. CASE BarrierReturns
      <3>1. /\ bar' = [bar EXCEPT !.pc = "none"]
            /\ SetErr \/ UNCHANGED stateVars
            /\ UNCHANGED poolVars /\ UNCHANGED historyVars
        BY <2>8, Zenon DEF BarrierReturns
      <3>2. \/ ep' = ep
            \/ \E txns, completed \in SUBSET Domains : ep' = [ep EXCEPT !.txns = txns, !.completed = completed]
        <4>1. bar.dom \in Domains /\ ep.txns \in SUBSET Domains /\ ep.completed \in SUBSET Domains
          BY Zenon DEF TypeOK, StreamType
        <4> DEFINE txns == CASE bar.kind = "begin" -> ep.txns \cup {bar.dom}
                             [] bar.kind = "end" -> ep.txns \ {bar.dom}
                             [] OTHER -> ep.txns
                   done1 == IF ep.n > 0 /\ txns = {} /\ bar.kind \in {"end", "progress"}
                             THEN ep.completed \cup {bar.dom} ELSE ep.completed
        <4>2. txns \in SUBSET Domains BY <4>1, Zenon
        <4>3. done1 \in SUBSET Domains BY <4>1, Zenon
        <4>4. ep' = ep \/ ep' = [ep EXCEPT !.txns = txns, !.completed = done1]
          BY <2>8, Zenon DEF BarrierReturns
        <4> HIDE DEF txns, done1
        <4> QED BY <4>2, <4>3, <4>4, Zenon
      <3>3. StreamType' BY <3>1, <3>2, Zenon DEF TypeOK, StreamType
      <3> QED BY <2>1, <3>1, <3>3, <1>SetErrType, <1>TypeFrames, Zenon DEF TypeOK
    <2> QED BY <2>2, <2>3, <2>4, <2>5, <2>6, <2>7, <2>8, Zenon
  <1> SUFFICES ASSUME TypeOK, [Next]_vars PROVE TypeOK' BY Zenon
  <1>1. CASE UNCHANGED vars
    BY <1>1, <1>TypeFrames, Zenon DEF vars, TypeOK
  <1>2. ASSUME NEW p \in Parts, Source(p) PROVE TypeOK'
    BY <1>2, <1>TypeRow, <1>TypeChunk, <1>TypeSource, Zenon DEF Source
  <1>3. ASSUME NEW w \in Pool, Transformer(w) \/ Writer(w) PROVE TypeOK'
    BY <1>3, <1>TypeTransformer, <1>TypeWriter, Zenon DEF Transformer, Writer
  <1>4. CASE Epoch
    BY <1>4, <1>TypeEpoch, <1>TypeChunk, Zenon DEF Epoch
  <1> QED BY <1>1, <1>2, <1>3, <1>4, <1>TypeClose, Zenon DEF Next

-----------------------------------------------------------------------------
\* What a builder hands out; a control and an idle place are not batches.
BatchKinds == {"rows", "marker"}

\* The phases in which a source holds no chunk.
Idle == {"reading", "ended", "failed"}

\* What a source is sending, and in which phase.
SourceOK(p) ==
  /\ src[p].pc \in Idle <=> src[p].item = Empty
  /\ src[p].item # Empty =>
       /\ src[p].item.part = p /\ bld[p].open = 0
       /\ src[p].item.kind = IF src[p].pc = "marking" THEN "marker" ELSE "rows"
  /\ src[p].pc = "closing" => ingest = "flushing"
  /\ Stream => src[p].pc \notin {"failed", "draining", "marking"}

\* A stream, and the flush of CloseIngest, hand out one chunk at a time.
Alone == \A p, q \in Parts : p # q => src[p].item = Empty \/ src[q].item = Empty

\* The sources and the barrier agree on who flushes what.
SourceInv ==
  /\ \A p \in Parts : SourceOK(p)
  /\ Stream \/ ingest # "extracting" => Alone
  /\ bar.pc # "none" => Stream /\ ingest = "extracting"

\* At the start every source reads and holds no chunk.
LEMMA SourceInit == Init => SourceInv
  BY DEF Init, SourceInv, SourceOK, Alone, Idle, Stream, NoBarrier

\* Every step keeps the source's phases and the chunk it sends in agreement.
LEMMA SourceStep == TypeOK /\ SourceInv /\ [Next]_vars => SourceInv'
  <1>SourceFrame. ASSUME SourceInv, UNCHANGED <<setup, ingest, src, bld>>, bar' = bar \/ bar'.pc = "none"
                  PROVE  SourceInv'
    BY <1>SourceFrame, Zenon DEF SourceInv, SourceOK, Alone, Stream
  \* A part hands out a batch while no other does, or in a bounded read.
  <1>SourceHands. ASSUME TypeOK, SourceInv, NEW p \in Parts, UNCHANGED <<setup, ingest, bar>>,
                         NEW pc, NEW b, Hand(p, pc, b), b \in Batches, b.part = p, b.kind = IF pc = "marking" THEN "marker" ELSE "rows",
                         \A q \in Parts \ {p} : bld'[q] = bld[q], bld'[p].open = 0,
                         pc \in {"sending", "draining", "marking", "closing"},
                         pc = "closing" => ingest = "flushing",
                         Stream => pc \in {"sending", "closing"},
                         (\A q \in Parts : src[q].item = Empty) \/ (~Stream /\ ingest = "extracting")
                  PROVE  SourceInv'
    <2> USE <1>SourceHands
    <2>1. /\ src'[p] = [pc |-> pc, item |-> b] /\ \A q \in Parts \ {p} : src'[q] = src[q]
      BY Zenon DEF Hand, TypeOK, SourceType
    <2>2. b # Empty BY DEF Batches, Empty
    <2>3. SourceOK(p)' BY <2>1, <2>2 DEF SourceOK, Idle, Stream
    <2>4. ASSUME NEW q \in Parts \ {p} PROVE SourceOK(q)' BY <2>1 DEF SourceInv, SourceOK, Stream
    <2>5. (Stream \/ ingest # "extracting" => Alone)' BY <2>1 DEF Stream, Alone
    <2> QED BY <2>3, <2>4, <2>5, Zenon DEF SourceInv, Stream
  <1>SourceRests. ASSUME TypeOK, SourceInv, NEW p \in Parts, UNCHANGED <<setup, bld>>, bar' = bar \/ bar'.pc = "none",
                         NEW pc \in Idle, src' = [src EXCEPT ![p] = [pc |-> pc, item |-> Empty]],
                         ingest' = ingest \/ (src[p].pc = "closing" /\ ingest' = "closed"),
                         Stream => pc # "failed"
                  PROVE  SourceInv'
    <2> USE <1>SourceRests
    <2>1. /\ src'[p] = [pc |-> pc, item |-> Empty] /\ \A q \in Parts \ {p} : src'[q] = src[q]
      BY Zenon DEF TypeOK, SourceType
    <2>2. SourceOK(p)' BY <2>1 DEF SourceOK, Idle, Stream
    <2>3. ASSUME NEW q \in Parts \ {p} PROVE SourceOK(q)'
      <3>1. CASE ingest' = ingest BY <2>1, <3>1 DEF SourceInv, SourceOK, Stream
      <3>2. CASE src[p].pc = "closing" /\ ingest' = "closed"
        <4>1. src[p].item # Empty /\ ingest = "flushing" BY <3>2, Zenon DEF SourceInv, SourceOK, Idle
        <4>2. src[q].item = Empty BY <4>1, Zenon DEF SourceInv, Alone
        <4>3. src[q].pc # "closing" BY <4>2, Zenon DEF SourceInv, SourceOK, Idle
        <4> QED BY <2>1, <4>3 DEF SourceInv, SourceOK, Stream
      <3> QED BY <3>1, <3>2, Zenon
    <2>4. (Stream \/ ingest # "extracting" => Alone)'
      BY <2>1 DEF Stream, Alone, SourceInv, SourceOK
    <2>5. (bar.pc # "none" => Stream /\ ingest = "extracting")'
      BY Zenon DEF Stream, SourceInv, SourceOK
    <2> QED BY <2>2, <2>3, <2>4, <2>5, Zenon DEF SourceInv
  <1> SUFFICES ASSUME TypeOK, SourceInv, [Next]_vars PROVE SourceInv' BY Zenon
  <1>1. ASSUME NEW p \in Parts, Row(p) PROVE SourceInv'
    <2> DEFINE open == bld[p].open + 1
               total == bld[p].total + 1
               full == open >= BatchRows \/ p \in asked
    <2>1. /\ UNCHANGED <<setup, ingest, bar>> /\ src[p].pc = "reading" /\ ingest = "extracting"
          /\ Stream => \A q \in Parts : src[q].item = Empty
      BY <1>1, Zenon DEF Row, Producing, Free
    <2>4. bld' = [bld EXCEPT ![p].total = total, ![p].open = IF full THEN 0 ELSE open]
      BY <1>1, Zenon DEF Row
    <2>2. CASE full
      <3>1. Hand(p, "sending", Batch(p, "rows", total - open, total)) BY <1>1, <2>2, Zenon DEF Row
      <3>2. Batch(p, "rows", total - open, total) \in Batches
        <4>1. TypeOK' BY TypeStep, Zenon
        <4>2. src'[p].item = Batch(p, "rows", total - open, total)
          BY <3>1, Zenon DEF Hand, TypeOK, SourceType
        <4>3. src'[p].item \in Batches \cup {Empty} BY <4>1, Zenon DEF TypeOK, SourceType
        <4> QED BY <4>2, <4>3 DEF Batch, Empty
      <3> DEFINE b == Batch(p, "rows", total - open, total)
      <3>3. b.part = p /\ b.kind = "rows" BY Zenon DEF Batch
      <3>4. bld'[p].open = 0 /\ \A q \in Parts \ {p} : bld'[q] = bld[q] BY <2>4, <2>2, Zenon DEF TypeOK, SourceType
      <3> HIDE DEF b, full, open, total
      <3> QED BY <2>1, <3>1, <3>2, <3>3, <3>4, <1>SourceHands, Zenon DEF b
    <2>3. CASE ~full
      <3>1. src' = src BY <1>1, <2>3, Zenon DEF Row
      <3>2. src[p].item = Empty BY <2>1, Zenon DEF SourceInv, SourceOK, Idle
      <3>3. \A q \in Parts \ {p} : bld'[q] = bld[q] BY <2>4, Zenon DEF TypeOK, SourceType
      <3> QED BY <2>1, <3>1, <3>2, <3>3 DEF SourceInv, SourceOK, Alone, Stream
    <2> QED BY <2>2, <2>3, Zenon
  <1>2. ASSUME NEW p \in Parts, Flush(p) \/ CloseFlush(p) \/ BarrierFlush(p) PROVE SourceInv'
    <2>1. UNCHANGED <<setup, ingest, bar>> /\ bld' = [bld EXCEPT ![p].open = 0]
      BY <1>2, Zenon DEF Flush, CloseFlush, BarrierFlush, streamVars
    <2>2. PICK pc \in {"sending", "closing"} :
            Hand(p, pc, Chunk(p)) /\ (pc = "closing" => ingest = "flushing")
      BY <1>2, Zenon DEF Flush, CloseFlush, BarrierFlush
    <2>3. Chunk(p) \in Batches /\ Chunk(p).part = p /\ Chunk(p).kind = "rows"
      BY BatchType, Zenon DEF TypeOK, Chunk, Batch
    <2>4. bld'[p].open = 0 /\ \A q \in Parts \ {p} : bld'[q] = bld[q] BY <2>1, Zenon DEF TypeOK, SourceType
    <2>5. (\A q \in Parts : src[q].item = Empty) \/ (~Stream /\ ingest = "extracting")
      BY <1>2, Zenon DEF Flush, CloseFlush, BarrierFlush, Producing, Free
    <2> QED BY <2>1, <2>2, <2>3, <2>4, <2>5, <1>SourceHands, Zenon
  <1>3. ASSUME NEW p \in Parts, Drain(p) PROVE SourceInv'
    <2>1. /\ UNCHANGED <<setup, ingest, bar>> /\ bld' = [bld EXCEPT ![p].open = 0]
          /\ ~Stream /\ ingest = "extracting"
          /\ Hand(p, "draining", Chunk(p)) \/ Hand(p, "marking", Marker(p))
      BY <1>3, Zenon DEF Drain, streamVars, Producing
    <2>2. /\ Chunk(p) \in Batches /\ Chunk(p).part = p /\ Chunk(p).kind = "rows"
          /\ Marker(p) \in Batches /\ Marker(p).part = p /\ Marker(p).kind = "marker"
      BY BatchType, Zenon DEF TypeOK, Chunk, Marker, Batch
    <2>3. bld'[p].open = 0 /\ \A q \in Parts \ {p} : bld'[q] = bld[q] BY <2>1, Zenon DEF TypeOK, SourceType
    <2> QED BY <2>1, <2>2, <2>3, <1>SourceHands, Zenon
  <1>4. ASSUME NEW p \in Parts, SourceEnds(p) PROVE SourceInv'
    <2>1. UNCHANGED <<setup, bld, bar, ingest>> /\ ~Stream BY <1>4, Zenon DEF SourceEnds, streamVars
    <2>2. PICK pc \in Idle : src' = [src EXCEPT ![p] = [pc |-> pc, item |-> Empty]]
      BY <1>4, Zenon DEF SourceEnds, Hand, Idle
    <2> QED BY <2>1, <2>2, <1>SourceRests, Zenon
  <1>5. ASSUME NEW p \in Parts, Send(p) PROVE SourceInv'
    <2>1. /\ UNCHANGED <<setup, bld, bar, ingest>> /\ src' = [src EXCEPT ![p] = AfterSend(p)]
          /\ src[p].item # Empty
      BY <1>5, Zenon DEF Send, streamVars
    <2>2. CASE src[p].pc = "draining"
      <3>1. Hand(p, "marking", Marker(p)) BY <2>1, <2>2, Zenon DEF AfterSend, Hand
      <3>2. Marker(p) \in Batches /\ Marker(p).part = p /\ Marker(p).kind = "marker"
        BY BatchType, Zenon DEF TypeOK, Marker, Batch
      <3>3. /\ src'[p] = [pc |-> "marking", item |-> Marker(p)] /\ \A q \in Parts \ {p} : src'[q] = src[q]
        BY <3>1, Zenon DEF Hand, TypeOK, SourceType
      <3>4. Marker(p) # Empty BY Zenon DEF Marker, Batch, Empty
      <3>5. SourceOK(p)' BY <2>1, <2>2, <3>2, <3>3, <3>4 DEF SourceInv, SourceOK, Idle, Stream
      <3>6. ASSUME NEW q \in Parts \ {p} PROVE SourceOK(q)'
        BY <2>1, <3>3 DEF SourceInv, SourceOK, Stream
      <3>7. (Stream \/ ingest # "extracting" => Alone)'
        BY <2>1, <3>3 DEF SourceInv, Stream, Alone
      <3> QED BY <2>1, <3>5, <3>6, <3>7, Zenon DEF SourceInv, Stream
    <2>3. CASE src[p].pc # "draining"
      <3>1. \E pc \in {"reading", "ended"} : AfterSend(p) = [pc |-> pc, item |-> Empty]
        BY <2>3, Zenon DEF AfterSend
      <3> QED BY <2>1, <3>1, <1>SourceRests, Zenon DEF Idle
    <2> QED BY <2>2, <2>3, Zenon
  <1>6. ASSUME NEW p \in Parts, SendRefused(p) PROVE SourceInv'
    <2>1. /\ UNCHANGED <<setup, bld>> /\ bar' = [bar EXCEPT !.pc = "none"]
          /\ ingest' = ingest \/ (src[p].pc = "closing" /\ ingest' = "closed")
          /\ src' = [src EXCEPT ![p] = [pc |-> IF Stream THEN "reading" ELSE "failed", item |-> Empty]]
      BY <1>6, Zenon DEF SendRefused, Hand
    <2>2. bar'.pc = "none" BY <2>1, Zenon DEF TypeOK, StreamType
    <2> QED BY <2>1, <2>2, <1>SourceRests, Zenon DEF Idle
  <1>7. CASE CloseIngest
    <2>1. /\ UNCHANGED <<setup, src, bld, bar>> /\ ingest = "extracting"
          /\ ingest' \in {"flushing", "closed"}
          /\ \/ Stream /\ bar.pc = "none" /\ \A p \in Parts : src[p].item = Empty
             \/ ~Stream /\ \A p \in Parts : src[p].pc \in {"ended", "failed"}
      BY <1>7, Zenon DEF CloseIngest, streamVars
    <2>2. \A p \in Parts : src[p].item = Empty /\ src[p].pc # "closing"
      BY <2>1, Zenon DEF SourceInv, SourceOK, Idle
    <2>3. bar.pc = "none" BY <2>1, Zenon DEF SourceInv
    <2> QED BY <2>1, <2>2, <2>3, Zenon DEF SourceInv, SourceOK, Alone, Stream
  <1>8. CASE CloseChannel \/ Wait
    <2>1. UNCHANGED <<setup, src, bld, bar>> /\ ingest \in {"flushing", "closed"} /\ ingest' \in {"closed", "waited"}
          /\ (ingest = "flushing" => \A p \in Parts : src[p].item = Empty)
      BY <1>8, Zenon DEF CloseChannel, Wait, streamVars
    <2>2. \A p \in Parts : src[p].pc # "closing" BY <2>1, Zenon DEF SourceInv, SourceOK, Idle
    <2> QED BY <2>1, <2>2 DEF SourceInv, SourceOK, Alone, Stream
  <1>9. ASSUME NEW w \in Pool, Transformer(w) \/ Writer(w) PROVE SourceInv'
    <2>1. UNCHANGED <<setup, ingest, src, bld>>
      BY <1>9, Zenon DEF Transformer, Writer, TakeTransform, TransformFails, Forward, ForwardRefused, ExitTransformer,
            TakeBatch, Write, WriteFails, ExitWriter, sourceVars
    <2>2. bar' = bar \/ (bar.pc = "wait" /\ bar'.pc = "receipt")
      <3>1. bar' = bar \/ TakeBatch(w)
        BY <1>9, Zenon DEF Transformer, Writer, TakeTransform, TransformFails, Forward, ForwardRefused, ExitTransformer,
            Write, WriteFails, ExitWriter, streamVars
      <3> QED BY <3>1, Zenon DEF TakeBatch, TypeOK, StreamType
    <2> QED BY <2>1, <2>2, Zenon DEF SourceInv, SourceOK, Alone, Stream
  <1>10. CASE Cancel \/ CloseDone \/ Tick \/ UNCHANGED vars
    BY <1>10, <1>SourceFrame, Zenon DEF Cancel, CloseDone, Tick, vars, sourceVars, streamVars
  <1>11. CASE Epoch
    <2>1. UNCHANGED <<setup, ingest, src, bld>> \/ \E p \in Parts : BarrierFlush(p)
      BY <1>11, Zenon DEF Epoch, BindEpoch, SealEpoch, Misuse, Barrier, BarrierQueue, BarrierFails,
                   BarrierCanceled, BarrierReturns, sourceVars
    <2>2. ASSUME ~\E p \in Parts : BarrierFlush(p)
          PROVE  bar' = bar \/ bar'.pc = "none" \/ bar.pc # "none" \/ Serial
      <3>1. bar' = bar \/ Serial \/ BarrierQueue \/ BarrierFails \/ BarrierReturns
        BY <1>11, <2>2, Zenon DEF Epoch, BindEpoch, SealEpoch, Misuse, Barrier, BarrierCanceled, streamVars
      <3> QED BY <3>1, Zenon DEF BarrierQueue, BarrierFails, BarrierReturns, TypeOK, StreamType
    <2> QED BY <1>2, <2>1, <2>2 DEF Serial, SourceInv, SourceOK, Alone, Stream
  <1> QED BY <1>1, <1>2, <1>3, <1>4, <1>5, <1>6, <1>7, <1>8, <1>9, <1>10, <1>11, Zenon DEF Next, Source

-----------------------------------------------------------------------------
\* CloseIngest hands out what the builders hold before it closes the channel.
DrainInv ==
  /\ ingest = "flushing" => clean
  /\ ingest = "flushing" => \A p \in Parts : src[p].item = Empty \/ src[p].pc = "closing"
  /\ ingest \in {"closed", "waited"} => \A p \in Parts : src[p].item = Empty
  /\ ingest \in {"closed", "waited"} /\ clean /\ ~err => \A p \in Parts : bld[p].open = 0
  /\ ingest # "extracting" /\ clean /\ ~err => \A p \in Parts : src[p].pc # "failed"

\* Transformers exit when nothing is left to transform, writers after them.
GoneInv ==
  /\ \A w \in Workers : xf[w] = Gone => ingest \in {"closed", "waited"} /\ ch["transform"] = <<>>
  /\ \A w \in Workers : wr[w] = Gone => ch["batch"] = <<>> /\ \A t \in Workers : xf[t] = Gone
  /\ ingest = "waited" => \A w \in Workers : wr[w] = Gone

\* Only planned resources, and the controls of a stream that has some, pass the
\* transformers, and they give up rows only when done is closed.
Planned(b) == setup.planned # {} /\ (b.kind \in BatchKinds => b.part \in setup.planned)

RouteInv ==
  /\ \A b \in Range(ch["transform"]) : Planned(b)
  /\ \A w \in Workers : xf[w] \in Items => Planned(xf[w])
  /\ dropped \subseteq setup.planned
  /\ dropped # {} => done

\* At the start nothing is drained, no goroutine has exited and nothing is sent.
LEMMA DrainInit == Init => DrainInv /\ GoneInv /\ RouteInv
  <1> SUFFICES ASSUME Init PROVE DrainInv /\ GoneInv /\ RouteInv BY Zenon
  <1>1. DrainInv BY Zenon DEF Init, DrainInv
  <1>2. GoneInv BY Zenon DEF Init, GoneInv, Empty, Gone
  <1>3. Range(<<>>) = {} BY DEF Range
  <1>4. RouteInv BY <1>3, Zenon DEF Init, RouteInv, Channels, Empty, Items, Batches, Control
  <1> QED BY <1>1, <1>2, <1>4, Zenon

\* SetErr or nothing.
LEMMA StateMoves ==
  ASSUME [Next]_vars
  PROVE  (err => err') /\ (done => done') /\ (canceled => canceled') /\ setup' = setup
  <1>1. CASE Next
    BY <1>1, Zenon DEF Next, Source, Row, Flush, Drain, SourceEnds, Send, SendRefused, CloseFlush, Cancel, CloseDone,
         Tick, CloseIngest, CloseChannel, Wait, Transformer, Writer, TakeTransform, TransformFails, Forward,
         ForwardRefused, ExitTransformer, TakeBatch, Write, WriteFails, ExitWriter, Epoch, BindEpoch,
         SealEpoch, Misuse, Barrier, BarrierFlush, BarrierQueue, BarrierFails, BarrierCanceled,
         BarrierReturns, SetErr, stateVars
  <1>2. CASE UNCHANGED vars BY <1>2, Zenon DEF vars, stateVars
  <1> QED BY <1>1, <1>2, Zenon

\* Steps that leave the source alone.
LEMMA SourceStill ==
  ASSUME [Next]_vars
  PROVE  \/ UNCHANGED <<ingest, clean, src, bld, asked>>
         \/ \E p \in Parts : Source(p) \/ BarrierFlush(p)
         \/ Tick \/ CloseIngest \/ CloseChannel \/ Wait
  <1>1. CASE Next
    BY <1>1, Zenon DEF Next, Cancel, CloseDone, Transformer, Writer, TakeTransform, TransformFails, Forward,
         ForwardRefused, ExitTransformer, TakeBatch, Write, WriteFails, ExitWriter, Epoch, BindEpoch,
         SealEpoch, Misuse, Barrier, BarrierQueue, BarrierFails, BarrierCanceled,
         BarrierReturns, sourceVars
  <1>2. CASE UNCHANGED vars BY <1>2, Zenon DEF vars, sourceVars
  <1> QED BY <1>1, <1>2, Zenon

\* CloseIngest closes the batch channel only after the last chunk was sent, or
\* with an error.
LEMMA DrainStep == TypeOK /\ SourceInv /\ DrainInv /\ [Next]_vars => DrainInv'
  <1>DrainFrame. ASSUME DrainInv, UNCHANGED <<ingest, clean, src, bld>>, err => err'
                 PROVE  DrainInv'
    BY <1>DrainFrame, Zenon DEF DrainInv
  <1> SUFFICES ASSUME TypeOK, SourceInv, DrainInv, [Next]_vars PROVE DrainInv' BY Zenon
  <1>1. (err => err') BY StateMoves, Zenon
  <1>2. ASSUME NEW p \in Parts, Row(p) \/ Flush(p) \/ Drain(p) \/ SourceEnds(p) \/ BarrierFlush(p) PROVE DrainInv'
    <2>1. ingest = "extracting" /\ ingest' = ingest
      BY <1>2, Zenon DEF Row, Flush, Drain, SourceEnds, BarrierFlush, Producing, SourceInv
    <2> QED BY <2>1, Zenon DEF DrainInv
  <1>3. ASSUME NEW p \in Parts, Send(p) PROVE DrainInv'
    <2>1. /\ UNCHANGED <<ingest, clean, bld, err>> /\ src[p].item # Empty
          /\ src'[p] = AfterSend(p) /\ \A q \in Parts \ {p} : src'[q] = src[q]
      BY <1>3, Zenon DEF Send, stateVars, TypeOK, SourceType
    <2>2. CASE ingest = "extracting" BY <2>1, <2>2, Zenon DEF DrainInv
    <2>3. CASE ingest # "extracting"
      <3>1. ingest = "flushing" /\ src[p].pc = "closing"
        BY <2>1, <2>3, Zenon DEF DrainInv, TypeOK, SourceType
      <3>2. src'[p] = [pc |-> "ended", item |-> Empty] BY <2>1, <3>1, Zenon DEF AfterSend
      <3> QED BY <2>1, <3>1, <3>2 DEF DrainInv
    <2> QED BY <2>2, <2>3, Zenon
  <1>4. ASSUME NEW p \in Parts, SendRefused(p) PROVE DrainInv'
    <2>1. /\ UNCHANGED <<clean, bld>> /\ src[p].item # Empty
          /\ src'[p].item = Empty /\ \A q \in Parts \ {p} : src'[q] = src[q]
          /\ ingest' = IF src[p].pc = "closing" THEN "closed" ELSE ingest
          /\ src[p].pc = "closing" => err'
      BY <1>4, Zenon DEF SendRefused, SetErr, Hand, TypeOK, SourceType
    <2>2. CASE src[p].pc # "closing"
      <3>1. ingest = "extracting" BY <2>1, <2>2, Zenon DEF DrainInv, TypeOK, SourceType
      <3> QED BY <2>1, <2>2, <3>1, Zenon DEF DrainInv
    <2>3. CASE src[p].pc = "closing"
      <3>1. \A q \in Parts : src'[q].item = Empty BY <2>1, <2>3 DEF SourceInv, SourceOK, Alone
      <3> QED BY <2>1, <2>3, <3>1, Zenon DEF DrainInv
    <2> QED BY <2>2, <2>3, Zenon
  <1>5. ASSUME NEW p \in Parts, CloseFlush(p) PROVE DrainInv'
    <2>1. /\ UNCHANGED <<clean, ingest>> /\ ingest = "flushing"
          /\ src'[p].pc = "closing" /\ \A q \in Parts \ {p} : src'[q] = src[q]
      BY <1>5, Zenon DEF CloseFlush, Hand, TypeOK, SourceType
    <2> QED BY <1>1, <2>1, Zenon DEF DrainInv
  <1>6. CASE CloseIngest
    <2>1. /\ UNCHANGED <<src, bld>> /\ ingest = "extracting"
          /\ ingest' = IF clean' THEN "flushing" ELSE "closed"
      BY <1>6, Zenon DEF CloseIngest
    <2>2. \A p \in Parts : src[p].item = Empty
      BY <1>6, Zenon DEF CloseIngest, SourceInv, SourceOK, Idle
    <2>3. clean' => \A p \in Parts : src[p].pc # "failed"
      <3>1. CASE Stream BY <3>1, Zenon DEF SourceInv, SourceOK
      <3>2. CASE ~Stream
        <4>1. clean' = (\A p \in Parts : src[p].pc = "ended") BY <1>6, <3>2, Zenon DEF CloseIngest
        <4> QED BY <4>1, Zenon
      <3> QED BY <3>1, <3>2, Zenon
    <2> QED BY <2>1, <2>2, <2>3, Zenon DEF DrainInv
  <1>7. CASE CloseChannel
    <2>1. /\ UNCHANGED <<src, bld, clean, err>> /\ ingest = "flushing" /\ ingest' = "closed"
          /\ \A p \in Parts : src[p].item = Empty
          /\ (\A p \in Parts : bld[p].open = 0) \/ err
      BY <1>7, Zenon DEF CloseChannel, stateVars
    <2> QED BY <2>1, Zenon DEF DrainInv
  <1>8. CASE Wait
    BY <1>8, Zenon DEF Wait, DrainInv
  <1>9. CASE Tick
    BY <1>9, <1>DrainFrame, Zenon DEF Tick, stateVars
  <1> QED BY <1>1, <1>2, <1>3, <1>4, <1>5, <1>6, <1>7, <1>8, <1>9, SourceStill, <1>DrainFrame, Zenon DEF Source

\* Steps that leave the channels and the pools alone.
LEMMA PoolStill ==
  ASSUME [Next]_vars
  PROVE  \/ UNCHANGED <<ch, xf, wr>> /\ dropped' = dropped
         \/ \E p \in Parts : Send(p)
         \/ BarrierQueue
         \/ \E w \in Workers : \/ TakeTransform(w) \/ TransformFails(w) \/ Forward(w) \/ ForwardRefused(w)
                               \/ ExitTransformer(w) \/ TakeBatch(w) \/ Write(w) \/ WriteFails(w) \/ ExitWriter(w)
  <1> DEFINE Same == UNCHANGED <<ch, xf, wr>> /\ dropped' = dropped
  <1>1. ASSUME NEW p \in Parts, Source(p) PROVE Same \/ Send(p)
    BY <1>1, Zenon DEF Source, Row, Flush, Drain, SourceEnds, SendRefused, CloseFlush, poolVars, historyVars
  <1>3. CASE Cancel \/ CloseDone \/ Tick \/ CloseIngest \/ CloseChannel \/ Wait
    <2>1. Same BY <1>3, Zenon DEF Cancel, CloseDone, Tick, CloseIngest, CloseChannel, Wait, poolVars, historyVars
    <2> QED BY <2>1, Zenon
  <1>4. ASSUME Epoch PROVE Same \/ BarrierQueue
    BY <1>4, Zenon DEF Epoch, BindEpoch, SealEpoch, Misuse, Barrier, BarrierFlush, BarrierFails, BarrierCanceled,
         BarrierReturns, poolVars, historyVars
  <1>2. ASSUME UNCHANGED vars PROVE Same BY <1>2, Zenon DEF vars, poolVars, historyVars
  <1> QED BY <1>1, <1>2, <1>3, <1>4, Zenon DEF Next, Transformer, Writer

\* A goroutine of a pool exits on a closed and empty channel only.
LEMMA GoneStep == TypeOK /\ SourceInv /\ DrainInv /\ GoneInv /\ [Next]_vars => GoneInv'
  <1>IngestMoves. ASSUME [Next]_vars, SourceInv, DrainInv
                  PROVE  ingest' = ingest \/ ingest' = "closed" \/ ingest' = "waited" \/ ingest = "extracting"
    <2> USE <1>IngestMoves
    <2>1. CASE \E p \in Parts : Source(p)
      BY <2>1, Zenon DEF Source, Row, Flush, Drain, SourceEnds, Send, SendRefused, CloseFlush
    <2>2. CASE \E p \in Parts : BarrierFlush(p) BY <2>2, Zenon DEF BarrierFlush
    <2>3. CASE Tick \/ CloseIngest \/ CloseChannel \/ Wait
      BY <2>3, Zenon DEF Tick, CloseIngest, CloseChannel, Wait
    <2> QED BY <2>1, <2>2, <2>3, SourceStill, Zenon
  <1> SUFFICES ASSUME TypeOK, SourceInv, DrainInv, GoneInv, [Next]_vars PROVE GoneInv' BY Zenon
  <1>1. setup' = setup BY StateMoves, Zenon
  <1>2. xf \in [Workers -> Items \cup {Empty, Gone}] /\ wr \in [Workers -> Batches \cup {Empty, Gone}]
        /\ ch \in [Channels -> Seq(Items)]
    BY Zenon DEF TypeOK, PoolType
  <1>3. /\ Gone \notin Items /\ Gone \notin Batches /\ Empty # Gone /\ Empty \notin Items
    BY Zenon DEF Gone, Empty, Items, Batches, Control
  <1>4. ingest \in {"closed", "waited"} => ingest' \in {"closed", "waited"}
    BY <1>IngestMoves, Zenon
  <1>5. CASE UNCHANGED <<ch, xf, wr>>
    <2>1. ingest' = "waited" => ingest = "waited" \/ Wait
      <3>1. CASE \E p \in Parts : Source(p) \/ BarrierFlush(p)
        BY <3>1 DEF Source, Row, Flush, Drain, SourceEnds, Send, SendRefused, CloseFlush, BarrierFlush
      <3>2. CASE Tick \/ CloseIngest \/ CloseChannel BY <3>2, Zenon DEF Tick, CloseIngest, CloseChannel
      <3> QED BY <3>1, <3>2, SourceStill, Zenon
    <2>2. Wait => \A w \in Workers : wr[w] = Gone BY Zenon DEF Wait
    <2> QED BY <1>1, <1>4, <1>5, <2>1, <2>2, Zenon DEF GoneInv, Workers
  <1>6. ASSUME \E p \in Parts : Send(p) PROVE GoneInv'
    <2>1. PICK p \in Parts : Send(p) BY <1>6, Zenon
    <2>2. UNCHANGED <<xf, wr, ingest>> /\ src[p].item # Empty BY <2>1, Zenon DEF Send
    <2>3. ingest \notin {"closed", "waited"} BY <2>2, Zenon DEF DrainInv
    <2>4. \A w \in Workers : xf[w] # Gone /\ wr[w] # Gone BY <2>3, Zenon DEF GoneInv
    <2> QED BY <1>1, <2>2, <2>3, <2>4, Zenon DEF GoneInv, Workers
  <1>7. CASE BarrierQueue
    <2>1. UNCHANGED <<xf, wr, ingest>> /\ ingest = "extracting" BY <1>7, Zenon DEF BarrierQueue, sourceVars, SourceInv
    <2>4. \A w \in Workers : xf[w] # Gone /\ wr[w] # Gone BY <2>1, Zenon DEF GoneInv
    <2> QED BY <1>1, <2>1, <2>4, Zenon DEF GoneInv, Workers
  <1>8. ASSUME NEW w \in Workers, TakeTransform(w) \/ TransformFails(w) \/ Forward(w) \/ ForwardRefused(w) \/ ExitTransformer(w)
        PROVE  GoneInv'
    <2>1. /\ UNCHANGED <<wr, ingest>> /\ xf[w] # Gone
          /\ xf' = [xf EXCEPT ![w] = xf'[w]]
          /\ xf'[w] = Gone => ingest = "closed" /\ ch["transform"] = <<>>
          /\ ch'["transform"] = ch["transform"] \/ ch["transform"] # <<>>
      <3>1. UNCHANGED <<wr, ingest>>
        BY <1>8, Zenon DEF TakeTransform, TransformFails, Forward, ForwardRefused, ExitTransformer, sourceVars
      <3>2. CASE TakeTransform(w)
        <4>1. ch["transform"] # <<>> /\ xf[w] = Empty /\ xf' = [xf EXCEPT ![w] = IF err THEN Empty ELSE Head(ch["transform"])]
          BY <3>2, Zenon DEF TakeTransform
        <4>2. Head(ch["transform"]) \in Items BY <1>2, <4>1, SeqFacts, Zenon DEF Channels
        <4> QED BY <1>2, <1>3, <3>1, <4>1, <4>2, Zenon
      <3>3. CASE TransformFails(w) \/ ForwardRefused(w)
        <4>1. ch' = ch /\ xf' = [xf EXCEPT ![w] = Empty] /\ xf[w] # Gone
          BY <3>3, <1>3 DEF TransformFails, ForwardRefused, Gone
        <4> QED BY <1>2, <1>3, <3>1, <4>1, Zenon
      <3>4. CASE Forward(w)
        <4>1. xf[w] \in Items /\ xf' = [xf EXCEPT ![w] = Empty] /\ ch'["transform"] = ch["transform"]
          BY <1>2, <3>4, Zenon DEF Forward, Put, Channels
        <4> QED BY <1>2, <1>3, <3>1, <4>1, Zenon
      <3>5. CASE ExitTransformer(w)
        <4>1. xf[w] = Empty /\ xf' = [xf EXCEPT ![w] = Gone] /\ ch' = ch /\ ingest = "closed" /\ ch["transform"] = <<>>
          BY <3>5, Zenon DEF ExitTransformer
        <4> QED BY <1>2, <1>3, <3>1, <4>1, Zenon
      <3> QED BY <1>8, <3>2, <3>3, <3>4, <3>5, Zenon
    <2>2. \A v \in Workers : wr[v] # Gone BY <2>1, Zenon DEF GoneInv
    <2>3. \A v \in Workers : xf'[v] = Gone => ingest \in {"closed", "waited"} /\ ch'["transform"] = <<>>
      BY <1>2, <2>1, Zenon DEF GoneInv
    <2> QED BY <1>1, <2>1, <2>2, <2>3, Zenon DEF GoneInv, Workers
  <1>9. ASSUME NEW w \in Workers, TakeBatch(w) \/ Write(w) \/ WriteFails(w) \/ ExitWriter(w)
        PROVE  GoneInv'
    <2>1. /\ UNCHANGED <<xf, ingest>> /\ wr[w] # Gone
          /\ wr' = [wr EXCEPT ![w] = wr'[w]]
          /\ wr'[w] = Gone => ch["batch"] = <<>> /\ \A t \in Workers : xf[t] = Gone
          /\ ch'["batch"] = ch["batch"] \/ ch["batch"] # <<>>
          /\ ch'["transform"] = ch["transform"]
      <3>1. UNCHANGED <<xf, ingest>> BY <1>9, Zenon DEF TakeBatch, Write, WriteFails, ExitWriter, sourceVars
      <3>2. CASE TakeBatch(w)
        <4> DEFINE item == Head(ch["batch"])
        <4>1. /\ ch["batch"] # <<>> /\ wr[w] = Empty /\ ch' = [ch EXCEPT !["batch"] = Tail(@)]
              /\ wr' = [wr EXCEPT ![w] = Empty] \/ wr' = [wr EXCEPT ![w] = item]
          BY <3>2, Zenon DEF TakeBatch
        <4>2. item \in Items BY <1>2, <4>1, SeqFacts, Zenon DEF Channels
        <4> HIDE DEF item
        <4> QED BY <1>2, <1>3, <3>1, <4>1, <4>2, Zenon DEF Channels
      <3>3. CASE Write(w) \/ WriteFails(w)
        <4>1. ch' = ch /\ wr' = [wr EXCEPT ![w] = Empty] /\ wr[w] # Gone
          BY <3>3, <1>3, Zenon DEF Write, WriteFails
        <4> QED BY <1>2, <1>3, <3>1, <4>1, Zenon
      <3>5. CASE ExitWriter(w)
        <4>1. wr[w] = Empty /\ wr' = [wr EXCEPT ![w] = Gone] /\ ch' = ch /\ ch["batch"] = <<>> /\ \A t \in Workers : xf[t] = Gone
          BY <3>5, Zenon DEF ExitWriter
        <4> QED BY <1>2, <1>3, <3>1, <4>1, Zenon
      <3> QED BY <1>9, <3>2, <3>3, <3>5, Zenon
    <2>2. ingest # "waited" BY <2>1, Zenon DEF GoneInv
    <2>3. \A v \in Workers : wr'[v] = Gone => ch'["batch"] = <<>> /\ \A t \in Workers : xf[t] = Gone
      BY <1>2, <2>1, Zenon DEF GoneInv
    <2> QED BY <1>1, <2>1, <2>2, <2>3, Zenon DEF GoneInv, Workers
  <1> QED BY <1>5, <1>6, <1>7, <1>8, <1>9, PoolStill, Zenon

\* What enters the transform channel has a transform plan.
LEMMA RouteStep == TypeOK /\ SourceInv /\ RouteInv /\ [Next]_vars => RouteInv'
  <1> SUFFICES ASSUME TypeOK, SourceInv, RouteInv, [Next]_vars PROVE RouteInv' BY Zenon
  <1>1. setup' = setup /\ (done => done') BY StateMoves, Zenon
  <1>2. xf \in [Workers -> Items \cup {Empty, Gone}] /\ ch \in [Channels -> Seq(Items)]
        /\ "transform" \in Channels /\ "batch" \in Channels /\ ch["transform"] \in Seq(Items)
    BY Zenon DEF TypeOK, PoolType, Channels
  <1>3. Gone \notin Items /\ Empty \notin Items BY Zenon DEF Gone, Empty, Items, Batches, Control
  <1>4. CASE UNCHANGED <<ch, xf>> /\ dropped' = dropped
    BY <1>1, <1>4, Zenon DEF RouteInv, Planned, Workers
  <1>5. ASSUME NEW c \in Channels, NEW item \in Items, Put(c, item), c = "transform" => Planned(item), xf' = xf, dropped' = dropped
        PROVE  RouteInv'
    <2>1. Range(ch'["transform"]) \subseteq Range(ch["transform"]) \cup (IF c = "transform" THEN {item} ELSE {})
      BY <1>2, <1>5, RangeAppend, Zenon DEF Put
    <2> QED BY <1>1, <1>5, <2>1, Zenon DEF RouteInv, Planned, Workers
  <1>6. ASSUME \E p \in Parts : Send(p) PROVE RouteInv'
    <2>1. PICK p \in Parts : Send(p) BY <1>6, Zenon
    <2>2. src[p].item # Empty /\ xf' = xf /\ dropped' = dropped /\ Put(Route(p), src[p].item)
      BY <2>1, Zenon DEF Send, historyVars
    <2>3. src[p].item \in Items /\ src[p].item.part = p
      BY <2>2 DEF SourceInv, SourceOK, TypeOK, SourceType, Items
    <2> QED BY <1>5, <2>2, <2>3, Zenon DEF Route, Planned, Channels
  <1>7. CASE BarrierQueue
    <2>1. xf' = xf /\ dropped' = dropped /\ Put(IF setup.planned # {} THEN "transform" ELSE "batch", Control)
      BY <1>7, Zenon DEF BarrierQueue, historyVars
    <2>2. Control \in Items /\ Control.kind \notin BatchKinds BY Zenon DEF Items, Control, BatchKinds
    <2> QED BY <1>5, <2>1, <2>2, Zenon DEF Planned, Channels
  <1>8. ASSUME NEW w \in Workers, TakeTransform(w) PROVE RouteInv'
    <2>1. /\ ch["transform"] # <<>> /\ xf' = [xf EXCEPT ![w] = IF err THEN Empty ELSE Head(ch["transform"])]
          /\ ch' = [ch EXCEPT !["transform"] = Tail(@)] /\ dropped' = dropped
      BY <1>8, Zenon DEF TakeTransform, historyVars
    <2>2. Planned(Head(ch["transform"])) /\ Range(ch'["transform"]) \subseteq Range(ch["transform"])
      BY <1>2, <2>1, RangeTail DEF RouteInv
    <2> QED BY <1>1, <1>2, <1>3, <2>1, <2>2, Zenon DEF RouteInv, Planned, Workers
  <1>9. ASSUME NEW w \in Workers, TransformFails(w) \/ ForwardRefused(w) \/ ExitTransformer(w) \/ Forward(w)
        PROVE  RouteInv'
    <2>1. /\ xf' = [xf EXCEPT ![w] = Empty] \/ xf' = [xf EXCEPT ![w] = Gone]
          /\ ch'["transform"] = ch["transform"]
      BY <1>2, <1>9, Zenon DEF TransformFails, ForwardRefused, ExitTransformer, Forward, Put
    <2>2. dropped' \subseteq setup.planned /\ (dropped' # {} => done')
      <3>1. CASE ForwardRefused(w)
        <4>1. /\ dropped' = IF xf[w].kind = "rows" THEN dropped \cup {xf[w].part} ELSE dropped
              /\ done' /\ xf[w] \in Items
          BY <1>1, <3>1, Zenon DEF ForwardRefused, stateVars
        <4> QED BY <4>1, Zenon DEF RouteInv, Planned, BatchKinds
      <3>2. CASE ~ForwardRefused(w)
        <4>1. dropped' = dropped BY <1>9, <3>2, Zenon DEF TransformFails, ExitTransformer, Forward, historyVars
        <4> QED BY <1>1, <4>1, Zenon DEF RouteInv
      <3> QED BY <3>1, <3>2, Zenon
    <2> QED BY <1>1, <1>2, <1>3, <2>1, <2>2, Zenon DEF RouteInv, Planned, Workers
  <1>10. ASSUME NEW w \in Workers, TakeBatch(w) \/ Write(w) \/ WriteFails(w) \/ ExitWriter(w) PROVE RouteInv'
    <2>1. xf' = xf /\ dropped' = dropped /\ ch'["transform"] = ch["transform"]
      BY <1>2, <1>10, Zenon DEF TakeBatch, Write, WriteFails, ExitWriter, historyVars
    <2> QED BY <1>1, <2>1, Zenon DEF RouteInv, Planned, Workers
  <1> QED BY <1>4, <1>6, <1>7, <1>8, <1>9, <1>10, PoolStill, Zenon
-----------------------------------------------------------------------------
\* A function is determined by its values; a place that holds no batch.
Function(f) == f = [d \in DOMAIN f |-> f[d]]
Blank(e) == e.kind \notin BatchKinds

-----------------------------------------------------------------------------
\* The chunks the sources are sending.
SourceItems == {src[p].item : p \in Parts}

\* Everything in the channels and in the pools.
Aboard == Range(wr) \cup Range(ch["batch"]) \cup Range(xf) \cup Range(ch["transform"])

\* The batches that were handed out and neither written nor given up.
InFlight == {b \in Aboard \cup SourceItems : ~Blank(b)}

\* The open chunk of p grows.
Fills(p) ==
  /\ InFlight' = InFlight /\ src' = src
  /\ bld'[p].total = bld[p].total + 1 /\ bld'[p].open = bld[p].open + 1
  /\ src[p].pc = "reading"

\* p hands out b, its open chunk or its marker.
Makes(p, b) ==
  /\ b \in Batches /\ b.part = p /\ b.epoch = ep.n
  /\ InFlight' = InFlight \cup {b} /\ SourceItems' \subseteq SourceItems \cup {b}
  /\ b.hi = bld'[p].total /\ bld'[p].open = 0 /\ src'[p].pc # "failed"
  /\ \/ /\ b.kind = "rows" /\ b.lo = bld[p].total - bld[p].open /\ b.lo < b.hi
        /\ bld'[p].total = bld[p].total \/ (src[p].pc = "reading" /\ bld'[p].total = bld[p].total + 1)
     \/ /\ b.kind = "marker" /\ bld[p].open = 0 /\ bld'[p] = bld[p]
        /\ ~Stream /\ src'[p].pc = "marking"

\* A step of one source replaces its chunk alone.
LEMMA SourceItemsMove ==
  ASSUME TypeOK, NEW p \in Parts, NEW r, src' = [src EXCEPT ![p] = r]
  PROVE  /\ r.item \in SourceItems' /\ src[p].item \in SourceItems
         /\ SourceItems' \subseteq SourceItems \cup {r.item}
         /\ SourceItems \subseteq SourceItems' \cup {src[p].item}
         /\ src[p].item = Empty => SourceItems' \cup {Empty} = SourceItems \cup {r.item}
  <1>1. /\ src'[p] = r /\ \A q \in Parts \ {p} : src'[q] = src[q]
    BY Zenon DEF TypeOK, SourceType
  <1> QED BY <1>1 DEF SourceItems

\* Everything in flight is a batch.
LEMMA FlightType ==
  ASSUME TypeOK
  PROVE  /\ Aboard \subseteq Items \cup {Empty, Gone} /\ SourceItems \subseteq Batches \cup {Empty}
         /\ InFlight \subseteq Batches
         /\ \A b \in Batches : ~Blank(b)
         /\ Blank(Empty) /\ Blank(Gone) /\ Blank(Control)
  <1>1. xf \in [Workers -> Items \cup {Empty, Gone}] /\ wr \in [Workers -> Batches \cup {Empty, Gone}]
        /\ ch["batch"] \in Seq(Items) /\ ch["transform"] \in Seq(Items)
    BY Zenon DEF TypeOK, PoolType, Channels
  <1>2. Range(ch["batch"]) \subseteq Items /\ Range(ch["transform"]) \subseteq Items
    BY <1>1, SeqFacts DEF Range
  <1>3. Range(xf) \subseteq Items \cup {Empty, Gone} /\ Range(wr) \subseteq Batches \cup {Empty, Gone}
    BY <1>1, Zenon DEF Range
  <1>4. /\ \A b \in Batches : ~Blank(b)
        /\ Blank(Empty) /\ Blank(Gone) /\ Blank(Control)
    BY Zenon DEF Blank, Batches, Empty, Gone, Control, BatchKinds
  <1>5. Aboard \subseteq Items \cup {Empty, Gone} BY <1>2, <1>3, Zenon DEF Aboard, Items
  <1>6. SourceItems \subseteq Batches \cup {Empty} BY DEF SourceItems, TypeOK, SourceType
  <1> QED BY <1>4, <1>5, <1>6, Zenon DEF InFlight, Items

\* What the sources do to the batches in flight.
LEMMA FlowMakes ==
  ASSUME TypeOK, NEW p \in Parts, NEW pc, NEW b, b \in Batches, b.part = p,
         src[p].item = Empty, Hand(p, pc, b), UNCHANGED poolVars
  PROVE  InFlight' = InFlight \cup {b} /\ SourceItems' \subseteq SourceItems \cup {b}
  <1> DEFINE r == [pc |-> pc, item |-> b]
  <1>1. b \in SourceItems' /\ SourceItems' \cup {Empty} = SourceItems \cup {b} /\ SourceItems' \subseteq SourceItems \cup {b}
    <2>1. r.item = b /\ src' = [src EXCEPT ![p] = r] BY Zenon DEF Hand
    <2> HIDE DEF r
    <2> QED BY <2>1, SourceItemsMove, Zenon
  <1>2. Aboard' = Aboard BY Zenon DEF poolVars, Aboard
  <1>3. ~Blank(b) /\ Blank(Empty) BY FlightType, Zenon
  <1> QED BY <1>1, <1>2, <1>3, Zenon DEF InFlight

\* A row fills the open chunk, or hands it out when it is full or when the stream
\* switches resources.
LEMMA FlowRow ==
  ASSUME TypeOK, SourceInv, NEW p \in Parts, Row(p)
  PROVE  Fills(p) \/ \E b : Makes(p, b)
  <1> DEFINE open == bld[p].open + 1
             total == bld[p].total + 1
             full == open >= BatchRows \/ p \in asked
             b == Batch(p, "rows", total - open, total)
  <1>1. src[p].pc = "reading" /\ src[p].item = Empty /\ UNCHANGED poolVars
    BY Zenon DEF Row, Producing, Free, SourceInv, SourceOK, Idle
  <1>2. /\ bld[p].open \in Nat /\ bld[p].total \in Nat /\ bld[p].open <= bld[p].total
    BY DEF TypeOK, SourceType, Counts
  <1>3. bld' = [bld EXCEPT ![p].total = total, ![p].open = IF full THEN 0 ELSE open]
    BY Zenon DEF Row
  <1>4. bld'[p].total = total /\ bld'[p].open = (IF full THEN 0 ELSE open)
    BY <1>3, Zenon DEF TypeOK, SourceType
  <1>5. CASE full
    <2>1. Hand(p, "sending", b) BY <1>5, Zenon DEF Row
    <2>2. b.kind = "rows" /\ b.part = p /\ b.lo = total - open /\ b.hi = total /\ b.epoch = ep.n BY Zenon DEF Batch
    <2>3. b \in Batches
      <3>1. TypeOK' BY TypeStep, Zenon DEF Next, Source
      <3>2. src'[p].item = b BY <2>1, Zenon DEF Hand, TypeOK, SourceType
      <3>3. src'[p].item \in Batches \cup {Empty} BY <3>1, Zenon DEF TypeOK, SourceType
      <3> QED BY <3>2, <3>3 DEF Batch, Empty
    <2> HIDE DEF b
    <2>4. InFlight' = InFlight \cup {b} /\ SourceItems' \subseteq SourceItems \cup {b}
      BY <1>1, <2>1, <2>2, <2>3, FlowMakes, Zenon
    <2>5. total - open = bld[p].total - bld[p].open /\ total - open < total BY <1>2
    <2>6. src'[p].pc # "failed" BY <2>1, Zenon DEF Hand, TypeOK, SourceType
    <2> QED BY <1>1, <1>4, <1>5, <2>6, <2>2, <2>3, <2>4, <2>5, Zenon DEF Makes
  <1>6. CASE ~full
    <2>1. src' = src BY <1>6, Zenon DEF Row
    <2>2. InFlight' = InFlight BY <1>1, <2>1, Zenon DEF InFlight, Aboard, SourceItems, poolVars
    <2> QED BY <1>1, <1>4, <1>6, <2>1, <2>2, Zenon DEF Fills
  <1> QED BY <1>5, <1>6, Zenon

\* Flushing hands out the open chunk.
LEMMA FlowChunk ==
  ASSUME TypeOK, SourceInv, NEW p \in Parts, Flush(p) \/ CloseFlush(p) \/ BarrierFlush(p) \/ Drain(p)
  PROVE  \E b : Makes(p, b)
  <1>1. UNCHANGED poolVars /\ bld' = [bld EXCEPT ![p].open = 0]
    BY Zenon DEF Flush, CloseFlush, BarrierFlush, Drain
  <1>2. src[p].item = Empty
    BY Zenon DEF Flush, CloseFlush, BarrierFlush, Drain, Producing, Free, SourceInv, SourceOK, Idle
  <1>3. /\ bld[p].open \in Nat /\ bld[p].total \in Nat /\ bld[p].open <= bld[p].total
        /\ bld'[p].open = 0 /\ bld'[p].total = bld[p].total
    BY <1>1 DEF TypeOK, SourceType, Counts
  <1>4. Chunk(p) \in Batches /\ Marker(p) \in Batches BY BatchType, Zenon DEF TypeOK
  <1>5. /\ Chunk(p).kind = "rows" /\ Chunk(p).part = p
        /\ Chunk(p).lo = bld[p].total - bld[p].open /\ Chunk(p).hi = bld[p].total
        /\ Marker(p).kind = "marker" /\ Marker(p).part = p /\ Marker(p).hi = bld[p].total
        /\ Chunk(p).epoch = ep.n /\ Marker(p).epoch = ep.n
    BY Zenon DEF Chunk, Marker, Batch
  <1>6. ASSUME NEW pc, Hand(p, pc, Chunk(p)), bld[p].open > 0, pc # "failed" PROVE Makes(p, Chunk(p))
    <2>1. InFlight' = InFlight \cup {Chunk(p)} /\ SourceItems' \subseteq SourceItems \cup {Chunk(p)}
      BY <1>1, <1>2, <1>4, <1>5, <1>6, FlowMakes, Zenon
    <2>2. src'[p].pc # "failed" BY <1>6, Zenon DEF Hand, TypeOK, SourceType
    <2> QED BY <1>3, <1>4, <1>5, <1>6, <2>1, <2>2 DEF Makes
  <1>7. ASSUME ~Stream, ~(bld[p].open > 0), Hand(p, "marking", Marker(p)) PROVE Makes(p, Marker(p))
    <2>1. InFlight' = InFlight \cup {Marker(p)} /\ SourceItems' \subseteq SourceItems \cup {Marker(p)}
      BY <1>1, <1>2, <1>4, <1>5, <1>7, FlowMakes, Zenon
    <2>2. src'[p].pc = "marking" BY <1>7, Zenon DEF Hand, TypeOK, SourceType
    <2>3. bld' = bld BY <1>1, <1>3, <1>7 DEF TypeOK, SourceType
    <2> QED BY <1>3, <1>4, <1>5, <1>7, <2>1, <2>2, <2>3, Zenon DEF Makes
  <1> QED BY <1>6, <1>7, Zenon DEF Flush, CloseFlush, BarrierFlush, Drain

\* Batches only leave: InFlight loses at most b.
Loses(b) == InFlight' \subseteq InFlight /\ InFlight \subseteq InFlight' \cup {b}

\* The values of a place without a batch.
Blanks == {Empty, Gone, Control}

\* A step of a pool that adds no batch at most loses what it took away.
LEMMA FlowAboard ==
  ASSUME TypeOK, SourceItems' = SourceItems, Aboard' \subseteq Aboard \cup Blanks
  PROVE  /\ Aboard \subseteq Aboard' \cup Blanks => InFlight' = InFlight
         /\ \A b : Aboard \subseteq Aboard' \cup Blanks \cup {b} => Loses(b)
  <1>1. \A e \in Blanks : Blank(e) BY FlightType, Zenon DEF Blanks
  <1> QED BY <1>1, Zenon DEF InFlight, Loses

\* A writer takes a batch from the channel, writes the one it has, or gives it up
\* with an error.
LEMMA FlowWriter ==
  ASSUME TypeOK, NEW w \in Workers
  PROVE  /\ TakeBatch(w) \/ ExitWriter(w) => InFlight' = InFlight \/ (err' /\ \E b : Loses(b))
         /\ Write(w) \/ WriteFails(w) => Loses(wr[w])
  <1>1. /\ wr \in [Workers -> Batches \cup {Empty, Gone}] /\ w \in DOMAIN wr /\ wr = [v \in DOMAIN wr |-> wr[v]]
        /\ ch \in [Channels -> Seq(Items)] /\ "batch" \in Channels /\ "transform" \in Channels
        /\ ch["batch"] \in Seq(Items)
    BY Zenon DEF TypeOK, PoolType, Channels
  <1>2. ASSUME NEW x, wr' = [wr EXCEPT ![w] = x]
        PROVE  /\ Range(wr') \subseteq Range(wr) \cup {x} /\ x \in Range(wr')
               /\ Range(wr) \subseteq Range(wr') \cup {wr[w]}
    BY <1>1, <1>2, Zenon DEF Range
  <1>3. ASSUME TakeBatch(w) PROVE InFlight' = InFlight \/ (err' /\ \E b : Loses(b))
    <2> DEFINE h == Head(ch["batch"])
    <2>1. /\ wr[w] = Empty /\ ch["batch"] # <<>> /\ UNCHANGED <<xf, src>>
          /\ \/ err' /\ wr' = [wr EXCEPT ![w] = Empty]
             \/ h = Control /\ wr' = [wr EXCEPT ![w] = Empty]
             \/ wr' = [wr EXCEPT ![w] = h]
          /\ ch' = [ch EXCEPT !["batch"] = Tail(@)]
      BY <1>3, Zenon DEF TakeBatch, sourceVars, SetErr, stateVars
    <2>2. /\ Range(ch["batch"]) = {h} \cup Range(ch'["batch"]) /\ ch'["transform"] = ch["transform"]
      BY <1>1, <2>1, RangeTail, Zenon
    <2>3. SourceItems' = SourceItems BY <2>1, Zenon DEF SourceItems
    <2> HIDE DEF h
    <2>4. CASE err' /\ wr' = [wr EXCEPT ![w] = Empty]
      <3>1. Aboard' \subseteq Aboard \cup Blanks /\ Aboard \subseteq Aboard' \cup Blanks \cup {h}
        BY <1>2, <2>1, <2>2, <2>4 DEF Aboard, Blanks
      <3> QED BY <2>3, <2>4, <3>1, FlowAboard, Zenon
    <2>5. CASE (h = Control /\ wr' = [wr EXCEPT ![w] = Empty]) \/ wr' = [wr EXCEPT ![w] = h]
      <3>1. Aboard' \subseteq Aboard \cup Blanks /\ Aboard \subseteq Aboard' \cup Blanks
        BY <1>2, <2>1, <2>2, <2>5, Zenon DEF Aboard, Blanks
      <3> QED BY <2>3, <3>1, FlowAboard, Zenon
    <2> QED BY <2>1, <2>4, <2>5, Zenon
  <1>4. ASSUME Write(w) \/ WriteFails(w) \/ ExitWriter(w)
        PROVE  /\ ExitWriter(w) => InFlight' = InFlight
               /\ Loses(wr[w])
    <2>1. /\ UNCHANGED <<xf, src, ch>> /\ \E x \in Blanks : wr' = [wr EXCEPT ![w] = x]
          /\ ExitWriter(w) => wr[w] = Empty
      BY <1>4, Zenon DEF Write, WriteFails, ExitWriter, sourceVars, Blanks
    <2>3. SourceItems' = SourceItems BY <2>1, Zenon DEF SourceItems
    <2>5. /\ Aboard' \subseteq Aboard \cup Blanks /\ Aboard \subseteq Aboard' \cup Blanks \cup {wr[w]}
          /\ ExitWriter(w) => Aboard \subseteq Aboard' \cup Blanks
      BY <1>2, <2>1, Zenon DEF Aboard, Blanks
    <2> QED BY <2>3, <2>5, FlowAboard, Zenon
  <1> QED BY <1>3, <1>4, Zenon

\* Steps that leave the sink alone.
LEMMA SinkStill ==
  ASSUME [Next]_vars
  PROVE  UNCHANGED sinkVars \/ \E w \in Workers : Write(w)
  <1>1. ASSUME NEW p \in Parts, Source(p) PROVE UNCHANGED sinkVars
    BY <1>1, Zenon DEF Source, Row, Flush, Drain, SourceEnds, Send, SendRefused, CloseFlush
  <1>2. CASE Cancel \/ CloseDone \/ Tick \/ CloseIngest \/ CloseChannel \/ Wait
    BY <1>2, Zenon DEF Cancel, CloseDone, Tick, CloseIngest, CloseChannel, Wait
  <1>3. ASSUME NEW w \in Pool, Transformer(w) \/ Writer(w)
        PROVE  UNCHANGED sinkVars \/ \E v \in Workers : Write(v)
    BY <1>3, Zenon DEF Transformer, Writer, TakeTransform, TransformFails, Forward,
         ForwardRefused, ExitTransformer, TakeBatch, WriteFails, ExitWriter
  <1>4. ASSUME Epoch PROVE UNCHANGED sinkVars
    BY <1>4, Zenon DEF Epoch, BindEpoch, SealEpoch, Misuse, Barrier, BarrierFlush, BarrierQueue, BarrierFails,
         BarrierCanceled, BarrierReturns
  <1>5. ASSUME UNCHANGED vars PROVE UNCHANGED sinkVars BY <1>5, Zenon DEF vars
  <1> QED BY <1>1, <1>2, <1>3, <1>4, <1>5, Zenon DEF Next

\* The steps that change the builder of p.
BuilderStep(p) == Row(p) \/ Flush(p) \/ CloseFlush(p) \/ BarrierFlush(p) \/ Drain(p)

\* Steps that leave the builders alone.
LEMMA BuilderStill ==
  ASSUME [Next]_vars
  PROVE  bld' = bld \/ \E p \in Parts : BuilderStep(p)
  <1>1. ASSUME NEW p \in Parts, Source(p) PROVE bld' = bld \/ BuilderStep(p)
    BY <1>1, Zenon DEF Source, SourceEnds, Send, SendRefused, BuilderStep
  <1>2. CASE \E p \in Parts : BarrierFlush(p) BY <1>2, Zenon DEF BuilderStep
  <1>3. CASE Tick \/ CloseIngest \/ CloseChannel \/ Wait
    BY <1>3, Zenon DEF Tick, CloseIngest, CloseChannel, Wait
  <1> QED BY <1>1, <1>2, <1>3, SourceStill, Zenon

\* They leave the builders of the other parts alone.
LEMMA BuilderOthers ==
  ASSUME TypeOK, NEW p \in Parts, BuilderStep(p)
  PROVE  /\ \A q \in Parts \ {p} : bld'[q] = bld[q] /\ src'[q] = src[q]
         /\ UNCHANGED <<sinkVars, stateVars, poolVars, dropped>>
  <1>1. UNCHANGED <<sinkVars, stateVars, poolVars, dropped>>
    BY Zenon DEF BuilderStep, Row, Flush, CloseFlush, BarrierFlush, Drain, historyVars
  <1>2. ASSUME NEW q \in Parts \ {p} PROVE src'[q] = src[q]
    BY Zenon DEF BuilderStep, Row, Flush, CloseFlush, BarrierFlush, Drain, Hand, TypeOK, SourceType
  <1>3. ASSUME NEW q \in Parts \ {p} PROVE bld'[q] = bld[q]
    BY Zenon DEF BuilderStep, Row, Flush, CloseFlush, BarrierFlush, Drain, TypeOK, SourceType
  <1> QED BY <1>1, <1>2, <1>3, Zenon

\* A batch is lost with an error, by a transformer, or by a source that gets the
\* error.
Excused(b) ==
  \/ err'
  \/ b.kind = "rows" => b.part \in dropped'
  \/ \E p \in Parts : SendRefused(p) /\ ~Stream /\ b = src[p].item

\* Every step keeps the batches in flight, adds one, writes one or loses one.
LEMMA FlowStep ==
  ASSUME TypeOK, SourceInv, [Next]_vars
  PROVE  \/ InFlight' = InFlight /\ bld' = bld /\ UNCHANGED sinkVars
         \/ \E b : Loses(b) /\ Excused(b) /\ bld' = bld /\ UNCHANGED sinkVars
         \/ \E p \in Parts : BuilderStep(p) /\ (Fills(p) \/ \E b : Makes(p, b))
         \/ \E p \in Parts : Send(p) /\ Makes(p, Marker(p)) /\ bld' = bld /\ UNCHANGED sinkVars
         \/ \E w \in Workers : Write(w) /\ Loses(wr[w]) /\ bld' = bld
  <1>FlowSend. ASSUME TypeOK, SourceInv, NEW p \in Parts, Send(p)
               PROVE  /\ src[p].pc # "draining" => InFlight' = InFlight
                      /\ src[p].pc = "draining" => Makes(p, Marker(p))
    <2> USE <1>FlowSend
    <2>1. /\ src[p].item # Empty /\ Put(Route(p), src[p].item) /\ xf' = xf /\ wr' = wr /\ bld' = bld
          /\ src' = [src EXCEPT ![p] = AfterSend(p)]
      BY Zenon DEF Send
    <2>2. Route(p) \in Channels /\ ch \in [Channels -> Seq(Items)] /\ "batch" \in Channels /\ "transform" \in Channels
      BY Zenon DEF Route, Channels, TypeOK, PoolType
    <2>3. /\ Range(ch'[Route(p)]) = Range(ch[Route(p)]) \cup {src[p].item}
          /\ \A c \in Channels \ {Route(p)} : ch'[c] = ch[c]
      BY <2>1, <2>2, RangeAppend, Zenon DEF Put
    <2>4. Aboard' = Aboard \cup {src[p].item}
      BY <2>1, <2>2, <2>3, Zenon DEF Aboard, Route
    <2>5. /\ AfterSend(p).item \in SourceItems' /\ src[p].item \in SourceItems
          /\ SourceItems' \subseteq SourceItems \cup {AfterSend(p).item}
          /\ SourceItems \subseteq SourceItems' \cup {src[p].item}
      BY <2>1, SourceItemsMove, Zenon
    <2>6. Aboard' \cup SourceItems' = Aboard \cup SourceItems \cup {AfterSend(p).item}
      BY <2>4, <2>5, Zenon
    <2>7. CASE src[p].pc # "draining"
      <3>1. AfterSend(p).item = Empty BY <2>7, Zenon DEF AfterSend
      <3> QED BY <2>6, <2>7, <3>1, FlightType, Zenon DEF InFlight
    <2>8. CASE src[p].pc = "draining"
      <3>1. AfterSend(p) = [pc |-> "marking", item |-> Marker(p)] BY <2>8, Zenon DEF AfterSend
      <3>2. Marker(p) \in Batches /\ ~Blank(Marker(p)) BY BatchType, FlightType, Zenon DEF TypeOK
      <3>3. InFlight' = InFlight \cup {Marker(p)} /\ SourceItems' \subseteq SourceItems \cup {Marker(p)}
        BY <2>5, <2>6, <3>1, <3>2 DEF InFlight
      <3>4. src'[p].pc = "marking" BY <2>1, <3>1 DEF TypeOK, SourceType
      <3>5. bld[p].open = 0 /\ ~Stream BY <2>1, <2>8, Zenon DEF SourceInv, SourceOK
      <3>6. /\ Marker(p).kind = "marker" /\ Marker(p).part = p /\ Marker(p).hi = bld[p].total
            /\ Marker(p).epoch = ep.n
        BY Zenon DEF Marker, Batch
      <3> QED BY <2>1, <2>8, <3>2, <3>3, <3>4, <3>5, <3>6, Zenon DEF Makes
    <2> QED BY <2>7, <2>8, Zenon
  <1>FlowRefused. ASSUME TypeOK, SourceInv, NEW p \in Parts, SendRefused(p)
                  PROVE  Loses(src[p].item)
    <2> USE <1>FlowRefused
    <2> DEFINE r == [pc |-> IF Stream THEN "reading" ELSE "failed", item |-> Empty]
    <2>1. UNCHANGED poolVars /\ src' = [src EXCEPT ![p] = r] /\ r.item = Empty BY Zenon DEF SendRefused, Hand
    <2>2. SourceItems' \subseteq SourceItems \cup {Empty} /\ SourceItems \subseteq SourceItems' \cup {src[p].item}
      <3> HIDE DEF r
      <3> QED BY <2>1, SourceItemsMove, Zenon
    <2>3. Aboard' = Aboard BY <2>1, Zenon DEF poolVars, Aboard
    <2> QED BY <2>2, <2>3, FlightType, Zenon DEF InFlight, Loses
  \* What the transformers do to the batches in flight.
  <1>FlowTransformer. ASSUME TypeOK, NEW w \in Workers
                      PROVE  /\ TakeTransform(w) \/ Forward(w) \/ ExitTransformer(w) => InFlight' = InFlight \/ (err /\ \E b : Loses(b))
                             /\ TransformFails(w) \/ ForwardRefused(w) => Loses(xf[w])
    <2> USE <1>FlowTransformer
    <2>1. /\ xf \in [Workers -> Items \cup {Empty, Gone}] /\ w \in DOMAIN xf /\ xf = [v \in DOMAIN xf |-> xf[v]]
          /\ ch \in [Channels -> Seq(Items)] /\ "batch" \in Channels /\ "transform" \in Channels
          /\ ch["batch"] \in Seq(Items) /\ ch["transform"] \in Seq(Items)
      BY Zenon DEF TypeOK, PoolType, Channels
    <2>2. ASSUME NEW x, xf' = [xf EXCEPT ![w] = x]
          PROVE  /\ Range(xf') \subseteq Range(xf) \cup {x} /\ x \in Range(xf')
                 /\ Range(xf) \subseteq Range(xf') \cup {xf[w]}
      BY <2>1, <2>2, Zenon DEF Range
    <2>3. ASSUME TakeTransform(w) PROVE InFlight' = InFlight \/ (err /\ \E b : Loses(b))
      <3> DEFINE h == Head(ch["transform"])
      <3>1. /\ xf[w] = Empty /\ ch["transform"] # <<>> /\ UNCHANGED <<wr, src>>
            /\ xf' = [xf EXCEPT ![w] = IF err THEN Empty ELSE h]
            /\ ch' = [ch EXCEPT !["transform"] = Tail(@)]
        BY <2>3, Zenon DEF TakeTransform, sourceVars
      <3>2. /\ Range(ch["transform"]) = {h} \cup Range(ch'["transform"]) /\ ch'["batch"] = ch["batch"]
        BY <2>1, <3>1, RangeTail, Zenon
      <3>3. SourceItems' = SourceItems BY <3>1, Zenon DEF SourceItems
      <3> HIDE DEF h
      <3>4. CASE err
        <4>1. Aboard' \subseteq Aboard \cup Blanks /\ Aboard \subseteq Aboard' \cup Blanks \cup {h}
          BY <2>2, <3>1, <3>2, <3>4 DEF Aboard, Blanks
        <4> QED BY <3>3, <3>4, <4>1, FlowAboard, Zenon
      <3>5. CASE ~err
        <4>1. Aboard' \subseteq Aboard \cup Blanks /\ Aboard \subseteq Aboard' \cup Blanks
          BY <2>2, <3>1, <3>2, <3>5, Zenon DEF Aboard, Blanks
        <4> QED BY <3>3, <4>1, FlowAboard, Zenon
      <3> QED BY <3>4, <3>5, Zenon
    <2>4. ASSUME Forward(w) PROVE InFlight' = InFlight
      <3>1. /\ UNCHANGED <<wr, src>> /\ xf' = [xf EXCEPT ![w] = Empty] /\ Put("batch", xf[w])
        BY <2>4, Zenon DEF Forward, sourceVars
      <3>2. Range(ch'["batch"]) = Range(ch["batch"]) \cup {xf[w]} /\ ch'["transform"] = ch["transform"]
        BY <2>1, <3>1, RangeAppend, Zenon DEF Put
      <3>3. SourceItems' = SourceItems BY <3>1, Zenon DEF SourceItems
      <3>4. xf[w] \in Range(xf) BY <2>1, Zenon DEF Range
      <3>5. Aboard' \subseteq Aboard \cup Blanks /\ Aboard \subseteq Aboard' \cup Blanks
        BY <2>2, <3>1, <3>2, <3>4, Zenon DEF Aboard, Blanks
      <3> QED BY <3>3, <3>5, FlowAboard, Zenon
    <2>5. ASSUME ExitTransformer(w) PROVE InFlight' = InFlight
      <3>1. /\ UNCHANGED <<wr, src, ch>> /\ xf' = [xf EXCEPT ![w] = Gone] /\ xf[w] = Empty
        BY <2>5, Zenon DEF ExitTransformer, sourceVars
      <3>3. SourceItems' = SourceItems BY <3>1, Zenon DEF SourceItems
      <3>5. Aboard' \subseteq Aboard \cup Blanks /\ Aboard \subseteq Aboard' \cup Blanks
        BY <2>2, <3>1, Zenon DEF Aboard, Blanks
      <3> QED BY <3>3, <3>5, FlowAboard, Zenon
    <2>6. ASSUME TransformFails(w) \/ ForwardRefused(w) PROVE Loses(xf[w])
      <3>1. /\ UNCHANGED <<wr, src, ch>> /\ xf' = [xf EXCEPT ![w] = Empty]
        BY <2>6, Zenon DEF TransformFails, ForwardRefused, sourceVars
      <3>3. SourceItems' = SourceItems BY <3>1, Zenon DEF SourceItems
      <3>5. Aboard' \subseteq Aboard \cup Blanks /\ Aboard \subseteq Aboard' \cup Blanks \cup {xf[w]}
        BY <2>2, <3>1, Zenon DEF Aboard, Blanks
      <3> QED BY <3>3, <3>5, FlowAboard, Zenon
    <2> QED BY <2>3, <2>4, <2>5, <2>6, Zenon
  <1>FlowControl. ASSUME TypeOK, BarrierQueue
                  PROVE  InFlight' = InFlight
    <2> USE <1>FlowControl
    <2> DEFINE c == IF setup.planned # {} THEN "transform" ELSE "batch"
    <2>1. UNCHANGED <<xf, wr, src>> /\ Put(c, Control) BY Zenon DEF BarrierQueue, sourceVars
    <2>2. c \in Channels /\ ch \in [Channels -> Seq(Items)] /\ "batch" \in Channels /\ "transform" \in Channels
      BY Zenon DEF Channels, TypeOK, PoolType
    <2> HIDE DEF c
    <2>3. /\ Range(ch'[c]) = Range(ch[c]) \cup {Control}
          /\ \A d \in Channels \ {c} : ch'[d] = ch[d]
      BY <2>1, <2>2, RangeAppend, Zenon DEF Put
    <2>4. Aboard' \subseteq Aboard \cup Blanks /\ Aboard \subseteq Aboard' \cup Blanks
      BY <2>1, <2>2, <2>3, Zenon DEF Aboard, Blanks
    <2> QED BY <2>1, <2>4, FlowAboard, Zenon DEF SourceItems
  <1>1. ASSUME NEW p \in Parts, BuilderStep(p) PROVE Fills(p) \/ \E b : Makes(p, b)
    BY <1>1, FlowRow, FlowChunk, Zenon DEF BuilderStep
  <1>2. ASSUME NEW p \in Parts, Send(p)
        PROVE  /\ bld' = bld /\ UNCHANGED sinkVars
               /\ InFlight' = InFlight \/ Makes(p, Marker(p))
    BY <1>2, <1>FlowSend, Zenon DEF Send
  <1>3. ASSUME NEW p \in Parts, SendRefused(p)
        PROVE  Loses(src[p].item) /\ Excused(src[p].item) /\ bld' = bld /\ UNCHANGED sinkVars
    BY <1>3, <1>FlowRefused, Zenon DEF SendRefused, Excused, SetErr
  <1>4. ASSUME NEW w \in Workers, TakeTransform(w) \/ Forward(w) \/ ExitTransformer(w) \/ TakeBatch(w) \/ ExitWriter(w)
        PROVE  /\ bld' = bld /\ UNCHANGED sinkVars
               /\ InFlight' = InFlight \/ \E b : Loses(b) /\ Excused(b)
    <2>1. bld' = bld /\ UNCHANGED sinkVars
      BY <1>4, Zenon DEF TakeTransform, Forward, ExitTransformer, TakeBatch, ExitWriter, sourceVars
    <2>2. err => err' BY StateMoves, Zenon
    <2> QED BY <1>4, <2>1, <2>2, <1>FlowTransformer, FlowWriter, Zenon DEF Excused
  <1>5. ASSUME NEW w \in Workers, TransformFails(w) \/ WriteFails(w) \/ ForwardRefused(w)
        PROVE  /\ bld' = bld /\ UNCHANGED sinkVars
               /\ \E b : Loses(b) /\ Excused(b)
    <2>1. bld' = bld /\ UNCHANGED sinkVars
      BY <1>5, Zenon DEF TransformFails, WriteFails, ForwardRefused, sourceVars
    <2>2. TransformFails(w) \/ WriteFails(w) => err' BY Zenon DEF TransformFails, WriteFails, SetErr
    <2>3. ForwardRefused(w) /\ xf[w].kind = "rows" => xf[w].part \in dropped' BY Zenon DEF ForwardRefused
    <2> QED BY <1>5, <2>1, <2>2, <2>3, <1>FlowTransformer, FlowWriter, Zenon DEF Excused
  <1>6. ASSUME NEW w \in Workers, Write(w) PROVE Loses(wr[w]) /\ bld' = bld
    BY <1>6, FlowWriter, Zenon DEF Write, sourceVars
  <1>7. CASE BarrierQueue
    BY <1>7, <1>FlowControl, Zenon DEF BarrierQueue, sourceVars
  <1>8. ASSUME UNCHANGED <<ch, xf, wr>>, ~\E p \in Parts : BuilderStep(p) \/ Send(p) \/ SendRefused(p), ~\E w \in Workers : Write(w)
        PROVE  InFlight' = InFlight /\ bld' = bld /\ UNCHANGED sinkVars
    <2>1. bld' = bld /\ UNCHANGED sinkVars BY <1>8, BuilderStill, SinkStill, Zenon
    <2>2. SourceItems' = SourceItems
      <3>1. src' = src \/ \E p \in Parts : SourceEnds(p)
        <4>1. CASE Tick \/ CloseIngest \/ CloseChannel \/ Wait
          BY <4>1, Zenon DEF Tick, CloseIngest, CloseChannel, Wait
        <4> QED BY <1>8, <4>1, SourceStill, Zenon DEF Source, BuilderStep
      <3>2. ASSUME NEW p \in Parts, SourceEnds(p) PROVE SourceItems' = SourceItems
        <4>1. PICK pc : src' = [src EXCEPT ![p] = [pc |-> pc, item |-> Empty]] BY <3>2, Zenon DEF SourceEnds, Hand
        <4>2. src[p].item = Empty BY <3>2, Zenon DEF SourceEnds, Producing, Free, SourceInv, SourceOK, Idle
        <4>3. \A q \in Parts : src'[q].item = src[q].item BY <4>1, <4>2, Zenon DEF TypeOK, SourceType
        <4> QED BY <4>3, Zenon DEF SourceItems
      <3> QED BY <3>1, <3>2, Zenon DEF SourceItems
    <2>3. Aboard' = Aboard BY <1>8, Zenon DEF Aboard
    <2> QED BY <2>1, <2>2, <2>3, Zenon DEF InFlight
  <1> QED BY <1>1, <1>2, <1>3, <1>4, <1>5, <1>6, <1>7, <1>8, PoolStill, Zenon
=============================================================================
