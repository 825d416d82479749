------------------------ MODULE PipelineBatchProofs -------------------------
(***************************************************************************)
(* What the batches in flight carry: rows that are new, in ranges of their *)
(* part that do not overlap and that one writer writes in order.  So nothing*)
(* is lost without an error, keys cover written rows, and a run that ends  *)
(* without an error is complete.                                           *)
(***************************************************************************)
EXTENDS PipelineTypeProofs

\* The place of a batch in the rows of its part.
Start(b) == IF b.kind = "rows" THEN b.lo ELSE b.hi

\* With one writer b goes before c; with several, n > 1, they do not overlap.
Apart(n, b, c) ==
  b.kind \in BatchKinds /\ c.kind \in BatchKinds /\ b.part = c.part =>
    b.hi <= Start(c) \/ (n > 1 /\ c.hi <= Start(b))

\* Whether sets, sequences and functions of batches are apart.
Clear(n, A, C) == \A b \in A, c \in C : Apart(n, b, c)
Sorted(n, s) == \A i, j \in 1..Len(s) : i < j => Apart(n, s[i], s[j])
Spread(n, f) == \A u, v \in DOMAIN f : u # v => Apart(n, f[u], f[v])

\* Writers, batch channel, transformers, transform channel and sources, in the
\* order in which they hold the batches of a part.
Lined(n, w, b, x, t, s) ==
  /\ Spread(n, w) /\ Sorted(n, b) /\ Spread(n, x) /\ Sorted(n, t)
  /\ Clear(n, Range(w), Range(b) \cup Range(x) \cup Range(t) \cup s)
  /\ Clear(n, Range(b), Range(x) \cup Range(t) \cup s)
  /\ Clear(n, Range(x), Range(t) \cup s)
  /\ Clear(n, Range(t), s)

-----------------------------------------------------------------------------

\* Batches of different parts, and places without a batch, are apart.
LEMMA ApartOther ==
  ASSUME NEW n, NEW b, NEW c, b.kind \notin BatchKinds \/ c.kind \notin BatchKinds \/ b.part # c.part
  PROVE  Apart(n, b, c)
  BY Zenon DEF Apart

\* What is left of an ordered channel is ordered and comes after its head.
LEMMA SortedTail ==
  ASSUME NEW n, NEW S, NEW s \in Seq(S), s # <<>>, Sorted(n, s)
  PROVE  Sorted(n, Tail(s)) /\ Clear(n, {Head(s)}, Range(Tail(s)))
  <1>1. /\ Len(s) \in Nat \ {0} /\ Head(s) = s[1]
        /\ Tail(s) \in Seq(S) /\ Len(Tail(s)) = Len(s) - 1
        /\ \A i \in 1..Len(Tail(s)) : Tail(s)[i] = s[i + 1]
    BY SeqFacts
  <1>2. DOMAIN Tail(s) = 1..(Len(s) - 1) BY <1>1, SeqFacts, Zenon
  <1>3. ASSUME NEW i \in 1..(Len(s) - 1) PROVE Apart(n, Head(s), Tail(s)[i])
    <2>1. 1 \in 1..Len(s) /\ i + 1 \in 1..Len(s) /\ 1 < i + 1 BY <1>1
    <2> QED BY <1>1, <2>1, Zenon DEF Sorted
  <1>4. ASSUME NEW i \in 1..(Len(s) - 1), NEW j \in 1..(Len(s) - 1), i < j
        PROVE  Apart(n, Tail(s)[i], Tail(s)[j])
    <2>1. i + 1 \in 1..Len(s) /\ j + 1 \in 1..Len(s) /\ i + 1 < j + 1 BY <1>1, <1>4
    <2> QED BY <1>1, <2>1, Zenon DEF Sorted
  <1> QED BY <1>1, <1>2, <1>3, <1>4, Zenon DEF Sorted, Clear, Range

-----------------------------------------------------------------------------
\* What holds of a batch in flight, and of what was written.
Sound(b) ==
  /\ b.hi <= bld[b.part].total - bld[b.part].open
  /\ b.kind = "rows" => b.lo < b.hi /\ Rows(b) \cap written[b.part] = {}
  /\ b.kind = "marker" => /\ ~Stream /\ b.hi = bld[b.part].total
                          /\ src[b.part].pc \notin {"reading", "sending"}

\* Batches in flight are sound and distinct from what was written, and no row is
\* written before the builder counted it.
ItemInv ==
  /\ \A b \in InFlight : Sound(b)
  /\ \A p \in Parts : written[p] \subseteq 1..(bld[p].total - bld[p].open)

\* Batches of one part never overlap; with one writer they keep their order.
ApartInv == Lined(setup.workers, wr, ch["batch"], xf, ch["transform"], SourceItems)

\* At the start nothing is in flight.
LEMMA ItemInit == Init => ItemInv /\ ApartInv
  <1> SUFFICES ASSUME Init PROVE ItemInv /\ ApartInv BY Zenon
  <1>1. TypeOK BY TypeInit, Zenon
  <1>2. \A b \in Aboard \cup SourceItems : b = Empty
    <2>1. Range(<<>>) = {} BY DEF Range
    <2>2. ch["batch"] = <<>> /\ ch["transform"] = <<>> BY Zenon DEF Init, Channels
    <2>3. \A b \in Range(wr) \cup Range(xf) : b = Empty BY Zenon DEF Init, Range
    <2>4. \A b \in SourceItems : b = Empty BY Zenon DEF Init, SourceItems
    <2> QED BY <2>1, <2>2, <2>3, <2>4, Zenon DEF Aboard
  <1>3. Blank(Empty) BY <1>1, FlightType, Zenon
  <1>4. InFlight = {} BY <1>2, <1>3, Zenon DEF InFlight
  <1>5. ItemInv BY <1>4, Zenon DEF ItemInv, Init
  <1>6. \A b, c \in Aboard \cup SourceItems : Apart(setup.workers, b, c)
    BY <1>2, <1>3, ApartOther, Zenon DEF Blank
  <1>7. /\ Spread(setup.workers, wr) /\ Spread(setup.workers, xf)
    BY <1>6, Zenon DEF Spread, Aboard, Range
  <1>8. Sorted(setup.workers, ch["batch"]) /\ Sorted(setup.workers, ch["transform"])
    BY DEF Init, Sorted, Channels
  <1>9. ApartInv BY <1>6, <1>7, <1>8, Zenon DEF ApartInv, Lined, Clear, Aboard
  <1> QED BY <1>5, <1>9, Zenon

\* A bounded part is never read again after it was read.
LEMMA PhaseMoves ==
  ASSUME TypeOK, SourceInv, DrainInv, [Next]_vars, NEW q \in Parts
  PROVE  /\ ~Stream /\ src[q].pc \notin {"reading", "sending"} => src'[q].pc \notin {"reading", "sending"}
         /\ src[q].pc = "failed" => src'[q].pc = "failed" \/ err'
  <1>1. CASE src'[q] = src[q] BY <1>1, Zenon
  <1>2. ASSUME NEW p \in Parts, Row(p) \/ Flush(p) \/ Drain(p) \/ SourceEnds(p), src'[q] # src[q]
        PROVE  src[q].pc = "reading"
    <2>1. \E r : src' = [src EXCEPT ![p] = r] \/ src' = src
      BY <1>2, Zenon DEF Row, Flush, Drain, SourceEnds, Hand
    <2>2. q = p BY <1>2, <2>1, Zenon DEF TypeOK, SourceType
    <2> QED BY <1>2, <2>2, Zenon DEF Row, Flush, Drain, SourceEnds, Producing, Free
  <1>3. ASSUME NEW p \in Parts, Send(p), src'[q] # src[q]
        PROVE  src[q].pc # "failed" /\ (src[q].pc = "sending" \/ src'[q].pc \notin {"reading", "sending"})
    <2>1. src' = [src EXCEPT ![p] = AfterSend(p)] /\ src[p].item # Empty BY <1>3, Zenon DEF Send
    <2>2. q = p /\ src'[q] = AfterSend(p) BY <1>3, <2>1, Zenon DEF TypeOK, SourceType
    <2>3. src[q].pc # "failed" BY <2>1, <2>2, Zenon DEF SourceInv, SourceOK, Idle
    <2>4. src[q].pc # "sending" => AfterSend(p).pc \in {"marking", "ended"} BY <2>2, Zenon DEF AfterSend
    <2> QED BY <2>2, <2>3, <2>4, Zenon
  <1>4. ASSUME NEW p \in Parts, SendRefused(p), src'[q] # src[q]
        PROVE  src[q].pc # "failed" /\ (Stream \/ src'[q].pc = "failed")
    <2>1. src' = [src EXCEPT ![p] = [pc |-> IF Stream THEN "reading" ELSE "failed", item |-> Empty]] /\ src[p].item # Empty
      BY <1>4, Zenon DEF SendRefused, Hand
    <2>2. q = p BY <1>4, <2>1, Zenon DEF TypeOK, SourceType
    <2>3. Stream \/ src'[q].pc = "failed" BY <2>1, <2>2, Zenon DEF TypeOK, SourceType
    <2> QED BY <2>1, <2>2, <2>3, Zenon DEF SourceInv, SourceOK, Idle
  <1>5. ASSUME NEW p \in Parts, CloseFlush(p), src'[q] # src[q]
        PROVE  src'[q].pc = "closing" /\ (src[q].pc = "failed" => err')
    <2>1. src' = [src EXCEPT ![p] = [pc |-> "closing", item |-> Chunk(p)]] /\ ingest = "flushing"
      BY <1>5, Zenon DEF CloseFlush, Hand
    <2>2. q = p BY <1>5, <2>1, Zenon DEF TypeOK, SourceType
    <2>3. src'[q].pc = "closing" BY <2>1, <2>2, Zenon DEF TypeOK, SourceType
    <2>4. src[q].pc = "failed" => err BY <2>1, Zenon DEF DrainInv
    <2> QED BY <2>3, <2>4, StateMoves, Zenon
  <1>6. ASSUME NEW p \in Parts, BarrierFlush(p) PROVE Stream /\ src[q].pc # "failed"
    BY <1>6, Zenon DEF BarrierFlush, SourceInv, SourceOK
  <1>7. CASE Tick \/ CloseIngest \/ CloseChannel \/ Wait
    <2>1. src' = src BY <1>7, Zenon DEF Tick, CloseIngest, CloseChannel, Wait
    <2> QED BY <2>1, Zenon
  <1> QED BY <1>1, <1>2, <1>3, <1>4, <1>5, <1>6, <1>7, SourceStill, Zenon DEF Source

\* The fields of a batch in flight.
LEMMA BatchFacts ==
  ASSUME NEW b \in Batches
  PROVE  /\ b.part \in Parts /\ b.lo \in Nat /\ b.hi \in Nat /\ b.lo <= b.hi /\ b.kind \in BatchKinds
         /\ b.hi \in Counts /\ b.epoch \in Nat
  BY BoundsAssumption DEF Batches, Counts, BatchKinds

\* The counts of a builder.
LEMMA BuilderFacts ==
  ASSUME TypeOK, NEW p \in Parts
  PROVE  bld[p].total \in Nat /\ bld[p].open \in Nat /\ bld[p].open <= bld[p].total
  BY DEF TypeOK, SourceType, Counts

\* A batch that is handed out carries new rows; one that is written is gone.
LEMMA ItemStep == TypeOK /\ SourceInv /\ DrainInv /\ ItemInv /\ ApartInv /\ [Next]_vars => ItemInv'
  \* What is left is apart from the batch that is written.
  <1>WriteApart. ASSUME TypeOK, ApartInv, NEW w \in Workers, Write(w), NEW c \in InFlight'
                 PROVE  Apart(setup.workers, wr[w], c)
    <2> USE <1>WriteApart
    <2>1. /\ wr \in [Workers -> Batches \cup {Empty, Gone}] BY Zenon DEF TypeOK, PoolType
    <2>2. UNCHANGED <<xf, src, ch>> /\ wr' = [wr EXCEPT ![w] = Empty] BY Zenon DEF Write, sourceVars
    <2>3. CASE c \in Range(wr')
      <3>1. c = Empty \/ \E v \in Workers \ {w} : c = wr[v] BY <2>1, <2>2, <2>3, Zenon DEF Range
      <3>2. Blank(Empty) BY FlightType, Zenon
      <3> QED BY <2>1, <3>1, <3>2, Zenon DEF InFlight, ApartInv, Lined, Spread
    <2>4. CASE c \notin Range(wr')
      <3>1. c \in Range(ch["batch"]) \cup Range(xf) \cup Range(ch["transform"]) \cup SourceItems
        BY <2>2, <2>4, Zenon DEF InFlight, Aboard, SourceItems
      <3>2. wr[w] \in Range(wr) BY <2>1, Zenon DEF Range
      <3> QED BY <3>1, <3>2, Zenon DEF ApartInv, Lined, Clear
    <2> QED BY <2>3, <2>4, Zenon
  <1> SUFFICES ASSUME TypeOK, SourceInv, DrainInv, ItemInv, ApartInv, [Next]_vars PROVE ItemInv' BY Zenon
  <1>1. TypeOK' /\ setup' = setup BY TypeStep, StateMoves, Zenon
  <1>2. InFlight \subseteq Batches /\ InFlight' \subseteq Batches
    <2>1. InFlight \subseteq Batches BY FlightType, Zenon
    <2>2. (TypeOK => InFlight \subseteq Batches)' BY FlightType, PTL
    <2> QED BY <1>1, <2>1, <2>2, Zenon
  <1>3. ASSUME InFlight' \subseteq InFlight, bld' = bld, UNCHANGED sinkVars PROVE ItemInv'
    <2>1. written' = written BY <1>3, Zenon DEF sinkVars
    <2>2. ASSUME NEW b \in InFlight' PROVE Sound(b)'
      <3>1. Sound(b) /\ b.part \in Parts BY <1>2, <1>3, <2>2, BatchFacts, Zenon DEF ItemInv
      <3> QED BY <1>1, <1>3, <2>1, <3>1, PhaseMoves, Zenon DEF Sound, Stream
    <2> QED BY <1>3, <2>1, <2>2, Zenon DEF ItemInv
  <1>4. ASSUME NEW p \in Parts, BuilderStep(p), Fills(p) PROVE ItemInv'
    <2>1. /\ written' = written /\ \A q \in Parts \ {p} : bld'[q] = bld[q] /\ src'[q] = src[q]
      BY <1>4, BuilderOthers, Zenon DEF sinkVars
    <2>2. bld'[p].total - bld'[p].open = bld[p].total - bld[p].open
      BY <1>4, BuilderFacts DEF Fills
    <2>3. ASSUME NEW b \in InFlight' PROVE Sound(b)'
      <3>1. Sound(b) /\ b.part \in Parts BY <1>2, <1>4, <2>3, BatchFacts, Zenon DEF ItemInv, Fills
      <3>2. b.part = p => b.kind # "marker" BY <1>4, <3>1, Zenon DEF Fills, Sound
      <3> QED BY <1>1, <2>1, <2>2, <3>1, <3>2, Zenon DEF Sound, Stream
    <2>4. ASSUME NEW q \in Parts PROVE written'[q] \subseteq 1..(bld'[q].total - bld'[q].open)
      BY <2>1, <2>2, Zenon DEF ItemInv
    <2> QED BY <2>3, <2>4, Zenon DEF ItemInv
  <1>5. ASSUME NEW p \in Parts, NEW b, Makes(p, b), written' = written, \A q \in Parts \ {p} : bld'[q] = bld[q]
        PROVE  ItemInv'
    <2>1. /\ bld[p].total \in Nat /\ bld[p].open \in Nat /\ bld[p].open <= bld[p].total BY BuilderFacts, Zenon
    <2>2. bld'[p].open = 0 /\ bld'[p].total \in Nat /\ bld[p].total <= bld'[p].total
      BY <1>5, <2>1 DEF Makes
    <2>3. \A c \in InFlight : Sound(c) /\ c \in Batches /\ c.part \in Parts /\ c.hi \in Nat
      BY <1>2, BatchFacts, Zenon DEF ItemInv
    <2>4. ASSUME NEW c \in InFlight PROVE Sound(c)'
      <3>1. CASE c.part # p BY <1>1, <1>5, <2>3, <3>1, PhaseMoves, Zenon DEF Sound, Stream
      <3>2. CASE c.part = p
        <4>1. c.hi <= bld'[p].total - bld'[p].open BY <2>1, <2>2, <2>3, <3>2 DEF Sound
        <4>2. CASE c.kind # "marker" BY <1>1, <1>5, <2>3, <3>2, <4>1, <4>2, Zenon DEF Sound
        <4>3. CASE c.kind = "marker"
          <5>1. src[p].pc # "reading" BY <2>3, <3>2, <4>3, Zenon DEF Sound
          <5>2. bld'[p].total = bld[p].total BY <1>5, <5>1, Zenon DEF Makes
          <5> QED BY <1>1, <2>3, <3>2, <4>1, <4>3, <5>2, PhaseMoves, Zenon DEF Sound, Stream
        <4> QED BY <4>2, <4>3, Zenon
      <3> QED BY <3>1, <3>2, Zenon
    <2>5. Sound(b)'
      <3>1. b.part = p /\ b.hi = bld'[p].total /\ b.lo \in Nat BY <1>5, BatchFacts, Zenon DEF Makes
      <3>2. CASE b.kind = "rows"
        <4>1. b.lo = bld[p].total - bld[p].open /\ b.lo < b.hi BY <1>5, <3>2, Zenon DEF Makes
        <4>2. written[p] \subseteq 1..b.lo BY <4>1, Zenon DEF ItemInv
        <4>3. Rows(b) \cap written[p] = {} BY <3>1, <4>2 DEF Rows
        <4> QED BY <1>5, <2>2, <3>1, <3>2, <4>1, <4>3 DEF Sound
      <3>3. CASE b.kind = "marker"
        <4>1. ~Stream /\ src'[p].pc = "marking" BY <1>5, <3>3, Zenon DEF Makes
        <4> QED BY <1>1, <2>2, <3>1, <3>3, <4>1 DEF Sound, Stream
      <3> QED BY <1>5, <3>2, <3>3, Zenon DEF Makes
    <2>6. ASSUME NEW q \in Parts PROVE written'[q] \subseteq 1..(bld'[q].total - bld'[q].open)
      <3>1. CASE q # p BY <1>5, <3>1, Zenon DEF ItemInv
      <3>2. CASE q = p
        <4>1. written[p] \subseteq 1..(bld[p].total - bld[p].open) BY Zenon DEF ItemInv
        <4> QED BY <1>5, <2>1, <2>2, <3>2, <4>1
      <3> QED BY <3>1, <3>2, Zenon
    <2> QED BY <1>5, <2>4, <2>5, <2>6, Zenon DEF ItemInv, Makes
  <1>6. ASSUME NEW w \in Workers, Write(w), Loses(wr[w]), bld' = bld PROVE ItemInv'
    <2> DEFINE b == wr[w]
    <2>1. b \in Batches /\ b \in InFlight
      <3>1. b \in Batches BY <1>6, Zenon DEF Write
      <3>2. b \in Range(wr) BY Zenon DEF Range, TypeOK, PoolType
      <3> QED BY <3>1, <3>2, FlightType, Zenon DEF InFlight, Aboard
    <2>2. written' = IF b.kind = "rows" THEN [written EXCEPT ![b.part] = @ \cup Rows(b)] ELSE written
      BY <1>6, Zenon DEF Write
    <2>3. src' = src BY <1>6, Zenon DEF Write, sourceVars
    <2>4. \A c \in InFlight' : Apart(setup.workers, b, c) /\ Sound(c) /\ c \in Batches
      BY <1>2, <1>6, <1>WriteApart, Zenon DEF Loses, ItemInv
    <2>5. Sound(b) /\ b.part \in Parts /\ b.lo \in Nat /\ b.hi \in Nat BY <2>1, BatchFacts, Zenon DEF ItemInv
    <2> HIDE DEF b
    <2>6. ASSUME NEW c \in InFlight', c.kind = "rows" PROVE Rows(c) \cap written'[c.part] = {}
      <3>1. c.part \in Parts /\ c.lo \in Nat /\ c.hi \in Nat /\ Rows(c) \cap written[c.part] = {}
        BY <2>4, <2>6, BatchFacts, Zenon DEF Sound
      <3>2. CASE b.kind = "rows" /\ c.part = b.part
        <4>1. Rows(b) \cap Rows(c) = {}
          BY <2>4, <2>5, <2>6, <3>1, <3>2 DEF Apart, Start, BatchKinds, Rows
        <4>2. written'[c.part] = written[c.part] \cup Rows(b)
          BY <2>2, <3>1, <3>2, Zenon DEF TypeOK, SinkType
        <4> QED BY <3>1, <4>1, <4>2, Zenon
      <3>3. CASE ~(b.kind = "rows" /\ c.part = b.part)
        <4>1. written'[c.part] = written[c.part] BY <2>2, <3>1, <3>3, Zenon DEF TypeOK, SinkType
        <4> QED BY <3>1, <4>1, Zenon
      <3> QED BY <3>2, <3>3, Zenon
    <2>7. \A c \in InFlight' : Sound(c)' BY <1>1, <1>6, <2>3, <2>4, <2>6, Zenon DEF Sound, Stream
    <2>8. ASSUME NEW q \in Parts PROVE written'[q] \subseteq 1..(bld'[q].total - bld'[q].open)
      <3>1. written[q] \subseteq 1..(bld[q].total - bld[q].open) BY Zenon DEF ItemInv
      <3>2. CASE b.kind = "rows" /\ q = b.part
        <4>1. Rows(b) \subseteq 1..(bld[q].total - bld[q].open)
          BY <2>5, <3>2, BuilderFacts DEF Rows, Sound
        <4>2. written'[q] = written[q] \cup Rows(b) BY <2>2, <3>2, Zenon DEF TypeOK, SinkType
        <4> QED BY <1>6, <3>1, <4>1, <4>2, Zenon
      <3>3. CASE ~(b.kind = "rows" /\ q = b.part)
        <4>1. written'[q] = written[q] BY <2>2, <2>5, <3>3, Zenon DEF TypeOK, SinkType
        <4> QED BY <1>6, <3>1, <4>1, Zenon
      <3> QED BY <3>2, <3>3, Zenon
    <2> QED BY <2>7, <2>8, Zenon DEF ItemInv
  <1>7. ASSUME NEW p \in Parts, BuilderStep(p), NEW b, Makes(p, b) PROVE ItemInv'
    BY <1>5, <1>7, BuilderOthers, Zenon DEF sinkVars
  <1>8. ASSUME NEW p \in Parts, Makes(p, Marker(p)), bld' = bld, UNCHANGED sinkVars PROVE ItemInv'
    BY <1>5, <1>8, Zenon DEF sinkVars
  <1> QED BY <1>3, <1>4, <1>6, <1>7, <1>8, FlowStep, Zenon DEF Loses

\* No step makes batches overlap or, with one writer, overtake each other: the lemmas
\* in front say so of one move between the writers, the channels, the transformers and
\* the sources.
LEMMA ApartStep == TypeOK /\ SourceInv /\ RouteInv /\ ItemInv /\ ApartInv /\ [Next]_vars => ApartInv'
  <1>ApartSwaps. ASSUME NEW n, NEW b, NEW c, Apart(n, b, c), n > 1
                 PROVE  Apart(n, c, b)
    BY <1>ApartSwaps, Zenon DEF Apart
  <1>SortedAppend. ASSUME NEW n, NEW S, NEW s \in Seq(S), NEW x, Sorted(n, s), Clear(n, Range(s), {x})
                   PROVE  Sorted(n, Append(s, x))
    <2> USE <1>SortedAppend
    <2>1. DOMAIN s = 1..Len(s) /\ Len(s) \in Nat BY SeqFacts, Zenon
    <2>2. /\ Len(Append(s, x)) = Len(s) + 1
          /\ \A i \in 1..Len(s) : Append(s, x)[i] = s[i]
          /\ Append(s, x)[Len(s) + 1] = x
      BY <2>1
    <2>3. \A i \in 1..Len(s) : Apart(n, s[i], x) BY <2>1, Zenon DEF Clear, Range
    <2> QED BY <2>1, <2>2, <2>3 DEF Sorted
  <1>SpreadExcept. ASSUME NEW n, NEW f, f = [d \in DOMAIN f |-> f[d]], NEW d \in DOMAIN f, NEW x, Spread(n, f),
                          \A e \in DOMAIN f \ {d} : Apart(n, f[e], x) /\ Apart(n, x, f[e])
                   PROVE  Spread(n, [f EXCEPT ![d] = x])
    BY <1>SpreadExcept, Zenon DEF Spread
  \* A writer gives its batch back or away.
  <1>LinedWriter. ASSUME NEW n, NEW w, NEW b, NEW x, NEW t, NEW s, Lined(n, w, b, x, t, s),
                         Function(w), NEW k \in DOMAIN w, NEW e, Blank(e)
                  PROVE  Lined(n, [w EXCEPT ![k] = e], b, x, t, s)
    <2> USE <1>LinedWriter
    <2> DEFINE w1 == [w EXCEPT ![k] = e]
    <2>1. \A c : Apart(n, e, c) /\ Apart(n, c, e) BY ApartOther, Zenon DEF Blank
    <2>2. Range(w1) \subseteq Range(w) \cup {e} BY RangeExcept, Zenon DEF Function
    <2>3. Spread(n, w1) BY <2>1, <1>SpreadExcept, Zenon DEF Function, Lined
    <2> HIDE DEF w1
    <2> QED BY <2>1, <2>2, <2>3, Zenon DEF Lined, Clear, w1
  <1>LinedTransformer. ASSUME NEW n, NEW w, NEW b, NEW x, NEW t, NEW s, Lined(n, w, b, x, t, s),
                              Function(x), NEW k \in DOMAIN x, NEW e, Blank(e)
                       PROVE  Lined(n, w, b, [x EXCEPT ![k] = e], t, s)
    <2> USE <1>LinedTransformer
    <2> DEFINE x1 == [x EXCEPT ![k] = e]
    <2>1. \A c : Apart(n, e, c) /\ Apart(n, c, e) BY ApartOther, Zenon DEF Blank
    <2>2. Range(x1) \subseteq Range(x) \cup {e} BY RangeExcept, Zenon DEF Function
    <2>3. Spread(n, x1) BY <2>1, <1>SpreadExcept, Zenon DEF Function, Lined
    <2> HIDE DEF x1
    <2> QED BY <2>1, <2>2, <2>3, Zenon DEF Lined, Clear, x1
  \* The head of a channel is dropped.
  <1>LinedDrop. ASSUME NEW n, NEW w, NEW b, NEW x, NEW t, NEW s, Lined(n, w, b, x, t, s), NEW S
                PROVE  /\ b \in Seq(S) /\ b # <<>> => Lined(n, w, Tail(b), x, t, s)
                       /\ t \in Seq(S) /\ t # <<>> => Lined(n, w, b, x, Tail(t), s)
    <2> USE <1>LinedDrop
    <2>1. ASSUME b \in Seq(S), b # <<>> PROVE Lined(n, w, Tail(b), x, t, s)
      <3>1. Range(Tail(b)) \subseteq Range(b) BY <2>1, RangeTail, Zenon
      <3>2. Sorted(n, Tail(b)) BY <2>1, SortedTail, Zenon DEF Lined
      <3> QED BY <3>1, <3>2, Zenon DEF Lined, Clear
    <2>2. ASSUME t \in Seq(S), t # <<>> PROVE Lined(n, w, b, x, Tail(t), s)
      <3>1. Range(Tail(t)) \subseteq Range(t) BY <2>2, RangeTail, Zenon
      <3>2. Sorted(n, Tail(t)) BY <2>2, SortedTail, Zenon DEF Lined
      <3> QED BY <3>1, <3>2, Zenon DEF Lined, Clear
    <2> QED BY <2>1, <2>2, Zenon
  \* A writer takes the head of its channel.
  <1>LinedTakeBatch. ASSUME NEW n, NEW w, NEW b, NEW x, NEW t, NEW s, Lined(n, w, b, x, t, s),
                            Function(w), NEW k \in DOMAIN w, n > 1 \/ DOMAIN w = {k}, NEW S, b \in Seq(S), b # <<>>
                     PROVE  Lined(n, [w EXCEPT ![k] = Head(b)], Tail(b), x, t, s)
    <2> USE <1>LinedTakeBatch
    <2> DEFINE w1 == [w EXCEPT ![k] = Head(b)]
               h == Head(b)
               b1 == Tail(b)
    <2>1. h \in Range(b) /\ Range(b1) \subseteq Range(b) BY RangeTail, Zenon
    <2>2. Sorted(n, b1) /\ Clear(n, {h}, Range(b1)) BY SortedTail, Zenon DEF Lined
    <2>3. Range(w1) \subseteq Range(w) \cup {h} /\ \A e \in DOMAIN w : w[e] \in Range(w)
      BY RangeExcept DEF Function, Range
    <2>4. \A e \in DOMAIN w \ {k} : Apart(n, w[e], h) /\ Apart(n, h, w[e])
      <3>1. \A e \in DOMAIN w : Apart(n, w[e], h) BY <2>1, <2>3, Zenon DEF Lined, Clear
      <3> QED BY <3>1, <1>ApartSwaps, Zenon
    <2>5. Spread(n, w1)
      <3> HIDE DEF h
      <3> QED BY <2>4, <1>SpreadExcept, Zenon DEF Function, Lined, h
    <2> HIDE DEF w1, h, b1
    <2>6. Lined(n, w1, b1, x, t, s) BY <2>1, <2>2, <2>3, <2>5, Zenon DEF Lined, Clear
    <2> QED BY <2>6, Zenon DEF w1, b1, h
  <1>LinedTakeTransform. ASSUME NEW n, NEW w, NEW b, NEW x, NEW t, NEW s, Lined(n, w, b, x, t, s),
                                Function(x), NEW k \in DOMAIN x, n > 1 \/ DOMAIN x = {k}, NEW S, t \in Seq(S), t # <<>>
                         PROVE  Lined(n, w, b, [x EXCEPT ![k] = Head(t)], Tail(t), s)
    <2> USE <1>LinedTakeTransform
    <2> DEFINE x1 == [x EXCEPT ![k] = Head(t)]
               h == Head(t)
               t1 == Tail(t)
    <2>1. h \in Range(t) /\ Range(t1) \subseteq Range(t) BY RangeTail, Zenon
    <2>2. Sorted(n, t1) /\ Clear(n, {h}, Range(t1)) BY SortedTail, Zenon DEF Lined
    <2>3. Range(x1) \subseteq Range(x) \cup {h} /\ \A e \in DOMAIN x : x[e] \in Range(x)
      BY RangeExcept DEF Function, Range
    <2>4. \A e \in DOMAIN x \ {k} : Apart(n, x[e], h) /\ Apart(n, h, x[e])
      <3>1. \A e \in DOMAIN x : Apart(n, x[e], h) BY <2>1, <2>3, Zenon DEF Lined, Clear
      <3> QED BY <3>1, <1>ApartSwaps, Zenon
    <2>5. Spread(n, x1)
      <3> HIDE DEF h
      <3> QED BY <2>4, <1>SpreadExcept, Zenon DEF Function, Lined, h
    <2> HIDE DEF x1, h, t1
    <2>6. Lined(n, w, b, x1, t1, s) BY <2>1, <2>2, <2>3, <2>5, Zenon DEF Lined, Clear
    <2> QED BY <2>6, Zenon DEF x1, t1, h
  \* A batch behind those ahead of it is queued.
  <1>LinedQueue. ASSUME NEW n, NEW w, NEW b, NEW x, NEW t, NEW s, Lined(n, w, b, x, t, s), NEW S, b \in Seq(S), t \in Seq(S), NEW e
                 PROVE  /\ Clear(n, Range(w) \cup Range(b), {e}) /\ Clear(n, {e}, Range(x) \cup Range(t) \cup s)
                             => Lined(n, w, Append(b, e), x, t, s)
                        /\ Clear(n, Range(w) \cup Range(b) \cup Range(x) \cup Range(t), {e}) /\ Clear(n, {e}, s)
                             => Lined(n, w, b, x, Append(t, e), s)
    <2> USE <1>LinedQueue
    <2>1. ASSUME Clear(n, Range(w) \cup Range(b), {e}), Clear(n, {e}, Range(x) \cup Range(t) \cup s)
          PROVE  Lined(n, w, Append(b, e), x, t, s)
      <3>1. Range(Append(b, e)) = Range(b) \cup {e} BY RangeAppend, Zenon
      <3>2. Clear(n, Range(b), {e}) BY <2>1, Zenon DEF Clear
      <3>3. Sorted(n, Append(b, e)) BY <3>2, <1>SortedAppend, Zenon DEF Lined
      <3> QED BY <2>1, <3>1, <3>3, Zenon DEF Lined, Clear
    <2>2. ASSUME Clear(n, Range(w) \cup Range(b) \cup Range(x) \cup Range(t), {e}), Clear(n, {e}, s)
          PROVE  Lined(n, w, b, x, Append(t, e), s)
      <3>1. Range(Append(t, e)) = Range(t) \cup {e} BY RangeAppend, Zenon
      <3>2. Clear(n, Range(t), {e}) BY <2>2, Zenon DEF Clear
      <3>3. Sorted(n, Append(t, e)) BY <3>2, <1>SortedAppend, Zenon DEF Lined
      <3> QED BY <2>2, <3>1, <3>3, Zenon DEF Lined, Clear
    <2> QED BY <2>1, <2>2, Zenon
  \* A transformer hands its batch to the writers.
  <1>LinedForward. ASSUME NEW n, NEW w, NEW b, NEW x, NEW t, NEW s, Lined(n, w, b, x, t, s),
                          Function(x), NEW k \in DOMAIN x, NEW e, Blank(e), NEW S, b \in Seq(S), t \in Seq(S)
                   PROVE  Lined(n, w, Append(b, x[k]), [x EXCEPT ![k] = e], t, s)
    <2> USE <1>LinedForward
    <2> DEFINE x1 == [x EXCEPT ![k] = e]
    <2>1. Lined(n, w, b, x1, t, s) BY <1>LinedTransformer, Zenon
    <2>2. \A c : Apart(n, c, e) BY ApartOther, Zenon DEF Blank
    <2>3. x[k] \in Range(x) BY Zenon DEF Range
    <2>8. \A c \in Range(x1) : c = e \/ \E d \in DOMAIN x \ {k} : c = x[d]
      BY Zenon DEF Range, Function
    <2>4. \A c \in Range(x1) : Apart(n, x[k], c)
      <3> HIDE DEF x1
      <3> QED BY <2>2, <2>8, Zenon DEF Lined, Spread
    <2>5. Clear(n, {x[k]}, Range(x1) \cup Range(t) \cup s)
      <3> HIDE DEF x1
      <3> QED BY <2>3, <2>4, Zenon DEF Lined, Clear
    <2>6. Clear(n, Range(w) \cup Range(b), {x[k]})
      BY <2>3, Zenon DEF Lined, Clear
    <2> HIDE DEF x1
    <2>7. Lined(n, w, Append(b, x[k]), x1, t, s) BY <2>1, <2>5, <2>6, <1>LinedQueue, Zenon
    <2> QED BY <2>7, Zenon DEF x1
  <1>LinedSource. ASSUME NEW n, NEW w, NEW b, NEW x, NEW t, NEW s, Lined(n, w, b, x, t, s), NEW s1,
                         Clear(n, Range(w) \cup Range(b) \cup Range(x) \cup Range(t), s1 \ s)
                  PROVE  Lined(n, w, b, x, t, s1)
    BY <1>LinedSource, Zenon DEF Lined, Clear
  \* A new batch lies behind everything of its part.
  <1>NewApart. ASSUME TypeOK, ItemInv, NEW p \in Parts, NEW b, Makes(p, b), NEW n
               PROVE  Clear(n, Aboard \cup SourceItems, {b})
    <2> USE <1>NewApart
    <2> SUFFICES ASSUME NEW c \in Aboard \cup SourceItems, ~Blank(c), ~Blank(b), c.part = b.part
                 PROVE  c.hi <= Start(b)
      BY Zenon DEF Clear, Apart, Blank
    <2>1. c \in InFlight /\ c \in Batches BY FlightType, Zenon DEF InFlight
    <2>2. b.part = p /\ c.hi \in Nat BY <2>1, BatchFacts, Zenon DEF Makes
    <2>3. c.hi <= bld[p].total - bld[p].open BY <2>1, <2>2, Zenon DEF ItemInv, Sound
    <2>4. bld[p].total \in Nat /\ bld[p].open \in Nat /\ bld[p].open <= bld[p].total BY BuilderFacts, Zenon
    <2>5. CASE b.kind = "rows" BY <2>3, <2>5, Zenon DEF Makes, Start
    <2>6. CASE b.kind = "marker"
      <3>1. b.hi = bld[p].total BY <2>6, Zenon DEF Makes
      <3> QED BY <2>2, <2>3, <2>4, <2>6, <3>1 DEF Start
    <2> QED BY <2>5, <2>6, Zenon DEF Makes
  \* A batch in flight lies before the marker of its part.
  <1>MarkerApart. ASSUME TypeOK, ItemInv, NEW p \in Parts, NEW b \in InFlight, NEW n
                  PROVE  Apart(n, b, Marker(p))
    <2> USE <1>MarkerApart
    <2> SUFFICES ASSUME b.part = p PROVE b.hi <= bld[p].total
      BY Zenon DEF Apart, Marker, Batch, Start
    <2>1. b \in Batches BY FlightType, Zenon
    <2>2. b.hi <= bld[p].total - bld[p].open /\ b.hi \in Nat BY <2>1, BatchFacts, Zenon DEF ItemInv, Sound
    <2> QED BY <2>2, BuilderFacts
  <1> SUFFICES ASSUME TypeOK, SourceInv, RouteInv, ItemInv, ApartInv, [Next]_vars PROVE ApartInv' BY Zenon
  <1> DEFINE n == setup.workers
             B == ch["batch"]
             T == ch["transform"]
             L(w, b, x, t, s) == Lined(n, w, b, x, t, s)
  <1>1. setup' = setup BY StateMoves, Zenon
  <1>2. /\ Function(wr) /\ Function(xf) /\ DOMAIN wr = Workers /\ DOMAIN xf = Workers
        /\ ch \in [Channels -> Seq(Items)] /\ B \in Seq(Items) /\ T \in Seq(Items)
        /\ "batch" \in Channels /\ "transform" \in Channels
    BY Zenon DEF Function, TypeOK, PoolType, Channels
  <1>3. \A w \in Workers : n > 1 \/ Workers = {w}
    BY SetupFacts DEF TypeOK, Workers
  <1>4. Blank(Empty) /\ Blank(Gone) /\ Blank(Control) BY FlightType, Zenon
  <1>5. L(wr, B, xf, T, SourceItems) BY Zenon DEF ApartInv
  <1>6. ASSUME NEW p \in Parts, BuilderStep(p) PROVE ApartInv'
    <2>1. UNCHANGED <<ch, xf, wr>> BY <1>6, BuilderOthers, Zenon DEF poolVars
    <2>2. Fills(p) \/ \E b : Makes(p, b)
      BY <1>6, FlowRow, FlowChunk, Zenon DEF BuilderStep
    <2>3. ASSUME NEW b, Makes(p, b) PROVE Clear(n, Aboard, SourceItems' \ SourceItems)
      BY <2>3, <1>NewApart, Zenon DEF Clear, Makes
    <2>4. CASE Fills(p)
      <3>1. SourceItems' = SourceItems BY <2>4, Zenon DEF Fills, SourceItems
      <3> QED BY <1>1, <1>5, <2>1, <3>1, Zenon DEF ApartInv
    <2>5. CASE \E b : Makes(p, b)
      <3>1. L(wr, B, xf, T, SourceItems') BY <1>5, <2>3, <2>5, <1>LinedSource, Zenon DEF Aboard
      <3> QED BY <1>1, <2>1, <3>1, Zenon DEF ApartInv
    <2> QED BY <2>2, <2>4, <2>5, Zenon
  <1>7. ASSUME NEW p \in Parts, Send(p) PROVE ApartInv'
    <2> DEFINE e == src[p].item
    <2>1. /\ UNCHANGED <<xf, wr>> /\ e # Empty /\ Put(Route(p), e)
          /\ src' = [src EXCEPT ![p] = AfterSend(p)]
      BY <1>7, Zenon DEF Send
    <2>2. e \in SourceItems /\ e \in InFlight /\ e.part = p
      BY <2>1, FlightType DEF SourceItems, InFlight, SourceInv, SourceOK
    <2>3. /\ src'[p] = AfterSend(p) /\ \A q \in Parts \ {p} : src'[q] = src[q]
      BY <2>1, Zenon DEF TypeOK, SourceType
    <2>4. AfterSend(p).item \in {Empty, Marker(p)} BY Zenon DEF AfterSend
    <2>5. SourceItems' \subseteq SourceItems \cup {Empty, Marker(p)}
      BY <2>3, <2>4, Zenon DEF SourceItems
    <2>6. \A c : Apart(n, c, Empty) BY <1>4, ApartOther, Zenon DEF Blank
    <2>7. \A c \in Aboard : Apart(n, c, Marker(p))
      BY <1>MarkerApart, ApartOther, Zenon DEF InFlight, Blank
    <2>8. L(wr, B, xf, T, SourceItems')
      <3>1. Clear(n, Aboard, SourceItems' \ SourceItems) BY <2>5, <2>6, <2>7, Zenon DEF Clear
      <3> QED BY <1>5, <3>1, <1>LinedSource, Zenon DEF Aboard
    <2>9. Clear(n, {e}, SourceItems')
      <3>1. ASSUME NEW q \in Parts PROVE Apart(n, e, src'[q].item)
        <4>1. CASE q = p BY <2>2, <2>3, <2>4, <2>6, <4>1, <1>MarkerApart, Zenon
        <4>2. CASE q # p
          <5>1. src[q].item = Empty \/ src[q].item.part = q BY Zenon DEF SourceInv, SourceOK
          <5> QED BY <2>2, <2>3, <2>6, <4>2, <5>1, ApartOther, Zenon
        <4> QED BY <4>1, <4>2, Zenon
      <3> QED BY <3>1, Zenon DEF Clear, SourceItems
    <2>10. Clear(n, Aboard, {e}) BY <1>5, <2>2, Zenon DEF Lined, Clear, Aboard
    <2> HIDE DEF e
    <2>11. CASE Route(p) = "transform"
      <3>1. ch'["transform"] = Append(T, e) /\ ch'["batch"] = B BY <1>2, <2>1, <2>11, Zenon DEF Put
      <3>2. L(wr, B, xf, Append(T, e), SourceItems')
        BY <1>2, <2>8, <2>9, <2>10, <1>LinedQueue, Zenon DEF Aboard
      <3> QED BY <1>1, <2>1, <3>1, <3>2, Zenon DEF ApartInv
    <2>12. CASE Route(p) = "batch"
      <3>1. ch'["batch"] = Append(B, e) /\ ch'["transform"] = T BY <1>2, <2>1, <2>12, Zenon DEF Put
      <3>2. p \notin setup.planned BY <2>12, Zenon DEF Route
      <3>3. \A c \in Range(T) : Apart(n, e, c)
        BY <2>2, <3>2, ApartOther, Zenon DEF RouteInv, Planned
      <3>4. \A c \in Range(xf) : Apart(n, e, c)
        <4>1. \A c \in Range(xf) : Planned(c) \/ Blank(c)
          BY <1>2, <1>4, Zenon DEF RouteInv, Range, TypeOK, PoolType
        <4> QED BY <2>2, <3>2, <4>1, ApartOther, Zenon DEF Planned, Blank
      <3>5. Clear(n, {e}, Range(xf) \cup Range(T) \cup SourceItems') BY <2>9, <3>3, <3>4, Zenon DEF Clear
      <3>6. Clear(n, Range(wr) \cup Range(B), {e}) BY <2>10, Zenon DEF Clear, Aboard
      <3>7. L(wr, Append(B, e), xf, T, SourceItems')
        BY <1>2, <2>8, <3>5, <3>6, <1>LinedQueue, Zenon
      <3> QED BY <1>1, <2>1, <3>1, <3>7, Zenon DEF ApartInv
    <2> QED BY <2>11, <2>12, Zenon DEF Route
  <1>8. ASSUME UNCHANGED <<ch, xf, wr>>, SourceItems' \subseteq SourceItems \cup {Empty} PROVE ApartInv'
    <2>1. Clear(n, Aboard, SourceItems' \ SourceItems) BY <1>4, <1>8, ApartOther, Zenon DEF Clear, Blank
    <2>2. L(wr, B, xf, T, SourceItems') BY <1>5, <2>1, <1>LinedSource, Zenon DEF Aboard
    <2> QED BY <1>1, <1>8, <2>2, Zenon DEF ApartInv
  <1>9. ASSUME UNCHANGED <<ch, xf, wr>>, ~\E p \in Parts : BuilderStep(p) PROVE ApartInv'
    <2>1. src' = src \/ \E p \in Parts : SourceEnds(p) \/ SendRefused(p) \/ Send(p)
      <3>1. CASE Tick \/ CloseIngest \/ CloseChannel \/ Wait
        BY <3>1, Zenon DEF Tick, CloseIngest, CloseChannel, Wait
      <3> QED BY <1>9, <3>1, SourceStill, Zenon DEF Source, BuilderStep
    <2>2. ASSUME NEW p \in Parts, SourceEnds(p) \/ SendRefused(p) PROVE SourceItems' \subseteq SourceItems \cup {Empty}
      <3>1. PICK pc : src' = [src EXCEPT ![p] = [pc |-> pc, item |-> Empty]] BY <2>2, Zenon DEF SourceEnds, SendRefused, Hand
      <3>2. \A q \in Parts : src'[q].item = src[q].item \/ src'[q].item = Empty
        BY <3>1, Zenon DEF TypeOK, SourceType
      <3> QED BY <3>2, Zenon DEF SourceItems
    <2> QED BY <1>7, <1>8, <1>9, <2>1, <2>2, Zenon DEF SourceItems
  <1>10. CASE BarrierQueue
    <2>1. UNCHANGED <<xf, wr, src>> /\ \E c \in Channels : Put(c, Control)
      BY <1>10, Zenon DEF BarrierQueue, sourceVars, Channels
    <2>2. \A c : Apart(n, c, Control) /\ Apart(n, Control, c) BY <1>4, ApartOther, Zenon DEF Blank
    <2>3. L(wr, Append(B, Control), xf, T, SourceItems) /\ L(wr, B, xf, Append(T, Control), SourceItems)
      BY <1>2, <1>5, <2>2, <1>LinedQueue DEF Clear
    <2>4. \/ ch'["batch"] = Append(B, Control) /\ ch'["transform"] = T
          \/ ch'["batch"] = B /\ ch'["transform"] = Append(T, Control)
      BY <1>2, <2>1, Zenon DEF Put, Channels
    <2>5. SourceItems' = SourceItems BY <2>1, Zenon DEF SourceItems
    <2> QED BY <1>1, <2>1, <2>3, <2>4, <2>5, Zenon DEF ApartInv
  <1>11. ASSUME NEW w \in Workers, TakeTransform(w) PROVE ApartInv'
    <2>1. /\ UNCHANGED <<wr, src>> /\ T # <<>> /\ ch'["transform"] = Tail(T) /\ ch'["batch"] = B
          /\ xf' = [xf EXCEPT ![w] = Empty] \/ xf' = [xf EXCEPT ![w] = Head(T)]
      BY <1>2, <1>11, Zenon DEF TakeTransform, sourceVars
    <2>2. L(wr, B, [xf EXCEPT ![w] = Empty], Tail(T), SourceItems)
      BY <1>2, <1>4, <1>5, <2>1, <1>LinedTransformer, <1>LinedDrop, Zenon
    <2>3. L(wr, B, [xf EXCEPT ![w] = Head(T)], Tail(T), SourceItems)
      BY <1>2, <1>3, <1>5, <2>1, <1>LinedTakeTransform, Zenon
    <2>5. SourceItems' = SourceItems BY <2>1, Zenon DEF SourceItems
    <2> QED BY <1>1, <2>1, <2>2, <2>3, <2>5, Zenon DEF ApartInv
  <1>12. ASSUME NEW w \in Workers, Forward(w) PROVE ApartInv'
    <2>1. /\ UNCHANGED <<wr, src>> /\ ch'["transform"] = T /\ ch'["batch"] = Append(B, xf[w])
          /\ xf' = [xf EXCEPT ![w] = Empty]
      BY <1>2, <1>12, Zenon DEF Forward, sourceVars, Put
    <2>2. L(wr, Append(B, xf[w]), [xf EXCEPT ![w] = Empty], T, SourceItems)
      BY <1>2, <1>4, <1>5, <1>LinedForward, Zenon
    <2>5. SourceItems' = SourceItems BY <2>1, Zenon DEF SourceItems
    <2> QED BY <1>1, <2>1, <2>2, <2>5, Zenon DEF ApartInv
  <1>13. ASSUME NEW w \in Workers, TransformFails(w) \/ ForwardRefused(w) \/ ExitTransformer(w) PROVE ApartInv'
    <2>1. /\ UNCHANGED <<ch, wr, src>>
          /\ xf' = [xf EXCEPT ![w] = Empty] \/ xf' = [xf EXCEPT ![w] = Gone]
      BY <1>13, Zenon DEF TransformFails, ForwardRefused, ExitTransformer, sourceVars
    <2>2. L(wr, B, [xf EXCEPT ![w] = Empty], T, SourceItems) /\ L(wr, B, [xf EXCEPT ![w] = Gone], T, SourceItems)
      BY <1>2, <1>4, <1>5, <1>LinedTransformer, Zenon
    <2>5. SourceItems' = SourceItems BY <2>1, Zenon DEF SourceItems
    <2> QED BY <1>1, <2>1, <2>2, <2>5, Zenon DEF ApartInv
  <1>14. ASSUME NEW w \in Workers, TakeBatch(w) PROVE ApartInv'
    <2>1. /\ UNCHANGED <<xf, src>> /\ B # <<>> /\ ch' = [ch EXCEPT !["batch"] = Tail(@)]
          /\ wr' = [wr EXCEPT ![w] = Empty] \/ wr' = [wr EXCEPT ![w] = Head(B)]
      BY <1>14, Zenon DEF TakeBatch, sourceVars
    <2>2. ch'["batch"] = Tail(B) /\ ch'["transform"] = T BY <1>2, <2>1, Zenon
    <2>3. L([wr EXCEPT ![w] = Empty], Tail(B), xf, T, SourceItems)
      BY <1>2, <1>4, <1>5, <2>1, <1>LinedWriter, <1>LinedDrop, Zenon
    <2>4. L([wr EXCEPT ![w] = Head(B)], Tail(B), xf, T, SourceItems)
      BY <1>2, <1>3, <1>5, <2>1, <1>LinedTakeBatch, Zenon
    <2>5. SourceItems' = SourceItems BY <2>1, Zenon DEF SourceItems
    <2> QED BY <1>1, <2>1, <2>2, <2>3, <2>4, <2>5, Zenon DEF ApartInv
  <1>15. ASSUME NEW w \in Workers, Write(w) \/ WriteFails(w) \/ ExitWriter(w) PROVE ApartInv'
    <2>1. /\ UNCHANGED <<ch, xf, src>>
          /\ wr' = [wr EXCEPT ![w] = Empty] \/ wr' = [wr EXCEPT ![w] = Gone]
      BY <1>15, Zenon DEF Write, WriteFails, ExitWriter, sourceVars
    <2>2. L([wr EXCEPT ![w] = Empty], B, xf, T, SourceItems) /\ L([wr EXCEPT ![w] = Gone], B, xf, T, SourceItems)
      BY <1>2, <1>4, <1>5, <1>LinedWriter, Zenon
    <2>5. SourceItems' = SourceItems BY <2>1, Zenon DEF SourceItems
    <2> QED BY <1>1, <2>1, <2>2, <2>5, Zenon DEF ApartInv
  <1> QED BY <1>6, <1>7, <1>9, <1>10, <1>11, <1>12, <1>13, <1>14, <1>15, PoolStill, Zenon

-----------------------------------------------------------------------------
\* Batches of a part may be written in any order.
Many == setup.workers > 1

\* Row r of p is written or in flight.
Held(p, r) ==
  \/ r \in written[p]
  \/ \E b \in InFlight : b.kind = "rows" /\ b.part = p /\ r \in Rows(b)

\* Without an error nothing was lost of what a part handed out; in the order of one
\* writer, nothing that goes before a batch in flight.
CoverInv ==
  ~err =>
    \A p \in Parts \ dropped :
      /\ src[p].pc # "failed" => \A r \in 1..(bld[p].total - bld[p].open) : Held(p, r)
      /\ ~Many => \A b \in InFlight : b.part = p => \A r \in 1..b.hi : Held(p, r)

\* At the start no row was read.
LEMMA CoverInit == Init => CoverInv
  <1> SUFFICES ASSUME Init PROVE CoverInv BY Zenon
  <1>1. \A p \in Parts : bld[p].total - bld[p].open = 0 BY DEF Init
  <1>2. \A b \in InFlight : b.hi = 0
    <2>1. ItemInv /\ TypeOK BY ItemInit, TypeInit, Zenon
    <2>2. ASSUME NEW b \in InFlight PROVE b.hi = 0
      <3>1. b \in Batches /\ Sound(b) BY <2>1, FlightType, Zenon DEF ItemInv
      <3> QED BY <1>1, <3>1, BatchFacts DEF Sound
    <2> QED BY <2>2, Zenon
  <1> QED BY <1>1, <1>2 DEF CoverInv

\* A batch that is lost takes an error with it, or a transformer that gave it up; one
\* that is written leaves its rows in the sink.
LEMMA CoverStep ==
  TypeOK /\ SourceInv /\ DrainInv /\ ApartInv /\ CoverInv /\ [Next]_vars => CoverInv'
  \* Rows stay held when no batch with rows of the part is lost.
  <1>HeldKept. ASSUME written' = written, NEW p, NEW r, Held(p, r), NEW b,
                      InFlight \subseteq InFlight' \cup {b}, b.kind = "rows" /\ b.part = p => r \notin Rows(b)
               PROVE  Held(p, r)'
    <2> USE <1>HeldKept
    <2>1. CASE r \in written[p] BY <2>1, Zenon DEF Held
    <2>2. CASE r \notin written[p]
      <3>1. PICK c \in InFlight : c.kind = "rows" /\ c.part = p /\ r \in Rows(c) BY <2>2, Zenon DEF Held
      <3>2. c \in InFlight' BY <3>1, Zenon
      <3> QED BY <3>1, <3>2, Zenon DEF Held, Rows
    <2> QED BY <2>1, <2>2, Zenon
  \* The part of a dropped row, or of a source that fails, is excused.
  <1>CoverLoses. ASSUME TypeOK, SourceInv, DrainInv, ApartInv, CoverInv, [Next]_vars,
                        NEW b, Loses(b), Excused(b), bld' = bld, UNCHANGED sinkVars
                 PROVE  CoverInv'
    <2> USE <1>CoverLoses
    <2> SUFFICES ASSUME ~err', NEW p \in Parts, p \notin dropped', (~Many)' => ~Many
                 PROVE  /\ src'[p].pc # "failed" => \A r \in 1..(bld'[p].total - bld'[p].open) : Held(p, r)'
                        /\ ~Many => \A c \in InFlight' : c.part = p => \A r \in 1..c.hi : Held(p, r)'
      BY StateMoves, Zenon DEF CoverInv, Many
    <2>1. ~err /\ p \notin dropped /\ written' = written
      <3>1. dropped \subseteq dropped'
        BY PoolStill, Zenon DEF Send, BarrierQueue, TakeTransform, TransformFails, Forward, ForwardRefused, ExitTransformer,
             TakeBatch, Write, WriteFails, ExitWriter, historyVars
      <3> QED BY <3>1, StateMoves, Zenon DEF sinkVars
    <2>2. src'[p].pc # "failed" => src[p].pc # "failed" BY PhaseMoves, Zenon
    <2>3. CASE b.kind = "rows" => b.part # p
      <3>1. \A r : Held(p, r) => Held(p, r)' BY <2>1, <2>3, <1>HeldKept, Zenon DEF Loses
      <3> QED BY <2>1, <2>2, <3>1, Zenon DEF CoverInv, Loses
    <2>4. CASE b.kind = "rows" /\ b.part = p
      <3>1. PICK q \in Parts : SendRefused(q) /\ ~Stream /\ b = src[q].item BY <2>4, Zenon DEF Excused
      <3>2. q = p /\ b \in SourceItems BY <2>4, <3>1, Zenon DEF SendRefused, SourceInv, SourceOK, SourceItems
      <3>3. src' = [src EXCEPT ![p] = [pc |-> "failed", item |-> Empty]] /\ UNCHANGED poolVars
        BY <3>1, <3>2, Zenon DEF SendRefused, Hand
      <3>4. src'[p] = [pc |-> "failed", item |-> Empty] /\ \A s \in Parts \ {p} : src'[s] = src[s]
        BY <3>3, Zenon DEF TypeOK, SourceType
      <3>5. ASSUME NEW c \in InFlight', c.part = p, NEW r \in 1..c.hi, ~Many PROVE Held(p, r)'
        <4>1. c \in InFlight /\ c \in Batches BY <3>5, FlightType, Zenon DEF Loses
        <4>2. c \in Aboard
          <5>1. c \notin SourceItems'
            <6> SUFFICES ASSUME NEW s \in Parts, c = src'[s].item PROVE FALSE BY Zenon DEF SourceItems
            <6>1. c # Empty BY <4>1, FlightType, Zenon
            <6>2. s # p /\ src[s].item = c BY <3>4, <6>1
            <6> QED BY <3>5, <6>1, <6>2, Zenon DEF SourceInv, SourceOK
          <5>2. Aboard' = Aboard BY <3>3, Zenon DEF poolVars, Aboard
          <5> QED BY <3>5, <5>1, <5>2, Zenon DEF InFlight
        <4>3. Apart(setup.workers, c, b) BY <3>2, <4>2, Zenon DEF ApartInv, Lined, Clear, Aboard
        <4>4. b \in Batches BY <3>1, <3>2, Zenon DEF SendRefused, TypeOK, SourceType
        <4>5. c.hi <= b.lo
          BY <2>4, <3>5, <4>1, <4>3, <4>4, BatchFacts, Zenon DEF Apart, Start, Many
        <4>6. r \notin Rows(b) BY <4>1, <4>4, <4>5, BatchFacts DEF Rows
        <4>7. Held(p, r) BY <2>1, <3>5, <4>1, Zenon DEF CoverInv
        <4> QED BY <2>1, <4>6, <4>7, <1>HeldKept, Zenon DEF Loses
      <3> QED BY <3>4, <3>5
    <2> QED BY <2>3, <2>4, Zenon
  <1>CoverGrows. ASSUME TypeOK, SourceInv, DrainInv, CoverInv, [Next]_vars, NEW q \in Parts, Fills(q) \/ \E b : Makes(q, b),
                        written' = written, err' = err, dropped' = dropped, \A p \in Parts \ {q} : bld'[p] = bld[p]
                 PROVE  CoverInv'
    <2> USE <1>CoverGrows
    <2> SUFFICES ASSUME ~err', NEW p \in Parts, p \notin dropped', (~Many)' => ~Many
                 PROVE  /\ src'[p].pc # "failed" => \A r \in 1..(bld'[p].total - bld'[p].open) : Held(p, r)'
                        /\ ~Many => \A c \in InFlight' : c.part = p => \A r \in 1..c.hi : Held(p, r)'
      BY StateMoves, Zenon DEF CoverInv, Many
    <2>1. src'[p].pc # "failed" => src[p].pc # "failed" BY PhaseMoves, Zenon
    <2>2. InFlight \subseteq InFlight' BY Zenon DEF Fills, Makes
    <2>3. \A r : Held(p, r) => Held(p, r)' BY <2>2, Zenon DEF Held, Rows
    <2>4. bld[q].total \in Nat /\ bld[q].open \in Nat /\ bld[q].open <= bld[q].total BY BuilderFacts, Zenon
    <2>5. CASE Fills(q)
      <3>1. bld'[p].total - bld'[p].open = bld[p].total - bld[p].open BY <2>4, <2>5 DEF Fills
      <3> QED BY <2>1, <2>3, <2>5, <3>1, Zenon DEF CoverInv, Fills
    <2>6. ASSUME NEW b, Makes(q, b)
          PROVE  /\ src'[p].pc # "failed" => \A r \in 1..(bld'[p].total - bld'[p].open) : Held(p, r)'
                 /\ ~Many => \A c \in InFlight' : c.part = p => \A r \in 1..c.hi : Held(p, r)'
      <3>1. CASE p # q
        <4>1. bld'[p] = bld[p] BY <3>1, Zenon
        <4>2. \A c \in InFlight' : c.part = p => c \in InFlight BY <2>6, <3>1, Zenon DEF Makes
        <4> QED BY <2>1, <2>3, <4>1, <4>2, Zenon DEF CoverInv
      <3>2. CASE p = q
        <4>1. b \in Batches /\ b \in InFlight' /\ b.part = p /\ b.hi = bld'[p].total /\ bld'[p].open = 0 /\ src'[p].pc # "failed"
          BY <2>6, <3>2, Zenon DEF Makes
        <4>2. \A r \in 1..(bld[p].total - bld[p].open) : Held(p, r)' BY <2>1, <2>3, <4>1, Zenon DEF CoverInv
        <4>3. ASSUME NEW r \in 1..b.hi PROVE Held(p, r)'
          <5>1. CASE b.kind = "rows"
            <6>1. b.lo = bld[p].total - bld[p].open BY <2>6, <3>2, <5>1, Zenon DEF Makes
            <6>2. CASE r <= b.lo BY <4>2, <6>1, <6>2
            <6>3. CASE ~(r <= b.lo)
              <7>1. r \in Rows(b) BY <4>1, <6>3, BatchFacts DEF Rows
              <7> QED BY <4>1, <5>1, <7>1, Zenon DEF Held, Rows
            <6> QED BY <6>2, <6>3, Zenon
          <5>2. CASE b.kind = "marker"
            <6>1. bld[p].open = 0 /\ b.hi = bld[p].total BY <2>6, <3>2, <5>2, Zenon DEF Makes
            <6> QED BY <2>4, <3>2, <4>2, <6>1
          <5> QED BY <2>6, <5>1, <5>2, Zenon DEF Makes
        <4>4. bld'[p].total - bld'[p].open = b.hi BY <4>1, BatchFacts
        <4>5. \A c \in InFlight' : c = b \/ c \in InFlight BY <2>6, Zenon DEF Makes
        <4> QED BY <2>3, <4>3, <4>4, <4>5, Zenon DEF CoverInv
      <3> QED BY <3>1, <3>2, Zenon
    <2> QED BY <2>5, <2>6, Zenon
  <1>CoverWrites. ASSUME TypeOK, CoverInv, NEW w \in Workers, Write(w), Loses(wr[w])
                  PROVE  CoverInv'
    <2> USE <1>CoverWrites
    <2>1. UNCHANGED <<setup, err, dropped, src, bld>> BY Zenon DEF Write, stateVars, sourceVars
    <2>2. ASSUME NEW p \in Parts, NEW r, Held(p, r) PROVE Held(p, r)'
      <3> DEFINE b == wr[w]
      <3>1. b \in Batches /\ b.part \in Parts BY BatchFacts, Zenon DEF Write
      <3>2. written' = IF b.kind = "rows" THEN [written EXCEPT ![b.part] = @ \cup Rows(b)] ELSE written
        BY Zenon DEF Write
      <3> HIDE DEF b
      <3>3. /\ written[p] \subseteq written'[p]
            /\ b.kind = "rows" /\ b.part = p => Rows(b) \subseteq written'[p]
        BY <3>1, <3>2, Zenon DEF TypeOK, SinkType
      <3>4. CASE r \in written[p] BY <3>3, <3>4, Zenon DEF Held
      <3>5. CASE r \notin written[p]
        <4>1. PICK c \in InFlight : c.kind = "rows" /\ c.part = p /\ r \in Rows(c) BY <2>2, <3>5, Zenon DEF Held
        <4>2. c \in InFlight' \/ c = b BY <4>1, Zenon DEF Loses, b
        <4> QED BY <3>3, <4>1, <4>2, Zenon DEF Held, Rows
      <3> QED BY <3>4, <3>5, Zenon
    <2> QED BY <2>1, <2>2, Zenon DEF CoverInv, Many, Loses
  <1> SUFFICES ASSUME TypeOK, SourceInv, DrainInv, ApartInv, CoverInv, [Next]_vars PROVE CoverInv' BY Zenon
  <1>1. ASSUME InFlight' = InFlight, bld' = bld, UNCHANGED sinkVars PROVE CoverInv'
    BY <1>1, <1>CoverLoses, FlightType DEF Loses, Excused, Empty
  <1>2. ASSUME NEW p \in Parts, BuilderStep(p), Fills(p) \/ \E b : Makes(p, b) PROVE CoverInv'
    BY <1>2, BuilderOthers, <1>CoverGrows, Zenon DEF sinkVars, stateVars
  <1>3. ASSUME NEW p \in Parts, Send(p), Makes(p, Marker(p)), bld' = bld, UNCHANGED sinkVars PROVE CoverInv'
    <2>1. err' = err /\ dropped' = dropped BY <1>3, Zenon DEF Send, stateVars, historyVars
    <2> QED BY <1>3, <2>1, <1>CoverGrows, Zenon DEF sinkVars
  <1> QED BY <1>1, <1>2, <1>3, <1>CoverLoses, <1>CoverWrites, FlowStep, Zenon

\* Whatever goes before the batch of the only writer is written.
FrontInv ==
  ~Many => \A w \in Workers : ~Blank(wr[w]) /\ wr[w].part \notin dropped =>
             1..Start(wr[w]) \subseteq written[wr[w].part]

\* A key covers only written rows.
KeyInv == \A p \in Parts \ dropped : 1..prog[p].key \subseteq written[p]

\* At the start no writer holds a batch and no key covers a row.
LEMMA FrontInit == Init => FrontInv /\ KeyInv
  <1> SUFFICES ASSUME Init PROVE FrontInv /\ KeyInv BY Zenon
  <1>1. Blank(Empty) BY TypeInit, FlightType, Zenon
  <1>2. FrontInv BY <1>1, Zenon DEF Init, FrontInv
  <1>3. KeyInv BY DEF Init, KeyInv
  <1> QED BY <1>2, <1>3, Zenon

\* No step takes a row out of the sink.
LEMMA WrittenGrows ==
  ASSUME TypeOK, [Next]_vars
  PROVE  /\ \A p \in Parts : written[p] \subseteq written'[p]
         /\ dropped \subseteq dropped'
  <1>1. dropped \subseteq dropped'
    BY PoolStill, Zenon DEF Send, BarrierQueue, TakeTransform, TransformFails, Forward, ForwardRefused, ExitTransformer,
           TakeBatch, Write, WriteFails, ExitWriter, historyVars
  <1>2. ASSUME NEW w \in Workers, Write(w), NEW p \in Parts PROVE written[p] \subseteq written'[p]
    BY <1>2, Zenon DEF Write, TypeOK, SinkType
  <1> QED BY <1>1, <1>2, SinkStill, Zenon DEF sinkVars

\* The only writer takes the batch at the head of the line.
LEMMA FrontStep == TypeOK /\ ApartInv /\ CoverInv /\ FrontInv /\ [Next]_vars => FrontInv'
  \* The batch a writer takes from its channel is the first of what is in flight.
  <1>HeadFirst. ASSUME TypeOK, ApartInv, ~Many, NEW w \in Workers, wr[w] = Empty, ch["batch"] # <<>>, NEW b \in InFlight
                PROVE  b = Head(ch["batch"]) \/ Apart(setup.workers, Head(ch["batch"]), b)
    <2> USE <1>HeadFirst
    <2> DEFINE h == Head(ch["batch"])
    <2>1. ch["batch"] \in Seq(Items) BY Zenon DEF TypeOK, PoolType, Channels
    <2>2. /\ h \in Range(ch["batch"]) /\ Range(ch["batch"]) = {h} \cup Range(Tail(ch["batch"]))
          /\ Clear(setup.workers, {h}, Range(Tail(ch["batch"])))
      BY <2>1, RangeTail, SortedTail, Zenon DEF ApartInv, Lined
    <2>3. b \notin Range(wr)
      <3>1. Workers = {w} BY SetupFacts DEF TypeOK, Workers, Many
      <3>2. Range(wr) = {Empty} BY <3>1, Zenon DEF Range, TypeOK, PoolType
      <3> QED BY <3>2, FlightType, Zenon DEF InFlight
    <2> HIDE DEF h
    <2>4. b = h \/ Apart(setup.workers, h, b)
      BY <2>2, <2>3, Zenon DEF InFlight, Aboard, ApartInv, Lined, Clear
    <2> QED BY <2>4, Zenon DEF h
  <1> SUFFICES ASSUME TypeOK, ApartInv, CoverInv, FrontInv, [Next]_vars, ~Many, NEW w \in Workers, ~Blank(wr'[w]),
                      wr'[w].part \notin dropped'
               PROVE  1..Start(wr'[w]) \subseteq written'[wr'[w].part]
    BY StateMoves, Zenon DEF FrontInv, Many, Workers
  <1>1. TypeOK' /\ setup' = setup BY TypeStep, StateMoves, Zenon
  <1>2. wr \in [Workers -> Batches \cup {Empty, Gone}] /\ wr' \in [Workers -> Batches \cup {Empty, Gone}]
    BY <1>1, Zenon DEF TypeOK, PoolType, Workers
  <1>3. wr'[w] \in Batches /\ wr'[w].part \in Parts BY <1>2, FlightType, BatchFacts, Zenon
  <1>4. CASE wr'[w] = wr[w]
    BY <1>3, <1>4, WrittenGrows, Zenon DEF FrontInv
  <1>5. CASE wr'[w] # wr[w]
    <2> DEFINE h == Head(ch["batch"])
    <2>1. TakeBatch(w)
      <3>1. PICK v \in Workers : TakeBatch(v) \/ Write(v) \/ WriteFails(v) \/ ExitWriter(v)
        BY <1>5, PoolStill, Zenon DEF Send, BarrierQueue, TakeTransform, TransformFails, Forward, ForwardRefused, ExitTransformer
      <3>2. v = w BY SetupFacts DEF TypeOK, Workers, Many
      <3>3. Write(w) \/ WriteFails(w) \/ ExitWriter(w) => wr'[w] \in {Empty, Gone}
        BY <1>2, Zenon DEF Write, WriteFails, ExitWriter
      <3> QED BY <3>1, <3>2, <3>3, FlightType, Zenon
    <2>2. /\ wr[w] = Empty /\ ch["batch"] # <<>>
          /\ ~err /\ wr' = [wr EXCEPT ![w] = h] /\ UNCHANGED sinkVars
      <3>1. wr[w] = Empty /\ ch["batch"] # <<>> /\ UNCHANGED sinkVars BY <2>1, Zenon DEF TakeBatch
      <3>2. wr' = [wr EXCEPT ![w] = Empty] \/ (~err /\ wr' = [wr EXCEPT ![w] = h])
        BY <2>1, Zenon DEF TakeBatch
      <3> QED BY <1>2, <3>1, <3>2, FlightType, Zenon
    <2>3. wr'[w] = h BY <1>2, <2>2, Zenon
    <2>4. h \in InFlight
      <3>1. ch["batch"] \in Seq(Items) BY Zenon DEF TypeOK, PoolType, Channels
      <3>2. h \in Range(ch["batch"]) BY <2>2, <3>1, RangeTail, Zenon
      <3> QED BY <2>3, <3>2, Zenon DEF InFlight, Aboard
    <2>5. \A b \in InFlight : b = h \/ Apart(setup.workers, h, b) BY <2>2, <1>HeadFirst, Zenon
    <2>6. InFlight \subseteq Batches BY FlightType, Zenon
    <2> HIDE DEF h
    <2>7. ASSUME NEW r \in 1..Start(h) PROVE r \in written[h.part]
      <3>1. h.lo \in Nat /\ h.hi \in Nat /\ h.lo <= h.hi /\ h.part \in Parts \ dropped /\ h.kind \in BatchKinds
        BY <1>3, <2>3, WrittenGrows, BatchFacts, Zenon
      <3>2. r \in 1..h.hi BY <3>1 DEF Start
      <3>3. Held(h.part, r) BY <2>2, <2>4, <3>1, <3>2, Zenon DEF CoverInv
      <3>4. ASSUME NEW b \in InFlight, b.kind = "rows", b.part = h.part, r \in Rows(b) PROVE FALSE
        <4>1. b.lo \in Nat /\ b.hi \in Nat /\ r > b.lo BY <2>6, <3>4, BatchFacts DEF Rows
        <4>2. CASE b = h BY <3>1, <3>4, <4>1, <4>2 DEF Start
        <4>3. CASE b # h
          <5>1. h.hi <= b.lo BY <2>5, <3>1, <3>4, <4>3, Zenon DEF Apart, Start, Many, BatchKinds
          <5> QED BY <3>1, <3>2, <4>1, <5>1
        <4> QED BY <4>2, <4>3, Zenon
      <3> QED BY <3>3, <3>4, Zenon DEF Held
    <2> QED BY <2>2, <2>3, <2>7, Zenon DEF sinkVars
  <1> QED BY <1>4, <1>5, Zenon

\* The batch of a writer that writes is sound, and its rows are added.
LEMMA WriteFacts ==
  ASSUME TypeOK, ItemInv, NEW w \in Workers, Write(w)
  PROVE  LET b == wr[w] IN
         /\ b \in Batches /\ b \in InFlight /\ Sound(b) /\ b.part \in Parts
         /\ \A p \in Parts \ {b.part} : written'[p] = written[p] /\ prog'[p] = prog[p]
         /\ written'[b.part] = written[b.part] \cup (IF b.kind = "rows" THEN Rows(b) ELSE {})
         /\ prog'[b.part] = Fold(b)
  <1> DEFINE b == wr[w]
             p == b.part
  <1>1. b \in Batches BY Zenon DEF Write
  <1>2. b \in InFlight
    <2>1. b \in Range(wr) BY Zenon DEF Range, TypeOK, PoolType
    <2> QED BY <1>1, <2>1, FlightType, Zenon DEF InFlight, Aboard
  <1>3. Sound(b) /\ p \in Parts BY <1>1, <1>2, BatchFacts, Zenon DEF ItemInv
  <1>4. /\ written' = IF b.kind = "rows" THEN [written EXCEPT ![p] = @ \cup Rows(b)] ELSE written
        /\ prog' = [prog EXCEPT ![p] = Fold(b)]
    BY Zenon DEF Write
  <1> HIDE DEF b
  <1>5. /\ \A q \in Parts \ {p} : written'[q] = written[q] /\ prog'[q] = prog[q]
        /\ written'[p] = written[p] \cup (IF b.kind = "rows" THEN Rows(b) ELSE {})
        /\ prog'[p] = Fold(b)
    BY <1>3, <1>4, Zenon DEF TypeOK, SinkType
  <1> QED BY <1>1, <1>2, <1>3, <1>5, Zenon DEF b

\* Fold moves the key to the end of a chunk or leaves it.
LEMMA FoldFacts ==
  ASSUME TypeOK, NEW b \in Batches
  PROVE  /\ setup.kind = "keyset" =>
              Fold(b).key = b.hi /\ Fold(b).acked = prog[b.part].acked /\ Fold(b).want = prog[b.part].want
              /\ Fold(b).shard = prog[b.part].shard
         /\ setup.kind = "coarse" =>
              /\ Fold(b).key = prog[b.part].key
              /\ Fold(b).acked = prog[b.part].acked + (IF b.kind = "rows" THEN b.hi - b.lo ELSE 0)
              /\ Fold(b).want = (IF b.kind = "marker" THEN b.hi ELSE prog[b.part].want)
              /\ Fold(b).shard = prog[b.part].shard
                 \/ (Fold(b).shard = "done" /\ Fold(b).want >= 0 /\ Fold(b).acked >= Fold(b).want)
         /\ setup.kind = "stream" => Fold(b) = prog[b.part]
  <1>1. prog[b.part] \in [key : Counts, acked : Nat, want : Counts \cup {-1}, shard : {"open", "done"}]
    BY BatchFacts, Zenon DEF TypeOK, SinkType
  <1>2. CASE setup.kind = "keyset" BY <1>1, <1>2, Zenon DEF Fold
  <1>3. CASE setup.kind = "coarse"
    <2> DEFINE acked == prog[b.part].acked + IF b.kind = "rows" THEN b.hi - b.lo ELSE 0
               want == IF b.kind = "marker" THEN b.hi ELSE prog[b.part].want
    <2>1. Fold(b) = [prog[b.part] EXCEPT !.acked = acked, !.want = want,
                      !.shard = IF want >= 0 /\ acked >= want THEN "done" ELSE @]
      BY <1>3, Zenon DEF Fold
    <2>2. /\ Fold(b).key = prog[b.part].key /\ Fold(b).acked = acked /\ Fold(b).want = want
          /\ Fold(b).shard = IF want >= 0 /\ acked >= want THEN "done" ELSE prog[b.part].shard
      <3> HIDE DEF acked, want
      <3> QED BY <1>1, <2>1, Zenon
    <2> QED BY <1>3, <2>2, Zenon
  <1>4. CASE setup.kind = "stream" BY <1>4, Zenon DEF Fold
  <1> QED BY <1>2, <1>3, <1>4, Zenon DEF Fold

\* A key moves when the rows up to it are written.
LEMMA KeyStep == TypeOK /\ ItemInv /\ FrontInv /\ KeyInv /\ [Next]_vars => KeyInv'
  <1> SUFFICES ASSUME TypeOK, ItemInv, FrontInv, KeyInv, [Next]_vars, NEW p \in Parts, p \notin dropped'
               PROVE  1..prog'[p].key \subseteq written'[p]
    BY Zenon DEF KeyInv
  <1>1. p \notin dropped /\ written[p] \subseteq written'[p] BY WrittenGrows, Zenon
  <1>2. CASE prog'[p].key = prog[p].key BY <1>1, <1>2, Zenon DEF KeyInv
  <1>3. CASE prog'[p].key # prog[p].key
    <2>1. PICK w \in Workers : Write(w) BY <1>3, SinkStill, Zenon DEF sinkVars
    <2> DEFINE b == wr[w]
    <2>2. /\ b \in Batches /\ p = b.part /\ prog'[p] = Fold(b) /\ Sound(b)
          /\ written'[p] = written[p] \cup (IF b.kind = "rows" THEN Rows(b) ELSE {})
      BY <1>3, <2>1, WriteFacts, Zenon
    <2>3. setup.kind = "keyset" /\ prog'[p].key = b.hi /\ ~Many
      <3> HIDE DEF b
      <3> QED BY <1>3, <2>2, FoldFacts, SetupFacts DEF TypeOK, Many
    <2>4. 1..Start(b) \subseteq written[p] BY <1>1, <2>2, <2>3, FlightType, Zenon DEF FrontInv
    <2> HIDE DEF b
    <2>5. 1..b.hi \subseteq written'[p]
      <3>1. b.lo \in Nat /\ b.hi \in Nat /\ b.kind \in BatchKinds BY <2>2, BatchFacts, Zenon
      <3>2. CASE b.kind = "rows"
        <4>1. ASSUME NEW r \in 1..b.hi PROVE r \in 1..b.lo \/ r \in Rows(b) BY <3>1 DEF Rows
        <4> QED BY <2>2, <2>4, <3>2, <4>1, Zenon DEF Start
      <3>3. CASE b.kind = "marker" BY <1>1, <2>4, <3>3, Zenon DEF Start
      <3> QED BY <3>1, <3>2, <3>3, Zenon DEF BatchKinds
    <2> QED BY <2>3, <2>5, Zenon
  <1> QED BY <1>2, <1>3, Zenon

\* After Wait nothing is in flight.
LEMMA CompleteHolds ==
  TypeOK /\ SourceInv /\ DrainInv /\ GoneInv /\ ItemInv /\ CoverInv => SuccessIsComplete
  <1> SUFFICES ASSUME TypeOK, SourceInv, DrainInv, GoneInv, ItemInv, CoverInv,
                      ingest = "waited", clean, ~err, NEW p \in Parts \ dropped
               PROVE  written[p] = All(p)
    BY Zenon DEF SuccessIsComplete
  <1>1. /\ \A q \in Parts : src[q].item = Empty /\ bld[q].open = 0 /\ src[q].pc # "failed"
    BY Zenon DEF DrainInv
  <1>2. InFlight = {}
    <2>1. 1 \in Workers BY SetupFacts DEF TypeOK, Workers
    <2>2. \A w \in Workers : wr[w] = Gone /\ xf[w] = Gone BY <2>1, Zenon DEF GoneInv
    <2>3. ch["batch"] = <<>> /\ ch["transform"] = <<>> BY <2>1, <2>2, Zenon DEF GoneInv
    <2>4. Range(wr) \subseteq {Gone} /\ Range(xf) \subseteq {Gone} BY <2>2, Zenon DEF Range, TypeOK, PoolType
    <2>5. Range(<<>>) = {} BY DEF Range
    <2>6. SourceItems \subseteq {Empty} BY <1>1, Zenon DEF SourceItems
    <2> QED BY <2>3, <2>4, <2>5, <2>6, FlightType, Zenon DEF InFlight, Aboard
  <1>3. \A r \in 1..(bld[p].total - bld[p].open) : r \in written[p]
    BY <1>1, <1>2, Zenon DEF CoverInv, Held
  <1>4. bld[p].total - bld[p].open = bld[p].total BY <1>1, BuilderFacts
  <1> QED BY <1>3, <1>4, Zenon DEF ItemInv, All
=============================================================================
