--------------------------- MODULE PipelineProofs ---------------------------
(***************************************************************************)
(* Proofs about ThreadedPipeline, for all ring and burst sizes and limits. *)
(* For the enqueue that cannot fail and for the totals the rings only      *)
(* matter by their number: what RX has in hand and in the first ring       *)
(* is at most what it has counted, and it only receives while the count is *)
(* below the limit.  For the order, each stage is an increasing sequence,  *)
(* and all of a stage lies below what is in the stages after it.           *)
(***************************************************************************)
EXTENDS ThreadedPipeline, SequenceTheorems, TLAPS

\* The packets RX still has in hand fit into the first ring.
Room ==
  /\ Len(ring_rx_to_parse) + Len(rx_pkts) <= rx_count
  /\ rx_count <= Limit - 1 + BURST_SIZE
  /\ rx_pc \in {"test", "poll"} => rx_count < Limit
  /\ rx_pc = "enqueue" <=> rx_pkts # <<>>

IInv == TypeOK /\ NoneLost /\ Room

-----------------------------------------------------------------------------
(* Lengths of what the ring operations return.                             *)

\* A burst of n packets.
LEMMA BurstIsSequence ==
  ASSUME NEW n \in Nat, NEW c \in Nat
  PROVE  /\ [j \in 1 .. n |-> c + j] \in Seq(Nat)
         /\ Len([j \in 1 .. n |-> c + j]) = n
<1> DEFINE s == [j \in 1 .. n |-> c + j]
<1>1. s \in [1 .. n -> Nat]
  OBVIOUS
<1>2. s \in Seq(Nat)
  BY <1>1, SeqDef
<1>3. DOMAIN s = 1 .. n /\ Len(s) \in Nat /\ DOMAIN s = 1 .. Len(s)
  BY <1>2, LenProperties
<1>4. 1 .. n = 1 .. Len(s)
  BY <1>3
<1> HIDE DEF s
<1>5. Len(s) = n
  BY <1>3, <1>4
<1> QED
  BY <1>2, <1>5 DEF s

\* Splitting a ring at n.
LEMMA SplitLengths ==
  ASSUME NEW s \in Seq(Nat), NEW n \in 0 .. Len(s)
  PROVE  /\ SubSeq(s, 1, n) \in Seq(Nat) /\ Len(SubSeq(s, 1, n)) = n
         /\ SubSeq(s, n + 1, Len(s)) \in Seq(Nat)
         /\ Len(SubSeq(s, n + 1, Len(s))) = Len(s) - n
<1>1. Len(s) \in Nat /\ \A j \in 1 .. Len(s) : s[j] \in Nat
  BY LenProperties, ElementOfSeq
<1>2. SubSeq(s, 1, n) \in Seq(Nat) /\ Len(SubSeq(s, 1, n)) = n
  BY <1>1, SubSeqProperties
<1>3. SubSeq(s, n + 1, Len(s)) \in Seq(Nat)
      /\ Len(SubSeq(s, n + 1, Len(s))) = Len(s) - n
  BY <1>1, SubSeqProperties
<1> QED
  BY <1>2, <1>3

-----------------------------------------------------------------------------
LEMMA InitHolds == Init => IInv
<1> SUFFICES ASSUME Init PROVE IInv
  OBVIOUS
<1>1. <<>> \in Seq(Nat) /\ Len(<<>>) = 0
  BY EmptySeq
<1>2. RingsOK
  BY <1>1, PipelineAssumption DEF Init, RingsOK
<1>3. TypeOK
  BY <1>1, <1>2 DEF Init, TypeOK
<1>4. Room
  BY <1>1, PipelineAssumption DEF Init, Room
<1> QED
  BY <1>3, <1>4 DEF IInv, Init, NoneLost

\* rx_loop: the limit bounds what can be in the first ring.
LEMMA RxStep == ASSUME IInv, rx_loop PROVE IInv'
<1>1. TypeOK /\ NoneLost /\ Room
  BY DEF IInv
<1>2. Len(ring_rx_to_parse) \in Nat /\ Len(rx_pkts) \in Nat /\ rx_count \in Nat
  BY <1>1, LenProperties DEF TypeOK, RingsOK
<1>3. CASE RxTest
  BY <1>1, <1>3 DEF RxTest, IInv, TypeOK, RingsOK, NoneLost, Room, parserVars, txVars
<1>4. CASE RxCheck
  <2>1. /\ rx_pc' \in {"done", "test"} /\ rx_pc = "check"
        /\ rx_pc' = "test" => ~(rx_count >= Limit)
        /\ force_quit' = TRUE \/ force_quit' = force_quit
        /\ UNCHANGED <<rx_count, rx_pkts, lost, parserVars, txVars, ring_rx_to_parse,
                       ring_parse_to_tx>>
    BY <1>4 DEF RxCheck
  <2>2. force_quit' \in BOOLEAN
    BY <1>1, <2>1 DEF TypeOK
  <2>3. TypeOK'
    BY <1>1, <2>1, <2>2 DEF TypeOK, RingsOK, parserVars, txVars
  <2>4. rx_pc' \in {"test", "poll"} => rx_count' < Limit
    BY <1>2, <2>1, PipelineAssumption
  <2>5. Room'
    BY <1>1, <2>1, <2>4 DEF Room
  <2> QED
    BY <1>1, <2>1, <2>3, <2>5 DEF IInv, NoneLost
<1>5. CASE RxPoll
  <2>1. PICK n \in 0 .. BURST_SIZE :
          /\ rx_pkts' = [j \in 1 .. n |-> rx_count + j]
          /\ rx_count' = rx_count + n
          /\ rx_pc' = IF n > 0 THEN "enqueue" ELSE "check"
    BY <1>5 DEF RxPoll
  <2>2. n \in Nat /\ n <= BURST_SIZE
    BY PipelineAssumption
  <2>3. rx_pkts' \in Seq(Nat) /\ Len(rx_pkts') = n
    BY <1>2, <2>1, <2>2, BurstIsSequence
  <2>4. TypeOK'
    BY <1>1, <1>2, <1>5, <2>1, <2>2, <2>3
      DEF RxPoll, TypeOK, RingsOK, parserVars, txVars
  <2>5. rx_pkts' = <<>> <=> n = 0
    BY <2>2, <2>3, EmptySeq
  <2>6. /\ rx_pc = "poll" /\ rx_pkts = <<>> /\ rx_count < Limit
        /\ Len(ring_rx_to_parse) <= rx_count
        /\ ring_rx_to_parse' = ring_rx_to_parse /\ lost' = lost
    BY <1>1, <1>2, <1>5, EmptySeq DEF RxPoll, Room
  <2>7. Room'
    BY <1>2, <2>1, <2>2, <2>3, <2>5, <2>6, PipelineAssumption DEF Room
  <2> QED
    BY <1>1, <2>4, <2>6, <2>7 DEF IInv, NoneLost
<1>6. CASE RxEnqueue
  <2>1. rx_pkts # <<>> /\ rx_pc = "enqueue"
    BY <1>1, <1>6 DEF RxEnqueue, Room
  <2>2. /\ Head(rx_pkts) \in Nat /\ Tail(rx_pkts) \in Seq(Nat)
        /\ Len(Tail(rx_pkts)) = Len(rx_pkts) - 1 /\ Len(rx_pkts) > 0
    BY <1>1, <1>2, <2>1, HeadTailProperties, EmptySeq DEF TypeOK
  <2>3. Len(ring_rx_to_parse) < RX_RING_SIZE - 1
    BY <1>1, <1>2, <2>2, PipelineAssumption DEF Room
  <2>4. /\ ring_rx_to_parse' = Append(ring_rx_to_parse, Head(rx_pkts))
        /\ lost' = lost
        /\ rx_pkts' = Tail(rx_pkts)
        /\ rx_pc' = IF Len(rx_pkts) = 1 THEN "check" ELSE "enqueue"
        /\ UNCHANGED <<force_quit, rx_count, parserVars, txVars, ring_parse_to_tx, freed>>
    BY <1>6, <2>3 DEF RxEnqueue
  <2>5. /\ ring_rx_to_parse' \in Seq(Nat)
        /\ Len(ring_rx_to_parse') = Len(ring_rx_to_parse) + 1
    BY <1>1, <2>2, <2>4, AppendProperties DEF TypeOK, RingsOK
  <2>6. TypeOK'
    BY <1>1, <1>2, <2>2, <2>3, <2>4, <2>5, PipelineAssumption
      DEF TypeOK, RingsOK, parserVars, txVars
  <2>7. rx_pkts' = <<>> <=> Len(rx_pkts) = 1
    BY <1>2, <2>2, <2>4, EmptySeq, SMTT(30)
  <2>8. Len(ring_rx_to_parse') + Len(rx_pkts') <= rx_count'
    <3>1. rx_count' = rx_count /\ Len(rx_pkts') = Len(rx_pkts) - 1
      BY <2>2, <2>4
    <3>2. Len(ring_rx_to_parse) + Len(rx_pkts) <= rx_count
      BY <1>1 DEF Room
    <3> QED
      BY <1>2, <2>5, <3>1, <3>2
  <2>9. /\ rx_count' <= Limit - 1 + BURST_SIZE
        /\ rx_pc' \notin {"test", "poll"} /\ (rx_pc' = "enqueue" <=> rx_pkts' # <<>>)
    BY <1>1, <2>4, <2>7 DEF Room
  <2>10. Room'
    BY <2>8, <2>9 DEF Room
  <2> QED
    BY <1>1, <2>4, <2>6, <2>10 DEF IInv, NoneLost
<1> QED
  BY <1>3, <1>4, <1>5, <1>6 DEF rx_loop

\* parser_loop only takes from the first ring, and respects the second.
LEMMA ParserStep == ASSUME IInv, parser_loop PROVE IInv'
<1>1. TypeOK /\ NoneLost /\ Room
  BY DEF IInv
<1>2. /\ Len(ring_rx_to_parse) \in Nat /\ Len(ring_parse_to_tx) \in Nat
      /\ Len(rx_pkts) \in Nat /\ Len(parser_pkts) \in Nat
  BY <1>1, LenProperties DEF TypeOK, RingsOK
<1>3. UNCHANGED rxVars
  BY DEF parser_loop, ParserTest, ParserDequeue, ParserForward
<1>4. CASE ParserTest
  BY <1>1, <1>4 DEF ParserTest, IInv, TypeOK, RingsOK, NoneLost, Room, rxVars, txVars
<1>5. CASE ParserDequeue
  <2> DEFINE n == Lesser(Len(ring_rx_to_parse), BURST_SIZE)
  <2>1. n \in 0 .. Len(ring_rx_to_parse)
    BY <1>2, PipelineAssumption DEF Lesser
  <2>2. /\ parser_pkts' = SubSeq(ring_rx_to_parse, 1, n)
        /\ ring_rx_to_parse' = SubSeq(ring_rx_to_parse, n + 1, Len(ring_rx_to_parse))
        /\ parser_count' = parser_count + n
        /\ parser_pc' = IF n > 0 THEN "forward" ELSE "test"
        /\ UNCHANGED <<force_quit, rxVars, txVars, ring_parse_to_tx, freed>>
    BY <1>5 DEF ParserDequeue
  <2> HIDE DEF n
  <2>3. /\ parser_pkts' \in Seq(Nat) /\ ring_rx_to_parse' \in Seq(Nat)
        /\ Len(ring_rx_to_parse') = Len(ring_rx_to_parse) - n
    BY <1>1, <2>1, <2>2, SplitLengths DEF TypeOK, RingsOK
  <2>4. n \in Nat
    BY <1>2, <2>1
  <2>5. Len(ring_rx_to_parse') <= RX_RING_SIZE - 1
    BY <1>1, <1>2, <2>4, <2>3, PipelineAssumption DEF TypeOK, RingsOK
  <2>6. RingsOK'
    BY <1>1, <2>2, <2>3, <2>5 DEF TypeOK, RingsOK
  <2>7. parser_count' \in Nat
    BY <1>1, <2>2, <2>4 DEF TypeOK
  <2>8. parser_pc' \in {"test", "dequeue", "forward", "done"}
    BY <2>2
  <2>9. TypeOK'
    BY <1>1, <2>2, <2>3, <2>6, <2>7, <2>8 DEF TypeOK, rxVars, txVars
  <2>10. Room'
    BY <1>1, <1>2, <1>3, <2>1, <2>3 DEF Room, TypeOK, rxVars
  <2> QED
    BY <1>1, <1>3, <2>9, <2>10 DEF IInv, NoneLost, rxVars
<1>6. CASE ParserForward
  <2> DEFINE m == Lesser(Len(parser_pkts), TX_RING_SIZE - 1 - Len(ring_parse_to_tx))
  <2>1. m \in 0 .. Len(parser_pkts) /\ m <= TX_RING_SIZE - 1 - Len(ring_parse_to_tx)
    BY <1>1, <1>2, PipelineAssumption DEF Lesser, TypeOK, RingsOK
  <2>2. /\ ring_parse_to_tx' = ring_parse_to_tx \o SubSeq(parser_pkts, 1, m)
        /\ parser_pkts' = <<>> /\ parser_pc' = "test"
        /\ UNCHANGED <<force_quit, parser_count, rxVars, txVars, ring_rx_to_parse>>
    BY <1>6 DEF ParserForward
  <2> HIDE DEF m
  <2>3. SubSeq(parser_pkts, 1, m) \in Seq(Nat) /\ Len(SubSeq(parser_pkts, 1, m)) = m
    BY <1>1, <2>1, SplitLengths DEF TypeOK
  <2>4. /\ ring_parse_to_tx' \in Seq(Nat)
        /\ Len(ring_parse_to_tx') = Len(ring_parse_to_tx) + m
    BY <1>1, <2>2, <2>3, ConcatProperties DEF TypeOK, RingsOK
  <2>5. TypeOK'
    BY <1>1, <1>2, <2>1, <2>2, <2>4, EmptySeq, PipelineAssumption
      DEF TypeOK, RingsOK, rxVars, txVars
  <2>6. Room'
    BY <1>1, <1>3, <2>2 DEF Room, rxVars
  <2> QED
    BY <1>1, <1>3, <2>5, <2>6 DEF IInv, NoneLost, rxVars
<1> QED
  BY <1>4, <1>5, <1>6 DEF parser_loop

\* tx_loop touches nothing of the first half.
LEMMA TxStep == ASSUME IInv, tx_loop PROVE IInv'
<1>1. TypeOK /\ NoneLost /\ Room
  BY DEF IInv
<1>2. Len(ring_parse_to_tx) \in Nat /\ Len(tx_pkts) \in Nat
  BY <1>1, LenProperties DEF TypeOK, RingsOK
<1>3. UNCHANGED <<rxVars, ring_rx_to_parse>>
  BY DEF tx_loop, TxTest, TxDequeue, TxSend
<1>4. Room' /\ NoneLost'
  BY <1>1, <1>3 DEF Room, NoneLost, rxVars
<1>5. CASE TxTest
  BY <1>1, <1>4, <1>5 DEF TxTest, IInv, TypeOK, RingsOK, rxVars, parserVars
<1>6. CASE TxDequeue
  <2> DEFINE n == Lesser(Len(ring_parse_to_tx), BURST_SIZE)
  <2>1. n \in 0 .. Len(ring_parse_to_tx)
    BY <1>2, PipelineAssumption DEF Lesser
  <2>2. /\ tx_pkts' = SubSeq(ring_parse_to_tx, 1, n)
        /\ ring_parse_to_tx' = SubSeq(ring_parse_to_tx, n + 1, Len(ring_parse_to_tx))
        /\ tx_count' = tx_count + n
        /\ tx_pc' = IF n > 0 THEN "send" ELSE "test"
        /\ UNCHANGED <<force_quit, wire, rxVars, parserVars, ring_rx_to_parse, freed>>
    BY <1>6 DEF TxDequeue
  <2> HIDE DEF n
  <2>3. /\ tx_pkts' \in Seq(Nat) /\ ring_parse_to_tx' \in Seq(Nat)
        /\ Len(ring_parse_to_tx') = Len(ring_parse_to_tx) - n
    BY <1>1, <2>1, <2>2, SplitLengths DEF TypeOK, RingsOK
  <2>4. n \in Nat
    BY <1>2, <2>1
  <2>5. Len(ring_parse_to_tx') <= TX_RING_SIZE - 1
    BY <1>1, <1>2, <2>4, <2>3, PipelineAssumption DEF TypeOK, RingsOK
  <2>6. RingsOK'
    BY <1>1, <2>2, <2>3, <2>5 DEF TypeOK, RingsOK
  <2>7. tx_count' \in Nat
    BY <1>1, <2>2, <2>4 DEF TypeOK
  <2>8. tx_pc' \in {"test", "dequeue", "send", "done"}
    BY <2>2
  <2>9. TypeOK'
    BY <1>1, <2>2, <2>3, <2>6, <2>7, <2>8 DEF TypeOK, rxVars, parserVars
  <2> QED
    BY <1>4, <2>9 DEF IInv
<1>7. CASE TxSend
  <2>1. PICK sent \in 0 .. Len(tx_pkts) : wire' = wire \o SubSeq(tx_pkts, 1, sent)
    BY <1>7 DEF TxSend
  <2>2. SubSeq(tx_pkts, 1, sent) \in Seq(Nat)
    BY <1>1, <2>1, SplitLengths DEF TypeOK
  <2>3. wire' \in Seq(Nat)
    BY <1>1, <2>1, <2>2, ConcatProperties DEF TypeOK
  <2>4. TypeOK'
    BY <1>1, <1>7, <2>3, EmptySeq DEF TxSend, TypeOK, RingsOK, rxVars, parserVars
  <2> QED
    BY <1>4, <2>4 DEF IInv
<1> QED
  BY <1>5, <1>6, <1>7 DEF tx_loop

LEMMA StepHolds == IInv /\ [Next]_vars => IInv'
<1> SUFFICES ASSUME IInv, [Next]_vars PROVE IInv'
  OBVIOUS
<1>1. CASE UNCHANGED vars
  BY <1>1 DEF vars, IInv, TypeOK, RingsOK, NoneLost, Room, rxVars, parserVars, txVars
<1> QED
  BY <1>1, RxStep, ParserStep, TxStep DEF Next

-----------------------------------------------------------------------------
\* The invariant holds in every state of every behaviour.
THEOREM Invariance == Spec => []IInv
BY InitHolds, StepHolds, PTL DEF Spec

\* Types, and no ring over its capacity.
THEOREM TypeCorrect == Spec => []TypeOK
<1>1. IInv => TypeOK
  BY DEF IInv
<1> QED
  BY <1>1, Invariance, PTL

\* The enqueue of rx_loop whose result is ignored never fails.
THEOREM EnqueueNeverFails == Spec => []NoneLost
<1>1. IInv => NoneLost
  BY DEF IInv
<1> QED
  BY <1>1, Invariance, PTL

-----------------------------------------------------------------------------
(* The totals.                                                             *)

\* What a stage has not counted is still before it; the parser and TX may
\* have dropped some of what they counted.
Counted ==
  /\ rx_count = parser_count + Len(ring_rx_to_parse) + Len(rx_pkts)
  /\ tx_count + Len(ring_parse_to_tx) + Len(parser_pkts) <= parser_count

LEMMA CountedInit == Init => Counted
BY EmptySeq DEF Init, Counted

LEMMA CountedStep == ASSUME IInv, Counted, [Next]_vars PROVE Counted'
<1>1. TypeOK /\ NoneLost /\ Room
  BY DEF IInv
<1>2. /\ rx_count \in Nat /\ parser_count \in Nat /\ tx_count \in Nat
      /\ Len(ring_rx_to_parse) \in Nat /\ Len(rx_pkts) \in Nat
      /\ Len(ring_parse_to_tx) \in Nat /\ Len(parser_pkts) \in Nat
  BY <1>1, LenProperties DEF TypeOK, RingsOK
<1>3. CASE RxPoll
  <2>1. PICK n \in 0 .. BURST_SIZE :
          rx_pkts' = [j \in 1 .. n |-> rx_count + j] /\ rx_count' = rx_count + n
    BY <1>3 DEF RxPoll
  <2>2. n \in Nat
    BY PipelineAssumption
  <2>3. Len(rx_pkts') = n
    BY <1>2, <2>1, <2>2, BurstIsSequence
  <2>4. Len(rx_pkts) = 0
    BY <1>1, <1>3, EmptySeq DEF RxPoll, Room
  <2> QED
    BY <1>2, <1>3, <2>1, <2>2, <2>3, <2>4 DEF RxPoll, Counted, parserVars, txVars
<1>4. CASE RxEnqueue
  <2>1. rx_pkts # <<>>
    BY <1>1, <1>4 DEF RxEnqueue, Room
  <2>2. /\ Head(rx_pkts) \in Nat /\ Len(Tail(rx_pkts)) = Len(rx_pkts) - 1
        /\ Len(rx_pkts) > 0
    BY <1>1, <1>2, <2>1, HeadTailProperties, EmptySeq DEF TypeOK
  <2>3. Len(ring_rx_to_parse) < RX_RING_SIZE - 1
    BY <1>1, <1>2, <2>2, PipelineAssumption DEF Room
  <2>4. Len(ring_rx_to_parse') = Len(ring_rx_to_parse) + 1
    BY <1>1, <1>4, <2>2, <2>3, AppendProperties DEF RxEnqueue, TypeOK, RingsOK
  <2>5. /\ Len(rx_pkts') = Len(rx_pkts) - 1
        /\ UNCHANGED <<rx_count, parser_count, parser_pkts, tx_count, ring_parse_to_tx>>
    BY <1>4, <2>2 DEF RxEnqueue, parserVars, txVars
  <2>6. parser_count + (Len(ring_rx_to_parse) + 1) + (Len(rx_pkts) - 1)
          = parser_count + Len(ring_rx_to_parse) + Len(rx_pkts)
    BY <1>2
  <2> QED
    BY <2>4, <2>5, <2>6 DEF Counted
<1>5. CASE ParserDequeue
  <2> DEFINE n == Lesser(Len(ring_rx_to_parse), BURST_SIZE)
  <2>1. n \in 0 .. Len(ring_rx_to_parse)
    BY <1>2, PipelineAssumption DEF Lesser
  <2>2. /\ parser_pkts' = SubSeq(ring_rx_to_parse, 1, n)
        /\ ring_rx_to_parse' = SubSeq(ring_rx_to_parse, n + 1, Len(ring_rx_to_parse))
        /\ parser_count' = parser_count + n
        /\ UNCHANGED <<rx_count, rx_pkts, tx_count, ring_parse_to_tx>>
    BY <1>5 DEF ParserDequeue, rxVars, txVars
  <2> HIDE DEF n
  <2>3. /\ Len(parser_pkts') = n
        /\ Len(ring_rx_to_parse') = Len(ring_rx_to_parse) - n
    BY <1>1, <2>1, <2>2, SplitLengths DEF TypeOK, RingsOK
  <2>4. /\ parser_count + Len(ring_rx_to_parse) + Len(rx_pkts)
             = (parser_count + n) + (Len(ring_rx_to_parse) - n) + Len(rx_pkts)
        /\ tx_count + Len(ring_parse_to_tx) + n <= parser_count + n
    BY <1>2, <2>1 DEF Counted
  <2> QED
    BY <2>2, <2>3, <2>4 DEF Counted
<1>6. CASE ParserForward
  <2> DEFINE m == Lesser(Len(parser_pkts), TX_RING_SIZE - 1 - Len(ring_parse_to_tx))
  <2>1. m \in 0 .. Len(parser_pkts)
    BY <1>1, <1>2, PipelineAssumption DEF Lesser, TypeOK, RingsOK
  <2>2. /\ ring_parse_to_tx' = ring_parse_to_tx \o SubSeq(parser_pkts, 1, m)
        /\ parser_pkts' = <<>>
        /\ UNCHANGED <<rx_count, rx_pkts, tx_count, parser_count, ring_rx_to_parse>>
    BY <1>6 DEF ParserForward, rxVars, txVars
  <2> HIDE DEF m
  <2>3. SubSeq(parser_pkts, 1, m) \in Seq(Nat) /\ Len(SubSeq(parser_pkts, 1, m)) = m
    BY <1>1, <2>1, SplitLengths DEF TypeOK
  <2>4. Len(ring_parse_to_tx') = Len(ring_parse_to_tx) + m /\ Len(parser_pkts') = 0
    BY <1>1, <2>2, <2>3, ConcatProperties, EmptySeq DEF TypeOK, RingsOK
  <2> QED
    BY <1>2, <2>1, <2>2, <2>4 DEF Counted
<1>7. CASE TxDequeue
  <2> DEFINE n == Lesser(Len(ring_parse_to_tx), BURST_SIZE)
  <2>1. n \in 0 .. Len(ring_parse_to_tx)
    BY <1>2, PipelineAssumption DEF Lesser
  <2>2. /\ ring_parse_to_tx' = SubSeq(ring_parse_to_tx, n + 1, Len(ring_parse_to_tx))
        /\ tx_count' = tx_count + n
        /\ UNCHANGED <<rx_count, rx_pkts, parser_count, parser_pkts, ring_rx_to_parse>>
    BY <1>7 DEF TxDequeue, rxVars, parserVars
  <2> HIDE DEF n
  <2>3. Len(ring_parse_to_tx') = Len(ring_parse_to_tx) - n
    BY <1>1, <2>1, <2>2, SplitLengths DEF TypeOK, RingsOK
  <2>4. (tx_count + n) + (Len(ring_parse_to_tx) - n) + Len(parser_pkts)
          = tx_count + Len(ring_parse_to_tx) + Len(parser_pkts)
    BY <1>2, <2>1
  <2> QED
    BY <2>2, <2>3, <2>4 DEF Counted
<1>8. CASE RxTest \/ RxCheck \/ ParserTest \/ TxTest \/ TxSend \/ UNCHANGED vars
  <2>1. UNCHANGED <<rx_count, rx_pkts, parser_count, parser_pkts, tx_count,
                    ring_rx_to_parse, ring_parse_to_tx>>
    BY <1>8 DEF RxTest, RxCheck, ParserTest, TxTest, TxSend, vars, rxVars, parserVars, txVars
  <2> QED
    BY <2>1 DEF Counted
<1> QED
  BY <1>3, <1>4, <1>5, <1>6, <1>7, <1>8 DEF Next, rx_loop, parser_loop, tx_loop

\* The totals main prints differ only by what is in the rings and what was
\* dropped, at whatever moment each lcore saw force_quit.
THEOREM TotalsAdd == Spec => []TotalsExplained
<1>1. Init => IInv /\ Counted
  BY InitHolds, CountedInit
<1>2. (IInv /\ Counted) /\ [Next]_vars => (IInv /\ Counted)'
  BY StepHolds, CountedStep
<1>3. IInv /\ Counted => TotalsExplained
  <2> SUFFICES ASSUME IInv, Counted, AllDone PROVE TotalsExplained
    BY DEF TotalsExplained
  <2>1. /\ rx_count \in Nat /\ parser_count \in Nat /\ tx_count \in Nat
        /\ Len(ring_rx_to_parse) \in Nat /\ Len(ring_parse_to_tx) \in Nat
        /\ Len(parser_pkts) \in Nat
    BY LenProperties DEF IInv, TypeOK, RingsOK
  <2>2. Len(rx_pkts) = 0
    BY EmptySeq DEF IInv, Room, AllDone
  <2> QED
    BY <2>1, <2>2 DEF Counted, TotalsExplained
<1> QED
  BY <1>1, <1>2, <1>3, PTL DEF Spec

-----------------------------------------------------------------------------
(* The order of the packets.                                               *)

Increasing(s) == \A j, k \in 1 .. Len(s) : j < k => s[j] < s[k]
Below(X, Y) == \A x \in X, y \in Y : x < y

\* What is in the stages from the wire back to the one named.
UpToTx == Elements(wire) \cup Elements(tx_pkts)
UpToRing2 == UpToTx \cup Elements(ring_parse_to_tx)
UpToParser == UpToRing2 \cup Elements(parser_pkts)
UpToRing1 == UpToParser \cup Elements(ring_rx_to_parse)
UpToRx == UpToRing1 \cup Elements(rx_pkts)

\* Each stage is in order.
StagesIncreasing ==
  /\ Increasing(wire) /\ Increasing(tx_pkts) /\ Increasing(ring_parse_to_tx)
  /\ Increasing(parser_pkts) /\ Increasing(ring_rx_to_parse) /\ Increasing(rx_pkts)

\* What is in a stage is ahead of what is in the stages after it.
StagesAhead ==
  /\ Below(Elements(wire), Elements(tx_pkts))
  /\ Below(UpToTx, Elements(ring_parse_to_tx))
  /\ Below(UpToRing2, Elements(parser_pkts))
  /\ Below(UpToParser, Elements(ring_rx_to_parse))
  /\ Below(UpToRing1, Elements(rx_pkts))

\* Every packet received is in one stage or was freed, and a local array is
\* empty when its burst is over.
Placed ==
  /\ UpToRx \cap freed = {} /\ UpToRx \cup freed = 1 .. rx_count
  /\ parser_pc # "forward" => parser_pkts = <<>>
  /\ tx_pc # "send" => tx_pkts = <<>>

Ordered == StagesIncreasing /\ StagesAhead /\ Placed

\* The elements of a sequence, and of the empty one.
LEMMA ElementsOf ==
  ASSUME NEW s \in Seq(Nat)
  PROVE  /\ Elements(s) = {s[j] : j \in 1 .. Len(s)} /\ Elements(s) \subseteq Nat
         /\ Elements(<<>>) = {} /\ Increasing(<<>>)
<1>1. Len(s) \in Nat /\ DOMAIN s = 1 .. Len(s) /\ \A j \in 1 .. Len(s) : s[j] \in Nat
  BY LenProperties, ElementOfSeq
<1>2. Elements(s) = {s[j] : j \in 1 .. Len(s)} /\ Elements(s) \subseteq Nat
  BY <1>1 DEF Elements
<1>3. Elements(<<>>) = {} /\ Increasing(<<>>)
  BY DEF Elements, Increasing
<1> QED
  BY <1>2, <1>3

\* A sequence split in two.
LEMMA SplitOrder ==
  ASSUME NEW s \in Seq(Nat), NEW n \in 0 .. Len(s), Increasing(s)
  PROVE  /\ Increasing(SubSeq(s, 1, n)) /\ Increasing(SubSeq(s, n + 1, Len(s)))
         /\ Below(Elements(SubSeq(s, 1, n)), Elements(SubSeq(s, n + 1, Len(s))))
         /\ Elements(SubSeq(s, 1, n)) \cup Elements(SubSeq(s, n + 1, Len(s))) = Elements(s)
<1> DEFINE a == SubSeq(s, 1, n)
           b == SubSeq(s, n + 1, Len(s))
<1>1. Len(s) \in Nat /\ n \in Nat /\ \A j \in 1 .. Len(s) : s[j] \in Nat
  BY LenProperties, ElementOfSeq
<1>2. a \in Seq(Nat) /\ Len(a) = n /\ \A j \in 1 .. n : a[j] = s[j]
  BY <1>1, SubSeqProperties
<1>3. b \in Seq(Nat) /\ Len(b) = Len(s) - n /\ \A j \in 1 .. Len(s) - n : b[j] = s[n + j]
  BY <1>1, SubSeqProperties
<1> HIDE DEF a, b
<1>4. Increasing(a)
  <2> SUFFICES ASSUME NEW j \in 1 .. n, NEW k \in 1 .. n, j < k
               PROVE  a[j] < a[k]
    BY <1>2 DEF Increasing
  <2>1. j \in 1 .. Len(s) /\ k \in 1 .. Len(s)
    BY <1>1
  <2> QED
    BY <1>2, <2>1 DEF Increasing
<1>5. Increasing(b)
  <2> SUFFICES ASSUME NEW j \in 1 .. Len(s) - n, NEW k \in 1 .. Len(s) - n, j < k
               PROVE  b[j] < b[k]
    BY <1>3 DEF Increasing
  <2>1. n + j \in 1 .. Len(s) /\ n + k \in 1 .. Len(s) /\ n + j < n + k
    BY <1>1
  <2> QED
    BY <1>3, <2>1 DEF Increasing
<1>6. /\ Elements(a) = {a[j] : j \in 1 .. n} /\ Elements(b) = {b[j] : j \in 1 .. Len(s) - n}
      /\ Elements(s) = {s[j] : j \in 1 .. Len(s)}
  BY <1>2, <1>3, ElementsOf
<1>7. Below(Elements(a), Elements(b))
  <2> SUFFICES ASSUME NEW j \in 1 .. n, NEW k \in 1 .. Len(s) - n
               PROVE  a[j] < b[k]
    BY <1>6 DEF Below
  <2>1. j \in 1 .. Len(s) /\ n + k \in 1 .. Len(s) /\ j < n + k
    BY <1>1
  <2> QED
    BY <1>2, <1>3, <2>1 DEF Increasing
<1>8. Elements(a) \cup Elements(b) = Elements(s)
  <2>1. \A j \in 1 .. n : j \in 1 .. Len(s) /\ a[j] = s[j]
    BY <1>1, <1>2
  <2>2. \A j \in 1 .. Len(s) - n : n + j \in 1 .. Len(s) /\ b[j] = s[n + j]
    BY <1>1, <1>3
  <2>3. \A j \in 1 .. Len(s) : j \in 1 .. n \/ j - n \in 1 .. Len(s) - n
    BY <1>1
  <2>4. \A j \in 1 .. Len(s) : n + (j - n) = j
    BY <1>1
  <2>5. ASSUME NEW j \in 1 .. Len(s) PROVE s[j] \in Elements(a) \cup Elements(b)
    <3>1. CASE j \in 1 .. n
      BY <1>6, <2>1, <3>1
    <3>2. CASE j - n \in 1 .. Len(s) - n
      BY <1>6, <2>2, <2>4, <3>2
    <3> QED
      BY <2>3, <3>1, <3>2
  <2> QED
    BY <1>6, <2>1, <2>2, <2>5
<1> QED
  BY <1>4, <1>5, <1>7, <1>8 DEF a, b

\* Two sequences, the first ahead of the second, put together.
LEMMA ConcatOrder ==
  ASSUME NEW a \in Seq(Nat), NEW b \in Seq(Nat), Increasing(a), Increasing(b),
         Below(Elements(a), Elements(b))
  PROVE  /\ a \o b \in Seq(Nat) /\ Increasing(a \o b)
         /\ Elements(a \o b) = Elements(a) \cup Elements(b)
<1> DEFINE s == a \o b
<1>1. Len(a) \in Nat /\ Len(b) \in Nat
  BY LenProperties
<1>2. /\ s \in Seq(Nat) /\ Len(s) = Len(a) + Len(b)
      /\ \A j \in 1 .. Len(s) : s[j] = IF j <= Len(a) THEN a[j] ELSE b[j - Len(a)]
  BY ConcatProperties
<1> HIDE DEF s
<1>3. \A j \in 1 .. Len(s) : j \in 1 .. Len(a) \/ j - Len(a) \in 1 .. Len(b)
  BY <1>1, <1>2
<1>4. /\ Elements(a) = {a[j] : j \in 1 .. Len(a)} /\ Elements(b) = {b[j] : j \in 1 .. Len(b)}
      /\ Elements(s) = {s[j] : j \in 1 .. Len(s)}
  BY <1>2, ElementsOf
<1>5. \A j \in 1 .. Len(a) : j \in 1 .. Len(s) /\ s[j] = a[j]
  BY <1>1, <1>2
<1>6. \A j \in 1 .. Len(b) : Len(a) + j \in 1 .. Len(s) /\ s[Len(a) + j] = b[j]
  <2> SUFFICES ASSUME NEW j \in 1 .. Len(b)
               PROVE  Len(a) + j \in 1 .. Len(s) /\ s[Len(a) + j] = b[j]
    OBVIOUS
  <2>1. Len(a) + j \in 1 .. Len(s) /\ ~(Len(a) + j <= Len(a)) /\ (Len(a) + j) - Len(a) = j
    BY <1>1, <1>2
  <2> QED
    BY <1>2, <2>1
<1>7. \A j \in 1 .. Len(s) : ~(j <= Len(a)) => s[j] = b[j - Len(a)] /\ j - Len(a) \in 1 .. Len(b)
  BY <1>1, <1>2
<1>8. Increasing(s)
  <2> SUFFICES ASSUME NEW j \in 1 .. Len(s), NEW k \in 1 .. Len(s), j < k
               PROVE  s[j] < s[k]
    BY DEF Increasing
  <2>1. CASE k <= Len(a)
    <3>1. j \in 1 .. Len(a) /\ k \in 1 .. Len(a)
      BY <1>1, <1>2, <2>1
    <3> QED
      BY <1>5, <3>1 DEF Increasing
  <2>2. CASE j <= Len(a) /\ ~(k <= Len(a))
    <3>1. j \in 1 .. Len(a) /\ s[j] = a[j]
      BY <1>1, <1>5, <2>2
    <3>2. k - Len(a) \in 1 .. Len(b) /\ s[k] = b[k - Len(a)]
      BY <1>7, <2>2
    <3> QED
      BY <1>4, <3>1, <3>2 DEF Below
  <2>3. CASE ~(j <= Len(a)) /\ ~(k <= Len(a))
    <3>1. /\ j - Len(a) \in 1 .. Len(b) /\ s[j] = b[j - Len(a)]
          /\ k - Len(a) \in 1 .. Len(b) /\ s[k] = b[k - Len(a)]
      BY <1>7, <2>3
    <3>2. j - Len(a) < k - Len(a)
      BY <1>1, <1>2
    <3> QED
      BY <3>1, <3>2 DEF Increasing
  <2>4. j <= Len(a) \/ ~(k <= Len(a))
    BY <1>1, <1>2
  <2> QED
    BY <2>1, <2>2, <2>3, <2>4
<1>9. Elements(s) = Elements(a) \cup Elements(b)
  <2>1. ASSUME NEW j \in 1 .. Len(s) PROVE s[j] \in Elements(a) \cup Elements(b)
    <3>1. CASE j <= Len(a)
      BY <1>1, <1>2, <1>4, <1>5, <3>1
    <3>2. CASE ~(j <= Len(a))
      BY <1>4, <1>7, <3>2
    <3> QED
      BY <3>1, <3>2
  <2> QED
    BY <1>4, <1>5, <1>6, <2>1
<1> QED
  BY <1>2, <1>8, <1>9 DEF s

\* The first packet of a burst moves to the end of a ring.
LEMMA MoveOrder ==
  ASSUME NEW r \in Seq(Nat), NEW x \in Seq(Nat), x # <<>>,
         Increasing(r), Increasing(x), Below(Elements(r), Elements(x))
  PROVE  /\ Increasing(Append(r, Head(x))) /\ Increasing(Tail(x))
         /\ Below(Elements(Append(r, Head(x))), Elements(Tail(x)))
         /\ Elements(Append(r, Head(x))) = Elements(r) \cup {Head(x)}
         /\ Elements(x) = {Head(x)} \cup Elements(Tail(x))
<1>1. Len(x) \in Nat \ {0} /\ Head(x) \in Nat
  BY EmptySeq, HeadTailProperties
<1>2. Tail(x) = SubSeq(x, 2, Len(x))
  BY TailIsSubSeq
<1> DEFINE a == SubSeq(x, 1, 1)
<1>3. a \in Seq(Nat) /\ Len(a) = 1 /\ a[1] = x[1]
  <2>1. \A j \in 1 .. 1 : x[j] \in Nat
    BY <1>1, ElementOfSeq
  <2> QED
    BY <2>1, SubSeqProperties
<1>4. Head(x) = x[1]
  BY <1>1
<1>5. /\ Increasing(a) /\ Increasing(Tail(x)) /\ Below(Elements(a), Elements(Tail(x)))
      /\ Elements(a) \cup Elements(Tail(x)) = Elements(x)
  <2> DEFINE n == 1
             b == Tail(x)
  <2>1. n \in 0 .. Len(x) /\ a = SubSeq(x, 1, n) /\ b = SubSeq(x, n + 1, Len(x))
    BY <1>1, <1>2
  <2> HIDE DEF a, b, n
  <2>2. /\ Increasing(a) /\ Increasing(b) /\ Below(Elements(a), Elements(b))
        /\ Elements(a) \cup Elements(b) = Elements(x)
    BY <2>1, SplitOrder
  <2> QED
    BY <2>2 DEF b
<1>6. <<Head(x)>> \in Seq(Nat) /\ Len(<<Head(x)>>) = 1 /\ <<Head(x)>>[1] = Head(x)
  BY <1>1
<1> HIDE DEF a
<1>7. a = <<Head(x)>>
  BY <1>3, <1>4, <1>6, SeqEqual
<1>8. Elements(a) = {Head(x)}
  <2>1. Elements(a) = {a[j] : j \in 1 .. 1}
    BY <1>3, ElementsOf
  <2> QED
    BY <1>3, <1>4, <2>1
<1>9. Append(r, Head(x)) = r \o a
  BY <1>1, <1>7, AppendIsConcat
<1>10. Below(Elements(r), Elements(a))
  BY <1>5 DEF Below
<1>11. Increasing(r \o a) /\ Elements(r \o a) = Elements(r) \cup Elements(a)
  BY <1>3, <1>5, <1>10, ConcatOrder
<1>12. Below(Elements(r) \cup Elements(a), Elements(Tail(x)))
  BY <1>5 DEF Below
<1> QED
  BY <1>5, <1>8, <1>9, <1>11, <1>12

\* A burst is numbered on from the count.
LEMMA BurstOrder ==
  ASSUME NEW n \in Nat, NEW c \in Nat
  PROVE  LET s == [j \in 1 .. n |-> c + j] IN
         /\ Increasing(s) /\ Below(1 .. c, Elements(s))
         /\ 1 .. c + n = 1 .. c \cup Elements(s)
         /\ 1 .. c \cap Elements(s) = {}
<1> DEFINE s == [j \in 1 .. n |-> c + j]
<1>1. s \in Seq(Nat) /\ Len(s) = n
  BY BurstIsSequence
<1>2. \A j \in 1 .. n : s[j] = c + j
  OBVIOUS
<1> HIDE DEF s
<1>3. Elements(s) = {s[j] : j \in 1 .. n}
  BY <1>1, ElementsOf
<1>4. Elements(s) = c + 1 .. c + n
  <2>1. \A y \in c + 1 .. c + n : y - c \in 1 .. n /\ y = c + (y - c)
    OBVIOUS
  <2>2. \A y \in c + 1 .. c + n : y \in Elements(s)
    BY <1>2, <1>3, <2>1
  <2>3. \A j \in 1 .. n : c + j \in c + 1 .. c + n
    OBVIOUS
  <2>4. \A y \in Elements(s) : y \in c + 1 .. c + n
    BY <1>2, <1>3, <2>3
  <2> QED
    BY <2>2, <2>4
<1>5. Increasing(s)
  BY <1>1, <1>2 DEF Increasing
<1>6. Below(1 .. c, c + 1 .. c + n)
  BY DEF Below
<1>7. 1 .. c + n = 1 .. c \cup c + 1 .. c + n /\ 1 .. c \cap c + 1 .. c + n = {}
  OBVIOUS
<1> QED
  BY <1>4, <1>5, <1>6, <1>7 DEF s

-----------------------------------------------------------------------------
LEMMA OrderedInit == Init => Ordered
<1> SUFFICES ASSUME Init PROVE Ordered
  OBVIOUS
<1>1. <<>> \in Seq(Nat) /\ Elements(<<>>) = {} /\ Increasing(<<>>)
  BY EmptySeq, ElementsOf
<1>2. /\ Elements(wire) = {} /\ Elements(tx_pkts) = {} /\ Elements(ring_parse_to_tx) = {}
      /\ Elements(parser_pkts) = {} /\ Elements(ring_rx_to_parse) = {} /\ Elements(rx_pkts) = {}
  BY <1>1 DEF Init
<1>3. StagesIncreasing
  BY <1>1 DEF Init, StagesIncreasing
<1>4. StagesAhead
  <2>1. \A X : Below(X, {})
    BY DEF Below
  <2> QED
    BY <1>2, <2>1 DEF StagesAhead
<1>5. UpToRx = {} /\ freed = {} /\ 1 .. rx_count = {}
  BY <1>2 DEF Init, UpToRx, UpToRing1, UpToParser, UpToRing2, UpToTx
<1>6. Placed
  BY <1>5 DEF Init, Placed
<1> QED
  BY <1>3, <1>4, <1>6 DEF Ordered

\* Reception: the new packets are behind all the others.
LEMMA OrderedRxPoll == ASSUME IInv, Ordered, RxPoll PROVE Ordered'
<1>1. TypeOK /\ Room /\ StagesIncreasing /\ StagesAhead /\ Placed
  BY DEF IInv, Ordered
<1>2. PICK n \in 0 .. BURST_SIZE :
        rx_pkts' = [j \in 1 .. n |-> rx_count + j] /\ rx_count' = rx_count + n
  BY DEF RxPoll
<1>3. n \in Nat /\ rx_count \in Nat
  BY <1>1, PipelineAssumption DEF TypeOK
<1>4. /\ Increasing(rx_pkts') /\ Below(1 .. rx_count, Elements(rx_pkts'))
      /\ 1 .. rx_count' = 1 .. rx_count \cup Elements(rx_pkts')
      /\ 1 .. rx_count \cap Elements(rx_pkts') = {}
  BY <1>2, <1>3, BurstOrder
<1>5. UNCHANGED <<wire, tx_pkts, ring_parse_to_tx, parser_pkts, ring_rx_to_parse, freed,
                  parser_pc, tx_pc>>
  BY DEF RxPoll, parserVars, txVars
<1>6. rx_pkts = <<>>
  BY <1>1 DEF RxPoll, Room
<1>7. Elements(rx_pkts) = {}
  BY <1>1, <1>6, ElementsOf DEF TypeOK
<1>8. /\ UpToTx' = UpToTx /\ UpToRing2' = UpToRing2 /\ UpToParser' = UpToParser
      /\ UpToRing1' = UpToRing1 /\ UpToRx = UpToRing1
      /\ UpToRx' = UpToRing1 \cup Elements(rx_pkts')
  BY <1>5, <1>7 DEF UpToRx, UpToRing1, UpToParser, UpToRing2, UpToTx
<1>9. StagesIncreasing'
  BY <1>1, <1>4, <1>5 DEF StagesIncreasing
<1>10. Below(UpToRing1', Elements(rx_pkts'))
  BY <1>1, <1>4, <1>8 DEF Below, Placed
<1>11. StagesAhead'
  BY <1>1, <1>5, <1>8, <1>10 DEF StagesAhead
<1>12. UpToRx' \cap freed' = {} /\ UpToRx' \cup freed' = 1 .. rx_count'
  BY <1>1, <1>4, <1>5, <1>8 DEF Placed
<1>13. Placed'
  BY <1>1, <1>5, <1>12 DEF Placed
<1> QED
  BY <1>9, <1>11, <1>13 DEF Ordered

\* The enqueue of RX, which succeeds.
LEMMA OrderedRxEnqueue == ASSUME IInv, Ordered, RxEnqueue PROVE Ordered'
<1>1. TypeOK /\ Room /\ StagesIncreasing /\ StagesAhead /\ Placed
  BY DEF IInv, Ordered
<1>2. rx_pkts # <<>> /\ rx_pkts \in Seq(Nat) /\ ring_rx_to_parse \in Seq(Nat)
  BY <1>1 DEF RxEnqueue, Room, TypeOK, RingsOK
<1>3. Len(rx_pkts) \in Nat \ {0} /\ Len(ring_rx_to_parse) \in Nat /\ rx_count \in Nat
  BY <1>1, <1>2, EmptySeq, LenProperties DEF TypeOK
<1>4. Len(ring_rx_to_parse) < RX_RING_SIZE - 1
  BY <1>1, <1>3, PipelineAssumption DEF Room
<1>5. /\ ring_rx_to_parse' = Append(ring_rx_to_parse, Head(rx_pkts))
      /\ rx_pkts' = Tail(rx_pkts)
      /\ UNCHANGED <<wire, tx_pkts, ring_parse_to_tx, parser_pkts, freed, rx_count,
                     parser_pc, tx_pc>>
  BY <1>4 DEF RxEnqueue, parserVars, txVars
<1>6. Below(Elements(ring_rx_to_parse), Elements(rx_pkts))
  BY <1>1 DEF StagesAhead, UpToRing1, Below
<1>7. /\ Increasing(ring_rx_to_parse') /\ Increasing(rx_pkts')
      /\ Below(Elements(ring_rx_to_parse'), Elements(rx_pkts'))
      /\ Elements(ring_rx_to_parse') = Elements(ring_rx_to_parse) \cup {Head(rx_pkts)}
      /\ Elements(rx_pkts) = {Head(rx_pkts)} \cup Elements(rx_pkts')
  BY <1>1, <1>2, <1>5, <1>6, MoveOrder DEF StagesIncreasing
<1>8. StagesIncreasing'
  BY <1>1, <1>5, <1>7 DEF StagesIncreasing
<1>9. UpToTx' = UpToTx /\ UpToRing2' = UpToRing2 /\ UpToParser' = UpToParser
  BY <1>5 DEF UpToParser, UpToRing2, UpToTx
<1>10. UpToRing1' = UpToRing1 \cup {Head(rx_pkts)} /\ UpToRx' = UpToRx
  BY <1>7, <1>9 DEF UpToRx, UpToRing1
<1>11. Below(UpToParser', Elements(ring_rx_to_parse'))
  BY <1>1, <1>7, <1>9 DEF StagesAhead, Below, UpToRing1
<1>12. Below(UpToRing1', Elements(rx_pkts'))
  BY <1>1, <1>7, <1>10 DEF StagesAhead, Below
<1>13. StagesAhead'
  BY <1>1, <1>5, <1>9, <1>11, <1>12 DEF StagesAhead
<1>14. Placed'
  BY <1>1, <1>5, <1>10 DEF Placed
<1> QED
  BY <1>8, <1>13, <1>14 DEF Ordered

\* The parser takes the head of the first ring.
LEMMA OrderedParserDequeue == ASSUME IInv, Ordered, ParserDequeue PROVE Ordered'
<1>1. TypeOK /\ StagesIncreasing /\ StagesAhead /\ Placed
  BY DEF IInv, Ordered
<1>2. ring_rx_to_parse \in Seq(Nat) /\ Len(ring_rx_to_parse) \in Nat
  BY <1>1, LenProperties DEF TypeOK, RingsOK
<1> DEFINE n == Lesser(Len(ring_rx_to_parse), BURST_SIZE)
<1>3. n \in 0 .. Len(ring_rx_to_parse)
  BY <1>2, PipelineAssumption DEF Lesser
<1>4. /\ parser_pkts' = SubSeq(ring_rx_to_parse, 1, n)
      /\ ring_rx_to_parse' = SubSeq(ring_rx_to_parse, n + 1, Len(ring_rx_to_parse))
      /\ n = 0 => parser_pkts' = SubSeq(ring_rx_to_parse, 1, 0)
      /\ parser_pc' = IF n > 0 THEN "forward" ELSE "test"
      /\ UNCHANGED <<wire, tx_pkts, ring_parse_to_tx, rx_pkts, freed, rx_count, tx_pc>>
  BY DEF ParserDequeue, rxVars, txVars
<1> HIDE DEF n
<1>5. /\ Increasing(parser_pkts') /\ Increasing(ring_rx_to_parse')
      /\ Below(Elements(parser_pkts'), Elements(ring_rx_to_parse'))
      /\ Elements(parser_pkts') \cup Elements(ring_rx_to_parse') = Elements(ring_rx_to_parse)
  BY <1>1, <1>2, <1>3, <1>4, SplitOrder DEF StagesIncreasing
<1>6. parser_pc' # "forward" => parser_pkts' = <<>>
  BY <1>2, <1>3, <1>4, SubSeqEmpty
<1>7. Elements(parser_pkts) = {}
  BY <1>1, ElementsOf DEF Placed, TypeOK, ParserDequeue
<1>8. UpToTx' = UpToTx /\ UpToRing2' = UpToRing2 /\ UpToParser = UpToRing2
  BY <1>4, <1>7 DEF UpToTx, UpToRing2, UpToParser
<1>9. UpToRing1' = UpToRing1 /\ UpToRx' = UpToRx
  BY <1>4, <1>5, <1>8 DEF UpToRx, UpToRing1, UpToParser
<1>10. StagesIncreasing'
  BY <1>1, <1>4, <1>5 DEF StagesIncreasing
<1>11. Below(UpToRing2, Elements(ring_rx_to_parse))
  BY <1>1, <1>8 DEF StagesAhead
<1>12. Below(UpToRing2', Elements(parser_pkts'))
  BY <1>5, <1>8, <1>11 DEF Below
<1>13. Below(UpToParser', Elements(ring_rx_to_parse'))
  BY <1>5, <1>8, <1>11 DEF Below, UpToParser
<1>14. StagesAhead'
  BY <1>1, <1>4, <1>8, <1>9, <1>12, <1>13 DEF StagesAhead
<1>15. Placed'
  BY <1>1, <1>4, <1>6, <1>9 DEF Placed
<1> QED
  BY <1>10, <1>14, <1>15 DEF Ordered

\* The parser puts what fits into the second ring and frees the rest.
LEMMA OrderedParserForward == ASSUME IInv, Ordered, ParserForward PROVE Ordered'
<1>1. TypeOK /\ StagesIncreasing /\ StagesAhead /\ Placed
  BY DEF IInv, Ordered
<1>2. /\ parser_pkts \in Seq(Nat) /\ ring_parse_to_tx \in Seq(Nat)
      /\ Len(parser_pkts) \in Nat /\ Len(ring_parse_to_tx) \in Nat
  BY <1>1, LenProperties DEF TypeOK, RingsOK
<1> DEFINE n == Len(parser_pkts)
           m == Lesser(n, TX_RING_SIZE - 1 - Len(ring_parse_to_tx))
           sent == SubSeq(parser_pkts, 1, m)
           over == SubSeq(parser_pkts, m + 1, Len(parser_pkts))
<1>3. m \in 0 .. Len(parser_pkts)
  BY <1>1, <1>2, PipelineAssumption DEF Lesser, TypeOK, RingsOK
<1>4. /\ ring_parse_to_tx' = ring_parse_to_tx \o sent
      /\ freed' = freed \cup Elements(over)
      /\ parser_pkts' = <<>> /\ parser_pc' = "test"
      /\ UNCHANGED <<wire, tx_pkts, ring_rx_to_parse, rx_pkts, rx_count, tx_pc>>
  BY DEF ParserForward, rxVars, txVars
<1> HIDE DEF m
<1>5. /\ sent \in Seq(Nat) /\ Increasing(sent) /\ Below(Elements(sent), Elements(over))
      /\ Elements(sent) \cup Elements(over) = Elements(parser_pkts)
  BY <1>1, <1>2, <1>3, SplitOrder, SplitLengths DEF StagesIncreasing
<1> HIDE DEF sent, over
<1>6. Below(Elements(ring_parse_to_tx), Elements(sent))
  BY <1>1, <1>5 DEF StagesAhead, Below, UpToRing2
<1>7. /\ Increasing(ring_parse_to_tx')
      /\ Elements(ring_parse_to_tx') = Elements(ring_parse_to_tx) \cup Elements(sent)
  BY <1>1, <1>2, <1>4, <1>5, <1>6, ConcatOrder DEF StagesIncreasing
<1>8. Elements(parser_pkts') = {} /\ Increasing(parser_pkts')
  BY <1>2, <1>4, ElementsOf
<1>9. /\ UpToTx' = UpToTx /\ UpToRing2' = UpToRing2 \cup Elements(sent)
      /\ UpToParser' = UpToRing2'
  BY <1>4, <1>7, <1>8 DEF UpToTx, UpToRing2, UpToParser
<1>10. UpToParser = UpToParser' \cup Elements(over)
  BY <1>5, <1>9 DEF UpToParser
<1>11. UpToRing1 = UpToRing1' \cup Elements(over) /\ UpToRx = UpToRx' \cup Elements(over)
  BY <1>4, <1>10 DEF UpToRing1, UpToRx
<1>12. StagesIncreasing'
  BY <1>1, <1>4, <1>7, <1>8 DEF StagesIncreasing
<1>13. Below(UpToTx', Elements(ring_parse_to_tx'))
  BY <1>1, <1>5, <1>7, <1>9 DEF StagesAhead, Below, UpToRing2
<1>14. StagesAhead'
  <2>1. Below(UpToRing2', Elements(parser_pkts'))
    BY <1>8 DEF Below
  <2>2. Below(UpToParser', Elements(ring_rx_to_parse'))
    BY <1>1, <1>4, <1>10 DEF StagesAhead, Below
  <2>3. Below(UpToRing1', Elements(rx_pkts'))
    BY <1>1, <1>4, <1>11 DEF StagesAhead, Below
  <2>4. Below(Elements(wire'), Elements(tx_pkts'))
    BY <1>1, <1>4 DEF StagesAhead
  <2> QED
    BY <1>13, <2>1, <2>2, <2>3, <2>4 DEF StagesAhead
<1>15. Elements(over) \cap UpToRx' = {}
  <2>1. \A y \in Elements(over) : y \in Nat
    BY <1>2, <1>5, ElementsOf
  <2>2. Below(UpToRing2', Elements(over))
    BY <1>1, <1>5, <1>9 DEF StagesAhead, Below
  <2>3. Below(Elements(over), Elements(ring_rx_to_parse))
    BY <1>1, <1>5 DEF StagesAhead, Below, UpToParser
  <2>4. Below(Elements(over), Elements(rx_pkts))
    BY <1>1, <1>5 DEF StagesAhead, Below, UpToParser, UpToRing1
  <2>5. UpToRx' = UpToRing2' \cup Elements(ring_rx_to_parse) \cup Elements(rx_pkts)
    BY <1>4, <1>9 DEF UpToRx, UpToRing1
  <2>6. \A y \in Elements(over) : ~(y < y)
    BY <2>1
  <2> QED
    BY <2>2, <2>3, <2>4, <2>5, <2>6 DEF Below
<1>16. UpToRx' \cap freed' = {} /\ UpToRx' \cup freed' = 1 .. rx_count'
  BY <1>1, <1>4, <1>11, <1>15 DEF Placed
<1>17. Placed'
  BY <1>1, <1>4, <1>16 DEF Placed
<1> QED
  BY <1>12, <1>14, <1>17 DEF Ordered

\* TX takes the head of the second ring.
LEMMA OrderedTxDequeue == ASSUME IInv, Ordered, TxDequeue PROVE Ordered'
<1>1. TypeOK /\ StagesIncreasing /\ StagesAhead /\ Placed
  BY DEF IInv, Ordered
<1>2. ring_parse_to_tx \in Seq(Nat) /\ Len(ring_parse_to_tx) \in Nat
  BY <1>1, LenProperties DEF TypeOK, RingsOK
<1> DEFINE n == Lesser(Len(ring_parse_to_tx), BURST_SIZE)
<1>3. n \in 0 .. Len(ring_parse_to_tx)
  BY <1>2, PipelineAssumption DEF Lesser
<1>4. /\ tx_pkts' = SubSeq(ring_parse_to_tx, 1, n)
      /\ ring_parse_to_tx' = SubSeq(ring_parse_to_tx, n + 1, Len(ring_parse_to_tx))
      /\ tx_pc' = IF n > 0 THEN "send" ELSE "test"
      /\ UNCHANGED <<wire, parser_pkts, ring_rx_to_parse, rx_pkts, freed, rx_count, parser_pc>>
  BY DEF TxDequeue, rxVars, parserVars
<1> HIDE DEF n
<1>5. /\ Increasing(tx_pkts') /\ Increasing(ring_parse_to_tx')
      /\ Below(Elements(tx_pkts'), Elements(ring_parse_to_tx'))
      /\ Elements(tx_pkts') \cup Elements(ring_parse_to_tx') = Elements(ring_parse_to_tx)
  BY <1>1, <1>2, <1>3, <1>4, SplitOrder DEF StagesIncreasing
<1>6. tx_pc' # "send" => tx_pkts' = <<>>
  BY <1>2, <1>3, <1>4, SubSeqEmpty
<1>7. Elements(tx_pkts) = {}
  BY <1>1, ElementsOf DEF Placed, TypeOK, TxDequeue
<1>8. UpToTx = Elements(wire) /\ UpToTx' = Elements(wire) \cup Elements(tx_pkts')
  BY <1>4, <1>7 DEF UpToTx
<1>9. UpToRing2' = UpToRing2
  BY <1>5, <1>8 DEF UpToRing2
<1>10. UpToParser' = UpToParser /\ UpToRing1' = UpToRing1 /\ UpToRx' = UpToRx
  BY <1>4, <1>9 DEF UpToRx, UpToRing1, UpToParser
<1>11. StagesIncreasing'
  BY <1>1, <1>4, <1>5 DEF StagesIncreasing
<1>12. Below(Elements(wire), Elements(ring_parse_to_tx))
  BY <1>1, <1>8 DEF StagesAhead
<1>13. Below(Elements(wire'), Elements(tx_pkts'))
  BY <1>4, <1>5, <1>12 DEF Below
<1>14. Below(UpToTx', Elements(ring_parse_to_tx'))
  BY <1>5, <1>8, <1>12 DEF Below
<1>15. StagesAhead'
  BY <1>1, <1>4, <1>9, <1>10, <1>13, <1>14 DEF StagesAhead
<1>16. Placed'
  BY <1>1, <1>4, <1>6, <1>10 DEF Placed
<1> QED
  BY <1>11, <1>15, <1>16 DEF Ordered

\* The driver takes the first packets of TX, the others are freed.
LEMMA OrderedTxSend == ASSUME IInv, Ordered, TxSend PROVE Ordered'
<1>1. TypeOK /\ StagesIncreasing /\ StagesAhead /\ Placed
  BY DEF IInv, Ordered
<1>2. wire \in Seq(Nat) /\ tx_pkts \in Seq(Nat) /\ Len(tx_pkts) \in Nat
  BY <1>1, LenProperties DEF TypeOK
<1>3. PICK m \in 0 .. Len(tx_pkts) :
        /\ wire' = wire \o SubSeq(tx_pkts, 1, m)
        /\ freed' = freed \cup Elements(SubSeq(tx_pkts, m + 1, Len(tx_pkts)))
  BY DEF TxSend
<1> DEFINE sent == SubSeq(tx_pkts, 1, m)
           over == SubSeq(tx_pkts, m + 1, Len(tx_pkts))
<1>4. /\ wire' = wire \o sent /\ freed' = freed \cup Elements(over)
      /\ tx_pkts' = <<>> /\ tx_pc' = "test"
      /\ UNCHANGED <<ring_parse_to_tx, parser_pkts, ring_rx_to_parse, rx_pkts, rx_count, parser_pc>>
  BY <1>3 DEF TxSend, rxVars, parserVars
<1>5. /\ sent \in Seq(Nat) /\ Increasing(sent) /\ Below(Elements(sent), Elements(over))
      /\ Elements(sent) \cup Elements(over) = Elements(tx_pkts)
  BY <1>1, <1>2, <1>3, SplitOrder, SplitLengths DEF StagesIncreasing
<1> HIDE DEF sent, over
<1>6. Below(Elements(wire), Elements(sent)) /\ Below(Elements(wire), Elements(over))
  BY <1>1, <1>5 DEF StagesAhead, Below
<1>7. Increasing(wire') /\ Elements(wire') = Elements(wire) \cup Elements(sent)
  BY <1>1, <1>2, <1>4, <1>5, <1>6, ConcatOrder DEF StagesIncreasing
<1>8. Elements(tx_pkts') = {} /\ Increasing(tx_pkts')
  BY <1>2, <1>4, ElementsOf
<1>9. UpToTx' = Elements(wire) \cup Elements(sent) /\ UpToTx = UpToTx' \cup Elements(over)
  BY <1>5, <1>7, <1>8 DEF UpToTx
<1>10. UpToRing2 = UpToRing2' \cup Elements(over) /\ UpToParser = UpToParser' \cup Elements(over)
  BY <1>4, <1>9 DEF UpToRing2, UpToParser
<1>11. UpToRing1 = UpToRing1' \cup Elements(over) /\ UpToRx = UpToRx' \cup Elements(over)
  BY <1>4, <1>10 DEF UpToRing1, UpToRx
<1>12. StagesIncreasing'
  BY <1>1, <1>4, <1>7, <1>8 DEF StagesIncreasing
<1>13. StagesAhead'
  <2>1. Below(Elements(wire'), Elements(tx_pkts'))
    BY <1>8 DEF Below
  <2>2. Below(UpToTx', Elements(ring_parse_to_tx'))
    BY <1>1, <1>4, <1>9 DEF StagesAhead, Below
  <2>3. Below(UpToRing2', Elements(parser_pkts')) /\ Below(UpToParser', Elements(ring_rx_to_parse'))
    BY <1>1, <1>4, <1>10 DEF StagesAhead, Below
  <2>4. Below(UpToRing1', Elements(rx_pkts'))
    BY <1>1, <1>4, <1>11 DEF StagesAhead, Below
  <2> QED
    BY <2>1, <2>2, <2>3, <2>4 DEF StagesAhead
<1>14. Elements(over) \cap UpToRx' = {}
  <2>1. \A y \in Elements(over) : ~(y < y)
    BY <1>2, <1>5, ElementsOf
  <2>2. Below(UpToTx', Elements(over))
    BY <1>5, <1>6, <1>9 DEF Below
  <2>3. Below(Elements(over), Elements(ring_parse_to_tx))
    BY <1>1, <1>9 DEF StagesAhead, Below
  <2>4. /\ Below(Elements(over), Elements(parser_pkts))
        /\ Below(Elements(over), Elements(ring_rx_to_parse))
    BY <1>1, <1>10 DEF StagesAhead, Below
  <2>5. Below(Elements(over), Elements(rx_pkts))
    BY <1>1, <1>11 DEF StagesAhead, Below
  <2>6. UpToRx' = UpToTx' \cup Elements(ring_parse_to_tx) \cup Elements(parser_pkts)
                    \cup Elements(ring_rx_to_parse) \cup Elements(rx_pkts)
    BY <1>4 DEF UpToRx, UpToRing1, UpToParser, UpToRing2
  <2> QED
    BY <2>1, <2>2, <2>3, <2>4, <2>5, <2>6 DEF Below
<1>15. UpToRx' \cap freed' = {} /\ UpToRx' \cup freed' = 1 .. rx_count'
  BY <1>1, <1>4, <1>11, <1>14 DEF Placed
<1>16. Placed'
  BY <1>1, <1>4, <1>15 DEF Placed
<1> QED
  BY <1>12, <1>13, <1>16 DEF Ordered

LEMMA OrderedStep == ASSUME IInv, Ordered, [Next]_vars PROVE Ordered'
<1>1. CASE RxTest \/ RxCheck \/ ParserTest \/ TxTest \/ UNCHANGED vars
  <2>1. UNCHANGED <<rx_count, rx_pkts, parser_pkts, tx_pkts, wire, freed,
                    ring_rx_to_parse, ring_parse_to_tx>>
    BY <1>1 DEF RxTest, RxCheck, ParserTest, TxTest, vars, rxVars, parserVars, txVars
  <2>2. /\ parser_pc' # "forward" => parser_pc # "forward"
        /\ tx_pc' # "send" => tx_pc # "send"
    BY <1>1 DEF RxTest, RxCheck, ParserTest, TxTest, vars, rxVars, parserVars, txVars
  <2>3. UNCHANGED <<UpToTx, UpToRing2, UpToParser, UpToRing1, UpToRx>>
    BY <2>1 DEF UpToRx, UpToRing1, UpToParser, UpToRing2, UpToTx
  <2>4. StagesIncreasing' /\ StagesAhead'
    BY <2>1, <2>3 DEF Ordered, StagesIncreasing, StagesAhead
  <2>5. Placed'
    BY <2>1, <2>2, <2>3 DEF Ordered, Placed
  <2> QED
    BY <2>4, <2>5 DEF Ordered
<1> QED
  BY <1>1, OrderedRxPoll, OrderedRxEnqueue, OrderedParserDequeue, OrderedParserForward,
     OrderedTxDequeue, OrderedTxSend DEF Next, rx_loop, parser_loop, tx_loop

\* The stages in order are the whole sequence in order.
LEMMA OrderedImplies == ASSUME IInv, Ordered PROVE InOrder
<1>1. TypeOK /\ NoneLost /\ StagesIncreasing /\ StagesAhead /\ Placed
  BY DEF IInv, Ordered
<1> DEFINE s1 == wire \o tx_pkts
           s2 == s1 \o ring_parse_to_tx
           s3 == s2 \o parser_pkts
           s4 == s3 \o ring_rx_to_parse
           s5 == s4 \o rx_pkts
<1>2. InFlight = s5
  BY DEF InFlight
<1>3. s1 \in Seq(Nat) /\ Increasing(s1) /\ Elements(s1) = UpToTx
  BY <1>1, ConcatOrder DEF TypeOK, StagesIncreasing, StagesAhead, UpToTx
<1> HIDE DEF s1
<1>4. s2 \in Seq(Nat) /\ Increasing(s2) /\ Elements(s2) = UpToRing2
  BY <1>1, <1>3, ConcatOrder DEF TypeOK, RingsOK, StagesIncreasing, StagesAhead, UpToRing2
<1> HIDE DEF s2
<1>5. s3 \in Seq(Nat) /\ Increasing(s3) /\ Elements(s3) = UpToParser
  BY <1>1, <1>4, ConcatOrder DEF TypeOK, StagesIncreasing, StagesAhead, UpToParser
<1> HIDE DEF s3
<1>6. s4 \in Seq(Nat) /\ Increasing(s4) /\ Elements(s4) = UpToRing1
  BY <1>1, <1>5, ConcatOrder DEF TypeOK, RingsOK, StagesIncreasing, StagesAhead, UpToRing1
<1> HIDE DEF s4
<1>7. s5 \in Seq(Nat) /\ Increasing(s5) /\ Elements(s5) = UpToRx
  BY <1>1, <1>6, ConcatOrder DEF TypeOK, StagesIncreasing, StagesAhead, UpToRx
<1> HIDE DEF s5
<1>8. Len(s5) \in Nat
  BY <1>7, LenProperties
<1>9. \A j \in 1 .. (Len(s5) - 1) : s5[j] < s5[j + 1]
  <2> SUFFICES ASSUME NEW j \in 1 .. (Len(s5) - 1) PROVE s5[j] < s5[j + 1]
    OBVIOUS
  <2>1. j \in 1 .. Len(s5) /\ j + 1 \in 1 .. Len(s5) /\ j < j + 1
    BY <1>8
  <2> QED
    BY <1>7, <2>1 DEF Increasing
<1>10. UpToRx \cap freed = {} /\ UpToRx \cup freed \cup lost = 1 .. rx_count
  BY <1>1 DEF Placed, NoneLost
<1> QED
  BY <1>2, <1>7, <1>9, <1>10 DEF InOrder

\* No packet overtakes another on its way through the three lcores and the two
\* rings, and each one received is in one place or was freed once.
THEOREM KeepsOrder == Spec => []InOrder
<1>1. Init => IInv /\ Ordered
  BY InitHolds, OrderedInit
<1>2. (IInv /\ Ordered) /\ [Next]_vars => (IInv /\ Ordered)'
  BY StepHolds, OrderedStep
<1>3. IInv /\ Ordered => InOrder
  BY OrderedImplies
<1> QED
  BY <1>1, <1>2, <1>3, PTL DEF Spec

=============================================================================
