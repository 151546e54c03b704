-------------------------- MODULE ThreadedPipeline --------------------------
(***************************************************************************)
(* thread_parsing/threaded_project (and nic_stats/sample, the same without *)
(* the parsing): three lcores, RX -> ring_rx_to_parse -> parser ->         *)
(* ring_parse_to_tx -> TX, that stop when RX has seen Limit packets.       *)
(*                                                                         *)
(* A packet is its number in order of reception.  The rings are single     *)
(* producer, single consumer FIFOs; a call on a ring is atomic.            *)
(***************************************************************************)
EXTENDS Integers, Sequences

CONSTANTS
  RX_RING_SIZE, TX_RING_SIZE,   \* an rte_ring holds one object less
  BURST_SIZE,
  Limit                         \* RX stops at this count (10 in rx.c)

ASSUME PipelineAssumption ==
  /\ RX_RING_SIZE \in Nat \ {0} /\ TX_RING_SIZE \in Nat \ {0}
  /\ BURST_SIZE \in Nat \ {0} /\ Limit \in Nat \ {0}
  /\ Limit - 1 + BURST_SIZE <= RX_RING_SIZE - 1    \* 9 + 32 <= 1023

VARIABLES
  force_quit,
  rx_pc, parser_pc, tx_pc,           \* "test", "poll", ..., "done"
  rx_count, parser_count, tx_count,
  rx_pkts, parser_pkts, tx_pkts,     \* the local arrays pkts
  ring_rx_to_parse, ring_parse_to_tx,
  wire,                              \* packets sent, in order
  freed,                             \* packets freed without being sent
  lost                               \* packets a failed enqueue has leaked

rxVars == <<rx_pc, rx_count, rx_pkts, lost>>
parserVars == <<parser_pc, parser_count, parser_pkts>>
txVars == <<tx_pc, tx_count, tx_pkts, wire>>
vars == <<force_quit, rxVars, parserVars, txVars, ring_rx_to_parse, ring_parse_to_tx, freed>>

Elements(s) == {s[j] : j \in DOMAIN s}
Lesser(m, n) == IF m < n THEN m ELSE n

Init ==
  /\ force_quit = FALSE
  /\ rx_pc = "test" /\ parser_pc = "test" /\ tx_pc = "test"
  /\ rx_count = 0 /\ parser_count = 0 /\ tx_count = 0
  /\ rx_pkts = <<>> /\ parser_pkts = <<>> /\ tx_pkts = <<>>
  /\ ring_rx_to_parse = <<>> /\ ring_parse_to_tx = <<>>
  /\ wire = <<>> /\ freed = {} /\ lost = {}

-----------------------------------------------------------------------------
(* rx_loop                                                                 *)

RxTest ==
  /\ rx_pc = "test"
  /\ rx_pc' = IF force_quit THEN "done" ELSE "poll"
  /\ UNCHANGED <<force_quit, rx_count, rx_pkts, lost, parserVars, txVars,
                 ring_rx_to_parse, ring_parse_to_tx, freed>>

\* rte_eth_rx_burst and the count.
RxPoll ==
  /\ rx_pc = "poll"
  /\ \E n \in 0 .. BURST_SIZE :
       /\ rx_pkts' = [j \in 1 .. n |-> rx_count + j]
       /\ rx_count' = rx_count + n
       /\ rx_pc' = IF n > 0 THEN "enqueue" ELSE "check"
  /\ UNCHANGED <<force_quit, lost, parserVars, txVars, ring_rx_to_parse,
                 ring_parse_to_tx, freed>>

\* One rte_ring_enqueue; its result is ignored.
RxEnqueue ==
  /\ rx_pc = "enqueue"
  /\ IF Len(ring_rx_to_parse) < RX_RING_SIZE - 1
     THEN ring_rx_to_parse' = Append(ring_rx_to_parse, Head(rx_pkts)) /\ lost' = lost
     ELSE ring_rx_to_parse' = ring_rx_to_parse /\ lost' = lost \cup {Head(rx_pkts)}
  /\ rx_pkts' = Tail(rx_pkts)
  /\ rx_pc' = IF Len(rx_pkts) = 1 THEN "check" ELSE "enqueue"
  /\ UNCHANGED <<force_quit, rx_count, parserVars, txVars, ring_parse_to_tx, freed>>

\* Faulty variants of RxCheck: the limit never stops RX; RX goes on after
\* the limit once more.
RxCheck_NoQuit ==
  /\ rx_pc = "check"
  /\ IF rx_count >= Limit THEN rx_pc' = "done" ELSE rx_pc' = "test"
  /\ UNCHANGED <<force_quit, rx_count, rx_pkts, lost, parserVars, txVars,
                 ring_rx_to_parse, ring_parse_to_tx, freed>>
RxCheck_Late ==
  /\ rx_pc = "check"
  /\ IF rx_count > Limit
     THEN rx_pc' = "done" /\ force_quit' = TRUE
     ELSE rx_pc' = "test" /\ force_quit' = force_quit
  /\ UNCHANGED <<rx_count, rx_pkts, lost, parserVars, txVars, ring_rx_to_parse,
                 ring_parse_to_tx, freed>>

\* The limit: RX stops everyone and leaves the loop.
RxCheck ==
  /\ rx_pc = "check"
  /\ IF rx_count >= Limit
     THEN rx_pc' = "done" /\ force_quit' = TRUE
     ELSE rx_pc' = "test" /\ force_quit' = force_quit
  /\ UNCHANGED <<rx_count, rx_pkts, lost, parserVars, txVars, ring_rx_to_parse,
                 ring_parse_to_tx, freed>>

rx_loop == RxTest \/ RxPoll \/ RxEnqueue \/ RxCheck

-----------------------------------------------------------------------------
(* parser_loop                                                             *)

ParserTest ==
  /\ parser_pc = "test"
  /\ parser_pc' = IF force_quit THEN "done" ELSE "dequeue"
  /\ UNCHANGED <<force_quit, parser_count, parser_pkts, rxVars, txVars,
                 ring_rx_to_parse, ring_parse_to_tx, freed>>

\* Faulty variant of ParserDequeue: = instead of += in the count.
ParserDequeue_Assign ==
  /\ parser_pc = "dequeue"
  /\ LET n == Lesser(Len(ring_rx_to_parse), BURST_SIZE)
     IN  /\ parser_pkts' = SubSeq(ring_rx_to_parse, 1, n)
         /\ ring_rx_to_parse' = SubSeq(ring_rx_to_parse, n + 1, Len(ring_rx_to_parse))
         /\ parser_count' = n
         /\ parser_pc' = IF n > 0 THEN "forward" ELSE "test"
  /\ UNCHANGED <<force_quit, rxVars, txVars, ring_parse_to_tx, freed>>

\* rte_ring_dequeue_burst and the count; parse_packet only prints.
ParserDequeue ==
  /\ parser_pc = "dequeue"
  /\ LET n == Lesser(Len(ring_rx_to_parse), BURST_SIZE)
     IN  /\ parser_pkts' = SubSeq(ring_rx_to_parse, 1, n)
         /\ ring_rx_to_parse' = SubSeq(ring_rx_to_parse, n + 1, Len(ring_rx_to_parse))
         /\ parser_count' = parser_count + n
         /\ parser_pc' = IF n > 0 THEN "forward" ELSE "test"
  /\ UNCHANGED <<force_quit, rxVars, txVars, ring_parse_to_tx, freed>>

\* Faulty variant of ParserForward: what does not fit is not freed.
ParserForward_NoFree ==
  /\ parser_pc = "forward"
  /\ LET n == Len(parser_pkts)
         m == Lesser(n, TX_RING_SIZE - 1 - Len(ring_parse_to_tx))
     IN  ring_parse_to_tx' = ring_parse_to_tx \o SubSeq(parser_pkts, 1, m)
  /\ parser_pkts' = <<>>
  /\ parser_pc' = "test"
  /\ UNCHANGED <<force_quit, parser_count, rxVars, txVars, ring_rx_to_parse, freed>>

\* rte_ring_enqueue_burst takes the m packets that fit; the rest is freed.
ParserForward ==
  /\ parser_pc = "forward"
  /\ LET n == Len(parser_pkts)
         m == Lesser(n, TX_RING_SIZE - 1 - Len(ring_parse_to_tx))
     IN  /\ ring_parse_to_tx' = ring_parse_to_tx \o SubSeq(parser_pkts, 1, m)
         /\ freed' = freed \cup Elements(SubSeq(parser_pkts, m + 1, n))
  /\ parser_pkts' = <<>>
  /\ parser_pc' = "test"
  /\ UNCHANGED <<force_quit, parser_count, rxVars, txVars, ring_rx_to_parse>>

parser_loop == ParserTest \/ ParserDequeue \/ ParserForward

-----------------------------------------------------------------------------
(* tx_loop                                                                 *)

TxTest ==
  /\ tx_pc = "test"
  /\ tx_pc' = IF force_quit THEN "done" ELSE "dequeue"
  /\ UNCHANGED <<force_quit, tx_count, tx_pkts, wire, rxVars, parserVars,
                 ring_rx_to_parse, ring_parse_to_tx, freed>>

\* rte_ring_dequeue_burst and the count.
TxDequeue ==
  /\ tx_pc = "dequeue"
  /\ LET n == Lesser(Len(ring_parse_to_tx), BURST_SIZE)
     IN  /\ tx_pkts' = SubSeq(ring_parse_to_tx, 1, n)
         /\ ring_parse_to_tx' = SubSeq(ring_parse_to_tx, n + 1, Len(ring_parse_to_tx))
         /\ tx_count' = tx_count + n
         /\ tx_pc' = IF n > 0 THEN "send" ELSE "test"
  /\ UNCHANGED <<force_quit, wire, rxVars, parserVars, ring_rx_to_parse, freed>>

\* rte_eth_tx_burst takes the first sent packets; the rest is freed.
TxSend ==
  /\ tx_pc = "send"
  /\ \E sent \in 0 .. Len(tx_pkts) :
       /\ wire' = wire \o SubSeq(tx_pkts, 1, sent)
       /\ freed' = freed \cup Elements(SubSeq(tx_pkts, sent + 1, Len(tx_pkts)))
  /\ tx_pkts' = <<>>
  /\ tx_pc' = "test"
  /\ UNCHANGED <<force_quit, tx_count, rxVars, parserVars, ring_rx_to_parse, ring_parse_to_tx>>

tx_loop == TxTest \/ TxDequeue \/ TxSend

Next == rx_loop \/ parser_loop \/ tx_loop

\* Each loop has an lcore of its own.
Spec == /\ Init /\ [][Next]_vars
        /\ WF_vars(rx_loop) /\ WF_vars(parser_loop) /\ WF_vars(tx_loop)

-----------------------------------------------------------------------------
RingsOK ==
  /\ ring_rx_to_parse \in Seq(Nat) /\ Len(ring_rx_to_parse) <= RX_RING_SIZE - 1
  /\ ring_parse_to_tx \in Seq(Nat) /\ Len(ring_parse_to_tx) <= TX_RING_SIZE - 1

\* Counts, local arrays and rings have their types; no ring holds more than
\* it can.
TypeOK ==
  /\ force_quit \in BOOLEAN
  /\ rx_pc \in {"test", "poll", "enqueue", "check", "done"}
  /\ parser_pc \in {"test", "dequeue", "forward", "done"}
  /\ tx_pc \in {"test", "dequeue", "send", "done"}
  /\ rx_count \in Nat /\ parser_count \in Nat /\ tx_count \in Nat
  /\ rx_pkts \in Seq(Nat) /\ parser_pkts \in Seq(Nat) /\ tx_pkts \in Seq(Nat)
  /\ RingsOK
  /\ wire \in Seq(Nat)

\* The enqueue of rx_loop, whose result is ignored, never fails: the limit
\* stops RX before the ring can fill, even if the parser never runs.
NoneLost == lost = {}

\* Packets between reception and the wire.
InFlight == wire \o tx_pkts \o ring_parse_to_tx \o parser_pkts \o ring_rx_to_parse \o rx_pkts

\* No packet overtakes another, none is duplicated, and each one received is
\* on its way, sent, or freed exactly once.
InOrder ==
  /\ \A j \in 1 .. (Len(InFlight) - 1) : InFlight[j] < InFlight[j + 1]
  /\ Elements(InFlight) \cap freed = {}
  /\ Elements(InFlight) \cup freed \cup lost = 1 .. rx_count

AllDone == rx_pc = "done" /\ parser_pc = "done" /\ tx_pc = "done"

\* The totals main prints: what the parser has not counted is still in the
\* first ring, exactly; what TX has not counted is at least what is left in the
\* second ring, and more by what the parser dropped.
TotalsExplained ==
  AllDone => /\ rx_count - parser_count = Len(ring_rx_to_parse)
             /\ parser_count - tx_count >= Len(ring_parse_to_tx)

\* When RX stops, everyone stops, and rte_eal_mp_wait_lcore returns.
QuitStopsAll == (rx_pc = "done") ~> AllDone

=============================================================================
