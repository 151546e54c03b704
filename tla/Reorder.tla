------------------------------ MODULE Reorder ------------------------------
(***************************************************************************)
(* The reordering programs.  A behaviour runs one of                       *)
(*   rx_burst, rx_burst2  main.c and main2.c: packets are numbered as they *)
(*                        come, put into the reorder buffer and drained    *)
(*   sample               eight packets in a given order                   *)
(*   dynamic_seqno        the first ten packets are numbered; no buffer    *)
(* Numbers are unsigned and wrap at SeqLimit.  A packet is its number and  *)
(* its place in the burst.                                                 *)
(***************************************************************************)
EXTENDS Integers, Sequences, SequencesExt

CONSTANTS
  Window, Burst,     \* WINDOW and BURST of rx_burst and sample
  Window2, Burst2,   \* WINDOW_SIZE and BURST_SIZE of rx_burst2
  SeqLimit,          \* numbers of a sequence counter (2^32)
  SeqList,           \* the numbers of sample, in the order of insertion
  Stamped            \* packets that dynamic_seqno numbers (10)

VARIABLES
  program,
  pc,                        \* "rx", "insert" (and drain) or "done"
  seq_counter,               \* seq_counter or seq
  batch,                     \* packets still to be inserted
  initialized, min_seqn,     \* the reorder buffer: the number at its head,
  order, ready,              \* the packets in its window, and those pushed out of it
  sent, out, refused         \* of this burst: received; drained and freed; not inserted

bufVars == <<initialized, min_seqn, order, ready>>
vars == <<program, pc, seq_counter, batch, bufVars, sent, out, refused>>

Programs == {"rx_burst", "rx_burst2", "sample", "dynamic_seqno"}
Size == IF program = "rx_burst2" THEN Window2 ELSE Window
BurstOf == IF program = "rx_burst2" THEN Burst2 ELSE Burst

\* The packets of sample are allocated before the first is inserted.
sample_packets == [k \in DOMAIN SeqList |-> [seq |-> SeqList[k], place |-> k]]

Init ==
  /\ program \in Programs
  /\ pc = (IF program = "sample" THEN "insert" ELSE "rx")
  /\ batch = (IF program = "sample" THEN sample_packets ELSE <<>>)
  /\ seq_counter = 0
  /\ initialized = FALSE /\ min_seqn = 0 /\ order = {} /\ ready = <<>>
  /\ sent = batch /\ out = <<>> /\ refused = {}

-----------------------------------------------------------------------------
(* The reorder buffer of the library                                       *)

\* The packets that stand at the head without a gap, at most n of them.
Run(b, n) ==
  LET at(k) == {p \in b.order : p.seq = (b.min_seqn + k - 1) % SeqLimit}
      has == {k \in 0 .. n : \A j \in 1 .. k : at(j) # {}}
      len == CHOOSE k \in has : \A j \in has : j <= k
  IN  [k \in 1 .. len |-> CHOOSE p \in at(k) : TRUE]

Buffer == [initialized |-> initialized, min_seqn |-> min_seqn, order |-> order, ready |-> ready]
Becomes(b) ==
  /\ initialized' = b.initialized /\ min_seqn' = b.min_seqn
  /\ order' = b.order /\ ready' = b.ready

\* The head moves n places on; what stood there becomes ready, gaps are skipped.
Shift(b, n) ==
  LET out_of(k) == {p \in b.order : p.seq = (b.min_seqn + k - 1) % SeqLimit}
      gone == UNION {out_of(k) : k \in 1 .. n}
      take(s, k) == IF out_of(k) = {} THEN s ELSE Append(s, CHOOSE p \in out_of(k) : TRUE)
  IN  [b EXCEPT !.min_seqn = (@ + n) % SeqLimit, !.order = @ \ gone,
                !.ready = FoldLeft(take, @, [k \in 1 .. n |-> k])]

\* The first packet sets the head.  One beyond the window moves it, one beyond
\* twice the window, or for which the ready packets leave no room, is refused.
Insert(p) ==
  LET b == IF initialized THEN Buffer
           ELSE [Buffer EXCEPT !.initialized = TRUE, !.min_seqn = p.seq]
      offset == (p.seq - b.min_seqn) % SeqLimit
      moved == Shift(b, offset + 1 - Size)
  IN  CASE offset < Size -> [taken |-> TRUE, buf |-> [b EXCEPT !.order = @ \cup {p}]]
        [] offset >= Size /\ offset < 2 * Size /\ Len(moved.ready) < Size ->
             [taken |-> TRUE, buf |-> [moved EXCEPT !.order = @ \cup {p}]]
        [] OTHER -> [taken |-> FALSE, buf |-> b]

\* Ready packets come first, then those at the head.
Drain(n) ==
  LET first == SubSeq(ready, 1, IF n < Len(ready) THEN n ELSE Len(ready))
      then == Run(Buffer, n - Len(first))
  IN  [pkts |-> first \o then,
       buf |-> [Buffer EXCEPT !.ready = SubSeq(@, Len(first) + 1, Len(@)),
                              !.order = @ \ ToSet(then),
                              !.min_seqn = (@ + Len(then)) % SeqLimit]]

-----------------------------------------------------------------------------
(* The programs                                                            *)

\* A burst; an empty one is passed over.  The numbers are given one by one as
\* the packets are inserted: seq_counter++.
Rx ==
  /\ pc = "rx" /\ program # "dynamic_seqno"
  /\ \E n \in 1 .. BurstOf :
       /\ batch' = [k \in 1 .. n |-> [seq |-> (seq_counter + k - 1) % SeqLimit, place |-> k]]
       /\ seq_counter' = (seq_counter + n) % SeqLimit
  /\ sent' = batch' /\ out' = <<>> /\ refused' = {}
  /\ pc' = "insert"
  /\ UNCHANGED <<program, bufVars>>

\* A packet that is refused is freed; sample does not look at the result.
InsertNext ==
  /\ pc = "insert" /\ batch # <<>>
  /\ LET r == Insert(Head(batch))
     IN  /\ Becomes(r.buf)
         /\ refused' = IF r.taken THEN refused ELSE refused \cup {Head(batch)}
  /\ batch' = Tail(batch)
  /\ UNCHANGED <<program, pc, seq_counter, sent, out>>

\* Faulty variant of DrainBuffer: one place of the array is kept free.
DrainBuffer_Short ==
  /\ pc = "insert" /\ batch = <<>>
  /\ out' = Drain(BurstOf - 1).pkts
  /\ Becomes(Drain(BurstOf - 1).buf)
  /\ pc' = IF program = "sample" THEN "done" ELSE "rx"
  /\ UNCHANGED <<program, seq_counter, batch, sent, refused>>

\* One drain of a burst; what it returns is freed.  sample ends.
DrainBuffer ==
  /\ pc = "insert" /\ batch = <<>>
  /\ out' = Drain(BurstOf).pkts
  /\ Becomes(Drain(BurstOf).buf)
  /\ pc' = IF program = "sample" THEN "done" ELSE "rx"
  /\ UNCHANGED <<program, seq_counter, batch, sent, refused>>

rx_burst_main == program = "rx_burst" /\ (Rx \/ InsertNext \/ DrainBuffer)
rx_reorder_loop == program = "rx_burst2" /\ (Rx \/ InsertNext \/ DrainBuffer)
sample_main == program = "sample" /\ (InsertNext \/ DrainBuffer)

\* dynamic_seqno: the packets of a burst are numbered while numbers are left, and
\* all are freed; the test comes after the burst.
lcore_main_loop ==
  /\ program = "dynamic_seqno" /\ pc = "rx"
  /\ \E n \in 1 .. Burst :
       LET stamps == IF n < Stamped - seq_counter THEN n ELSE Stamped - seq_counter
       IN  /\ sent' = sent \o [k \in 1 .. stamps |-> seq_counter + k - 1]
           /\ seq_counter' = seq_counter + stamps
  /\ pc' = IF seq_counter' >= Stamped THEN "done" ELSE "rx"
  /\ UNCHANGED <<program, batch, bufVars, out, refused>>

Next == rx_burst_main \/ rx_reorder_loop \/ sample_main \/ lcore_main_loop

-----------------------------------------------------------------------------
\* Between bursts the buffer is empty: what a burst brought has been drained in
\* the order of its numbers and freed, and nothing was refused, also where the
\* counter wraps and whatever the size of the bursts.  sample sorts its list, and
\* dynamic_seqno has given each of its numbers once when it ends.
DrainedInOrder ==
  /\ pc \in {"rx", "done"} /\ program # "dynamic_seqno" =>
       /\ order = {} /\ ready = <<>> /\ refused = {}
       /\ ToSet(out) = ToSet(sent) /\ Len(out) = Len(sent)
       /\ \A j \in 2 .. Len(out) : out[j].seq = (out[j - 1].seq + 1) % SeqLimit
  /\ program = "dynamic_seqno" /\ pc = "done" => sent = [k \in 1 .. Stamped |-> k - 1]

=============================================================================
