---------------------------- MODULE EventProofs -----------------------------
(***************************************************************************)
(* Proofs about MCEvents, for any number of events and mbufs, any          *)
(* threshold, window and burst.                                            *)
(*                                                                         *)
(* Reorder: the packets of a burst have consecutive numbers, modulo the    *)
(* limit of the counter, in any order.  ReorderInv says which of them are  *)
(* in the buffer, so that the drain, once the last is in, finds no gap     *)
(* before it and takes them all.                                           *)
(*                                                                         *)
(* EventDev: EventInv follows the events through the places where they     *)
(* wait.  Those of a flow are in the order of their data in a queue, at a  *)
(* port and among the received, and in this order between the places; as   *)
(* a flow is at one port at a time (OnePort), what one port gives cannot   *)
(* overtake what waits at another.  Mbufs are in one place each.           *)
(***************************************************************************)
EXTENDS MCEvents, FiniteSetTheorems, SequenceTheorems, TLAPS

-----------------------------------------------------------------------------
(* Sequence numbers.                                                       *)

\* The number k places after a.
Wrap(a, k) == (a + k) % SeqLimit

Numbers == 0 .. (SeqLimit - 1)

\* Within one round of the counter, a number is told from its distance.
LEMMA Wraps ==
  ASSUME NEW a \in Numbers, NEW k \in 0 .. SeqLimit
  PROVE  /\ Wrap(a, k) = (IF a + k < SeqLimit THEN a + k ELSE (a + k) - SeqLimit)
         /\ Wrap(a, k) \in Numbers
         /\ k < SeqLimit => (Wrap(a, k) - a) % SeqLimit = k
         /\ Wrap(Wrap(a, k), 1) = Wrap(a, k + 1)
<1>1. PICK L \in Nat \ {0} : L = SeqLimit
  BY ReorderAssumption
<1>2. \A x \in Int : (0 <= x /\ x < L => x % L = x) 
  BY <1>1
<1>2a. \A x \in Int : (L <= x /\ x < 2 * L => x % L = x - L)
  BY <1>1
<1>2b. \A x \in Int : (0 - L <= x /\ x < 0 => x % L = x + L)
  BY <1>1
<1>3. a \in Int /\ 0 <= a /\ a < L /\ k \in Int /\ 0 <= k /\ k <= L
  BY <1>1 DEF Numbers
<1>4. Wrap(a, k) = IF a + k < L THEN a + k ELSE (a + k) - L
  <2>1. CASE a + k < L
    BY <1>1, <1>2, <1>3, <2>1 DEF Wrap
  <2>2. CASE L <= a + k
    BY <1>1, <1>2a, <1>3, <2>2 DEF Wrap
  <2> QED
    BY <1>3, <2>1, <2>2
<1>5. Wrap(a, k) \in Numbers
  BY <1>1, <1>3, <1>4 DEF Numbers
<1>6. k < SeqLimit => (Wrap(a, k) - a) % SeqLimit = k
  <2>1. CASE a + k < L
    BY <1>1, <1>2, <1>3, <1>4, <2>1
  <2>2. CASE L <= a + k
    BY <1>1, <1>2b, <1>3, <1>4, <2>2
  <2> QED
    BY <1>3, <2>1, <2>2
<1>7. Wrap(Wrap(a, k), 1) = Wrap(a, k + 1)
  BY <1>1, <1>2, <1>2a, <1>3, <1>4 DEF Wrap
<1> QED
  BY <1>1, <1>4, <1>5, <1>6, <1>7
-----------------------------------------------------------------------------
(* Reorder.  The packets of a burst have the numbers from base on, in some *)
(* order; those inserted so far are in the buffer, whose head is at base.  *)

Stamp == [seq : Numbers, place : Nat]

BurstProgram == program2 \in {"rx_burst", "rx_burst2"}

Consecutive(s, base) ==
  LET n == Len(s)
  IN  /\ base \in Numbers
      /\ \A k \in 1 .. n : \E j \in 0 .. (n - 1) : s[k].seq = Wrap(base, j)
      /\ \A j \in 0 .. (n - 1) : \E k \in 1 .. n : s[k].seq = Wrap(base, j)
      /\ \A k, l \in 1 .. n : s[k].seq = s[l].seq => k = l

Inserted(m) == {sent[k] : k \in 1 .. m}

\* m packets of the burst have been inserted.
Inserting(m) ==
  /\ batch = SubSeq(sent, m + 1, Len(sent))
  /\ order = Inserted(m) /\ ready = <<>> /\ refused = {}
  /\ m > 0 => initialized
  /\ BurstProgram \/ initialized => Consecutive(sent, min_seqn)
  /\ Consecutive(sent, sent[1].seq)
  /\ BurstProgram => sent[1].seq = min_seqn
  /\ initialized => sent[1].seq = min_seqn
  /\ BurstProgram => seq_counter = Wrap(min_seqn, Len(sent))

InBuffer ==
  pc2 = "insert" =>
    /\ sent \in Seq(Stamp) /\ Len(sent) \in 1 .. R!BurstOf
    /\ \E m \in 0 .. Len(sent) : Inserting(m)

\* Between bursts the head is at the next number to be given.
BetweenBursts ==
  pc2 \in {"rx", "done"} /\ program2 # "dynamic_seqno" =>
    /\ R!DrainedInOrder /\ batch = <<>>
    /\ BurstProgram => seq_counter = min_seqn /\ pc2 = "rx"

Stamping ==
  program2 = "dynamic_seqno" =>
    /\ pc2 \in {"rx", "done"} /\ seq_counter \in 0 .. Stamped
    /\ sent = [k \in 1 .. seq_counter |-> k - 1]
    /\ pc2 = "done" => seq_counter = Stamped

ReorderInv ==
  /\ initialized \in BOOLEAN
  /\ program2 \in R!Programs /\ pc2 \in {"rx", "insert", "done"}
  /\ program2 # "dynamic_seqno" => min_seqn \in Numbers
  /\ program2 = "sample" => pc2 # "rx"
  /\ InBuffer /\ BetweenBursts /\ Stamping

\* Bursts are no longer than the window and shorter than a round of the counter.
LEMMA BurstFits ==
  ASSUME program2 \in R!Programs
  PROVE  /\ R!BurstOf \in Nat /\ R!Size \in Nat /\ SeqLimit \in Nat
         /\ R!BurstOf >= 1 /\ R!BurstOf <= R!Size /\ R!Size < SeqLimit
BY ReorderAssumption DEF R!BurstOf, R!Size

LEMMA ReorderInit == R!Init => ReorderInv
<1> SUFFICES ASSUME R!Init PROVE ReorderInv
  OBVIOUS
<1>1. /\ program2 \in R!Programs /\ pc2 = IF program2 = "sample" THEN "insert" ELSE "rx"
      /\ batch = IF program2 = "sample" THEN R!sample_packets ELSE <<>>
      /\ seq_counter = 0 /\ initialized = FALSE /\ min_seqn = 0 /\ order = {} /\ ready = <<>>
      /\ sent = batch /\ out = <<>> /\ refused = {}
  BY DEF R!Init
<1>2. 0 \in Numbers
  BY ReorderAssumption DEF Numbers
<1>3. DOMAIN <<>> = {} /\ Len(<<>>) = 0
  OBVIOUS
<1>4. CASE program2 = "sample"
  <2>1. PICK n \in Nat : n = Len(SeqList) /\ DOMAIN SeqList = 1 .. n /\ n >= 1 /\ n <= Burst
    BY ReorderAssumption
  <2>2. sent = [k \in 1 .. n |-> [seq |-> SeqList[k], place |-> k]]
    BY <1>1, <1>4, <2>1 DEF R!sample_packets
  <2>3. \A k \in 1 .. n : SeqList[k] \in Numbers
    BY ReorderAssumption, <2>1 DEF Numbers
  <2>4. sent \in Seq(Stamp) /\ Len(sent) = n
    <3>1. \A k \in 1 .. n : [seq |-> SeqList[k], place |-> k] \in Stamp
      BY <2>3 DEF Stamp
    <3>2. sent \in [1 .. n -> Stamp]
      BY <2>2, <3>1
    <3>3. sent \in Seq(Stamp) /\ Len(sent) = n
      BY <2>1, <3>2
    <3> QED
      BY <3>3
  <2>5. \A k \in 1 .. n : sent[k].seq = SeqList[k]
    BY <2>2
  <2>6. PICK a \in Numbers : a = SeqList[1] /\ a = sent[1].seq
    BY <2>1, <2>3, <2>5
  <2>6a. SeqLimit \in Nat /\ Burst < SeqLimit /\ Burst \in Nat /\ a \in Nat
    BY ReorderAssumption DEF Numbers
  <2>7. \A j \in 0 .. (n - 1) : j \in 0 .. SeqLimit /\ (a + j < SeqLimit => Wrap(a, j) = a + j)
    BY <2>1, <2>6a, Wraps
  <2>8. \A k \in 1 .. n : SeqList[k] >= a /\ SeqList[k] <= a + n - 1 /\ SeqList[k] \in Nat /\ SeqList[k] < SeqLimit
    BY ReorderAssumption, <2>1, <2>3, <2>6, <2>6a DEF Numbers
  <2>9. \A j \in 0 .. (n - 1) : \E k \in 1 .. n : SeqList[k] = a + j
    <3> SUFFICES ASSUME NEW j \in 0 .. (n - 1) PROVE \E k \in 1 .. n : SeqList[k] = a + j
      OBVIOUS
    <3>1. a + j \in a .. (a + n - 1)
      BY <2>1, <2>6a
    <3> QED
      BY ReorderAssumption, <2>1, <2>6, <3>1
  <2>10. \A j \in 0 .. (n - 1) : a + j < SeqLimit
    BY <2>8, <2>9
  <2>11. \A k \in 1 .. n : \E j \in 0 .. (n - 1) : sent[k].seq = Wrap(a, j)
    <3> SUFFICES ASSUME NEW k \in 1 .. n PROVE \E j \in 0 .. (n - 1) : sent[k].seq = Wrap(a, j)
      OBVIOUS
    <3>1. SeqList[k] - a \in 0 .. (n - 1) /\ a + (SeqList[k] - a) = SeqList[k]
      BY <2>8, <2>6a, <2>1
    <3> QED
      BY <2>5, <2>7, <2>10, <3>1
  <2>12. \A j \in 0 .. (n - 1) : \E k \in 1 .. n : sent[k].seq = Wrap(a, j)
    BY <2>5, <2>7, <2>9, <2>10
  <2>13. \A k, l \in 1 .. n : sent[k].seq = sent[l].seq => k = l
    BY ReorderAssumption, <2>1, <2>5
  <2>14. Consecutive(sent, a)
    BY <2>4, <2>11, <2>12, <2>13 DEF Consecutive
  <2>15. Inserting(0)
    <3>1. SubSeq(sent, 0 + 1, Len(sent)) = sent
      BY <2>4
    <3>2. Inserted(0) = {}
      BY DEF Inserted
    <3> QED
      BY <1>1, <1>4, <2>6, <2>14, <3>1, <3>2 DEF Inserting, BurstProgram
  <2>16. R!BurstOf = Burst
    BY <1>4 DEF R!BurstOf
  <2>17. initialized \in BOOLEAN
    BY <1>1, Zenon
  <2>18. InBuffer
    BY <2>1, <2>4, <2>15, <2>16 DEF InBuffer
  <2> QED
    BY <1>1, <1>2, <1>4, <2>17, <2>18 DEF ReorderInv, InBuffer, BetweenBursts, Stamping
<1>5. CASE program2 # "sample"
  <2>1. R!ToSet(<<>>) = {}
    BY DEF R!ToSet
  <2>2. R!DrainedInOrder
    BY <1>1, <1>3, <1>5 DEF R!DrainedInOrder
  <2>3. Stamping
    <3>1. <<>> = [k \in 1 .. 0 |-> k - 1]
      OBVIOUS
    <3> QED
      BY <1>1, <1>5, <3>1, ReorderAssumption DEF Stamping
  <2> QED
    BY <1>1, <1>2, <1>5, <2>2, <2>3 DEF ReorderInv, InBuffer, BetweenBursts, BurstProgram
<1> QED
  BY <1>4, <1>5

\* What is left of a sequence, without its head.
LEMMA TailOfRest ==
  ASSUME NEW S, NEW s \in Seq(S), NEW m \in Nat, m < Len(s)
  PROVE  /\ SubSeq(s, m + 1, Len(s)) # <<>>
         /\ Head(SubSeq(s, m + 1, Len(s))) = s[m + 1]
         /\ Tail(SubSeq(s, m + 1, Len(s))) = SubSeq(s, (m + 1) + 1, Len(s))
<1>1. PICK n \in Nat : n = Len(s)
  BY LenProperties
<1>2. Len(SubSeq(s, m + 1, n)) = n - m
  BY <1>1, SubSeqProperties
<1>3. m + 1 \in 1 .. n /\ n \in (m + 1) .. n
  BY <1>1
<1>4. /\ Head(SubSeq(s, m + 1, n)) = s[m + 1]
      /\ Tail(SubSeq(s, m + 1, n)) = SubSeq(s, (m + 1) + 1, n)
  BY <1>1, <1>3, HeadTailOfSubSeq
<1>5. SubSeq(s, m + 1, n) # <<>>
  <2>1. PICK t : t = SubSeq(s, m + 1, n)
    OBVIOUS
  <2>2. Len(t) # 0 /\ Len(<<>>) = 0
    BY <1>1, <1>2, <2>1
  <2> QED
    BY <2>1, <2>2
<1> QED
  BY <1>1, <1>4, <1>5

\* One packet is inserted, at a place within the window.
LEMMA ReorderInsert == ASSUME ReorderInv, R!InsertNext PROVE ReorderInv'
<1> USE DEF BurstProgram
<1>1. /\ pc2 = "insert" /\ batch # <<>>
      /\ R!Becomes(R!Insert(Head(batch)).buf)
      /\ refused' = IF R!Insert(Head(batch)).taken THEN refused ELSE refused \cup {Head(batch)}
      /\ batch' = Tail(batch)
      /\ UNCHANGED <<program2, pc2, seq_counter, sent, out>>
  BY DEF R!InsertNext
<1>2. program2 # "dynamic_seqno" /\ program2 \in R!Programs
  BY <1>1 DEF ReorderInv, Stamping
<1>3. PICK n \in Nat : /\ n = Len(sent) /\ DOMAIN sent = 1 .. n /\ n >= 1 /\ n <= R!BurstOf
                       /\ sent \in Seq(Stamp)
  BY <1>1, BurstFits DEF ReorderInv, InBuffer
<1>4. PICK m \in 0 .. n : Inserting(m)
  BY <1>1, <1>3 DEF ReorderInv, InBuffer
<1>5. m < n
  <2>1. CASE m = n
    <3>1. SubSeq(sent, n + 1, n) = <<>>
      BY <1>3
    <3> QED
      BY <1>1, <1>3, <1>4, <2>1, <3>1 DEF Inserting
  <2> QED
    BY <1>4, <2>1
<1>6. PICK p : p = sent[m + 1] /\ p = Head(batch)
  BY <1>3, <1>4, <1>5 DEF Inserting
<1>7. batch' = SubSeq(sent, (m + 1) + 1, n)
  <2>1. batch = SubSeq(sent, m + 1, n)
    BY <1>3, <1>4 DEF Inserting
  <2> QED
    <3>1. m \in Nat /\ m < Len(sent)
      BY <1>3, <1>4, <1>5
    <3> QED
      BY <1>1, <1>3, <2>1, <3>1, TailOfRest
<1>8. PICK base \in Numbers : base = sent[1].seq /\ Consecutive(sent, base)
  BY <1>4 DEF Inserting, Consecutive
<1>9. min_seqn \in Numbers /\ (initialized => base = min_seqn)
  BY <1>2, <1>4, <1>8 DEF Inserting, ReorderInv
<1>10. m = 0 => p.seq = base
  <2>1. m = 0 => m + 1 = 1
    OBVIOUS
  <2> QED
    BY <1>6, <1>8, <2>1
<1>11. PICK j \in 0 .. (n - 1) : p.seq = Wrap(base, j)
  <2>1. m + 1 \in 1 .. n
    BY <1>4, <1>5
  <2>2. \A k \in 1 .. n : \E j \in 0 .. (n - 1) : sent[k].seq = Wrap(base, j)
    BY <1>3, <1>8 DEF Consecutive
  <2> QED
    BY <1>6, <2>1, <2>2
<1>12. j < R!Size /\ j \in 0 .. SeqLimit /\ j < SeqLimit
  BY <1>2, <1>3, BurstFits
<1>13. (p.seq - base) % SeqLimit = j
  BY <1>11, <1>12, Wraps
<1> DEFINE b == IF initialized THEN R!Buffer
                ELSE [R!Buffer EXCEPT !.initialized = TRUE, !.min_seqn = p.seq]
           c == [initialized |-> TRUE, min_seqn |-> base, order |-> order, ready |-> ready]
<1>14. b = c
  <2>1. CASE initialized
    <3>1. initialized = TRUE
      BY <1>4, <2>1 DEF ReorderInv
    <3> QED
    BY <1>9, <2>1, <3>1 DEF R!Buffer
  <2>2. CASE ~initialized
    <3>1. m = 0
      BY <1>4, <2>2 DEF Inserting
    <3> QED
      BY <1>10, <2>2, <3>1 DEF R!Buffer
  <2> QED
    BY <2>1, <2>2
<1>15. R!Insert(p) = [taken |-> TRUE, buf |-> [b EXCEPT !.order = @ \cup {p}]]
  <2>1. (p.seq - b.min_seqn) % SeqLimit = j
    <3>1. b.min_seqn = base
      <4>1. c.min_seqn = base
        OBVIOUS
      <4> HIDE DEF b, c
      <4> QED
        BY <1>14, <4>1
    <3> QED
      BY <1>13, <3>1
  <2>2. (p.seq - b.min_seqn) % SeqLimit < R!Size /\ ~((p.seq - b.min_seqn) % SeqLimit >= R!Size)
    BY <1>12, <2>1, <1>2, BurstFits
  <2> DEFINE d == (p.seq - b.min_seqn) % SeqLimit
             moved == R!Shift(b, d + 1 - R!Size)
             x == [taken |-> TRUE, buf |-> [b EXCEPT !.order = @ \cup {p}]]
             y == [taken |-> TRUE, buf |-> [moved EXCEPT !.order = @ \cup {p}]]
             z == [taken |-> FALSE, buf |-> b]
  <2>3. R!Insert(p) = CASE d < R!Size -> x
                        [] d >= R!Size /\ d < 2 * R!Size /\ Len(moved.ready) < R!Size -> y
                        [] OTHER -> z
    BY DEF R!Insert
  <2> HIDE DEF d, moved, x, y, z
  <2>4. R!Insert(p) = x
    BY <2>2, <2>3 DEF d
  <2> QED
    BY <2>4 DEF x
<1>16. R!Insert(p).taken = TRUE /\ R!Insert(p).buf = [c EXCEPT !.order = @ \cup {p}]
  <2>1. R!Insert(p) = [taken |-> TRUE, buf |-> [c EXCEPT !.order = @ \cup {p}]]
    <3> HIDE DEF b, c
    <3> QED
      BY <1>14, <1>15
  <2> HIDE DEF c
  <2> QED
    BY <2>1
<1>17. /\ initialized' = TRUE /\ min_seqn' = base /\ order' = order \cup {p} /\ ready' = ready
       /\ refused' = refused
  BY <1>1, <1>6, <1>16 DEF R!Becomes
<1>18. order' = Inserted(m + 1)'
  <2>1. order = {sent[k] : k \in 1 .. m}
    BY <1>4 DEF Inserting, Inserted
  <2>2. {sent[k] : k \in 1 .. (m + 1)} = {sent[k] : k \in 1 .. m} \cup {sent[m + 1]}
    BY <1>4
  <2> QED
    BY <1>1, <1>6, <1>17, <2>1, <2>2 DEF Inserted
<1>19. Inserting(m + 1)'
  <2>1. BurstProgram => base = min_seqn
    BY <1>4, <1>8 DEF Inserting
  <2>2. BurstProgram' <=> BurstProgram
    BY <1>1
  <2>3. Consecutive(sent, base)'
    BY <1>1, <1>8, <1>17 DEF Consecutive, Wrap, Numbers
  <2>4. (ready = <<>> /\ refused = {})' /\ sent'[1].seq = base
    BY <1>1, <1>4, <1>8, <1>17 DEF Inserting
  <2>5. (BurstProgram => seq_counter = Wrap(min_seqn, Len(sent)))'
    BY <1>1, <1>4, <1>17, <2>1, <2>2 DEF Inserting, Wrap
  <2>6. (m + 1 > 0 => initialized)'
    BY <1>17
  <2> QED
    BY <1>1, <1>3, <1>7, <1>17, <1>18, <2>3, <2>4, <2>5, <2>6 DEF Inserting
<1>20. m + 1 \in 0 .. n /\ R!BurstOf' = R!BurstOf
  BY <1>1, <1>4, <1>5 DEF R!BurstOf
<1> QED
  BY <1>1, <1>2, <1>3, <1>8, <1>17, <1>19, <1>20 DEF ReorderInv, InBuffer, BetweenBursts, Stamping

\* A burst gets the numbers that follow those of the last.
LEMMA ReorderRx == ASSUME ReorderInv, BurstProgram, R!Rx PROVE ReorderInv'
<1>1. PICK n \in 1 .. R!BurstOf :
        /\ batch' = [k \in 1 .. n |-> [seq |-> (seq_counter + k - 1) % SeqLimit, place |-> k]]
        /\ seq_counter' = (seq_counter + n) % SeqLimit
  BY DEF R!Rx
<1>2. /\ pc2 = "rx" /\ pc2' = "insert" /\ sent' = batch' /\ out' = <<>> /\ refused' = {}
      /\ UNCHANGED <<program2, initialized, min_seqn, order, ready>>
  BY DEF R!Rx, R!bufVars
<1>3. /\ order = {} /\ ready = <<>> /\ seq_counter = min_seqn /\ min_seqn \in Numbers
      /\ program2 \in R!Programs /\ program2 # "dynamic_seqno" /\ initialized \in BOOLEAN
  BY <1>2 DEF ReorderInv, BetweenBursts, R!DrainedInOrder, BurstProgram
<1>4. PICK a \in Numbers : a = min_seqn /\ a \in Int
  BY <1>3 DEF Numbers
<1>5. n \in Nat /\ n >= 1 /\ n <= R!BurstOf /\ SeqLimit \in Nat /\ n < SeqLimit
  BY <1>1, <1>3, BurstFits
<1>6. \A k \in 1 .. n : (a + k - 1) % SeqLimit = Wrap(a, k - 1) /\ k - 1 \in 0 .. (n - 1)
  <2>1. \A k \in 1 .. n : a + k - 1 = a + (k - 1)
    BY <1>4
  <2> QED
    BY <1>5, <2>1 DEF Wrap
<1>7. sent' = [k \in 1 .. n |-> [seq |-> Wrap(a, k - 1), place |-> k]]
  BY <1>1, <1>2, <1>3, <1>4, <1>6
<1>8. \A j \in 0 .. n : /\ Wrap(a, j) \in Numbers
                        /\ Wrap(a, j) = (IF a + j < SeqLimit THEN a + j ELSE (a + j) - SeqLimit)
  BY <1>5, Wraps
<1>9. sent' \in Seq(Stamp) /\ Len(sent') = n
  <2>1. \A k \in 1 .. n : [seq |-> Wrap(a, k - 1), place |-> k] \in Stamp
    BY <1>5, <1>6, <1>8 DEF Stamp
  <2>2. sent' \in [1 .. n -> Stamp]
    BY <1>7, <2>1
  <2>3. sent' \in Seq(Stamp) /\ Len(sent') = n
    BY <1>5, <2>2
  <2> QED
    BY <2>3
<1>10. \A k \in 1 .. n : sent'[k].seq = Wrap(a, k - 1)
  BY <1>7
<1>11. \A k, l \in 1 .. n : sent'[k].seq = sent'[l].seq => k = l
  <2> SUFFICES ASSUME NEW k \in 1 .. n, NEW l \in 1 .. n, Wrap(a, k - 1) = Wrap(a, l - 1) PROVE k = l
    BY <1>10
  <2> QED
    BY <1>4, <1>5, <1>8
<1>12. \A j \in 0 .. (n - 1) : \E k \in 1 .. n : sent'[k].seq = Wrap(a, j)
  <2> SUFFICES ASSUME NEW j \in 0 .. (n - 1) PROVE \E k \in 1 .. n : sent'[k].seq = Wrap(a, j)
    OBVIOUS
  <2>1. j + 1 \in 1 .. n /\ (j + 1) - 1 = j
    BY <1>5
  <2> QED
    BY <1>10, <2>1
<1>13. Consecutive(sent, a)'
  BY <1>6, <1>9, <1>10, <1>11, <1>12 DEF Consecutive, Wrap, Numbers
<1>14. sent'[1].seq = a
  <2>1. 1 \in 1 .. n /\ 1 - 1 = 0 /\ 0 \in 0 .. n /\ a + 0 = a /\ a < SeqLimit
    BY <1>4, <1>5 DEF Numbers
  <2> QED
    BY <1>8, <1>10, <2>1
<1>15. Inserting(0)'
  <2>1. SubSeq(sent', 0 + 1, Len(sent')) = sent'
    BY <1>9
  <2>2. Inserted(0)' = {}
    BY DEF Inserted
  <2>3. (seq_counter = Wrap(min_seqn, Len(sent)))'
    BY <1>1, <1>2, <1>3, <1>9 DEF Wrap
  <2>4. (order = {} /\ ready = <<>> /\ refused = {} /\ min_seqn = a /\ batch = sent)'
    BY <1>2, <1>3, <1>4
  <2> QED
    BY <1>13, <1>14, <2>1, <2>2, <2>3, <2>4 DEF Inserting
<1>16. R!BurstOf' = R!BurstOf
  BY <1>2 DEF R!BurstOf
<1> QED
  BY <1>2, <1>3, <1>4, <1>5, <1>9, <1>15, <1>16 DEF ReorderInv, InBuffer, BetweenBursts, Stamping

\* With all packets of a burst in the buffer, the packets at its head are the burst
\* in the order of its numbers.
LEMMA RunOfBurst ==
  ASSUME NEW s \in Seq(Stamp), NEW base, Consecutive(s, base),
         NEW b, b.order = R!ToSet(s), b.min_seqn = base,
         NEW N \in Nat, Len(s) <= N, N < SeqLimit
  PROVE  /\ R!Run(b, N) \in Seq(Stamp)
         /\ Len(R!Run(b, N)) = Len(s)
         /\ R!ToSet(R!Run(b, N)) = R!ToSet(s)
         /\ \A k \in 1 .. Len(s) : R!Run(b, N)[k].seq = Wrap(base, k - 1)
<1> DEFINE at(k) == {p \in b.order : p.seq = (b.min_seqn + k - 1) % SeqLimit}
           has == {k \in 0 .. N : \A j \in 1 .. k : at(j) # {}}
           len == CHOOSE k \in has : \A j \in has : j <= k
           r == [k \in 1 .. len |-> CHOOSE p \in at(k) : TRUE]
<1>1. PICK n \in Nat : n = Len(s) /\ DOMAIN s = 1 .. n
  BY LenProperties
<1>2. R!Run(b, N) = r
  BY DEF R!Run
<1>3. base \in Numbers /\ base \in Int /\ SeqLimit \in Nat
  BY ReorderAssumption DEF Consecutive, Numbers
<1>4. \A k \in Int : (b.min_seqn + k - 1) % SeqLimit = Wrap(base, k - 1)
  <2>1. \A k \in Int : base + k - 1 = base + (k - 1)
    BY <1>3
  <2> QED
    BY <2>1 DEF Wrap
<1>5. \A x, y \in 0 .. N : Wrap(base, x) = Wrap(base, y) => x = y
  <2> SUFFICES ASSUME NEW x \in 0 .. N, NEW y \in 0 .. N, Wrap(base, x) = Wrap(base, y) PROVE x = y
    OBVIOUS
  <2>1. x \in 0 .. SeqLimit /\ y \in 0 .. SeqLimit /\ x < SeqLimit /\ y < SeqLimit
    BY <1>3
  <2>2. (Wrap(base, x) - base) % SeqLimit = x /\ (Wrap(base, y) - base) % SeqLimit = y
    BY <1>3, <2>1, Wraps
  <2> QED
    BY <2>2
<1>6. \A p : p \in b.order <=> \E k \in 1 .. n : p = s[k]
  BY <1>1 DEF R!ToSet
<1>7. \A k \in 1 .. n : \E p : at(k) = {p} /\ p \in b.order /\ p.seq = Wrap(base, k - 1)
  <2> SUFFICES ASSUME NEW k \in 1 .. n
               PROVE  \E p : at(k) = {p} /\ p \in b.order /\ p.seq = Wrap(base, k - 1)
    OBVIOUS
  <2>1. k - 1 \in 0 .. (n - 1) /\ k \in Int
    BY <1>1
  <2>2. PICK l \in 1 .. n : s[l].seq = Wrap(base, k - 1)
    BY <1>1, <2>1 DEF Consecutive
  <2>3. \A m \in 1 .. n : s[m].seq = Wrap(base, k - 1) => m = l
    BY <1>1, <2>2 DEF Consecutive
  <2>4. at(k) = {p \in b.order : p.seq = Wrap(base, k - 1)}
    BY <1>4, <2>1
  <2>5. at(k) = {s[l]}
    <3> HIDE DEF at
    <3> QED
      BY <1>6, <2>2, <2>3, <2>4
  <2>6. s[l] \in b.order
    BY <1>6
  <2> HIDE DEF at
  <2> QED
    BY <2>2, <2>5, <2>6
<1>8. n + 1 <= N => at(n + 1) = {}
  <2> SUFFICES ASSUME n + 1 <= N, NEW p \in at(n + 1) PROVE FALSE
    OBVIOUS
  <2>1. p \in b.order /\ p.seq = Wrap(base, n)
    <3>1. n + 1 \in Int /\ (n + 1) - 1 = n
      BY <1>1
    <3> QED
      BY <1>4, <3>1
  <2>2. PICK k \in 1 .. n : p = s[k]
    BY <1>6, <2>1
  <2>3. PICK j \in 0 .. (n - 1) : p.seq = Wrap(base, j)
    BY <1>1, <2>2 DEF Consecutive
  <2>4. j \in 0 .. N /\ n \in 0 .. N /\ j # n
    BY <1>1
  <2> QED
    BY <1>5, <2>1, <2>3, <2>4
<1> HIDE DEF at
<1>9. has = 0 .. n
  <2>1. ASSUME NEW k \in 0 .. n PROVE k \in has
    <3>1. k \in 0 .. N /\ \A j \in 1 .. k : j \in 1 .. n
      BY <1>1
    <3>2. \A j \in 1 .. n : at(j) # {}
      BY <1>7
    <3> QED
      BY <3>1, <3>2
  <2>2. ASSUME NEW k \in has PROVE k \in 0 .. n
    <3>1. k \in 0 .. N /\ \A j \in 1 .. k : at(j) # {}
      OBVIOUS
    <3>2. CASE k >= n + 1
      <4>1. n + 1 \in 1 .. k /\ n + 1 <= N
        BY <1>1, <3>1, <3>2
      <4> QED
        BY <1>8, <3>1, <4>1
    <3> QED
      BY <1>1, <3>1, <3>2
  <2> HIDE DEF has
  <2> QED
    BY <2>1, <2>2
<1>10. len = n
  <2> HIDE DEF has
  <2>1. n \in has /\ \A j \in has : j <= n
    BY <1>1, <1>9
  <2>2. len \in has /\ \A j \in has : j <= len
    <3>1. \E k \in has : \A j \in has : j <= k
      BY <2>1
    <3> QED
      BY <3>1
  <2> HIDE DEF len
  <2>3. len <= n /\ n <= len /\ len \in Nat
    BY <1>1, <1>9, <2>1, <2>2
  <2> QED
    BY <1>1, <2>3
<1> HIDE DEF has, len
<1>11. r = [k \in 1 .. n |-> CHOOSE p \in at(k) : TRUE]
  BY <1>10
<1>12. \A k \in 1 .. n : r[k] \in at(k) /\ r[k] \in b.order /\ r[k].seq = Wrap(base, k - 1)
  <2> SUFFICES ASSUME NEW k \in 1 .. n
               PROVE  r[k] \in at(k) /\ r[k] \in b.order /\ r[k].seq = Wrap(base, k - 1)
    OBVIOUS
  <2>1. PICK p : at(k) = {p} /\ p \in b.order /\ p.seq = Wrap(base, k - 1)
    BY <1>7
  <2>2. (CHOOSE q \in at(k) : TRUE) = p
    BY <2>1
  <2>3. r[k] = p
    BY <1>11, <2>2
  <2> HIDE DEF r
  <2> QED
    BY <2>1, <2>3
<1>13. DOMAIN r = 1 .. n
  BY <1>11
<1>14. \A k \in 1 .. n : s[k] \in Stamp
  BY <1>1, ElementOfSeq
<1>15. r \in Seq(Stamp) /\ Len(r) = n
  <2>1. \A k \in 1 .. n : r[k] \in Stamp
    BY <1>6, <1>12, <1>14
  <2>2. r = [k \in 1 .. n |-> r[k]]
    BY <1>11
  <2> HIDE DEF r
  <2>3. r \in [1 .. n -> Stamp]
    BY <2>1, <2>2
  <2>4. r \in Seq(Stamp) /\ Len(r) = n
    BY <1>1, <2>3
  <2> QED
    BY <2>4
<1> HIDE DEF r
<1>16. R!ToSet(r) = R!ToSet(s)
  <2>1. R!ToSet(r) = {r[k] : k \in 1 .. n} /\ R!ToSet(s) = {s[k] : k \in 1 .. n}
    BY <1>1, <1>13 DEF R!ToSet
  <2>2. ASSUME NEW k \in 1 .. n PROVE \E l \in 1 .. n : r[k] = s[l]
    BY <1>6, <1>12
  <2>3. ASSUME NEW l \in 1 .. n PROVE \E k \in 1 .. n : s[l] = r[k]
    <3>1. PICK j \in 0 .. (n - 1) : s[l].seq = Wrap(base, j)
      BY <1>1 DEF Consecutive
    <3>2. j + 1 \in 1 .. n /\ (j + 1) - 1 = j
      BY <1>1
    <3>3. r[j + 1].seq = s[l].seq
      BY <1>12, <3>1, <3>2
    <3>4. PICK m \in 1 .. n : r[j + 1] = s[m]
      BY <2>2, <3>2
    <3>5. m = l
      BY <1>1, <3>3, <3>4 DEF Consecutive
    <3> QED
      BY <3>2, <3>4, <3>5
  <2>4. PICK A, B : A = R!ToSet(r) /\ B = R!ToSet(s)
    OBVIOUS
  <2>5. ASSUME NEW x \in A PROVE x \in B
    <3>1. PICK k \in 1 .. n : x = r[k]
      BY <2>1, <2>4
    <3>2. PICK l \in 1 .. n : r[k] = s[l]
      BY <2>2
    <3> QED
      BY <2>1, <2>4, <3>1, <3>2
  <2>6. ASSUME NEW x \in B PROVE x \in A
    <3>1. PICK l \in 1 .. n : x = s[l]
      BY <2>1, <2>4
    <3>2. PICK k \in 1 .. n : s[l] = r[k]
      BY <2>3
    <3> QED
      BY <2>1, <2>4, <3>1, <3>2
  <2> QED
    BY <2>4, <2>5, <2>6
<1> QED
  BY <1>1, <1>2, <1>12, <1>15, <1>16

\* The burst is drained as a whole.
LEMMA ReorderDrain ==
  ASSUME ReorderInv, program2 # "dynamic_seqno", R!DrainBuffer
  PROVE  ReorderInv'
<1>1. /\ pc2 = "insert" /\ batch = <<>> /\ out' = R!Drain(R!BurstOf).pkts
      /\ R!Becomes(R!Drain(R!BurstOf).buf)
      /\ pc2' = IF program2 = "sample" THEN "done" ELSE "rx"
      /\ UNCHANGED <<program2, seq_counter, batch, sent, refused>>
  BY DEF R!DrainBuffer
<1>2. PICK n \in Nat : /\ n = Len(sent) /\ DOMAIN sent = 1 .. n /\ n >= 1 /\ n <= R!BurstOf
                       /\ sent \in Seq(Stamp)
  BY <1>1, BurstFits DEF ReorderInv, InBuffer
<1>3. PICK m \in 0 .. n : Inserting(m)
  BY <1>1, <1>2 DEF ReorderInv, InBuffer
<1>4. m = n
  <2>1. CASE m < n
    <3>1. m \in Nat /\ m < Len(sent)
      BY <1>2, <1>3, <2>1
    <3>2. SubSeq(sent, m + 1, Len(sent)) # <<>>
      BY <1>2, <3>1, TailOfRest
    <3> QED
      BY <1>1, <1>3, <3>2 DEF Inserting
  <2> QED
    BY <1>3, <2>1
<1>5. PICK N \in Nat : N = R!BurstOf /\ Len(sent) <= N /\ N < SeqLimit
  BY <1>2, BurstFits DEF ReorderInv
<1>6. /\ order = R!ToSet(sent) /\ ready = <<>> /\ refused = {}
      /\ Consecutive(sent, min_seqn) /\ (BurstProgram => seq_counter = Wrap(min_seqn, n))
  <2>1. initialized
    BY <1>2, <1>3, <1>4 DEF Inserting
  <2> QED
    BY <1>2, <1>3, <1>4, <2>1 DEF Inserting, Inserted, R!ToSet
<1>7. initialized \in BOOLEAN /\ program2 \in R!Programs
  BY DEF ReorderInv
<1> DEFINE run == R!Run(R!Buffer, N)
<1>8. /\ run \in Seq(Stamp) /\ Len(run) = n
      /\ R!ToSet(run) = R!ToSet(sent) /\ \A k \in 1 .. n : run[k].seq = Wrap(min_seqn, k - 1)
  <2>1. R!Buffer.order = order /\ R!Buffer.min_seqn = min_seqn
    BY DEF R!Buffer
  <2>2. R!Buffer.order = R!ToSet(sent)
    BY <1>6, <2>1
  <2>3. /\ R!Run(R!Buffer, N) \in Seq(Stamp)
        /\ Len(R!Run(R!Buffer, N)) = Len(sent)
        /\ R!ToSet(R!Run(R!Buffer, N)) = R!ToSet(sent)
        /\ \A k \in 1 .. Len(sent) : R!Run(R!Buffer, N)[k].seq = Wrap(min_seqn, k - 1)
    <3> HIDE DEF run
    <3> QED
      BY <1>2, <1>5, <1>6, <2>1, <2>2, RunOfBurst
  <2> QED
    BY <1>2, <2>3
<1>9. R!Drain(N) = [pkts |-> run,
                    buf |-> [R!Buffer EXCEPT !.ready = <<>>, !.order = @ \ R!ToSet(run),
                                             !.min_seqn = (@ + n) % SeqLimit]]
  <2> DEFINE first == SubSeq(ready, 1, IF N < Len(ready) THEN N ELSE Len(ready))
  <2>1. Len(<<>>) = 0 /\ SubSeq(<<>>, 1, 0) = <<>>
    OBVIOUS
  <2>2. first = <<>> /\ Len(first) = 0 /\ N - Len(first) = N
    BY <1>5, <1>6, <2>1
  <2>3. first \o run = run
    BY <1>8, <2>2
  <2>4. R!Buffer.ready = <<>>
    BY <1>6 DEF R!Buffer
  <2>5. SubSeq(<<>>, 0 + 1, Len(<<>>)) = <<>>
    OBVIOUS
  <2>6. R!Drain(N) = [pkts |-> first \o R!Run(R!Buffer, N - Len(first)),
          buf |-> [R!Buffer EXCEPT !.ready = SubSeq(@, Len(first) + 1, Len(@)),
                                   !.order = @ \ R!ToSet(R!Run(R!Buffer, N - Len(first))),
                                   !.min_seqn = (@ + Len(R!Run(R!Buffer, N - Len(first)))) % SeqLimit]]
    BY DEF R!Drain
  <2> HIDE DEF first, run
  <2>7. R!Run(R!Buffer, N - Len(first)) = run
    BY <2>2 DEF run
  <2> QED
    BY <1>8, <2>2, <2>3, <2>4, <2>5, <2>6, <2>7
<1> HIDE DEF run
<1>10. LET b == R!Drain(N).buf
       IN  /\ R!Drain(N).pkts = run /\ b.initialized = initialized /\ b.ready = <<>>
           /\ b.min_seqn = (min_seqn + n) % SeqLimit /\ b.order = order \ R!ToSet(run)
  <2> DEFINE b == R!Buffer
             c == [b EXCEPT !.ready = <<>>, !.order = @ \ R!ToSet(run), !.min_seqn = (@ + n) % SeqLimit]
  <2>1. /\ b.initialized = initialized /\ b.min_seqn = min_seqn /\ b.order = order
        /\ DOMAIN b = {"initialized", "min_seqn", "order", "ready"}
    BY DEF R!Buffer
  <2> HIDE DEF b
  <2>2. /\ c.initialized = b.initialized /\ c.ready = <<>> /\ c.min_seqn = (b.min_seqn + n) % SeqLimit
        /\ c.order = b.order \ R!ToSet(run)
    BY <2>1
  <2>3. R!Drain(N) = [pkts |-> run, buf |-> c]
    BY <1>9 DEF b
  <2> HIDE DEF c
  <2>4. R!Drain(N).pkts = run /\ R!Drain(N).buf = c
    BY <2>3
  <2> QED
    BY <2>1, <2>2, <2>4
<1>11. /\ out' = run /\ initialized' = initialized /\ min_seqn' = Wrap(min_seqn, n)
       /\ order' = {} /\ ready' = <<>>
  <2>1. /\ out' = run /\ initialized' = R!Drain(N).buf.initialized /\ min_seqn' = R!Drain(N).buf.min_seqn
        /\ order' = R!Drain(N).buf.order /\ ready' = R!Drain(N).buf.ready
    BY <1>1, <1>5, <1>10 DEF R!Becomes
  <2>2. order \ R!ToSet(run) = {}
    BY <1>6, <1>8
  <2> QED
    BY <1>10, <2>1, <2>2 DEF Wrap
<1>12. min_seqn \in Numbers /\ n \in 0 .. SeqLimit
  BY <1>2, <1>5, <1>6, ReorderAssumption DEF Consecutive
<1>13. min_seqn' \in Numbers
  BY <1>11, <1>12, Wraps
<1>14. \A j \in 2 .. n : run[j].seq = (run[j - 1].seq + 1) % SeqLimit
  <2> SUFFICES ASSUME NEW j \in 2 .. n PROVE run[j].seq = (run[j - 1].seq + 1) % SeqLimit
    OBVIOUS
  <2>1. j \in 1 .. n /\ j - 1 \in 1 .. n /\ (j - 1) - 1 \in 0 .. SeqLimit /\ ((j - 1) - 1) + 1 = j - 1
    BY <1>2, <1>5, ReorderAssumption
  <2>2. run[j].seq = Wrap(min_seqn, j - 1) /\ run[j - 1].seq = Wrap(min_seqn, (j - 1) - 1)
    BY <1>8, <2>1
  <2>3. Wrap(Wrap(min_seqn, (j - 1) - 1), 1) = Wrap(min_seqn, ((j - 1) - 1) + 1)
    BY <1>12, <2>1, Wraps
  <2> QED
    BY <2>1, <2>2, <2>3 DEF Wrap
<1>15. R!DrainedInOrder'
  <2>1. program2' # "dynamic_seqno" /\ refused' = {} /\ sent' = sent
    BY <1>1, <1>6
  <2> QED
    BY <1>2, <1>8, <1>11, <1>14, <2>1 DEF R!DrainedInOrder, R!ToSet
<1> QED
  BY <1>1, <1>6, <1>7, <1>11, <1>13, <1>15 DEF ReorderInv, InBuffer, BetweenBursts, Stamping, BurstProgram,
    R!Programs

\* dynamic_seqno gives the next numbers, and stops at the last.
LEMMA ReorderStamp == ASSUME ReorderInv, R!lcore_main_loop PROVE ReorderInv'
<1>1. program2 = "dynamic_seqno" /\ pc2 = "rx" /\ UNCHANGED <<program2, batch, initialized, min_seqn, order, ready, out, refused>>
  BY DEF R!lcore_main_loop, R!bufVars
<1>2. PICK c \in Nat : c = seq_counter /\ c <= Stamped /\ sent = [k \in 1 .. c |-> k - 1]
  BY <1>1, ReorderAssumption DEF ReorderInv, Stamping
<1>3. PICK n \in 1 .. Burst :
        LET stamps == IF n < Stamped - seq_counter THEN n ELSE Stamped - seq_counter
        IN  /\ sent' = sent \o [k \in 1 .. stamps |-> seq_counter + k - 1]
            /\ seq_counter' = seq_counter + stamps
  BY DEF R!lcore_main_loop
<1>4. PICK d \in Nat : /\ d = (IF n < Stamped - c THEN n ELSE Stamped - c) /\ c + d <= Stamped
                       /\ sent' = sent \o [k \in 1 .. d |-> c + k - 1] /\ seq_counter' = c + d
  <2>1. PICK d \in Nat : d = (IF n < Stamped - c THEN n ELSE Stamped - c) /\ c + d <= Stamped
    <3>1. n \in Nat /\ Stamped - c \in Nat
      BY <1>2, ReorderAssumption
    <3>2. CASE n < Stamped - c
      BY <1>2, <3>1, <3>2, ReorderAssumption
    <3>3. CASE ~(n < Stamped - c)
      BY <1>2, <3>1, <3>3, ReorderAssumption
    <3> QED
      BY <3>2, <3>3
  <2>2. d = IF n < Stamped - seq_counter THEN n ELSE Stamped - seq_counter
    BY <1>2, <2>1
  <2>3. sent' = sent \o [k \in 1 .. d |-> seq_counter + k - 1] /\ seq_counter' = seq_counter + d
    BY <1>3, <2>2
  <2> QED
    BY <1>2, <2>1, <2>3
<1>5. sent' = [k \in 1 .. (c + d) |-> k - 1]
  <2> DEFINE u == [k \in 1 .. d |-> c + k - 1]
             v == [k \in 1 .. c |-> k - 1]
  <2>1. Len(u) = d /\ Len(v) = c /\ u \in Seq(Int) /\ v \in Seq(Int)
    BY <1>2, <1>4
  <2>2. v \o u = [k \in 1 .. (c + d) |-> IF k <= c THEN v[k] ELSE u[k - c]]
    BY <2>1
  <2>3. \A k \in 1 .. (c + d) : (IF k <= c THEN v[k] ELSE u[k - c]) = k - 1
    BY <1>2, <1>4
  <2>4. sent' = v \o u
    BY <1>2, <1>4
  <2> HIDE DEF u, v
  <2> QED
    BY <2>2, <2>3, <2>4
<1>6. pc2' = IF seq_counter' >= Stamped THEN "done" ELSE "rx"
  BY DEF R!lcore_main_loop
<1>7. Stamping'
  <2>1. seq_counter' \in 0 .. Stamped /\ sent' = [k \in 1 .. seq_counter' |-> k - 1]
    BY <1>2, <1>4, <1>5, ReorderAssumption
  <2>2. pc2' \in {"rx", "done"} /\ (pc2' = "done" => seq_counter' = Stamped)
    BY <1>6, <2>1, ReorderAssumption
  <2> QED
    BY <2>1, <2>2 DEF Stamping
<1> QED
  BY <1>1, <1>6, <1>7 DEF ReorderInv, InBuffer, BetweenBursts

LEMMA ReorderStep == ASSUME ReorderInv, R!Next PROVE ReorderInv'
BY ReorderRx, ReorderInsert, ReorderDrain, ReorderStamp
   DEF R!Next, R!rx_burst_main, R!rx_reorder_loop, R!sample_main, BurstProgram

LEMMA ReorderSafe == ReorderInv => R!DrainedInOrder
<1> SUFFICES ASSUME ReorderInv PROVE R!DrainedInOrder
  OBVIOUS
<1>1. CASE program2 = "dynamic_seqno"
  BY <1>1 DEF ReorderInv, Stamping, R!DrainedInOrder
<1>2. CASE program2 # "dynamic_seqno" /\ pc2 \in {"rx", "done"}
  BY <1>2 DEF ReorderInv, BetweenBursts
<1>3. CASE program2 # "dynamic_seqno" /\ pc2 \notin {"rx", "done"}
  BY <1>3 DEF R!DrainedInOrder
<1> QED
  BY <1>1, <1>2, <1>3

-----------------------------------------------------------------------------
(* Sequences of events.                                                    *)

Event == [queue : Queues, flow : {0, 1}, data : Nat]

\* Within a flow, s is in the order of its data; events of S come before those of T.
Rising(s) ==
  \A j, k \in DOMAIN s : j < k /\ s[j].flow = s[k].flow => s[j].data < s[k].data
Ahead(S, T) == \A x \in S, y \in T : x.flow = y.flow => x.data < y.data

Data(s) == {s[k].data : k \in DOMAIN s}
Distinct(s) == \A j, k \in DOMAIN s : s[j].data = s[k].data => j = k

\* A sequence has the elements of another, and one more.
HasAlso(s, t, e) ==
  /\ \E m \in DOMAIN s : s[m] = e
  /\ \A j \in DOMAIN t : \E m \in DOMAIN s : t[j] = s[m]
  /\ \A m \in DOMAIN s : s[m] = e \/ \E j \in DOMAIN t : s[m] = t[j]

LEMMA OneMore ==
  ASSUME NEW s, NEW t, NEW e, HasAlso(s, t, e)
  PROVE  ToSet(s) = ToSet(t) \cup {e} /\ Data(s) = Data(t) \cup {e.data}
<1>1. \A x : x \in ToSet(s) <=> \E m \in DOMAIN s : x = s[m]
  BY DEF ToSet
<1>2. \A x : x \in ToSet(t) <=> \E m \in DOMAIN t : x = t[m]
  BY DEF ToSet
<1>3. \A x : x \in Data(s) <=> \E m \in DOMAIN s : x = s[m].data
  BY DEF Data
<1>4. \A x : x \in Data(t) <=> \E m \in DOMAIN t : x = t[m].data
  BY DEF Data
<1>5. \A x : x \in ToSet(s) <=> x \in ToSet(t) \cup {e}
  BY <1>1, <1>2 DEF HasAlso
<1>6. \A x : x \in Data(s) <=> x \in Data(t) \cup {e.data}
  BY <1>3, <1>4 DEF HasAlso
<1> QED
  BY <1>5, <1>6

\* The elements of a sequence to which one is added, from whose head one is taken,
\* or from the middle of which one is taken.
LEMMA Appended ==
  ASSUME NEW s \in Seq(Event), NEW e \in Event
  PROVE  LET t == Append(s, e)
         IN  /\ t \in Seq(Event) /\ DOMAIN t = 1 .. (Len(s) + 1) /\ Len(t) = Len(s) + 1
             /\ t[Len(s) + 1] = e /\ \A j \in DOMAIN s : t[j] = s[j]
             /\ \A j \in DOMAIN t : j = Len(s) + 1 \/ j \in DOMAIN s
             /\ ToSet(t) = ToSet(s) \cup {e} /\ Data(t) = Data(s) \cup {e.data}
<1> DEFINE t == Append(s, e)
<1>1. PICK n \in Nat : n = Len(s) /\ DOMAIN s = 1 .. n
  BY LenProperties
<1>2. /\ t \in Seq(Event) /\ DOMAIN t = 1 .. (n + 1) /\ Len(t) = n + 1
      /\ t[n + 1] = e /\ \A j \in 1 .. n : t[j] = s[j]
  BY <1>1, AppendProperties
<1> HIDE DEF t
<1>3. \A j : j \in 1 .. (n + 1) <=> j = n + 1 \/ j \in 1 .. n
  BY <1>1
<1>4. ToSet(t) = ToSet(s) \cup {e}
  BY <1>1, <1>2, <1>3 DEF ToSet
<1>5. Data(t) = Data(s) \cup {e.data}
  BY <1>1, <1>2, <1>3 DEF Data
<1> QED
  BY <1>1, <1>2, <1>3, <1>4, <1>5 DEF t

LEMMA Tailed ==
  ASSUME NEW s \in Seq(Event), s # <<>>
  PROVE  LET t == Tail(s)
         IN  /\ t \in Seq(Event) /\ Len(t) = Len(s) - 1 /\ Head(s) = s[1] /\ Head(s) \in Event
             /\ 1 \in DOMAIN s
             /\ \A j \in DOMAIN t : t[j] = s[j + 1] /\ j + 1 \in DOMAIN s /\ 1 < j + 1
             /\ ToSet(s) = ToSet(t) \cup {Head(s)} /\ Data(s) = Data(t) \cup {Head(s).data}
<1> DEFINE t == Tail(s)
<1>1. PICK n \in Nat : n = Len(s) /\ DOMAIN s = 1 .. n /\ n >= 1
  BY LenProperties, EmptySeq
<1>2. /\ t \in Seq(Event) /\ Len(t) = n - 1 /\ DOMAIN t = 1 .. (n - 1) /\ Head(s) = s[1] /\ Head(s) \in Event
      /\ \A j \in 1 .. (n - 1) : t[j] = s[j + 1]
  BY <1>1, HeadTailProperties
<1> HIDE DEF t
<1>3. /\ \A j \in 1 .. (n - 1) : j + 1 \in 1 .. n /\ 1 < j + 1
      /\ \A j \in 1 .. n : j # 1 => j - 1 \in 1 .. (n - 1) /\ (j - 1) + 1 = j
      /\ 1 \in 1 .. n
  BY <1>1
<1>4. \A j \in DOMAIN t : \E m \in DOMAIN s : t[j] = s[m]
  BY <1>1, <1>2, <1>3
<1>5. \A m \in DOMAIN s : s[m] = Head(s) \/ \E j \in DOMAIN t : s[m] = t[j]
  <2> SUFFICES ASSUME NEW m \in 1 .. n, m # 1 PROVE \E j \in 1 .. (n - 1) : s[m] = t[j]
    BY <1>1, <1>2
  <2>1. m - 1 \in 1 .. (n - 1) /\ (m - 1) + 1 = m
    BY <1>3
  <2>2. t[m - 1] = s[m]
    BY <1>2, <2>1
  <2> QED
    BY <2>1, <2>2
<1>6. ToSet(s) = ToSet(t) \cup {Head(s)} /\ Data(s) = Data(t) \cup {Head(s).data}
  <2>1. \E m \in DOMAIN s : s[m] = Head(s)
    BY <1>1, <1>2, <1>3
  <2>2. HasAlso(s, t, Head(s))
    BY <1>4, <1>5, <2>1 DEF HasAlso
  <2> QED
    BY <2>2, OneMore
<1> QED
  BY <1>1, <1>2, <1>3, <1>6 DEF t

\* The place in s of what is at j once that at k is gone.
Was(j, k) == IF j < k THEN j ELSE j + 1

LEMMA Removed ==
  ASSUME NEW s \in Seq(Event), NEW k \in DOMAIN s
  PROVE  LET t == RemoveAt(s, k)
         IN  /\ t \in Seq(Event) /\ Len(t) = Len(s) - 1 /\ s[k] \in Event
             /\ \A j \in DOMAIN t : /\ t[j] = s[Was(j, k)] /\ Was(j, k) \in DOMAIN s
                                    /\ Was(j, k) # k /\ (Was(j, k) < k <=> j < k)
             /\ \A j, l \in DOMAIN t : j < l => Was(j, k) < Was(l, k)
             /\ ToSet(s) = ToSet(t) \cup {s[k]} /\ Data(s) = Data(t) \cup {s[k].data}
<1> DEFINE t == RemoveAt(s, k)
           a == SubSeq(s, 1, k - 1)
           b == SubSeq(s, k + 1, Len(s))
<1>1. PICK n \in Nat : n = Len(s) /\ DOMAIN s = 1 .. n /\ k \in 1 .. n /\ \A j \in 1 .. n : s[j] \in Event
  BY LenProperties, ElementOfSeq
<1>2. /\ a \in Seq(Event) /\ Len(a) = k - 1 /\ \A j \in 1 .. (k - 1) : a[j] = s[j]
  <2>1. \A j \in 1 .. (k - 1) : s[j] \in Event
    BY <1>1
  <2>2. /\ a \in Seq(Event) /\ Len(a) = (IF 1 <= k - 1 THEN (k - 1) - 1 + 1 ELSE 0)
        /\ \A j \in 1 .. ((k - 1) - 1 + 1) : a[j] = s[1 + j - 1]
    BY <1>1, <2>1, SubSeqProperties
  <2> HIDE DEF a
  <2> QED
    BY <1>1, <2>2
<1>3. /\ b \in Seq(Event) /\ Len(b) = n - k /\ \A j \in 1 .. (n - k) : b[j] = s[j + k]
  <2>1. \A j \in (k + 1) .. n : s[j] \in Event
    BY <1>1
  <2>2. /\ b \in Seq(Event) /\ Len(b) = (IF k + 1 <= n THEN n - (k + 1) + 1 ELSE 0)
        /\ \A j \in 1 .. (n - (k + 1) + 1) : b[j] = s[(k + 1) + j - 1]
    BY <1>1, <2>1, SubSeqProperties
  <2> HIDE DEF b
  <2>3. Len(b) = n - k
    BY <1>1, <2>2
  <2>4. ASSUME NEW j \in 1 .. (n - k) PROVE b[j] = s[j + k]
    <3>1. j \in 1 .. (n - (k + 1) + 1) /\ (k + 1) + j - 1 = j + k
      BY <1>1
    <3> QED
      BY <2>2, <3>1
  <2> QED
    BY <2>2, <2>3, <2>4
<1>4. t = a \o b
  BY DEF RemoveAt
<1> HIDE DEF a, b, t
<1>5. /\ t \in Seq(Event) /\ Len(t) = n - 1 /\ DOMAIN t = 1 .. (n - 1)
      /\ \A j \in 1 .. (n - 1) : t[j] = IF j <= k - 1 THEN a[j] ELSE b[j - (k - 1)]
  <2>1. /\ a \o b \in Seq(Event) /\ Len(a \o b) = Len(a) + Len(b)
        /\ \A j \in 1 .. (Len(a) + Len(b)) : (a \o b)[j] = IF j <= Len(a) THEN a[j] ELSE b[j - Len(a)]
    BY <1>2, <1>3, ConcatProperties
  <2>2. Len(a) + Len(b) = n - 1
    <3>1. (k - 1) + (n - k) = n - 1
      BY <1>1
    <3> QED
      BY <1>2, <1>3, <3>1
  <2> QED
    BY <1>1, <1>2, <1>4, <2>1, <2>2
<1>6. \A j \in 1 .. (n - 1) : /\ t[j] = s[Was(j, k)] /\ Was(j, k) \in 1 .. n
                              /\ Was(j, k) # k /\ (Was(j, k) < k <=> j < k)
  <2> SUFFICES ASSUME NEW j \in 1 .. (n - 1)
               PROVE  /\ t[j] = s[Was(j, k)] /\ Was(j, k) \in 1 .. n
                      /\ Was(j, k) # k /\ (Was(j, k) < k <=> j < k)
    OBVIOUS
  <2>1. CASE j < k
    <3>1. j \in 1 .. (k - 1) /\ j <= k - 1 /\ j \in 1 .. n
      BY <1>1, <2>1
    <3> QED
      BY <1>1, <1>2, <1>5, <2>1, <3>1 DEF Was
  <2>2. CASE ~(j < k)
    <3>1. j - (k - 1) \in 1 .. (n - k) /\ (j - (k - 1)) + k = j + 1 /\ ~(j <= k - 1) /\ j + 1 \in 1 .. n
      BY <1>1, <2>2
    <3>2. Was(j, k) = j + 1 /\ t[j] = b[j - (k - 1)]
      BY <1>5, <2>2, <3>1 DEF Was
    <3>3. b[j - (k - 1)] = s[(j - (k - 1)) + k]
      BY <1>3, <3>1
    <3>4. j + 1 # k /\ ~(j + 1 < k)
      BY <1>1, <2>2
    <3> QED
      BY <2>2, <3>1, <3>2, <3>3, <3>4
  <2> QED
    BY <2>1, <2>2
<1>7. \A j, l \in 1 .. (n - 1) : j < l => Was(j, k) < Was(l, k)
  BY <1>1 DEF Was
<1>8. \A m \in 1 .. n : m # k => \E j \in 1 .. (n - 1) : Was(j, k) = m
  <2> SUFFICES ASSUME NEW m \in 1 .. n, m # k PROVE \E j \in 1 .. (n - 1) : Was(j, k) = m
    OBVIOUS
  <2>1. CASE m < k
    BY <1>1, <2>1 DEF Was
  <2>2. CASE m > k
    <3>1. m - 1 \in 1 .. (n - 1) /\ ~(m - 1 < k) /\ (m - 1) + 1 = m
      BY <1>1, <2>2
    <3> QED
      BY <3>1 DEF Was
  <2> QED
    BY <1>1, <2>1, <2>2
<1>9. \A m \in 1 .. n : m = k \/ \E j \in 1 .. (n - 1) : t[j] = s[m]
  BY <1>6, <1>8
<1>10. /\ \A j \in DOMAIN t : \E m \in DOMAIN s : t[j] = s[m]
       /\ \A m \in DOMAIN s : s[m] = s[k] \/ \E j \in DOMAIN t : s[m] = t[j]
  BY <1>1, <1>5, <1>6, <1>9
<1>11. ToSet(s) = ToSet(t) \cup {s[k]} /\ Data(s) = Data(t) \cup {s[k].data}
  <2>1. \E m \in DOMAIN s : s[m] = s[k]
    OBVIOUS
  <2>2. HasAlso(s, t, s[k])
    BY <1>10, <2>1 DEF HasAlso
  <2> QED
    BY <2>2, OneMore
<1> QED
  BY <1>1, <1>5, <1>6, <1>7, <1>11 DEF t

LEMMA Concatenated ==
  ASSUME NEW s \in Seq(Event), NEW t \in Seq(Event)
  PROVE  s \o t \in Seq(Event) /\ ToSet(s \o t) = ToSet(s) \cup ToSet(t)
<1>1. PICK m \in Nat, n \in Nat : m = Len(s) /\ n = Len(t) /\ DOMAIN s = 1 .. m /\ DOMAIN t = 1 .. n
  BY LenProperties
<1> DEFINE u == s \o t
<1>2. /\ u \in Seq(Event) /\ Len(u) = m + n /\ DOMAIN u = 1 .. (m + n)
      /\ \A j \in 1 .. (m + n) : u[j] = IF j <= m THEN s[j] ELSE t[j - m]
  BY <1>1, ConcatProperties
<1> HIDE DEF u
<1>3. \A j \in 1 .. m : j \in 1 .. (m + n) /\ u[j] = s[j]
  BY <1>1, <1>2
<1>4. \A j \in 1 .. n : m + j \in 1 .. (m + n) /\ u[m + j] = t[j]
  <2> SUFFICES ASSUME NEW j \in 1 .. n PROVE m + j \in 1 .. (m + n) /\ u[m + j] = t[j]
    OBVIOUS
  <2>1. m + j \in 1 .. (m + n) /\ ~(m + j <= m) /\ (m + j) - m = j
    BY <1>1
  <2> QED
    BY <1>2, <2>1
<1>5. \A j \in 1 .. (m + n) : (j \in 1 .. m /\ u[j] = s[j]) \/ (j - m \in 1 .. n /\ u[j] = t[j - m])
  BY <1>1, <1>2
<1>6. /\ \A x : x \in ToSet(u) <=> \E j \in 1 .. (m + n) : x = u[j]
      /\ \A x : x \in ToSet(s) <=> \E j \in 1 .. m : x = s[j]
      /\ \A x : x \in ToSet(t) <=> \E j \in 1 .. n : x = t[j]
  BY <1>1, <1>2 DEF ToSet
<1>7. \A x : x \in ToSet(u) <=> x \in ToSet(s) \cup ToSet(t)
  <2>1. ASSUME NEW x \in ToSet(u) PROVE x \in ToSet(s) \cup ToSet(t)
    BY <1>5, <1>6, <2>1
  <2>2. ASSUME NEW x \in ToSet(s) PROVE x \in ToSet(u)
    <3>1. PICK j \in 1 .. m : x = s[j]
      BY <1>6, <2>2
    <3> QED
      BY <1>3, <1>6, <3>1
  <2>3. ASSUME NEW x \in ToSet(t) PROVE x \in ToSet(u)
    <3>1. PICK j \in 1 .. n : x = t[j]
      BY <1>6, <2>3
    <3>2. m + j \in 1 .. (m + n) /\ x = u[m + j]
      BY <1>4, <3>1
    <3> QED
      BY <1>6, <3>2
  <2> QED
    BY <2>1, <2>2, <2>3
<1> QED
  BY <1>2, <1>7 DEF u

LEMMA RisingAppended ==
  ASSUME NEW s \in Seq(Event), NEW e \in Event
  PROVE  /\ Rising(s) /\ Ahead(ToSet(s), {e}) => Rising(Append(s, e))
         /\ Distinct(s) /\ e.data \notin Data(s) => Distinct(Append(s, e))
<1>1. PICK n \in Nat : n = Len(s) /\ DOMAIN s = 1 .. n
  BY LenProperties
<1>2. PICK t : t = Append(s, e)
  OBVIOUS
<1>3. /\ DOMAIN t = 1 .. (n + 1) /\ t[n + 1] = e /\ \A j \in 1 .. n : t[j] = s[j]
      /\ \A j \in 1 .. (n + 1) : j = n + 1 \/ j \in 1 .. n
  BY <1>1, <1>2, Appended
<1>4. ASSUME Rising(s), Ahead(ToSet(s), {e}) PROVE Rising(t)
  <2> SUFFICES ASSUME NEW j \in 1 .. (n + 1), NEW k \in 1 .. (n + 1), j < k, t[j].flow = t[k].flow
               PROVE  t[j].data < t[k].data
    BY <1>3 DEF Rising
  <2>1. j \in 1 .. n /\ t[j] = s[j] /\ s[j] \in ToSet(s)
    BY <1>1, <1>3 DEF ToSet
  <2>2. CASE k = n + 1
    BY <1>3, <1>4, <2>1, <2>2 DEF Ahead
  <2>3. CASE k \in 1 .. n
    BY <1>1, <1>3, <1>4, <2>1, <2>3 DEF Rising
  <2> QED
    BY <1>3, <2>2, <2>3
<1>5. ASSUME Distinct(s), e.data \notin Data(s) PROVE Distinct(t)
  <2>1. \A j \in 1 .. n : s[j].data # e.data
    BY <1>1, <1>5 DEF Data
  <2> SUFFICES ASSUME NEW j \in 1 .. (n + 1), NEW k \in 1 .. (n + 1), t[j].data = t[k].data
               PROVE  j = k
    BY <1>3 DEF Distinct
  <2>2. CASE j \in 1 .. n /\ k \in 1 .. n
    BY <1>1, <1>3, <1>5, <2>2 DEF Distinct
  <2>3. CASE j = n + 1 \/ k = n + 1
    BY <1>3, <2>1, <2>3
  <2> QED
    BY <1>3, <2>2, <2>3
<1> QED
  BY <1>2, <1>4, <1>5

LEMMA RisingTail ==
  ASSUME NEW s \in Seq(Event), s # <<>>
  PROVE  /\ Rising(s) => Rising(Tail(s)) /\ Ahead({Head(s)}, ToSet(Tail(s)))
         /\ Distinct(s) => Distinct(Tail(s)) /\ Head(s).data \notin Data(Tail(s))
<1>1. PICK n \in Nat : n = Len(s) /\ DOMAIN s = 1 .. n
  BY LenProperties
<1>2. PICK t : t = Tail(s)
  OBVIOUS
<1>3. t \in Seq(Event) /\ Len(t) = n - 1 /\ Head(s) = s[1] /\ 1 \in 1 .. n
  BY <1>1, <1>2, Tailed
<1>4. \A j \in DOMAIN t : t[j] = s[j + 1] /\ j + 1 \in 1 .. n /\ 1 < j + 1 /\ j \in Int
  <2>1. DOMAIN t = 1 .. (n - 1)
    BY <1>1, <1>3, LenProperties
  <2> QED
    BY <1>1, <1>2, <2>1, Tailed
<1>5. \A j, k \in DOMAIN t : (j < k => j + 1 < k + 1) /\ (j + 1 = k + 1 => j = k)
  BY <1>4
<1>6. ASSUME Rising(s) PROVE Rising(t) /\ Ahead({Head(s)}, ToSet(t))
  <2>1. Rising(t)
    BY <1>1, <1>4, <1>5, <1>6 DEF Rising
  <2>2. \A j \in DOMAIN t : s[1].flow = t[j].flow => s[1].data < t[j].data
    BY <1>1, <1>3, <1>4, <1>6 DEF Rising
  <2> QED
    BY <1>3, <2>1, <2>2 DEF Ahead, ToSet
<1>7. ASSUME Distinct(s) PROVE Distinct(t) /\ Head(s).data \notin Data(t)
  <2>1. Distinct(t)
    BY <1>1, <1>4, <1>5, <1>7 DEF Distinct
  <2>2. \A j \in DOMAIN t : t[j].data # s[1].data
    <3> SUFFICES ASSUME NEW j \in DOMAIN t PROVE t[j].data # s[1].data
      OBVIOUS
    <3>1. t[j] = s[j + 1] /\ j + 1 \in 1 .. n /\ j + 1 # 1
      BY <1>4
    <3> QED
      BY <1>1, <1>3, <1>7, <3>1 DEF Distinct
  <2> QED
    BY <1>3, <2>1, <2>2 DEF Data
<1> QED
  BY <1>2, <1>6, <1>7

LEMMA RisingRemoved ==
  ASSUME NEW s \in Seq(Event), NEW k \in DOMAIN s
  PROVE  /\ Rising(s) /\ (\A j \in 1 .. (k - 1) : s[j].flow # s[k].flow) =>
              Rising(RemoveAt(s, k)) /\ Ahead({s[k]}, ToSet(RemoveAt(s, k)))
         /\ Distinct(s) => Distinct(RemoveAt(s, k)) /\ s[k].data \notin Data(RemoveAt(s, k))
<1>1. PICK n \in Nat : n = Len(s) /\ DOMAIN s = 1 .. n
  BY LenProperties
<1>2. PICK t : t = RemoveAt(s, k)
  OBVIOUS
<1>3. t \in Seq(Event) /\ k \in 1 .. n
  BY <1>1, <1>2, Removed
<1>4. \A j \in DOMAIN t : t[j] = s[Was(j, k)] /\ Was(j, k) \in 1 .. n /\ Was(j, k) # k /\ j \in Int
  <2>1. \A j \in DOMAIN t : j \in Int
    BY <1>3, LenProperties
  <2> QED
    BY <1>1, <1>2, <2>1, Removed
<1>5. \A j, l \in DOMAIN t : /\ j < l => Was(j, k) < Was(l, k)
                             /\ Was(j, k) = Was(l, k) => j = l
  <2>1. \A j, l \in DOMAIN t : j < l => Was(j, k) < Was(l, k)
    BY <1>2, Removed
  <2> QED
    BY <1>4, <2>1
<1>6. ASSUME Rising(s), \A j \in 1 .. (k - 1) : s[j].flow # s[k].flow
      PROVE  Rising(t) /\ Ahead({s[k]}, ToSet(t))
  <2>1. Rising(t)
    BY <1>1, <1>4, <1>5, <1>6 DEF Rising
  <2>2. \A j \in DOMAIN t : s[k].flow = t[j].flow => s[k].data < t[j].data
    <3> SUFFICES ASSUME NEW j \in DOMAIN t, s[k].flow = t[j].flow PROVE s[k].data < t[j].data
      OBVIOUS
    <3>1. t[j] = s[Was(j, k)] /\ Was(j, k) \in 1 .. n /\ Was(j, k) # k
      BY <1>4
    <3>2. Was(j, k) \notin 1 .. (k - 1)
      BY <1>6, <3>1
    <3>3. k < Was(j, k)
      BY <1>3, <3>1, <3>2
    <3> QED
      BY <1>1, <1>3, <1>6, <3>1, <3>3 DEF Rising
  <2> QED
    BY <2>1, <2>2 DEF Ahead, ToSet
<1>7. ASSUME Distinct(s) PROVE Distinct(t) /\ s[k].data \notin Data(t)
  <2>1. Distinct(t)
    BY <1>1, <1>4, <1>5, <1>7 DEF Distinct
  <2>2. \A j \in DOMAIN t : t[j].data # s[k].data
    <3> SUFFICES ASSUME NEW j \in DOMAIN t PROVE t[j].data # s[k].data
      OBVIOUS
    <3>1. t[j] = s[Was(j, k)] /\ Was(j, k) \in 1 .. n /\ Was(j, k) # k
      BY <1>4
    <3> QED
      BY <1>1, <1>3, <1>7, <3>1 DEF Distinct
  <2> QED
    BY <2>1, <2>2 DEF Data
<1> QED
  BY <1>2, <1>6, <1>7

-----------------------------------------------------------------------------
(* The events of the device programs.                                      *)

Sending == {"01project", "02practice", "practice"}

\* The events that wait at a port or are held by it.
At(p) == ToSet(cq[p]) \cup ToSet(held[p])

EvTyped ==
  /\ program \in Programs /\ i \in Nat /\ turn \in DOMAIN Polled
  /\ queue \in [Queues -> Seq(Event)]
  /\ cq \in [Ports -> Seq(Event)] /\ held \in [Ports -> Seq(Event)]
  /\ received \in Seq(Event)

\* The events of a queue bear its number; only parsing_event uses the second.
QueueOf ==
  /\ \A q \in Queues : \A e \in ToSet(queue[q]) : e.queue = q
  /\ program # "parsing_event" =>
       queue[1] = <<>> /\ \A p \in Ports : \A e \in At(p) : e.queue = 0

\* The ports of a flow.
OnePort ==
  \A q \in Queues, flow \in {0, 1}, p1, p2 \in Ports :
    Pinned(q, flow, p1) /\ Pinned(q, flow, p2) => p1 = p2

\* What was sent comes before what has yet to be sent.
Passed(S) == \A e \in S : \A l \in (i + 1) .. Len(Events) : e.data < Events[l].data

\* The events go in their order from the queue to a port, and are received in it.
InSequence ==
  IF program \in Sending
  THEN /\ Rising(received) /\ Rising(queue[0])
       /\ Passed(ToSet(received)) /\ Passed(ToSet(queue[0]))
       /\ Ahead(ToSet(received), ToSet(queue[0]))
       /\ \A p \in Ports : /\ Rising(cq[p]) /\ Passed(ToSet(cq[p]))
                           /\ Ahead(ToSet(received), ToSet(cq[p]))
                           /\ Ahead(ToSet(cq[p]), ToSet(queue[0]))
  ELSE received = <<>>

\* Five sets that share nothing and make up the pool.
Shared(a, b, c, d, e) ==
  /\ a \cap b = {} /\ a \cap c = {} /\ a \cap d = {} /\ a \cap e = {}
  /\ b \cap c = {} /\ b \cap d = {} /\ b \cap e = {}
  /\ c \cap d = {} /\ c \cap e = {} /\ d \cap e = {}
  /\ a \cup b \cup c \cup d \cup e = 1 .. Mbufs

\* Every mbuf of ipc is in one place, once.
IpcMbufs ==
  program = "ipc" =>
    /\ Distinct(queue[0]) /\ Distinct(cq[0]) /\ Distinct(cq[1])
    /\ Shared(Data(queue[0]), Data(cq[0]), Data(cq[1]), pool, leaked)

\* The packets of parsing_event.
Parsing == Data(queue[0]) \cup Data(queue[1]) \cup Data(cq[0]) \cup Data(held[0])

ParseMbufs ==
  program = "parsing_event" =>
    /\ cq[1] = <<>> /\ cq[2] = <<>> /\ held[1] = <<>> /\ held[2] = <<>>
    /\ pc \in {"poll", "forward"} /\ Len(held[0]) = (IF pc = "forward" THEN 1 ELSE 0)
    /\ pool \subseteq 1 .. Mbufs /\ Parsing = (1 .. Mbufs) \ pool
    /\ Len(queue[0]) + Len(queue[1]) + Len(cq[0]) + Len(held[0]) = Cardinality(Parsing)

EventInv == EvTyped /\ QueueOf /\ OnePort /\ InSequence /\ IpcMbufs /\ ParseMbufs

LEMMA NoEvents ==
  /\ <<>> \in Seq(Event) /\ Len(<<>>) = 0 /\ DOMAIN <<>> = {}
  /\ ToSet(<<>>) = {} /\ Data(<<>>) = {} /\ Rising(<<>>) /\ Distinct(<<>>)
<1>1. <<>> \in Seq(Event) /\ Len(<<>>) = 0 /\ DOMAIN <<>> = {}
  BY EmptySeq
<1> QED
  BY <1>1 DEF ToSet, Data, Rising, Distinct

LEMMA SomeEvents ==
  ASSUME NEW s \in Seq(Event), s # <<>>
  PROVE  /\ Head(s) \in Event /\ Tail(s) \in Seq(Event) /\ <<Head(s)>> \in Seq(Event)
         /\ ToSet(s) = ToSet(Tail(s)) \cup {Head(s)} /\ ToSet(<<Head(s)>>) = {Head(s)}
         /\ Data(s) = Data(Tail(s)) \cup {Head(s).data} /\ Data(<<Head(s)>>) = {Head(s).data}
         /\ Len(Tail(s)) = Len(s) - 1 /\ Len(<<Head(s)>>) = 1 /\ Len(s) \in Nat
<1>1. /\ Head(s) \in Event /\ Tail(s) \in Seq(Event) /\ Len(Tail(s)) = Len(s) - 1
      /\ ToSet(s) = ToSet(Tail(s)) \cup {Head(s)} /\ Data(s) = Data(Tail(s)) \cup {Head(s).data}
  BY Tailed
<1>2. PICK e : e = Head(s)
  OBVIOUS
<1>3. <<e>> \in Seq(Event) /\ Len(<<e>>) = 1 /\ DOMAIN <<e>> = {1} /\ <<e>>[1] = e
  BY <1>1, <1>2
<1>4. ToSet(<<e>>) = {e} /\ Data(<<e>>) = {e.data}
  BY <1>3 DEF ToSet, Data
<1> QED
  BY <1>1, <1>2, <1>3, <1>4, LenProperties

\* The elements of a sequence of events.
LEMMA EventsOf ==
  ASSUME NEW s \in Seq(Event)
  PROVE  /\ ToSet(s) \subseteq Event /\ Data(s) = {e.data : e \in ToSet(s)} /\ Len(s) \in Nat
         /\ \A k \in DOMAIN s : s[k] \in ToSet(s) /\ s[k] \in Event
<1>1. \A k \in DOMAIN s : s[k] \in Event
  BY ElementOfSeq, LenProperties
<1>2. \A x : x \in ToSet(s) <=> \E k \in DOMAIN s : x = s[k]
  BY DEF ToSet
<1>3. \A x : x \in Data(s) <=> \E k \in DOMAIN s : x = s[k].data
  BY DEF Data
<1>4. \A x : x \in Data(s) <=> \E e \in ToSet(s) : x = e.data
  BY <1>2, <1>3
<1> QED
  BY <1>1, <1>2, <1>4, LenProperties

LEMMA PolledPorts ==
  ASSUME EvTyped
  PROVE  /\ Polled[turn] \in Ports /\ (turn % Len(Polled)) + 1 \in DOMAIN Polled
         /\ \A q \in Queues : Links(q) \subseteq Ports
         /\ program = "ipc" => \A q \in Queues : Links(q) \subseteq {0, 1}
         /\ program = "parsing_event" => \A q \in Queues : Links(q) \subseteq {0}
<1>1. Polled = <<1, 2>> \/ Polled = <<0>> \/ Polled = <<1>>
  BY DEF EvTyped, Programs, Polled
<1>2. Polled[turn] \in Ports /\ (turn % Len(Polled)) + 1 \in DOMAIN Polled
  <2>1. turn \in DOMAIN Polled
    BY DEF EvTyped
  <2>2. CASE Polled = <<1, 2>>
    <3>1. turn \in {1, 2} /\ Len(Polled) = 2 /\ DOMAIN Polled = {1, 2}
      BY <2>1, <2>2
    <3> QED
      BY <2>2, <3>1 DEF Ports
  <2>3. CASE Polled = <<0>> \/ Polled = <<1>>
    <3>1. turn = 1 /\ Len(Polled) = 1 /\ DOMAIN Polled = {1}
      BY <2>1, <2>3
    <3> QED
      BY <2>3, <3>1 DEF Ports
  <2> QED
    BY <1>1, <2>2, <2>3
<1> QED
  BY <1>2 DEF EvTyped, Programs, Ports, Links

LEMMA DequeueMoves ==
  ASSUME EvTyped, NEW p \in Ports, Dequeue(p)
  PROVE  /\ cq' \in [Ports -> Seq(Event)] /\ held' \in [Ports -> Seq(Event)]
         /\ \A r \in Ports : r # p => cq'[r] = cq[r] /\ held'[r] = held[r]
         /\ \A r \in Ports : ToSet(cq'[r]) \subseteq ToSet(cq[r]) /\ At(r)' \subseteq At(r)
         /\ cq[p] = <<>> => cq'[p] = <<>> /\ held'[p] = <<>>
         /\ cq[p] # <<>> => cq'[p] = Tail(cq[p]) /\ held'[p] = <<Head(cq[p])>>
<1>1. cq[p] \in Seq(Event) /\ cq \in [Ports -> Seq(Event)] /\ held \in [Ports -> Seq(Event)]
  BY DEF EvTyped
<1>2. /\ cq[p] = <<>> => cq' = cq /\ held' = [held EXCEPT ![p] = <<>>]
      /\ cq[p] # <<>> => cq' = [cq EXCEPT ![p] = Tail(cq[p])] /\ held' = [held EXCEPT ![p] = <<Head(cq[p])>>]
  BY <1>1 DEF Dequeue
<1>3. CASE cq[p] = <<>>
  <2>1. cq' = cq /\ held' \in [Ports -> Seq(Event)] /\ held'[p] = <<>> /\ \A r \in Ports : r # p => held'[r] = held[r]
    BY <1>1, <1>2, <1>3, NoEvents
  <2>2. ASSUME NEW r \in Ports PROVE At(r)' \subseteq At(r)
    BY <2>1, NoEvents DEF At
  <2> QED
    BY <1>1, <1>3, <2>1, <2>2
<1>4. CASE cq[p] # <<>>
  <2>1. /\ cq' \in [Ports -> Seq(Event)] /\ held' \in [Ports -> Seq(Event)]
        /\ cq'[p] = Tail(cq[p]) /\ held'[p] = <<Head(cq[p])>>
        /\ \A r \in Ports : r # p => cq'[r] = cq[r] /\ held'[r] = held[r]
    BY <1>1, <1>2, <1>4, SomeEvents
  <2>2. ToSet(cq'[p]) \subseteq ToSet(cq[p]) /\ ToSet(held'[p]) \subseteq ToSet(cq[p])
    BY <1>1, <1>4, <2>1, SomeEvents
  <2>3. ASSUME NEW r \in Ports PROVE ToSet(cq'[r]) \subseteq ToSet(cq[r]) /\ At(r)' \subseteq At(r)
    BY <2>1, <2>2 DEF At
  <2> QED
    BY <1>4, <2>1, <2>3
<1> QED
  BY <1>3, <1>4

\* A flow is at the port of one of its events.
LEMMA PinnedAt ==
  ASSUME EvTyped, NEW q, NEW flow, NEW p \in Ports
  PROVE  Pinned(q, flow, p) <=> \E e \in At(p) : e.queue = q /\ e.flow = flow
<1>1. ToSet(cq[p] \o held[p]) = At(p)
  BY Concatenated DEF EvTyped, At
<1> QED
  BY <1>1 DEF Pinned

LEMMA PinnedAtNext ==
  ASSUME EvTyped', NEW q, NEW flow, NEW p \in Ports
  PROVE  Pinned(q, flow, p)' <=> \E e \in At(p)' : e.queue = q /\ e.flow = flow
<1>1. ToSet(cq'[p] \o held'[p]) = At(p)'
  BY Concatenated DEF EvTyped, At
<1> QED
  BY <1>1 DEF Pinned

LEMMA KeepsPort ==
  ASSUME EvTyped, EvTyped', OnePort, \A r \in Ports : At(r)' \subseteq At(r)
  PROVE  OnePort'
<1>1. \A q \in Queues, flow \in {0, 1}, r \in Ports : Pinned(q, flow, r)' => Pinned(q, flow, r)
  BY PinnedAt, PinnedAtNext
<1> QED
  BY <1>1 DEF OnePort

LEMMA EventInit == Init => EventInv
<1> SUFFICES ASSUME Init PROVE EventInv
  OBVIOUS
<1>1. /\ queue = [q \in Queues |-> <<>>] /\ cq = [p \in Ports |-> <<>>] /\ held = [p \in Ports |-> <<>>]
      /\ i = 0 /\ turn = 1 /\ received = <<>> /\ pc = "poll" /\ leaked = {} /\ program \in Programs
      /\ pool = (IF program \in {"ipc", "parsing_event"} THEN 1 .. Mbufs ELSE {})
  BY DEF Init
<1>2. /\ \A q \in Queues : queue[q] = <<>>
      /\ \A p \in Ports : cq[p] = <<>> /\ held[p] = <<>>
      /\ 0 \in Queues /\ 1 \in Queues /\ 0 \in Ports /\ 1 \in Ports /\ 2 \in Ports
  BY <1>1 DEF Queues, Ports
<1>3. turn \in DOMAIN Polled
  <2>1. Polled = <<1, 2>> \/ Polled = <<0>> \/ Polled = <<1>>
    BY <1>1 DEF Programs, Polled
  <2> QED
    BY <1>1, <2>1
<1>4. EvTyped
  BY <1>1, <1>3, NoEvents DEF EvTyped
<1>5. \A p \in Ports : At(p) = {}
  BY <1>2, NoEvents DEF At
<1>6. QueueOf
  BY <1>2, <1>5, NoEvents DEF QueueOf
<1>7. OnePort
  BY <1>4, <1>5, PinnedAt DEF OnePort
<1>8. InSequence
  BY <1>1, <1>2, NoEvents DEF InSequence, Ahead, Passed
<1>9. IpcMbufs
  BY <1>1, <1>2, NoEvents DEF IpcMbufs, Shared
<1>10. ParseMbufs
  <2> SUFFICES ASSUME program = "parsing_event" PROVE ParseMbufs
    BY DEF ParseMbufs
  <2>1. Parsing = {} /\ pool = 1 .. Mbufs /\ Cardinality(Parsing) = 0
    BY <1>1, <1>2, NoEvents, FS_EmptySet DEF Parsing
  <2> QED
    BY <1>1, <1>2, <2>1, NoEvents DEF ParseMbufs
<1> QED
  BY <1>4, <1>6, <1>7, <1>8, <1>9, <1>10 DEF EventInv

\* What is sent is in the order of its data.
LEMMA EventsRise ==
  ASSUME program \in Programs
  PROVE  /\ Len(Events) \in Nat
         /\ \A k \in 1 .. Len(Events) : Events[k].flow \in {0, 1} /\ Events[k].data \in Nat
         /\ \A k, l \in 1 .. Len(Events) : k < l => Events[k].data < Events[l].data
         /\ program \in Sending <=> program \notin {"ipc", "parsing_event"}
         /\ program \notin Sending => Events = <<>> /\ Len(Events) = 0
<1>1. CASE program = "02practice"
  <2>1. Events = second_events /\ Count \in Nat
    BY <1>1, EventAssumption DEF Events
  <2>2. Len(Events) = Count
    BY <2>1 DEF second_events
  <2>3. \A k \in 1 .. Count : Events[k].flow = (k - 1) % 2 /\ Events[k].data = k - 1
    BY <2>1 DEF second_events
  <2>4. \A k \in 1 .. Count : (k - 1) % 2 \in {0, 1} /\ k - 1 \in Nat
    BY <2>1
  <2> QED
    BY <1>1, <2>1, <2>2, <2>3, <2>4, SMTT(30) DEF Sending
<1>2. CASE program \in {"01project", "practice"}
  BY <1>2 DEF Events, project_events, practice_events, Sending
<1>3. CASE program \in {"ipc", "parsing_event"}
  BY <1>3 DEF Events, Sending
<1> QED
  BY <1>1, <1>2, <1>3 DEF Programs

\* The scheduler moves an event.
Moves(q, k, p) ==
  /\ CanGo(q, k, p)
  /\ queue' = [queue EXCEPT ![q] = RemoveAt(queue[q], k)]
  /\ cq' = [cq EXCEPT ![p] = Append(cq[p], queue[q][k])]
  /\ UNCHANGED <<program, held, i, turn, received, pc, poolVars>>

Moved(q, k, p) ==
  /\ queue[q] \in Seq(Event) /\ cq[p] \in Seq(Event) /\ queue[q][k] \in Event
  /\ queue'[q] = RemoveAt(queue[q], k) /\ \A r \in Queues : r # q => queue'[r] = queue[r]
  /\ cq'[p] = Append(cq[p], queue[q][k]) /\ \A r \in Ports : r # p => cq'[r] = cq[r]
  /\ ToSet(queue[q]) = ToSet(queue'[q]) \cup {queue[q][k]}
  /\ ToSet(cq'[p]) = ToSet(cq[p]) \cup {queue[q][k]}
  /\ Data(queue[q]) = Data(queue'[q]) \cup {queue[q][k].data}
  /\ Data(cq'[p]) = Data(cq[p]) \cup {queue[q][k].data}
  /\ Len(queue'[q]) = Len(queue[q]) - 1 /\ Len(cq'[p]) = Len(cq[p]) + 1
  /\ program' = program /\ held' = held /\ i' = i /\ turn' = turn /\ received' = received
  /\ pc' = pc /\ pool' = pool /\ leaked' = leaked

LEMMA MovesTyped ==
  ASSUME EvTyped, NEW q \in Queues, NEW k \in DOMAIN queue[q], NEW p \in Ports, Moves(q, k, p)
  PROVE  EvTyped' /\ Moved(q, k, p)
<1>1. queue \in [Queues -> Seq(Event)] /\ cq \in [Ports -> Seq(Event)] /\ queue[q] \in Seq(Event) /\ cq[p] \in Seq(Event)
  BY DEF EvTyped
<1>2. /\ program' = program /\ held' = held /\ i' = i /\ turn' = turn /\ received' = received
      /\ pc' = pc /\ pool' = pool /\ leaked' = leaked
      /\ queue' = [queue EXCEPT ![q] = RemoveAt(queue[q], k)]
      /\ cq' = [cq EXCEPT ![p] = Append(cq[p], queue[q][k])]
  BY DEF Moves, poolVars
<1>3. PICK t, u, e : t = RemoveAt(queue[q], k) /\ e = queue[q][k] /\ u = Append(cq[p], e)
  OBVIOUS
<1>4. /\ t \in Seq(Event) /\ Len(t) = Len(queue[q]) - 1 /\ e \in Event
      /\ ToSet(queue[q]) = ToSet(t) \cup {e} /\ Data(queue[q]) = Data(t) \cup {e.data}
  BY <1>1, <1>3, Removed
<1>5. /\ u \in Seq(Event) /\ Len(u) = Len(cq[p]) + 1
      /\ ToSet(u) = ToSet(cq[p]) \cup {e} /\ Data(u) = Data(cq[p]) \cup {e.data}
  BY <1>1, <1>3, <1>4, Appended
<1>6. /\ queue' \in [Queues -> Seq(Event)] /\ queue'[q] = t /\ \A r \in Queues : r # q => queue'[r] = queue[r]
      /\ cq' \in [Ports -> Seq(Event)] /\ cq'[p] = u /\ \A r \in Ports : r # p => cq'[r] = cq[r]
  BY <1>1, <1>2, <1>3, <1>4, <1>5
<1>7. EvTyped'
  BY <1>2, <1>6 DEF EvTyped, Polled
<1> QED
  BY <1>1, <1>2, <1>3, <1>4, <1>5, <1>6, <1>7 DEF Moved

LEMMA MovesKeepsQueue ==
  ASSUME EvTyped, QueueOf, NEW q \in Queues, NEW k \in DOMAIN queue[q], NEW p \in Ports, Moves(q, k, p)
  PROVE  QueueOf' /\ queue[q][k].queue = q /\ (program # "parsing_event" => q = 0)
<1>0. EvTyped' /\ Moved(q, k, p)
  BY MovesTyped
<1>1. queue[q][k] \in ToSet(queue[q])
  BY DEF ToSet
<1>2. queue[q][k].queue = q
  BY <1>1 DEF QueueOf
<1>3. \A r \in Queues : ToSet(queue'[r]) \subseteq ToSet(queue[r])
  BY <1>0 DEF Moved
<1>4. \A r \in Queues : \A e \in ToSet(queue'[r]) : e.queue = r
  BY <1>3 DEF QueueOf
<1>5. ASSUME program # "parsing_event"
      PROVE  q = 0 /\ queue'[1] = <<>> /\ \A r \in Ports : \A e \in At(r)' : e.queue = 0
  <2>1. queue[1] = <<>>
    BY <1>5 DEF QueueOf
  <2>2. q = 0
    BY <2>1, NoEvents DEF Queues
  <2>3. queue'[1] = queue[1]
    BY <2>2, <1>0 DEF Moved, Queues
  <2>4. \A r \in Ports : At(r)' \subseteq At(r) \cup {queue[q][k]}
    <3>1. /\ ToSet(cq'[p]) = ToSet(cq[p]) \cup {queue[q][k]} /\ held' = held
          /\ \A r \in Ports : r # p => cq'[r] = cq[r]
      BY <1>0 DEF Moved
    <3> QED
      BY <3>1 DEF At
  <2> QED
    BY <1>2, <1>5, <2>1, <2>2, <2>3, <2>4 DEF QueueOf
<1>6. program' = program
  BY <1>0 DEF Moved
<1> QED
  BY <1>2, <1>4, <1>5, <1>6 DEF QueueOf

LEMMA MovesKeepsPort ==
  ASSUME EvTyped, QueueOf, OnePort, NEW q \in Queues, NEW k \in DOMAIN queue[q], NEW p \in Ports, Moves(q, k, p)
  PROVE  OnePort'
<1>0. EvTyped' /\ Moved(q, k, p)
  BY MovesTyped
<1>1. PICK e : e = queue[q][k]
  OBVIOUS
<1>2. EvTyped' /\ e.queue = q /\ \A r \in Ports : r # p => At(r)' = At(r)
  BY <1>1, <1>0, MovesKeepsQueue DEF Moved, At
<1>3. At(p)' = At(p) \cup {e}
  <2>1. ToSet(cq'[p]) = ToSet(cq[p]) \cup {e} /\ held' = held
    BY <1>1, <1>0 DEF Moved
  <2> QED
    BY <2>1 DEF At
<1>4. \A other \in Ports : other # p => ~Pinned(q, e.flow, other)
  BY <1>1 DEF Moves, CanGo
<1>5. \A r \in Queues, flow \in {0, 1}, o \in Ports :
        Pinned(r, flow, o)' => Pinned(r, flow, o) \/ (o = p /\ r = q /\ flow = e.flow)
  BY <1>2, <1>3, PinnedAt, PinnedAtNext
<1> QED
  BY <1>4, <1>5 DEF OnePort

LEMMA MovesKeepsSequence ==
  ASSUME EvTyped, QueueOf, InSequence, NEW q \in Queues, NEW k \in DOMAIN queue[q], NEW p \in Ports, Moves(q, k, p)
  PROVE  InSequence'
<1>0. EvTyped' /\ Moved(q, k, p)
  BY MovesTyped
<1>1. program' = program /\ i' = i /\ received' = received /\ Events' = Events
  BY <1>0 DEF Moved, Events
<1>2. CASE program \notin Sending
  BY <1>1, <1>2 DEF InSequence
<1>3. CASE program \in Sending
  <2>1. PICK e : e = queue[q][k]
    OBVIOUS
  <2>2. q = 0 /\ 0 \in Queues
    BY <1>3, MovesKeepsQueue DEF Sending, Queues
  <2>3. /\ queue[0] \in Seq(Event) /\ cq[p] \in Seq(Event) /\ e \in Event /\ k \in DOMAIN queue[0]
        /\ queue'[0] = RemoveAt(queue[0], k) /\ cq'[p] = Append(cq[p], e)
        /\ ToSet(queue[0]) = ToSet(queue'[0]) \cup {e} /\ ToSet(cq'[p]) = ToSet(cq[p]) \cup {e}
        /\ \A r \in Ports : r # p => cq'[r] = cq[r]
    <3>1. /\ queue[q] \in Seq(Event) /\ cq[p] \in Seq(Event) /\ e \in Event
          /\ queue'[q] = RemoveAt(queue[q], k) /\ cq'[p] = Append(cq[p], queue[q][k])
      BY <2>1, <1>0 DEF Moved
    <3>2. /\ ToSet(queue[q]) = ToSet(queue'[q]) \cup {e} /\ ToSet(cq'[p]) = ToSet(cq[p]) \cup {e}
          /\ \A r \in Ports : r # p => cq'[r] = cq[r]
      BY <2>1, <1>0 DEF Moved
    <3> QED
      BY <2>1, <2>2, <3>1, <3>2
  <2>4. /\ Rising(received) /\ Rising(queue[0])
        /\ Passed(ToSet(received)) /\ Passed(ToSet(queue[0]))
        /\ Ahead(ToSet(received), ToSet(queue[0]))
        /\ \A r \in Ports : /\ Rising(cq[r]) /\ Passed(ToSet(cq[r]))
                            /\ Ahead(ToSet(received), ToSet(cq[r]))
                            /\ Ahead(ToSet(cq[r]), ToSet(queue[0]))
    BY <1>3 DEF InSequence
  <2>5. \A j \in 1 .. (k - 1) : queue[0][j].flow # queue[0][k].flow
    BY <2>2 DEF Moves, CanGo
  <2>6. Rising(queue'[0]) /\ Ahead({e}, ToSet(queue'[0]))
    BY <2>1, <2>2, <2>3, <2>4, <2>5, RisingRemoved
  <2>7. Ahead(ToSet(cq[p]), {e})
    BY <2>3, <2>4 DEF Ahead
  <2>8. Rising(cq'[p])
    BY <2>3, <2>4, <2>7, RisingAppended
  <2>9. \A S : Passed(S)' <=> Passed(S)
    BY <1>1 DEF Passed
  <2>10. Passed(ToSet(queue'[0])) /\ Passed(ToSet(cq'[p]))
    BY <2>3, <2>4 DEF Passed
  <2>11. Ahead(ToSet(received), ToSet(queue'[0])) /\ Ahead(ToSet(received), ToSet(cq'[p]))
    BY <2>3, <2>4 DEF Ahead
  <2>12. Ahead(ToSet(cq'[p]), ToSet(queue'[0]))
    BY <2>3, <2>4, <2>6 DEF Ahead
  <2>13. ASSUME NEW r \in Ports, r # p PROVE Ahead(ToSet(cq'[r]), ToSet(queue'[0]))
    BY <2>3, <2>4, <2>13 DEF Ahead
  <2>14. \A r \in Ports : /\ Rising(cq'[r]) /\ Passed(ToSet(cq'[r]))
                          /\ Ahead(ToSet(received), ToSet(cq'[r]))
                          /\ Ahead(ToSet(cq'[r]), ToSet(queue'[0]))
    BY <2>3, <2>4, <2>8, <2>10, <2>11, <2>12, <2>13
  <2> QED
    BY <1>1, <1>3, <2>4, <2>6, <2>9, <2>10, <2>11, <2>14 DEF InSequence
<1> QED
  BY <1>2, <1>3

\* An element goes from one of the sets to the second or the third.
LEMMA SharedMoves ==
  ASSUME NEW a, NEW b, NEW c, NEW d, NEW e, NEW a2, NEW x,
         Shared(a, b, c, d, e), a = a2 \cup {x}, x \notin a2
  PROVE  Shared(a2, b \cup {x}, c, d, e) /\ Shared(a2, b, c \cup {x}, d, e)
BY DEF Shared

LEMMA MovesKeepsMbufs ==
  ASSUME EventInv, NEW q \in Queues, NEW k \in DOMAIN queue[q], NEW p \in Links(q), Moves(q, k, p)
  PROVE  IpcMbufs' /\ ParseMbufs'
<1>1. EvTyped /\ QueueOf /\ p \in Ports
  BY PolledPorts DEF EventInv
<1>2. EvTyped' /\ Moved(q, k, p)
  BY <1>1, MovesTyped
<1>3. PICK e : e = queue[q][k]
  OBVIOUS
<1>4. ASSUME program = "ipc"
      PROVE  /\ Distinct(queue'[0]) /\ Distinct(cq'[0]) /\ Distinct(cq'[1])
             /\ Shared(Data(queue'[0]), Data(cq'[0]), Data(cq'[1]), pool', leaked')
  <2>1. q = 0 /\ p \in {0, 1} /\ 0 \in Ports /\ 1 \in Ports
    BY <1>1, <1>4, MovesKeepsQueue, PolledPorts DEF Ports
  <2>2. /\ Distinct(queue[0]) /\ Distinct(cq[0]) /\ Distinct(cq[1])
        /\ Shared(Data(queue[0]), Data(cq[0]), Data(cq[1]), pool, leaked)
    BY <1>4 DEF EventInv, IpcMbufs
  <2>3. /\ queue[0] \in Seq(Event) /\ cq[p] \in Seq(Event) /\ e \in Event /\ k \in DOMAIN queue[0]
        /\ queue'[0] = RemoveAt(queue[0], k) /\ cq'[p] = Append(cq[p], e) /\ e = queue[0][k]
        /\ \A r \in Ports : r # p => cq'[r] = cq[r]
        /\ pool' = pool /\ leaked' = leaked
    BY <1>2, <1>3, <2>1 DEF Moved
  <2>4. Data(queue[0]) = Data(queue'[0]) \cup {e.data} /\ Data(cq'[p]) = Data(cq[p]) \cup {e.data}
    BY <1>2, <1>3, <2>1 DEF Moved
  <2>5. Distinct(queue'[0]) /\ e.data \notin Data(queue'[0])
    BY <2>2, <2>3, RisingRemoved
  <2>6. e.data \notin Data(cq[p])
    BY <2>1, <2>2, <2>4 DEF Shared
  <2>7. Distinct(cq'[p])
    BY <2>1, <2>2, <2>3, <2>6, RisingAppended
  <2>8. CASE p = 0
    <3>1. cq'[1] = cq[1]
      BY <2>1, <2>3, <2>8
    <3>2. Shared(Data(queue'[0]), Data(cq[0]) \cup {e.data}, Data(cq[1]), pool, leaked)
      BY <2>2, <2>4, <2>5, SharedMoves
    <3> QED
      BY <2>2, <2>3, <2>4, <2>5, <2>7, <2>8, <3>1, <3>2
  <2>9. CASE p = 1
    <3>1. cq'[0] = cq[0]
      BY <2>1, <2>3, <2>9
    <3>2. Shared(Data(queue'[0]), Data(cq[0]), Data(cq[1]) \cup {e.data}, pool, leaked)
      BY <2>2, <2>4, <2>5, SharedMoves
    <3> QED
      BY <2>2, <2>3, <2>4, <2>5, <2>7, <2>9, <3>1, <3>2
  <2> QED
    BY <2>1, <2>8, <2>9
<1>5. ASSUME program = "parsing_event"
      PROVE  /\ cq'[1] = <<>> /\ cq'[2] = <<>> /\ held' = held /\ pc' = pc /\ pool' = pool
             /\ Parsing' = Parsing
             /\ Len(queue'[0]) + Len(queue'[1]) + Len(cq'[0]) = Len(queue[0]) + Len(queue[1]) + Len(cq[0])
  <2>1. p = 0 /\ 0 \in Ports /\ 1 \in Ports /\ 2 \in Ports /\ 0 \in Queues /\ 1 \in Queues
    BY <1>1, <1>5, PolledPorts DEF Ports, Queues
  <2>2. /\ Data(queue[q]) = Data(queue'[q]) \cup {e.data} /\ Data(cq'[0]) = Data(cq[0]) \cup {e.data}
        /\ held' = held /\ pc' = pc /\ pool' = pool
    BY <1>2, <1>3, <2>1 DEF Moved
  <2>3. /\ Len(queue'[q]) = Len(queue[q]) - 1 /\ Len(cq'[0]) = Len(cq[0]) + 1
        /\ \A r \in Queues : r # q => queue'[r] = queue[r]
        /\ cq'[1] = cq[1] /\ cq'[2] = cq[2]
    BY <1>2, <2>1 DEF Moved
  <2>4. Len(queue[0]) \in Nat /\ Len(queue[1]) \in Nat /\ Len(cq[0]) \in Nat
    BY <1>1, <2>1, LenProperties DEF EvTyped
  <2>5. cq[1] = <<>> /\ cq[2] = <<>>
    BY <1>5 DEF EventInv, ParseMbufs
  <2>6. CASE q = 0
    <3>1. queue'[1] = queue[1]
      BY <2>1, <2>3, <2>6
    <3>2. Parsing' = Parsing
      BY <2>2, <2>6, <3>1 DEF Parsing
    <3>3. Len(queue'[0]) = Len(queue[0]) - 1 /\ Len(queue'[1]) = Len(queue[1]) /\ Len(cq'[0]) = Len(cq[0]) + 1
      BY <2>3, <2>6, <3>1
    <3>4. Len(queue'[0]) + Len(queue'[1]) + Len(cq'[0]) = Len(queue[0]) + Len(queue[1]) + Len(cq[0])
      <4>1. PICK x, y, z \in Nat : x = Len(queue[0]) /\ y = Len(queue[1]) /\ z = Len(cq[0])
        BY <2>4
      <4>2. Len(queue'[0]) = x - 1 /\ Len(queue'[1]) = y /\ Len(cq'[0]) = z + 1
        BY <3>3, <4>1
      <4>3. (x - 1) + y + (z + 1) = x + y + z
        <5>1. \A l, m, n \in Nat : (l - 1) + m + (n + 1) = l + m + n
          OBVIOUS
        <5> QED
          BY <4>1, <5>1, ZenonT(30)
      <4> QED
        BY <4>1, <4>2, <4>3
    <3>5. cq'[1] = <<>> /\ cq'[2] = <<>>
      BY <2>3, <2>5
    <3> QED
      BY <2>2, <3>2, <3>4, <3>5
  <2>7. CASE q = 1
    <3>1. queue'[0] = queue[0]
      BY <2>1, <2>3, <2>7
    <3>2. Parsing' = Parsing
      BY <2>2, <2>7, <3>1 DEF Parsing
    <3>3. Len(queue'[1]) = Len(queue[1]) - 1 /\ Len(queue'[0]) = Len(queue[0]) /\ Len(cq'[0]) = Len(cq[0]) + 1
      BY <2>3, <2>7, <3>1
    <3>4. Len(queue'[0]) + Len(queue'[1]) + Len(cq'[0]) = Len(queue[0]) + Len(queue[1]) + Len(cq[0])
      <4>1. PICK x, y, z \in Nat : x = Len(queue[0]) /\ y = Len(queue[1]) /\ z = Len(cq[0])
        BY <2>4
      <4>2. Len(queue'[0]) = x /\ Len(queue'[1]) = y - 1 /\ Len(cq'[0]) = z + 1
        BY <3>3, <4>1
      <4>3. x + (y - 1) + (z + 1) = x + y + z
        <5>1. \A l, m, n \in Nat : l + (m - 1) + (n + 1) = l + m + n
          OBVIOUS
        <5> QED
          BY <4>1, <5>1, ZenonT(30)
      <4> QED
        BY <4>1, <4>2, <4>3
    <3>5. cq'[1] = <<>> /\ cq'[2] = <<>>
      BY <2>3, <2>5
    <3> QED
      BY <2>2, <3>2, <3>4, <3>5
  <2> QED
    BY <2>6, <2>7 DEF Queues
<1>6. program' = program
  BY <1>2 DEF Moved
<1>7. IpcMbufs'
  BY <1>4, <1>6 DEF IpcMbufs
<1>8. ParseMbufs'
  BY <1>5, <1>6 DEF EventInv, ParseMbufs
<1> QED
  BY <1>7, <1>8

LEMMA ScheduleKeeps == ASSUME EventInv, NEW q \in Queues, ScheduleFrom(q) PROVE EventInv'
<1>1. EvTyped /\ QueueOf /\ OnePort /\ InSequence /\ queue \in [Queues -> Seq(Event)] /\ cq \in [Ports -> Seq(Event)]
  BY DEF EventInv, EvTyped
<1>2. PICK k \in DOMAIN queue[q], p \in Links(q) : Moves(q, k, p)
  BY <1>1, PolledPorts DEF ScheduleFrom, Moves
<1>3. p \in Ports
  BY <1>1, PolledPorts
<1>4. EvTyped' /\ QueueOf' /\ OnePort' /\ InSequence'
  BY <1>1, <1>2, <1>3, MovesTyped, MovesKeepsQueue, MovesKeepsPort, MovesKeepsSequence
<1> QED
  BY <1>2, <1>4, MovesKeepsMbufs DEF EventInv

\* An event is added to a queue.
Added(q, e) ==
  /\ queue' \in [Queues -> Seq(Event)] /\ queue'[q] = Append(queue[q], e)
  /\ \A r \in Queues : r # q => queue'[r] = queue[r]
  /\ ToSet(queue'[q]) = ToSet(queue[q]) \cup {e} /\ Data(queue'[q]) = Data(queue[q]) \cup {e.data}
  /\ Len(queue'[q]) = Len(queue[q]) + 1 /\ queue[q] \in Seq(Event)

LEMMA Adds ==
  ASSUME EvTyped, NEW q \in Queues, NEW e \in Event, queue' = [queue EXCEPT ![q] = Append(queue[q], e)]
  PROVE  Added(q, e)
<1>1. queue \in [Queues -> Seq(Event)] /\ queue[q] \in Seq(Event)
  BY DEF EvTyped
<1>2. PICK u : u = Append(queue[q], e)
  OBVIOUS
<1>3. /\ u \in Seq(Event) /\ Len(u) = Len(queue[q]) + 1
      /\ ToSet(u) = ToSet(queue[q]) \cup {e} /\ Data(u) = Data(queue[q]) \cup {e.data}
  BY <1>1, <1>2, Appended
<1>4. queue' \in [Queues -> Seq(Event)] /\ queue'[q] = u /\ \A r \in Queues : r # q => queue'[r] = queue[r]
  BY <1>1, <1>2, <1>3
<1> QED
  BY <1>1, <1>2, <1>3, <1>4 DEF Added

LEMMA EnqueueKeeps == ASSUME EventInv, enqueue_loop PROVE EventInv'
<1>1. EvTyped /\ QueueOf /\ OnePort /\ InSequence /\ program \in Programs /\ i \in Nat
  BY DEF EventInv, EvTyped
<1>2. /\ i < Len(Events) /\ i' = i + 1 /\ program' = program /\ cq' = cq /\ held' = held /\ turn' = turn
      /\ received' = received
      /\ queue' = [queue EXCEPT ![0] = Append(queue[0], New(0, Events[i + 1].flow, Events[i + 1].data))]
  BY <1>1 DEF enqueue_loop, EvTyped
<1>3. PICK n \in Nat : n = Len(Events)
  BY <1>1, EventsRise
<1>4. i + 1 \in 1 .. n /\ n # 0
  BY <1>1, <1>2, <1>3
<1>5. program \in Sending /\ program # "ipc" /\ program # "parsing_event"
  BY <1>1, <1>3, <1>4, EventsRise
<1>6. PICK e \in Event : /\ e = New(0, Events[i + 1].flow, Events[i + 1].data)
                         /\ e.queue = 0 /\ e.data = Events[i + 1].data
  <2>1. Events[i + 1].flow \in {0, 1} /\ Events[i + 1].data \in Nat
    BY <1>1, <1>3, <1>4, EventsRise
  <2>2. \A f \in {0, 1}, d \in Nat : New(0, f, d) \in Event /\ New(0, f, d).queue = 0 /\ New(0, f, d).data = d
    BY DEF New, Event, Queues
  <2> QED
    BY <2>1, <2>2
<1>7. Added(0, e) /\ 0 \in Queues /\ 1 \in Queues
  BY <1>1, <1>2, <1>6, Adds DEF Queues
<1>8. EvTyped'
  BY <1>1, <1>2, <1>7 DEF EvTyped, Polled, Added
<1>9. \A r \in Ports : At(r)' = At(r)
  BY <1>2 DEF At
<1>10. QueueOf'
  <2>1. \A q \in Queues : \A f \in ToSet(queue'[q]) : f.queue = q
    BY <1>1, <1>6, <1>7 DEF QueueOf, Added
  <2>2. queue'[1] = <<>>
    BY <1>1, <1>5, <1>7 DEF QueueOf, Added
  <2> QED
    BY <1>1, <1>2, <1>5, <1>9, <2>1, <2>2 DEF QueueOf
<1>11. OnePort'
  BY <1>1, <1>8, <1>9, KeepsPort
<1>12. Events' = Events
  BY <1>2 DEF Events
<1>13. \A S : Passed(S) => Passed(S)' /\ Ahead(S, {e})
  <2> SUFFICES ASSUME NEW S, Passed(S) PROVE Passed(S)' /\ Ahead(S, {e})
    OBVIOUS
  <2>1. \A l \in (i + 1 + 1) .. n : l \in (i + 1) .. n
    BY <1>1
  <2>2. Passed(S)'
    BY <1>2, <1>3, <1>12, <2>1 DEF Passed
  <2>3. i + 1 \in (i + 1) .. n
    BY <1>1, <1>4
  <2> QED
    BY <1>3, <1>6, <2>2, <2>3 DEF Passed, Ahead
<1>14. Passed({e})'
  <2>1. \A l \in (i + 1 + 1) .. n : i + 1 < l /\ l \in 1 .. n
    BY <1>1
  <2>2. \A l \in (i + 1 + 1) .. n : e.data < Events[l].data
    BY <1>1, <1>3, <1>4, <1>6, <2>1, EventsRise
  <2> QED
    BY <1>2, <1>3, <1>12, <2>2 DEF Passed
<1>15. InSequence'
  <2>1. /\ Rising(received) /\ Rising(queue[0])
        /\ Passed(ToSet(received)) /\ Passed(ToSet(queue[0]))
        /\ Ahead(ToSet(received), ToSet(queue[0]))
        /\ \A r \in Ports : /\ Rising(cq[r]) /\ Passed(ToSet(cq[r]))
                            /\ Ahead(ToSet(received), ToSet(cq[r]))
                            /\ Ahead(ToSet(cq[r]), ToSet(queue[0]))
    BY <1>1, <1>5 DEF InSequence
  <2>2. queue[0] \in Seq(Event) /\ queue'[0] = Append(queue[0], e) /\ ToSet(queue'[0]) = ToSet(queue[0]) \cup {e}
    BY <1>7 DEF Added
  <2>3. Rising(queue'[0])
    BY <1>13, <2>1, <2>2, RisingAppended
  <2>4. \A S : Passed(S) /\ Ahead(S, ToSet(queue[0])) => Ahead(S, ToSet(queue'[0]))
    BY <1>13, <2>2 DEF Ahead
  <2>5. Passed(ToSet(queue[0]))'
    <3>1. \A S : Passed(S)' => Passed(S \cup {e})'
      BY <1>14 DEF Passed
    <3> QED
      BY <1>13, <2>1, <2>2, <3>1
  <2>6. Passed(ToSet(received))' /\ \A r \in Ports : Passed(ToSet(cq[r]))'
    BY <1>2, <1>13, <2>1 DEF Passed
  <2> QED
    BY <1>2, <1>5, <1>13, <2>1, <2>3, <2>4, <2>5, <2>6 DEF InSequence
<1>16. IpcMbufs' /\ ParseMbufs'
  BY <1>2, <1>5 DEF IpcMbufs, ParseMbufs
<1> QED
  BY <1>8, <1>10, <1>11, <1>15, <1>16 DEF EventInv

\* A dequeue keeps what is said of queues and ports.
LEMMA DequeueKeeps ==
  ASSUME EvTyped, EvTyped', QueueOf, OnePort, NEW p \in Ports, Dequeue(p), queue' = queue, program' = program
  PROVE  QueueOf' /\ OnePort'
<1>1. \A r \in Ports : At(r)' \subseteq At(r)
  BY DequeueMoves
<1> QED
  BY <1>1, KeepsPort DEF QueueOf

LEMMA PollKeeps == ASSUME EventInv, Poll PROVE EventInv'
<1>1. EvTyped /\ QueueOf /\ OnePort /\ InSequence /\ program \in Programs /\ received \in Seq(Event)
  BY DEF EventInv, EvTyped
<1>2. PICK p \in Ports : p = Polled[turn]
  BY <1>1, PolledPorts
<1>3. /\ Events # <<>> /\ Dequeue(p) /\ turn' = (turn % Len(Polled)) + 1
      /\ received' = (IF cq[p] = <<>> THEN received ELSE Append(received, Head(cq[p])))
      /\ program' = program /\ queue' = queue /\ i' = i
  BY <1>2 DEF Poll
<1>4. program \in Sending /\ program # "ipc" /\ program # "parsing_event"
  BY <1>1, <1>3, EventsRise
<1>5. /\ cq' \in [Ports -> Seq(Event)] /\ held' \in [Ports -> Seq(Event)]
      /\ \A r \in Ports : r # p => cq'[r] = cq[r]
      /\ \A r \in Ports : ToSet(cq'[r]) \subseteq ToSet(cq[r])
      /\ cq[p] = <<>> => cq'[p] = <<>>
      /\ cq[p] # <<>> => cq'[p] = Tail(cq[p])
  BY <1>1, <1>3, DequeueMoves
<1>6. cq[p] \in Seq(Event) /\ queue \in [Queues -> Seq(Event)] /\ cq \in [Ports -> Seq(Event)]
  BY <1>1 DEF EvTyped
<1>7. EvTyped'
  <2>1. received' \in Seq(Event)
    BY <1>1, <1>3, <1>6, SomeEvents, Appended
  <2>2. Polled' = Polled
    BY <1>3 DEF Polled
  <2> QED
    BY <1>1, <1>3, <1>5, <1>6, <2>1, <2>2, PolledPorts DEF EvTyped
<1>8. QueueOf' /\ OnePort'
  BY <1>1, <1>3, <1>7, DequeueKeeps
<1>9. \A S : Passed(S)' <=> Passed(S)
  BY <1>3 DEF Passed, Events
<1>10. /\ Rising(received) /\ Rising(queue[0])
       /\ Passed(ToSet(received)) /\ Passed(ToSet(queue[0]))
       /\ Ahead(ToSet(received), ToSet(queue[0]))
       /\ \A r \in Ports : /\ Rising(cq[r]) /\ Passed(ToSet(cq[r]))
                           /\ Ahead(ToSet(received), ToSet(cq[r]))
                           /\ Ahead(ToSet(cq[r]), ToSet(queue[0]))
  BY <1>1, <1>4 DEF InSequence
<1>11. \A r \in Ports : Passed(ToSet(cq'[r])) /\ Ahead(ToSet(cq'[r]), ToSet(queue[0]))
                        /\ Ahead(ToSet(received), ToSet(cq'[r]))
  BY <1>5, <1>10 DEF Passed, Ahead
<1>12. CASE cq[p] = <<>>
  <2>1. received' = received /\ \A r \in Ports : cq'[r] = cq[r]
    BY <1>3, <1>5, <1>12
  <2>2. InSequence'
    BY <1>3, <1>4, <1>9, <1>10, <2>1 DEF InSequence
  <2> QED
    BY <1>3, <1>4, <1>7, <1>8, <2>2 DEF EventInv, IpcMbufs, ParseMbufs
<1>13. CASE cq[p] # <<>>
  <2>1. PICK e : e = Head(cq[p])
    OBVIOUS
  <2>2. e \in Event /\ e \in ToSet(cq[p]) /\ received' = Append(received, e) /\ e.flow \in {0, 1}
    BY <1>3, <1>6, <1>13, <2>1, SomeEvents DEF Event
  <2>3. ToSet(received') = ToSet(received) \cup {e}
    BY <1>1, <2>2, Appended
  <2>4. Ahead(ToSet(received), {e})
    BY <1>10, <2>2 DEF Ahead
  <2>5. Rising(received')
    BY <1>1, <1>10, <2>2, <2>4, RisingAppended
  <2>6. Rising(cq'[p]) /\ Ahead({e}, ToSet(cq'[p]))
    BY <1>5, <1>6, <1>10, <1>13, <2>1, RisingTail
  <2>7. ASSUME NEW r \in Ports, r # p PROVE Ahead({e}, ToSet(cq'[r]))
    <3> SUFFICES ASSUME NEW f \in ToSet(cq[r]), f.flow = e.flow PROVE FALSE
      BY <1>5, <2>7 DEF Ahead
    <3>1. f \in At(r) /\ e \in At(p)
      BY <2>2 DEF At
    <3>2. f.queue = 0 /\ e.queue = 0
      BY <1>1, <1>4, <3>1 DEF QueueOf
    <3>3. Pinned(0, e.flow, r) /\ Pinned(0, e.flow, p)
      BY <1>1, <3>1, <3>2, PinnedAt
    <3> QED
      BY <1>1, <2>2, <2>7, <3>3 DEF OnePort, Queues
  <2>8. \A r \in Ports : Rising(cq'[r]) /\ Ahead(ToSet(received'), ToSet(cq'[r]))
    <3>1. \A r \in Ports : Rising(cq'[r]) /\ Ahead({e}, ToSet(cq'[r]))
      BY <1>5, <1>10, <2>6, <2>7
    <3> QED
      BY <1>11, <2>3, <3>1 DEF Ahead
  <2>9. Passed(ToSet(received')) /\ Ahead(ToSet(received'), ToSet(queue[0]))
    BY <1>10, <2>2, <2>3 DEF Passed, Ahead
  <2>10. InSequence'
    BY <1>3, <1>4, <1>9, <1>10, <1>11, <2>5, <2>8, <2>9 DEF InSequence
  <2> QED
    BY <1>3, <1>4, <1>7, <1>8, <2>10 DEF EventInv, IpcMbufs, ParseMbufs
<1> QED
  BY <1>12, <1>13

\* An mbuf goes into an event, is lost, or is freed.
LEMMA SharedSent ==
  ASSUME NEW a, NEW b, NEW c, NEW d, NEW e, NEW x \in d, Shared(a, b, c, d, e)
  PROVE  /\ Shared(a \cup {x}, b, c, d \ {x}, e) /\ Shared(a, b, c, d \ {x}, e \cup {x})
BY DEF Shared

LEMMA SharedFreed ==
  ASSUME NEW a, NEW b, NEW c, NEW d, NEW e, NEW c2, NEW x,
         Shared(a, b, c, d, e), c = c2 \cup {x}, x \notin c2
  PROVE  Shared(a, b, c2, d \cup {x}, e)
BY DEF Shared

LEMMA NewEvent ==
  ASSUME NEW q \in Queues, NEW flow \in {0, 1}, NEW d \in Nat
  PROVE  /\ New(q, flow, d) \in Event /\ New(q, flow, d).queue = q /\ New(q, flow, d).data = d
BY DEF New, Event

LEMMA PrimaryKeeps == ASSUME EventInv, primary PROVE EventInv'
<1>1. EvTyped /\ QueueOf /\ OnePort /\ InSequence /\ 0 \in Queues /\ 1 \in Queues
  BY DEF EventInv, Queues
<1>2. PICK mbuf \in pool :
        /\ pool' = pool \ {mbuf}
        /\ \/ queue' = [queue EXCEPT ![0] = Append(queue[0], New(0, 0, mbuf))] /\ leaked' = leaked
           \/ leaked' = leaked \cup {mbuf} /\ queue' = queue
  BY <1>1 DEF primary, EvTyped
<1>3. /\ program = "ipc" /\ program' = program /\ cq' = cq /\ held' = held /\ i' = i /\ turn' = turn
      /\ received' = received
  BY DEF primary
<1>4. /\ Distinct(queue[0]) /\ Distinct(cq[0]) /\ Distinct(cq[1])
      /\ Shared(Data(queue[0]), Data(cq[0]), Data(cq[1]), pool, leaked)
  BY <1>3 DEF EventInv, IpcMbufs
<1>5. \A r \in Ports : At(r)' = At(r)
  BY <1>3 DEF At
<1>6. InSequence'
  BY <1>1, <1>3 DEF InSequence, Sending
<1>7. ParseMbufs'
  BY <1>3 DEF ParseMbufs
<1>8. CASE leaked' = leaked \cup {mbuf} /\ queue' = queue
  <2>1. EvTyped'
    BY <1>1, <1>3, <1>8 DEF EvTyped, Polled
  <2>2. QueueOf' /\ OnePort'
    BY <1>1, <1>3, <1>5, <1>8, <2>1, KeepsPort DEF QueueOf
  <2>3. Shared(Data(queue[0]), Data(cq[0]), Data(cq[1]), pool', leaked')
    BY <1>2, <1>4, <1>8, SharedSent
  <2>4. IpcMbufs'
    BY <1>3, <1>4, <1>8, <2>3 DEF IpcMbufs
  <2> QED
    BY <1>6, <1>7, <2>1, <2>2, <2>4 DEF EventInv
<1>9. CASE queue' = [queue EXCEPT ![0] = Append(queue[0], New(0, 0, mbuf))] /\ leaked' = leaked
  <2>1. mbuf \notin Data(queue[0]) /\ mbuf \in Nat
    <3>1. mbuf \notin Data(queue[0]) /\ mbuf \in 1 .. Mbufs
      BY <1>2, <1>4 DEF Shared
    <3> QED
      BY <3>1, EventAssumption
  <2>2. PICK e \in Event : e = New(0, 0, mbuf) /\ e.queue = 0 /\ e.data = mbuf
    BY <1>1, <2>1, NewEvent
  <2>3. Added(0, e)
    BY <1>1, <1>9, <2>2, Adds
  <2>4. EvTyped'
    BY <1>1, <1>3, <2>3 DEF EvTyped, Polled, Added
  <2>5. QueueOf'
    <3>1. \A q \in Queues : \A f \in ToSet(queue'[q]) : f.queue = q
      BY <1>1, <2>2, <2>3 DEF QueueOf, Added
    <3>2. queue'[1] = <<>>
      BY <1>1, <1>3, <2>3 DEF QueueOf, Added
    <3> QED
      BY <1>1, <1>3, <1>5, <3>1, <3>2 DEF QueueOf
  <2>6. OnePort'
    BY <1>1, <1>5, <2>4, KeepsPort
  <2>7. queue[0] \in Seq(Event) /\ queue'[0] = Append(queue[0], e) /\ Data(queue'[0]) = Data(queue[0]) \cup {mbuf}
    BY <2>2, <2>3 DEF Added
  <2>8. Distinct(queue'[0])
    BY <1>4, <2>1, <2>2, <2>7, RisingAppended
  <2>9. Shared(Data(queue'[0]), Data(cq[0]), Data(cq[1]), pool', leaked')
    BY <1>2, <1>4, <1>9, <2>7, SharedSent
  <2>10. IpcMbufs'
    BY <1>3, <1>4, <2>8, <2>9 DEF IpcMbufs
  <2> QED
    BY <1>6, <1>7, <2>4, <2>5, <2>6, <2>10 DEF EventInv
<1> QED
  BY <1>2, <1>8, <1>9

LEMMA SecondaryKeeps == ASSUME EventInv, secondary PROVE EventInv'
<1>1. EvTyped /\ QueueOf /\ OnePort /\ InSequence /\ 0 \in Ports /\ 1 \in Ports
  BY DEF EventInv, Ports
<1>2. /\ program = "ipc" /\ Dequeue(1) /\ pool' = (IF cq[1] = <<>> THEN pool ELSE pool \cup {Head(cq[1]).data})
      /\ program' = program /\ queue' = queue /\ i' = i /\ turn' = turn /\ received' = received /\ leaked' = leaked
  BY DEF secondary
<1>3. /\ cq' \in [Ports -> Seq(Event)] /\ held' \in [Ports -> Seq(Event)] /\ cq'[0] = cq[0]
      /\ cq[1] = <<>> => cq'[1] = <<>>
      /\ cq[1] # <<>> => cq'[1] = Tail(cq[1])
  BY <1>1, <1>2, DequeueMoves
<1>4. EvTyped'
  BY <1>1, <1>2, <1>3 DEF EvTyped, Polled
<1>5. QueueOf' /\ OnePort'
  BY <1>1, <1>2, <1>4, DequeueKeeps
<1>6. InSequence'
  BY <1>1, <1>2 DEF InSequence, Sending
<1>7. ParseMbufs'
  BY <1>2 DEF ParseMbufs
<1>8. /\ Distinct(queue[0]) /\ Distinct(cq[0]) /\ Distinct(cq[1]) /\ cq[1] \in Seq(Event)
      /\ Shared(Data(queue[0]), Data(cq[0]), Data(cq[1]), pool, leaked)
  BY <1>1, <1>2 DEF EventInv, IpcMbufs, EvTyped
<1>9. CASE cq[1] = <<>>
  <2>1. cq'[1] = cq[1] /\ pool' = pool
    BY <1>2, <1>3, <1>9
  <2>2. IpcMbufs'
    BY <1>2, <1>3, <1>8, <2>1 DEF IpcMbufs
  <2> QED
    BY <1>4, <1>5, <1>6, <1>7, <2>2 DEF EventInv
<1>10. CASE cq[1] # <<>>
  <2>1. PICK d : d = Head(cq[1]).data
    OBVIOUS
  <2>2. /\ Distinct(cq'[1]) /\ d \notin Data(cq'[1]) /\ pool' = pool \cup {d}
    BY <1>2, <1>3, <1>8, <1>10, <2>1, RisingTail
  <2>3. Data(cq[1]) = Data(cq'[1]) \cup {d}
    BY <1>3, <1>8, <1>10, <2>1, SomeEvents
  <2>4. Shared(Data(queue[0]), Data(cq[0]), Data(cq'[1]), pool', leaked)
    <3>1. PICK c : c = Data(cq'[1])
      OBVIOUS
    <3>2. Shared(Data(queue[0]), Data(cq[0]), c, pool \cup {d}, leaked)
      BY <1>8, <2>2, <2>3, <3>1, SharedFreed
    <3> QED
      BY <2>2, <3>1, <3>2
  <2>5. IpcMbufs'
    BY <1>2, <1>3, <1>8, <2>2, <2>4 DEF IpcMbufs
  <2> QED
    BY <1>4, <1>5, <1>6, <1>7, <2>5 DEF EventInv
<1> QED
  BY <1>9, <1>10

\* What holds of parsing_event, and of the other programs as long as it runs.
LEMMA ParseFacts ==
  ASSUME EventInv, program = "parsing_event"
  PROVE  /\ EvTyped /\ QueueOf /\ OnePort /\ InSequence /\ received = <<>>
         /\ queue[0] \in Seq(Event) /\ queue[1] \in Seq(Event) /\ cq[0] \in Seq(Event) /\ held[0] \in Seq(Event)
         /\ Len(queue[0]) \in Nat /\ Len(queue[1]) \in Nat /\ Len(cq[0]) \in Nat /\ Len(held[0]) \in Nat
         /\ cq[1] = <<>> /\ cq[2] = <<>> /\ held[1] = <<>> /\ held[2] = <<>>
         /\ pc \in {"poll", "forward"} /\ Len(held[0]) = (IF pc = "forward" THEN 1 ELSE 0)
         /\ pool \subseteq 1 .. Mbufs /\ Parsing = (1 .. Mbufs) \ pool
         /\ Len(queue[0]) + Len(queue[1]) + Len(cq[0]) + Len(held[0]) = Cardinality(Parsing)
         /\ 0 \in Queues /\ 1 \in Queues /\ 0 \in Ports /\ 1 \in Ports /\ 2 \in Ports
<1>1. EvTyped /\ QueueOf /\ OnePort /\ InSequence /\ ParseMbufs
  BY DEF EventInv
<1>2. 0 \in Queues /\ 1 \in Queues /\ 0 \in Ports /\ 1 \in Ports /\ 2 \in Ports
  BY DEF Queues, Ports
<1>3. queue[0] \in Seq(Event) /\ queue[1] \in Seq(Event) /\ cq[0] \in Seq(Event) /\ held[0] \in Seq(Event)
  BY <1>1, <1>2 DEF EvTyped
<1>4. Len(queue[0]) \in Nat /\ Len(queue[1]) \in Nat /\ Len(cq[0]) \in Nat /\ Len(held[0]) \in Nat
  BY <1>3, LenProperties
<1>5. received = <<>>
  BY <1>1 DEF InSequence, Sending
<1> QED
  BY <1>1, <1>2, <1>3, <1>4, <1>5 DEF ParseMbufs

\* A packet more, whose mbuf was in the pool.
LEMMA OneIn ==
  ASSUME NEW S, NEW P \in SUBSET (1 .. Mbufs), NEW x \in P, S = (1 .. Mbufs) \ P
  PROVE  S \cup {x} = (1 .. Mbufs) \ (P \ {x}) /\ Cardinality(S \cup {x}) = Cardinality(S) + 1 /\ Cardinality(S) \in Nat
<1>1. IsFiniteSet(1 .. Mbufs)
  BY EventAssumption, FS_Interval
<1>2. IsFiniteSet(S)
  BY <1>1, FS_Subset
<1>3. x \notin S
  OBVIOUS
<1>4. S \cup {x} = (1 .. Mbufs) \ (P \ {x})
  OBVIOUS
<1>5. Cardinality(S \cup {x}) = Cardinality(S) + 1
  BY <1>2, <1>3, FS_AddElement
<1>6. Cardinality(S) \in Nat
  BY <1>2, FS_CardinalityType
<1> QED
  BY <1>4, <1>5, <1>6

LEMMA RxKeeps == ASSUME EventInv, RxAdapter PROVE EventInv'
<1>1. program = "parsing_event"
  BY DEF RxAdapter
<1>2. /\ EvTyped /\ QueueOf /\ OnePort /\ InSequence /\ 0 \in Queues /\ 1 \in Queues
      /\ pool \subseteq 1 .. Mbufs /\ Parsing = (1 .. Mbufs) \ pool
  BY <1>1, ParseFacts
<1>3. PICK mbuf \in pool, flow \in {0, 1} :
        pool' = pool \ {mbuf} /\ queue' = [queue EXCEPT ![0] = Append(queue[0], New(0, flow, mbuf))]
  BY <1>2 DEF RxAdapter, EvTyped
<1>4. /\ program' = program /\ cq' = cq /\ held' = held /\ i' = i /\ turn' = turn
      /\ received' = received /\ pc' = pc
  BY DEF RxAdapter
<1>5. mbuf \in Nat
  BY <1>2, EventAssumption
<1>6. PICK e \in Event : e = New(0, flow, mbuf) /\ e.queue = 0 /\ e.data = mbuf
  BY <1>2, <1>5, NewEvent
<1>7. Added(0, e)
  BY <1>2, <1>3, <1>6, Adds
<1>8. EvTyped'
  BY <1>2, <1>4, <1>7 DEF EvTyped, Polled, Added
<1>9. \A r \in Ports : At(r)' = At(r)
  BY <1>4 DEF At
<1>10. QueueOf'
  BY <1>1, <1>2, <1>4, <1>6, <1>7 DEF QueueOf, Added
<1>11. OnePort'
  BY <1>2, <1>8, <1>9, KeepsPort
<1>12. InSequence' /\ IpcMbufs'
  BY <1>1, <1>2, <1>4 DEF InSequence, Sending, IpcMbufs
<1>13. ParseMbufs'
  <2>1. Data(queue'[0]) = Data(queue[0]) \cup {mbuf} /\ queue'[1] = queue[1] /\ Len(queue'[0]) = Len(queue[0]) + 1
    BY <1>2, <1>6, <1>7 DEF Added
  <2>2. Parsing' = Parsing \cup {mbuf}
    BY <1>4, <2>1 DEF Parsing
  <2>3. /\ Parsing' = (1 .. Mbufs) \ pool' /\ Cardinality(Parsing') = Cardinality(Parsing) + 1
        /\ Cardinality(Parsing) \in Nat
    BY <1>2, <1>3, <2>2, OneIn
  <2>4. Len(queue'[0]) + Len(queue'[1]) + Len(cq'[0]) + Len(held'[0]) = Cardinality(Parsing')
    <3>1. PICK a, b, c, d \in Nat : a = Len(queue[0]) /\ b = Len(queue[1]) /\ c = Len(cq[0]) /\ d = Len(held[0])
      BY <1>1, ParseFacts
    <3>2. (a + 1) + b + c + d = (a + b + c + d) + 1
      <4>1. a \in Nat /\ b \in Nat /\ c \in Nat /\ d \in Nat
        BY <3>1
      <4> QED
        BY <4>1
    <3>3. a + b + c + d = Cardinality(Parsing)
      BY <1>1, <3>1, ParseFacts
    <3>4. Len(queue'[0]) = a + 1 /\ Len(queue'[1]) = b /\ Len(cq'[0]) = c /\ Len(held'[0]) = d
      BY <1>4, <2>1, <3>1
    <3> QED
      BY <2>3, <3>2, <3>3, <3>4
  <2>5. /\ cq[1] = <<>> /\ cq[2] = <<>> /\ held[1] = <<>> /\ held[2] = <<>>
        /\ pc \in {"poll", "forward"} /\ Len(held[0]) = (IF pc = "forward" THEN 1 ELSE 0)
        /\ pool' \subseteq 1 .. Mbufs
    BY <1>1, <1>2, <1>3, ParseFacts
  <2> QED
    BY <1>4, <2>3, <2>4, <2>5 DEF ParseMbufs
<1> QED
  BY <1>8, <1>10, <1>11, <1>12, <1>13 DEF EventInv

\* A sequence of one event, and one of none.
LEMMA OneEvent ==
  ASSUME NEW s \in Seq(Event)
  PROVE  /\ Len(s) = 0 => s = <<>> /\ Data(s) = {}
         /\ Len(s) = 1 => s[1] \in Event /\ s[1] \in ToSet(s) /\ Data(s) = {s[1].data}
<1>1. ASSUME Len(s) = 0 PROVE s = <<>> /\ Data(s) = {}
  BY <1>1, EmptySeq, NoEvents
<1>2. ASSUME Len(s) = 1 PROVE s[1] \in Event /\ s[1] \in ToSet(s) /\ Data(s) = {s[1].data}
  <2>1. DOMAIN s = {1}
    BY <1>2, LenProperties
  <2> QED
    BY <2>1, EventsOf DEF Data
<1> QED
  BY <1>1, <1>2

LEMMA WorkerKeeps == ASSUME EventInv, parse_worker PROVE EventInv'
<1>1. /\ program = "parsing_event" /\ pc = "poll" /\ Dequeue(0)
      /\ pc' = (IF cq[0] = <<>> THEN "poll" ELSE "forward")
      /\ program' = program /\ queue' = queue /\ i' = i /\ turn' = turn /\ received' = received /\ pool' = pool
  BY DEF parse_worker, poolVars
<1>2. /\ EvTyped /\ QueueOf /\ OnePort /\ InSequence /\ 0 \in Ports /\ 1 \in Ports /\ 2 \in Ports
      /\ cq[0] \in Seq(Event) /\ held[0] \in Seq(Event) /\ Len(held[0]) = 0
  BY <1>1, ParseFacts
<1>3. /\ cq' \in [Ports -> Seq(Event)] /\ held' \in [Ports -> Seq(Event)]
      /\ cq'[1] = cq[1] /\ held'[1] = held[1] /\ cq'[2] = cq[2] /\ held'[2] = held[2]
      /\ cq[0] = <<>> => cq'[0] = <<>> /\ held'[0] = <<>>
      /\ cq[0] # <<>> => cq'[0] = Tail(cq[0]) /\ held'[0] = <<Head(cq[0])>>
  BY <1>1, <1>2, DequeueMoves
<1>4. EvTyped'
  BY <1>1, <1>2, <1>3 DEF EvTyped, Polled
<1>5. QueueOf' /\ OnePort'
  BY <1>1, <1>2, <1>4, DequeueKeeps
<1>6. InSequence' /\ IpcMbufs'
  BY <1>1, <1>2 DEF InSequence, Sending, IpcMbufs
<1>7. held[0] = <<>> /\ Data(held[0]) = {}
  BY <1>2, OneEvent
<1>8. /\ cq'[1] = <<>> /\ cq'[2] = <<>> /\ held'[1] = <<>> /\ held'[2] = <<>>
      /\ pool' \subseteq 1 .. Mbufs /\ Parsing = (1 .. Mbufs) \ pool'
      /\ Len(queue[0]) + Len(queue[1]) + Len(cq[0]) + Len(held[0]) = Cardinality(Parsing)
  BY <1>1, <1>3, ParseFacts
<1>9. CASE cq[0] = <<>>
  <2>1. cq'[0] = cq[0] /\ held'[0] = held[0] /\ pc' = "poll"
    BY <1>1, <1>3, <1>7, <1>9
  <2>2. Parsing' = Parsing
    BY <1>1, <2>1 DEF Parsing
  <2>3. ParseMbufs'
    BY <1>1, <1>2, <1>8, <2>1, <2>2 DEF ParseMbufs
  <2> QED
    BY <1>4, <1>5, <1>6, <2>3 DEF EventInv
<1>10. CASE cq[0] # <<>>
  <2>1. /\ Data(cq[0]) = Data(cq'[0]) \cup Data(held'[0])
        /\ Len(cq'[0]) = Len(cq[0]) - 1 /\ Len(held'[0]) = 1 /\ pc' = "forward"
    <3>1. /\ Data(cq[0]) = Data(Tail(cq[0])) \cup {Head(cq[0]).data} /\ Data(<<Head(cq[0])>>) = {Head(cq[0]).data}
          /\ Len(Tail(cq[0])) = Len(cq[0]) - 1 /\ Len(<<Head(cq[0])>>) = 1
      BY <1>2, <1>10, SomeEvents
    <3> QED
      BY <1>1, <1>3, <1>10, <3>1
  <2>2. Parsing' = Parsing
    BY <1>1, <1>7, <2>1 DEF Parsing
  <2>3. Len(queue'[0]) + Len(queue'[1]) + Len(cq'[0]) + Len(held'[0]) = Cardinality(Parsing')
    <3>1. PICK a, b, c \in Nat : a = Len(queue[0]) /\ b = Len(queue[1]) /\ c = Len(cq[0])
      BY <1>1, ParseFacts
    <3>2. a + b + (c - 1) + 1 = a + b + c + 0
      <4>1. a \in Nat /\ b \in Nat /\ c \in Nat
        BY <3>1
      <4> QED
        BY <4>1
    <3>3. a + b + c + 0 = Cardinality(Parsing')
      BY <1>2, <1>8, <2>2, <3>1
    <3>4. Len(queue'[0]) = a /\ Len(queue'[1]) = b /\ Len(cq'[0]) = c - 1
      BY <1>1, <2>1, <3>1
    <3> QED
      BY <2>1, <3>2, <3>3, <3>4
  <2>4. ParseMbufs'
    BY <1>1, <1>8, <2>1, <2>2, <2>3 DEF ParseMbufs
  <2> QED
    BY <1>4, <1>5, <1>6, <2>4 DEF EventInv
<1> QED
  BY <1>9, <1>10

LEMMA ForwardKeeps == ASSUME EventInv, parse_forward PROVE EventInv'
<1>1. /\ program = "parsing_event" /\ pc = "forward" /\ pc' = "poll"
      /\ held' = [held EXCEPT ![0] = <<>>]
      /\ program' = program /\ cq' = cq /\ i' = i /\ turn' = turn /\ received' = received /\ pool' = pool
  BY DEF parse_forward, poolVars
<1>2. /\ EvTyped /\ QueueOf /\ OnePort /\ InSequence /\ 0 \in Ports /\ 1 \in Ports /\ 2 \in Ports
      /\ 0 \in Queues /\ 1 \in Queues /\ held[0] \in Seq(Event) /\ Len(held[0]) = 1
  BY <1>1, ParseFacts
<1>3. PICK f \in Event : f = held[0][1] /\ Data(held[0]) = {f.data} /\ f.flow \in {0, 1} /\ f.data \in Nat
  <2>1. held[0][1] \in Event /\ Data(held[0]) = {held[0][1].data}
    BY <1>2, OneEvent
  <2>2. \A f \in Event : f.flow \in {0, 1} /\ f.data \in Nat
    BY DEF Event
  <2> QED
    BY <2>1, <2>2
<1>4. PICK e \in Event : e = New(1, f.flow, f.data) /\ e.queue = 1 /\ e.data = f.data
  BY <1>2, <1>3, NewEvent
<1>5. queue' = [queue EXCEPT ![1] = Append(queue[1], e)]
  BY <1>2, <1>3, <1>4 DEF parse_forward, EvTyped
<1>6. Added(1, e)
  BY <1>2, <1>5, Adds
<1>7. /\ held' \in [Ports -> Seq(Event)] /\ held'[0] = <<>> /\ held'[1] = held[1] /\ held'[2] = held[2]
      /\ \A r \in Ports : r # 0 => held'[r] = held[r]
  BY <1>1, <1>2, NoEvents DEF EvTyped
<1>8. EvTyped'
  BY <1>1, <1>2, <1>6, <1>7 DEF EvTyped, Polled, Added
<1>9. \A r \in Ports : At(r)' \subseteq At(r)
  BY <1>1, <1>7, NoEvents DEF At
<1>10. QueueOf'
  BY <1>1, <1>2, <1>4, <1>6 DEF QueueOf, Added
<1>11. OnePort'
  BY <1>2, <1>8, <1>9, KeepsPort
<1>12. InSequence' /\ IpcMbufs'
  BY <1>1, <1>2 DEF InSequence, Sending, IpcMbufs
<1>13. ParseMbufs'
  <2>1. Data(queue'[1]) = Data(queue[1]) \cup {f.data} /\ queue'[0] = queue[0] /\ Len(queue'[1]) = Len(queue[1]) + 1
    BY <1>2, <1>4, <1>6 DEF Added
  <2>2. Parsing' = Parsing
    BY <1>1, <1>3, <1>7, <2>1, NoEvents DEF Parsing
  <2>3. /\ cq[1] = <<>> /\ cq[2] = <<>> /\ held[1] = <<>> /\ held[2] = <<>>
        /\ pool \subseteq 1 .. Mbufs /\ Parsing = (1 .. Mbufs) \ pool
        /\ Len(queue[0]) + Len(queue[1]) + Len(cq[0]) + Len(held[0]) = Cardinality(Parsing)
    BY <1>1, ParseFacts
  <2>4. Len(queue'[0]) + Len(queue'[1]) + Len(cq'[0]) + Len(held'[0]) = Cardinality(Parsing')
    <3>1. PICK a, b, c \in Nat : a = Len(queue[0]) /\ b = Len(queue[1]) /\ c = Len(cq[0])
      BY <1>1, ParseFacts
    <3>2. a + (b + 1) + c + 0 = a + b + c + 1
      <4>1. a \in Nat /\ b \in Nat /\ c \in Nat
        BY <3>1
      <4> QED
        BY <4>1
    <3>3. a + b + c + 1 = Cardinality(Parsing')
      BY <1>2, <2>2, <2>3, <3>1
    <3>4. Len(queue'[0]) = a /\ Len(queue'[1]) = b + 1 /\ Len(cq'[0]) = c /\ Len(held'[0]) = 0
      BY <1>1, <1>7, <2>1, <3>1, NoEvents
    <3> QED
      BY <3>2, <3>3, <3>4
  <2>5. Len(held'[0]) = 0
    BY <1>7, NoEvents
  <2>6. cq'[1] = <<>> /\ cq'[2] = <<>> /\ held'[1] = <<>> /\ held'[2] = <<>>
    BY <1>1, <1>7, <2>3
  <2>7. pool' \subseteq 1 .. Mbufs /\ Parsing' = (1 .. Mbufs) \ pool'
    BY <1>1, <2>2, <2>3
  <2> QED
    BY <1>1, <2>4, <2>5, <2>6, <2>7 DEF ParseMbufs
<1> QED
  BY <1>8, <1>10, <1>11, <1>12, <1>13 DEF EventInv

LEMMA EventStep == ASSUME EventInv, Next PROVE EventInv'
<1>1. ASSUME NEW q \in Queues, ScheduleFrom(q) PROVE EventInv'
  BY <1>1, ScheduleKeeps
<1>2. CASE project_main \/ second_main \/ practice_main \/ event_worker
  BY <1>2, EnqueueKeeps, PollKeeps DEF project_main, second_main, practice_main, event_worker
<1>3. CASE parsing_main
  BY <1>3, WorkerKeeps, ForwardKeeps DEF parsing_main
<1> QED
  BY <1>1, <1>2, <1>3, PrimaryKeeps, SecondaryKeeps, RxKeeps DEF Next, Consume

\* Data in the device.
LEMMA InFlightData ==
  ASSUME EventInv, program = "parsing_event"
  PROVE  {e.data : e \in InFlight} = Parsing
<1>1. /\ EvTyped /\ QueueOf /\ cq[1] = <<>> /\ cq[2] = <<>> /\ held[1] = <<>> /\ held[2] = <<>>
      /\ 0 \in Queues /\ 1 \in Queues /\ 0 \in Ports /\ 1 \in Ports /\ 2 \in Ports
      /\ queue[0] \in Seq(Event) /\ queue[1] \in Seq(Event) /\ cq[0] \in Seq(Event) /\ held[0] \in Seq(Event)
  BY ParseFacts
<1>2. /\ \A e \in At(0) : e.queue \in {0, 1}
      /\ At(1) = {} /\ At(2) = {} /\ At(0) = ToSet(cq[0]) \cup ToSet(held[0])
  <2>1. \A e \in Event : e.queue \in {0, 1}
    BY DEF Event, Queues
  <2>2. At(0) \subseteq Event
    BY <1>1, EventsOf DEF At
  <2> QED
    BY <1>1, <2>1, <2>2, NoEvents DEF At
<1>3. \A p \in Ports : ToSet(cq[p] \o held[p]) = At(p)
  BY <1>1, Concatenated DEF EvTyped, At
<1>4. \A q \in {0, 1} : InDevice(q) = ToSet(queue[q]) \cup {e \in At(0) : e.queue = q}
  BY <1>1, <1>2, <1>3 DEF InDevice, Ports
<1>5. InFlight = ToSet(queue[0]) \cup ToSet(queue[1]) \cup At(0)
  BY <1>2, <1>4 DEF InFlight
<1>6. /\ Data(queue[0]) = {e.data : e \in ToSet(queue[0])} /\ Data(queue[1]) = {e.data : e \in ToSet(queue[1])}
      /\ Data(cq[0]) = {e.data : e \in ToSet(cq[0])} /\ Data(held[0]) = {e.data : e \in ToSet(held[0])}
  BY <1>1, EventsOf
<1>7. PICK a, b, c, d : a = ToSet(queue[0]) /\ b = ToSet(queue[1]) /\ c = ToSet(cq[0]) /\ d = ToSet(held[0])
  OBVIOUS
<1>8. InFlight = a \cup b \cup c \cup d
  BY <1>2, <1>5, <1>7
<1>9. Parsing = {e.data : e \in a} \cup {e.data : e \in b} \cup {e.data : e \in c} \cup {e.data : e \in d}
  BY <1>6, <1>7 DEF Parsing
<1> QED
  BY <1>8, <1>9

LEMMA DisjointUnion ==
  ASSUME NEW S, NEW T, IsFiniteSet(S), IsFiniteSet(T), S \cap T = {}
  PROVE  Cardinality(S \cup T) = Cardinality(S) + Cardinality(T)
<1>1. Cardinality(S) \in Nat /\ Cardinality(T) \in Nat
  BY FS_CardinalityType
<1>2. Cardinality(S \cup T) = Cardinality(S) + Cardinality(T) - Cardinality(S \cap T)
  BY FS_Union
<1>3. Cardinality(S \cap T) = 0
  BY FS_EmptySet
<1> QED
  BY <1>1, <1>2, <1>3

\* Events with different data are as many as their data.
LEMMA DistinctMany ==
  ASSUME NEW s \in Seq(Event), Distinct(s)
  PROVE  IsFiniteSet(Data(s)) /\ Cardinality(Data(s)) = Len(s) /\ Len(s) \in Nat
<1>1. PICK n \in Nat : n = Len(s) /\ DOMAIN s = 1 .. n
  BY LenProperties
<1>2. PICK D : D = Data(s)
  OBVIOUS
<1>3. \A x : x \in D <=> \E k \in 1 .. n : x = s[k].data
  BY <1>1, <1>2 DEF Data
<1>4. PICK f : f = [k \in 1 .. n |-> s[k].data]
  OBVIOUS
<1>5. f \in [1 .. n -> D] /\ \A k \in 1 .. n : f[k] = s[k].data
  BY <1>3, <1>4
<1>6. f \in Surjection(1 .. n, D)
  <2>1. \A x \in D : \E k \in 1 .. n : f[k] = x
    <3> SUFFICES ASSUME NEW x \in D PROVE \E k \in 1 .. n : f[k] = x
      OBVIOUS
    <3>1. PICK k \in 1 .. n : x = s[k].data
      BY <1>3
    <3> QED
      BY <1>5, <3>1
  <2> QED
    BY <1>5, <2>1 DEF Surjection
<1>7. f \in Injection(1 .. n, D)
  <2>1. \A j, k \in 1 .. n : f[j] = f[k] => j = k
    BY <1>1, <1>5 DEF Distinct
  <2> QED
    BY <1>5, <2>1 DEF Injection, IsInjective
<1>8. ExistsBijection(1 .. n, D)
  BY <1>6, <1>7 DEF ExistsBijection, Bijection
<1>9. IsFiniteSet(1 .. n)
  BY FS_Interval
<1> QED
  BY <1>1, <1>2, <1>8, <1>9, FS_Bijection, FS_CountingElements

LEMMA EventSafe == EventInv => EventsKept
<1> SUFFICES ASSUME EventInv PROVE EventsKept
  OBVIOUS
<1>1. EvTyped /\ QueueOf /\ OnePort /\ InSequence /\ IpcMbufs
  BY DEF EventInv
<1>2. \A j, k \in DOMAIN received :
        j < k /\ received[j].flow = received[k].flow => received[j].data < received[k].data
  BY <1>1, NoEvents DEF InSequence, Rising
<1>3. ASSUME program = "ipc"
      PROVE  LET s == {e.data : e \in ToSet(queue[0] \o cq[0] \o cq[1])}
             IN  /\ s \cup pool \cup leaked = 1 .. Mbufs
                 /\ Len(queue[0]) + Len(cq[0]) + Len(cq[1]) + Cardinality(pool) + Cardinality(leaked) = Mbufs
  <2> DEFINE s == {e.data : e \in ToSet(queue[0] \o cq[0] \o cq[1])}
  <2>1. queue[0] \in Seq(Event) /\ cq[0] \in Seq(Event) /\ cq[1] \in Seq(Event)
    BY <1>1 DEF EvTyped, Queues, Ports
  <2>2. /\ queue[0] \o cq[0] \in Seq(Event) /\ ToSet(queue[0] \o cq[0]) = ToSet(queue[0]) \cup ToSet(cq[0])
    BY <2>1, Concatenated
  <2>3. ToSet(queue[0] \o cq[0] \o cq[1]) = ToSet(queue[0]) \cup ToSet(cq[0]) \cup ToSet(cq[1])
    BY <2>1, <2>2, Concatenated
  <2>4. s = Data(queue[0]) \cup Data(cq[0]) \cup Data(cq[1])
    <3>1. PICK a, b, c : a = ToSet(queue[0]) /\ b = ToSet(cq[0]) /\ c = ToSet(cq[1])
      OBVIOUS
    <3>2. Data(queue[0]) = {e.data : e \in a} /\ Data(cq[0]) = {e.data : e \in b} /\ Data(cq[1]) = {e.data : e \in c}
      BY <2>1, <3>1, EventsOf
    <3>3. s = {e.data : e \in a \cup b \cup c}
      BY <2>3, <3>1
    <3> HIDE DEF s
    <3> QED
      BY <3>2, <3>3
  <2> HIDE DEF s
  <2>5. Shared(Data(queue[0]), Data(cq[0]), Data(cq[1]), pool, leaked)
    BY <1>1, <1>3 DEF IpcMbufs
  <2>6. s \cap pool = {} /\ (s \cup pool) \cap leaked = {} /\ (s \cup pool) \cup leaked = 1 .. Mbufs
    BY <2>4, <2>5 DEF Shared
  <2>7. IsFiniteSet(1 .. Mbufs) /\ Cardinality(1 .. Mbufs) = Mbufs
    BY EventAssumption, FS_Interval
  <2>8. IsFiniteSet(s) /\ IsFiniteSet(pool) /\ IsFiniteSet(leaked) /\ IsFiniteSet(s \cup pool)
    BY <2>6, <2>7, FS_Subset
  <2>9. Cardinality(s \cup pool) = Cardinality(s) + Cardinality(pool)
    BY <2>6, <2>8, DisjointUnion
  <2>10. Cardinality((s \cup pool) \cup leaked) = Cardinality(s \cup pool) + Cardinality(leaked)
    BY <2>6, <2>8, DisjointUnion
  <2>11. Cardinality(s) + Cardinality(pool) + Cardinality(leaked) = Mbufs
    BY <2>6, <2>7, <2>9, <2>10
  <2>12. Cardinality(s) = Len(queue[0]) + Len(cq[0]) + Len(cq[1])
    <3>1. PICK A, B, C : A = Data(queue[0]) /\ B = Data(cq[0]) /\ C = Data(cq[1])
      OBVIOUS
    <3>2. Distinct(queue[0]) /\ Distinct(cq[0]) /\ Distinct(cq[1])
      BY <1>1, <1>3 DEF IpcMbufs
    <3>3. /\ IsFiniteSet(A) /\ IsFiniteSet(B) /\ IsFiniteSet(C)
          /\ Cardinality(A) = Len(queue[0]) /\ Cardinality(B) = Len(cq[0]) /\ Cardinality(C) = Len(cq[1])
      BY <2>1, <3>1, <3>2, DistinctMany
    <3>4. A \cap B = {} /\ (A \cup B) \cap C = {} /\ s = (A \cup B) \cup C
      BY <2>4, <2>5, <3>1 DEF Shared
    <3>5. IsFiniteSet(A \cup B) /\ Cardinality(A \cup B) = Cardinality(A) + Cardinality(B)
      BY <3>3, <3>4, DisjointUnion, FS_Union
    <3>6. Cardinality((A \cup B) \cup C) = Cardinality(A \cup B) + Cardinality(C)
      BY <3>3, <3>4, <3>5, DisjointUnion
    <3> QED
      BY <3>3, <3>4, <3>5, <3>6
  <2> QED
    BY <2>6, <2>11, <2>12 DEF s
<1>4. ASSUME program = "parsing_event"
      PROVE  /\ {e.data : e \in InFlight} = (1 .. Mbufs) \ pool
             /\ Len(queue[0]) + Len(queue[1]) + (Len(cq[0]) + Len(held[0])) + (Len(cq[1]) + Len(held[1]))
                  + (Len(cq[2]) + Len(held[2])) = Cardinality({e.data : e \in InFlight})
  <2>1. {e.data : e \in InFlight} = Parsing /\ Parsing = (1 .. Mbufs) \ pool
    BY <1>4, InFlightData, ParseFacts
  <2>2. Len(cq[1]) = 0 /\ Len(held[1]) = 0 /\ Len(cq[2]) = 0 /\ Len(held[2]) = 0
    BY <1>4, ParseFacts, NoEvents
  <2>3. PICK a, b, c, d \in Nat : a = Len(queue[0]) /\ b = Len(queue[1]) /\ c = Len(cq[0]) /\ d = Len(held[0])
    BY <1>4, ParseFacts
  <2>4. a + b + c + d = Cardinality(Parsing)
    BY <1>4, <2>3, ParseFacts
  <2>5. a + b + (c + d) + (0 + 0) + (0 + 0) = a + b + c + d
    <3>1. a \in Nat /\ b \in Nat /\ c \in Nat /\ d \in Nat
      BY <2>3
    <3> QED
      BY <3>1
  <2> QED
    BY <2>1, <2>2, <2>3, <2>4, <2>5
<1> QED
  BY <1>1, <1>2, <1>3, <1>4 DEF EventsKept, OnePort

-----------------------------------------------------------------------------
(* Both programs.                                                          *)

LEMMA ReorderStutter == ASSUME ReorderInv, UNCHANGED reorderVars PROVE ReorderInv'
<1>1. /\ program2' = program2 /\ pc2' = pc2 /\ seq_counter' = seq_counter /\ batch' = batch
      /\ initialized' = initialized /\ min_seqn' = min_seqn /\ order' = order /\ ready' = ready
      /\ sent' = sent /\ out' = out /\ refused' = refused
  BY DEF reorderVars
<1>2. BurstProgram' <=> BurstProgram
  BY <1>1 DEF BurstProgram
<1>3. \A m : Inserting(m)' <=> Inserting(m)
  BY <1>1, <1>2 DEF Inserting, Inserted
<1>4. InBuffer'
  BY <1>1, <1>3 DEF ReorderInv, InBuffer, R!BurstOf
<1>5. BetweenBursts'
  <2>1. R!DrainedInOrder' <=> R!DrainedInOrder
    BY <1>1 DEF R!DrainedInOrder
  <2> QED
    BY <1>1, <1>2, <2>1 DEF ReorderInv, BetweenBursts
<1>6. Stamping'
  BY <1>1 DEF ReorderInv, Stamping
<1> QED
  BY <1>1, <1>4, <1>5, <1>6 DEF ReorderInv, R!Programs

LEMMA EventStutter == ASSUME EventInv, UNCHANGED vars PROVE EventInv'
<1>1. /\ program' = program /\ queue' = queue /\ cq' = cq /\ held' = held /\ i' = i /\ turn' = turn
      /\ received' = received /\ pc' = pc /\ pool' = pool /\ leaked' = leaked
  BY DEF vars, deviceVars, poolVars
<1>2. EvTyped' /\ QueueOf'
  BY <1>1 DEF EventInv, EvTyped, Polled, QueueOf, At
<1>3. OnePort'
  BY <1>1 DEF EventInv, OnePort, Pinned
<1>4. InSequence'
  BY <1>1 DEF EventInv, InSequence, Passed, Events
<1>5. IpcMbufs' /\ ParseMbufs'
  BY <1>1 DEF EventInv, IpcMbufs, ParseMbufs, Parsing
<1> QED
  BY <1>2, <1>3, <1>4, <1>5 DEF EventInv

LEMMA AllInvariance == SpecAll => [](EventInv /\ ReorderInv)
<1>1. InitAll => EventInv /\ ReorderInv
  BY EventInit, ReorderInit DEF InitAll
<1>2. ASSUME EventInv, ReorderInv, [RunEvents \/ RunReorder]_allVars PROVE EventInv' /\ ReorderInv'
  <2>1. CASE RunEvents
    BY <1>2, <2>1, EventStep, ReorderStutter DEF RunEvents
  <2>2. CASE RunReorder
    BY <1>2, <2>2, ReorderStep, EventStutter DEF RunReorder
  <2>3. CASE UNCHANGED allVars
    BY <1>2, <2>3, ReorderStutter, EventStutter DEF allVars
  <2> QED
    BY <1>2, <2>1, <2>2, <2>3
<1> QED
  BY <1>1, <1>2, PTL DEF SpecAll

\* Whichever ports the device chooses, the events of a flow are at one port at a
\* time and are received in the order in which they were sent; an mbuf of ipc is
\* in use, free or leaked and is freed once; parsing_event loses no packet.
THEOREM EventsStay == SpecAll => []EventsKept
BY AllInvariance, EventSafe, PTL

\* A burst of the reordering programs is drained whole, in the order of its
\* numbers, also across the wrap of the counter; dynamic_seqno sends each packet
\* with the next number.
THEOREM DrainsInOrder == SpecAll => []DrainedInOrder
<1>1. ReorderInv => DrainedInOrder
  BY ReorderSafe DEF DrainedInOrder
<1> QED
  BY <1>1, AllInvariance, PTL

=============================================================================
