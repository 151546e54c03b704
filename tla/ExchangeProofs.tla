--------------------------- MODULE ExchangeProofs ---------------------------
(***************************************************************************)
(* Proofs about the programs in which two processes or threads exchange    *)
(* data (MCExchanges), for any ring size, number of messages, readers and  *)
(* updates: the RCU sample first, then the two request/reply programs and  *)
(* the exchange that they implement, then the one-way programs, and at the *)
(* end all of them together.                                               *)
(***************************************************************************)
EXTENDS MCExchanges, FiniteSetTheorems, SequenceTheorems, TLAPS

-----------------------------------------------------------------------------
(* RcuQsbr.  A reader that still follows the old version has not reported  *)
(* the token of the current grace period, so synchronize cannot have       *)
(* ticked it off.                                                          *)

\* The writer's locals: between exchange and free, old is the version before
\* gdata.
WriterOK ==
  /\ gdata = (IF writer_pc \in Syncing THEN i + 1 ELSE i)
  /\ writer_pc \in Syncing => old = i /\ old \in live
  /\ writer_pc \in {"bitmap", "scan"} => t = token
  /\ writer_pc = "exchange" => i < Updates
  /\ writer_pc # "done" => gdata \in live
  /\ writer_pc \in {"cleanup", "done"} => \A r \in Readers : reader_pc[r] = "done"

\* A reader inside its loop is registered and online, and no counter is
\* ahead of the token.
ReaderOK(r) ==
  /\ cnt[r] <= token
  /\ reader_pc[r] = "report" => tok[r] <= token
  /\ reader_pc[r] \notin {"register", "done"} => r \in registered
  /\ reader_pc[r] = "report" => tok[r] > 0
  /\ reader_pc[r] \in {"test", "load", "use", "quiescent"} => cnt[r] > 0

\* What a reader follows is the current version, or the old one while
\* synchronize has yet to see the reader report.
Held(r) ==
  reader_pc[r] = "use" =>
    \/ d[r] = gdata
    \/ /\ d[r] = old /\ writer_pc \in {"start", "bitmap", "scan"}
       /\ writer_pc \in {"bitmap", "scan"} => cnt[r] < t
       /\ writer_pc = "scan" => r \in pending

IInv == /\ TypeOK /\ WriterOK
        /\ \A r \in Readers : ReaderOK(r) /\ Held(r)

-----------------------------------------------------------------------------
LEMMA InitHolds == Init => IInv
<1> SUFFICES ASSUME Init PROVE IInv
  OBVIOUS
<1>1. 0 \in Versions /\ 0 \in Nat /\ 1 \in Nat \ {0}
  BY RcuAssumption DEF Versions
<1>2. /\ cnt \in [Readers -> Nat] /\ tok \in [Readers -> Nat] /\ d \in [Readers -> Versions]
      /\ reader_pc \in [Readers -> {"register", "online", "quiescent", "report", "test",
                                    "load", "use", "offline", "unregister", "done"}]
  BY <1>1 DEF Init, OFFLINE
<1>3. TypeOK
  BY <1>1, <1>2 DEF Init, TypeOK, Syncing
<1>4. WriterOK
  BY DEF Init, WriterOK, Syncing
<1>5. ASSUME NEW r \in Readers PROVE ReaderOK(r) /\ Held(r)
  <2>1. cnt[r] = 0 /\ token = 1 /\ reader_pc[r] = "register"
    BY DEF Init, OFFLINE
  <2> QED
    BY <2>1 DEF ReaderOK, Held
<1> QED
  BY <1>3, <1>4, <1>5 DEF IInv

\* A step of one reader leaves the writer and the other readers alone.
LEMMA ReaderStep == ASSUME IInv, NEW r \in Readers, reader(r) PROVE IInv'
<1>1. TypeOK /\ WriterOK /\ \A q \in Readers : ReaderOK(q) /\ Held(q)
  BY DEF IInv
<1>2. UNCHANGED <<gdata, stop, token, live, writer_pc, i, old, t, pending>>
  BY DEF reader, Register, ReadToken, Report, ReaderTest, Load, Use, Offline,
         Unregister, writerVars, qsbrVars
<1>3. reader_pc[r] # "done"
  BY DEF reader, Register, ReadToken, Report, ReaderTest, Load, Use, Offline, Unregister
<1>4. WriterOK'
  BY <1>1, <1>2, <1>3 DEF WriterOK
<1>5. TypeOK'
  <2>1. reader_pc' \in [Readers -> {"register", "online", "quiescent", "report", "test",
                                   "load", "use", "offline", "unregister", "done"}]
    BY <1>1 DEF TypeOK, reader, Register, ReadToken, Report, ReaderTest, Load, Use, Offline,
                Unregister, Goto
  <2>2. cnt' \in [Readers -> Nat] /\ tok' \in [Readers -> Nat] /\ d' \in [Readers -> Versions]
    BY <1>1 DEF TypeOK, reader, Register, ReadToken, Report, ReaderTest, Load, Use, Offline,
                Unregister, qsbrVars, OFFLINE
  <2>3. registered' \subseteq Readers
    BY <1>1 DEF TypeOK, reader, Register, ReadToken, Report, ReaderTest, Load, Use, Offline,
                Unregister, qsbrVars
  <2> QED
    BY <1>1, <1>2, <2>1, <2>2, <2>3 DEF TypeOK
<1>6. ASSUME NEW q \in Readers PROVE ReaderOK(q)'
  BY <1>1, <1>2 DEF TypeOK, ReaderOK, reader, Register, ReadToken, Report, ReaderTest, Load,
     Use, Offline, Unregister, Goto, qsbrVars, OFFLINE
<1>7. ASSUME NEW q \in Readers PROVE Held(q)'
  BY <1>1, <1>2 DEF TypeOK, Held, reader, Register, ReadToken, Report, ReaderTest, Load,
     Use, Offline, Unregister, Goto, qsbrVars
<1> QED
  BY <1>4, <1>5, <1>6, <1>7 DEF IInv

\* A step of the writer: only the end of the scan lets it go on to the free.
LEMMA WriterStep == ASSUME IInv, writer PROVE IInv'
<1>1. TypeOK /\ WriterOK /\ \A q \in Readers : ReaderOK(q) /\ Held(q)
  BY DEF IInv
<1>2. UNCHANGED <<cnt, registered, reader_pc, tok, d>>
  BY DEF writer, WriterTest, Exchange, SyncStart, SyncBitmap, SyncScan, Free, Stop, Wait,
         Cleanup, qsbrVars, readerVars
<1>3. CASE WriterTest
  BY <1>1, <1>2, <1>3
    DEF WriterTest, IInv, TypeOK, WriterOK, ReaderOK, Held, Syncing, qsbrVars
<1>4. CASE Exchange
  <2>1. gdata' = i + 1 /\ old' = gdata /\ gdata = i /\ i < Updates
    BY <1>1, <1>4 DEF Exchange, WriterOK, Syncing
  <2>2. TypeOK'
    BY <1>1, <1>2, <1>4, <2>1, RcuAssumption DEF Exchange, TypeOK, Versions, Syncing, qsbrVars
  <2>3. WriterOK'
    BY <1>1, <1>2, <1>4, <2>1 DEF Exchange, WriterOK, Syncing, TypeOK
  <2> QED
    BY <1>1, <1>2, <1>4, <2>2, <2>3 DEF Exchange, IInv, ReaderOK, Held, qsbrVars
<1>5. CASE SyncStart
  BY <1>1, <1>2, <1>5 DEF SyncStart, IInv, TypeOK, WriterOK, ReaderOK, Held, Syncing
<1>6. CASE SyncBitmap
  BY <1>1, <1>2, <1>6
    DEF SyncBitmap, IInv, TypeOK, WriterOK, ReaderOK, Held, Syncing, qsbrVars
<1>7. CASE SyncScan
  <2>1. TypeOK' /\ WriterOK'
    BY <1>1, <1>2, <1>7 DEF SyncScan, TypeOK, WriterOK, Syncing, qsbrVars
  <2>2. ASSUME NEW q \in Readers PROVE ReaderOK(q)'
    BY <1>1, <1>2, <1>7 DEF SyncScan, ReaderOK, qsbrVars
  <2>3. ASSUME NEW q \in Readers PROVE Held(q)'
    <3>1. UNCHANGED <<gdata, old, t>>
      BY <1>7 DEF SyncScan
    <3>2. CASE pending = {}
      BY <1>1, <1>2, <1>7, <3>1, <3>2 DEF SyncScan, Held
    <3>3. CASE pending # {}
      <4>1. reader_pc[q] = "use" /\ d[q] # gdata =>
              cnt[q] # OFFLINE /\ cnt[q] < t /\ q \in pending
        BY <1>1, <1>7 DEF SyncScan, Held, ReaderOK, TypeOK, OFFLINE
      <4>2. PICK r \in pending :
              IF cnt[r] # OFFLINE /\ cnt[r] < t
              THEN writer_pc' = "bitmap" /\ pending' = pending
              ELSE writer_pc' = "scan" /\ pending' = pending \ {r}
        BY <1>7, <3>3 DEF SyncScan
      <4> QED
        BY <1>1, <1>2, <1>7, <3>1, <4>1, <4>2 DEF SyncScan, Held
    <3> QED
      BY <3>2, <3>3
  <2> QED
    BY <2>1, <2>2, <2>3 DEF IInv
<1>8. CASE Free
  <2>1. gdata = i + 1 /\ old = i /\ i + 1 \in Versions /\ gdata # old
    BY <1>1, <1>8 DEF Free, WriterOK, Syncing, TypeOK, Versions
  <2>2. TypeOK'
    BY <1>1, <1>2, <1>8, <2>1 DEF Free, TypeOK, Syncing, qsbrVars
  <2>3. WriterOK'
    BY <1>1, <1>2, <1>8, <2>1 DEF Free, WriterOK, Syncing
  <2> QED
    BY <1>1, <1>2, <1>8, <2>2, <2>3 DEF Free, IInv, ReaderOK, Held, qsbrVars
<1>9. CASE Stop
  BY <1>1, <1>2, <1>9 DEF Stop, IInv, TypeOK, WriterOK, ReaderOK, Held, Syncing, qsbrVars
<1>10. CASE Wait
  BY <1>1, <1>2, <1>10 DEF Wait, IInv, TypeOK, WriterOK, ReaderOK, Held, Syncing, qsbrVars
<1>11. CASE Cleanup
  BY <1>1, <1>2, <1>11
    DEF Cleanup, IInv, TypeOK, WriterOK, ReaderOK, Held, Syncing, qsbrVars
<1> QED
  BY <1>3, <1>4, <1>5, <1>6, <1>7, <1>8, <1>9, <1>10, <1>11 DEF writer

LEMMA StepHolds == IInv /\ [Next]_vars => IInv'
<1>1. CASE UNCHANGED vars
  BY <1>1 DEF vars, qsbrVars, writerVars, readerVars, IInv, TypeOK, WriterOK, ReaderOK, Held
<1> QED
  BY <1>1, ReaderStep, WriterStep DEF Next

-----------------------------------------------------------------------------
\* The inductive invariant.
THEOREM Invariance == Spec => []IInv
BY InitHolds, StepHolds, PTL DEF Spec

\* Types.
THEOREM TypeCorrect == Spec => []TypeOK
<1>1. IInv => TypeOK
  BY DEF IInv
<1> QED
  BY <1>1, Invariance, PTL

\* No reader ever follows a pointer to memory that writer or main has freed.
THEOREM GracePeriod == Spec => []NoUseAfterFree
<1>1. IInv => NoUseAfterFree
  BY DEF IInv, NoUseAfterFree, TypeOK, WriterOK, Held, Syncing
<1> QED
  BY <1>1, Invariance, PTL

-----------------------------------------------------------------------------
(* RingDuplex.  One token is passed around: the request in the first ring, *)
(* the secondary that serves it, the reply in the second ring.             *)

\* The replies to the first n requests.
Replies(n) == [j \in 1 .. n |-> 10 * (j - 1)]

\* The secondary has nothing in hand.
TwoIdle == secondary_pc2 \in {"lookup", "lookup2", "dequeue"}

TwoRequest == ring_a = <<i2>> /\ ring_b = <<>> /\ TwoIdle
TwoServing == ring_a = <<>> /\ ring_b = <<>> /\ secondary_pc2 \in {"malloc", "reply"} /\ val2 = i2
TwoReply == ring_a = <<>> /\ ring_b = <<10 * i2>> /\ secondary_pc2 = "dequeue"

\* Where the token is, by the primary's place.
TwoToken ==
  \/ /\ primary_pc2 \in {"create", "create2", "malloc", "send", "stop"}
     /\ ring_a = <<>> /\ ring_b = <<>> /\ TwoIdle
  \/ primary_pc2 = "receive" /\ (TwoRequest \/ TwoServing \/ TwoReply)
  \/ primary_pc2 = "done" /\ ring_a = <<Two!STOP>> /\ ring_b = <<>> /\ TwoIdle
  \/ primary_pc2 = "done" /\ ring_a = <<>> /\ ring_b = <<>> /\ secondary_pc2 = "done"

TwoInv ==
  /\ i2 \in 0 .. Count
  /\ primary_pc2 \in {"create", "create2"} => i2 = 0
  /\ primary_pc2 \in {"send", "receive"} => i2 < Count
  /\ primary_pc2 \in {"stop", "done"} => i2 = Count
  /\ got2 = Replies(i2)
  /\ TwoToken
  /\ Two!MemoryAccounted

\* The replies so far and the next one.
LEMMA NextReply ==
  ASSUME NEW n \in Nat
  PROVE  /\ Replies(n) \in Seq(Int) /\ Len(Replies(n)) = n
         /\ Append(Replies(n), 10 * n) = Replies(n + 1)
<1>1. Replies(n) \in Seq(Int) /\ Len(Replies(n)) = n
  BY DEF Replies
<1>2. Append(Replies(n), 10 * n) = Replies(n + 1)
  <2>1. /\ Len(Append(Replies(n), 10 * n)) = n + 1 /\ Append(Replies(n), 10 * n) \in Seq(Int)
        /\ \A j \in 1 .. (n + 1) : Append(Replies(n), 10 * n)[j]
                                     = IF j <= n THEN Replies(n)[j] ELSE 10 * n
    BY <1>1, AppendProperties
  <2>2. \A j \in 1 .. n : Replies(n)[j] = 10 * (j - 1)
    BY DEF Replies
  <2>3. \A j \in 1 .. (n + 1) : Append(Replies(n), 10 * n)[j] = 10 * (j - 1)
    <3> SUFFICES ASSUME NEW j \in 1 .. (n + 1)
                 PROVE  Append(Replies(n), 10 * n)[j] = 10 * (j - 1)
      OBVIOUS
    <3>1. CASE j <= n
      BY <2>1, <2>2, <3>1
    <3>2. CASE j = n + 1
      BY <2>1, <3>2
    <3>3. j <= n \/ j = n + 1
      OBVIOUS
    <3> QED
      BY <3>1, <3>2, <3>3
  <2>4. Replies(n + 1) \in Seq(Int) /\ Len(Replies(n + 1)) = n + 1
    BY DEF Replies
  <2>5. \A j \in 1 .. (n + 1) : Replies(n + 1)[j] = 10 * (j - 1)
    BY DEF Replies
  <2> QED
    BY <2>1, <2>3, <2>4, <2>5, SeqEqual
<1> QED
  BY <1>1, <1>2

\* Rings with one message.
LEMMA OneElement ==
  ASSUME NEW x
  PROVE  /\ Len(<<x>>) = 1 /\ <<x>> # <<>> /\ Head(<<x>>) = x /\ Tail(<<x>>) = <<>>
         /\ Append(<<>>, x) = <<x>> /\ Len(<<>>) = 0
OBVIOUS

LEMMA TwoInit == Two!Init => TwoInv
<1>1. Replies(0) = <<>>
  BY DEF Replies
<1> QED
  BY <1>1, ExchangeAssumption
    DEF Two!Init, TwoInv, TwoToken, TwoIdle, Two!MemoryAccounted, Two!InRings

LEMMA TwoPrimary == ASSUME TwoInv, Two!primary PROVE TwoInv'
<1>1. RING_SIZE \in Nat /\ RING_SIZE > 1 /\ Count \in Nat /\ Count > 0
  BY ExchangeAssumption
<1>2. i2 \in Nat /\ i2 <= Count
  BY <1>1 DEF TwoInv
<1>3. CASE Two!CreateRing
  BY <1>3 DEF Two!CreateRing, Two!secondaryVars, TwoInv, TwoToken, TwoIdle, TwoRequest,
     TwoServing, TwoReply, Two!MemoryAccounted, Two!InRings
<1>4. CASE Two!CreateRing2
  BY <1>4 DEF Two!CreateRing2, Two!secondaryVars, TwoInv, TwoToken, TwoIdle, TwoRequest,
     TwoServing, TwoReply, Two!MemoryAccounted, Two!InRings
<1>5. CASE Two!Malloc
  BY <1>1, <1>2, <1>5, OneElement DEF Two!Malloc, Two!secondaryVars, TwoInv, TwoToken, TwoIdle,
     TwoRequest, TwoServing, TwoReply, Two!MemoryAccounted, Two!InRings
<1>6. CASE Two!Send
  <2>1. ring_a = <<>> /\ ring_b = <<>> /\ TwoIdle /\ ring_a' = <<i2>>
    BY <1>6, OneElement DEF Two!Send, TwoInv, TwoToken
  <2> QED
    BY <1>6, <2>1, OneElement DEF Two!Send, Two!secondaryVars, TwoInv, TwoToken, TwoIdle,
       TwoRequest, Two!MemoryAccounted, Two!InRings
<1>7. CASE Two!Receive
  <2>1. /\ ring_a = <<>> /\ ring_b = <<10 * i2>> /\ secondary_pc2 = "dequeue"
        /\ i2 < Count /\ got2 = Replies(i2)
    BY <1>7, OneElement DEF Two!Receive, TwoInv, TwoToken, TwoRequest, TwoServing, TwoReply
  <2>2. ring_b' = <<>> /\ got2' = Append(Replies(i2), 10 * i2) /\ i2' = i2 + 1
    BY <1>7, <2>1, OneElement DEF Two!Receive
  <2>3. got2' = Replies(i2')
    BY <1>2, <2>2, NextReply
  <2> QED
    BY <1>1, <1>2, <1>7, <2>1, <2>2, <2>3, OneElement DEF Two!Receive, Two!secondaryVars, TwoInv,
       TwoToken, TwoIdle, Two!MemoryAccounted, Two!InRings
<1>8. CASE Two!SendStop
  <2>1. ring_a = <<>> /\ ring_b = <<>> /\ TwoIdle /\ ring_a' = <<Two!STOP>>
    BY <1>1, <1>8, OneElement DEF Two!SendStop, TwoInv, TwoToken
  <2> QED
    BY <1>8, <2>1, OneElement DEF Two!SendStop, Two!secondaryVars, TwoInv, TwoToken, TwoIdle,
       Two!MemoryAccounted, Two!InRings
<1> QED
  BY <1>3, <1>4, <1>5, <1>6, <1>7, <1>8 DEF Two!primary

LEMMA TwoSecondary == ASSUME TwoInv, Two!secondary PROVE TwoInv'
<1>1. RING_SIZE \in Nat /\ RING_SIZE > 1 /\ Count \in Nat /\ Count > 0
  BY ExchangeAssumption
<1>2. i2 \in Nat /\ i2 <= Count /\ i2 # Two!STOP
  BY <1>1 DEF TwoInv, Two!STOP
<1>3. CASE Two!Lookup
  BY <1>3 DEF Two!Lookup, Two!primaryVars, TwoInv, TwoToken, TwoIdle, TwoRequest,
     TwoServing, TwoReply, Two!MemoryAccounted, Two!InRings
<1>4. CASE Two!Lookup2
  BY <1>4 DEF Two!Lookup2, Two!primaryVars, TwoInv, TwoToken, TwoIdle, TwoRequest,
     TwoServing, TwoReply, Two!MemoryAccounted, Two!InRings
<1>5. CASE Two!Dequeue
  <2>1. \/ primary_pc2 = "receive" /\ ring_a = <<i2>> /\ ring_b = <<>>
        \/ primary_pc2 = "done" /\ ring_a = <<Two!STOP>> /\ ring_b = <<>>
    BY <1>5, OneElement DEF Two!Dequeue, TwoInv, TwoToken, TwoRequest, TwoServing, TwoReply
  <2>2. CASE primary_pc2 = "receive"
    <3>1. ring_a = <<i2>> /\ ring_b = <<>>
      BY <2>1, <2>2
    <3>2. ring_a' = <<>> /\ ring_b' = <<>> /\ val2' = i2 /\ secondary_pc2' = "malloc"
      BY <1>2, <1>5, <3>1, OneElement DEF Two!Dequeue
    <3> QED
      BY <1>5, <2>2, <3>1, <3>2, OneElement DEF Two!Dequeue, Two!primaryVars, TwoInv, TwoToken,
         TwoServing, Two!MemoryAccounted, Two!InRings
  <2>3. CASE primary_pc2 = "done"
    <3>1. ring_a = <<Two!STOP>> /\ ring_b = <<>>
      BY <2>1, <2>3
    <3>2. ring_a' = <<>> /\ ring_b' = <<>> /\ secondary_pc2' = "done"
      BY <1>5, <3>1, OneElement DEF Two!Dequeue
    <3> QED
      BY <1>5, <2>3, <3>1, <3>2, OneElement DEF Two!Dequeue, Two!primaryVars, TwoInv, TwoToken,
         Two!MemoryAccounted, Two!InRings
  <2> QED
    BY <2>1, <2>2, <2>3
<1>6. CASE Two!MallocReply
  <2>1. primary_pc2 = "receive" /\ TwoServing
    BY <1>6 DEF Two!MallocReply, TwoInv, TwoToken, TwoIdle, TwoRequest, TwoReply
  <2> QED
    BY <1>6, <2>1, OneElement DEF Two!MallocReply, Two!primaryVars, TwoInv, TwoToken, TwoServing,
       Two!MemoryAccounted, Two!InRings
<1>7. CASE Two!Reply
  <2>1. primary_pc2 = "receive" /\ TwoServing
    BY <1>7 DEF Two!Reply, TwoInv, TwoToken, TwoIdle, TwoRequest, TwoReply
  <2>2. ring_b' = <<10 * i2>> /\ ring_a' = <<>>
    BY <1>7, <2>1, OneElement DEF Two!Reply, TwoServing
  <2> QED
    BY <1>7, <2>1, <2>2, OneElement DEF Two!Reply, Two!primaryVars, TwoInv, TwoToken, TwoServing,
       TwoReply, Two!MemoryAccounted, Two!InRings
<1> QED
  BY <1>3, <1>4, <1>5, <1>6, <1>7 DEF Two!secondary

\* The exchange as this program shows it.
LEMMA TwoShows ==
  ASSUME ~OneRing, ~OneRing'
  PROVE  /\ Sent = Two!Sent /\ Served = Two!Served /\ Got = got2
         /\ Stopped = Two!PrimaryDone /\ Exited = Two!SecondaryDone
         /\ Sent' = Two!Sent' /\ Served' = Two!Served' /\ Got' = got2'
         /\ Stopped' = Two!PrimaryDone' /\ Exited' = Two!SecondaryDone'
<1>1. /\ Sent = Two!Sent /\ Served = Two!Served /\ Got = got2
      /\ Sent' = Two!Sent' /\ Served' = Two!Served' /\ Got' = got2'
  BY DEF Sent, Served, Got
<1>2. Stopped = Two!PrimaryDone /\ Stopped' = Two!PrimaryDone'
  BY Zenon DEF Stopped
<1>3. Exited = Two!SecondaryDone /\ Exited' = Two!SecondaryDone'
  BY Zenon DEF Exited
<1> QED
  BY <1>1, <1>2, <1>3

\* A step of either process is a step of the exchange, or none.
LEMMA TwoRefines ==
  ASSUME TwoInv, ~OneRing, ~OneRing', Two!primary \/ Two!secondary
  PROVE  [Abstract!Next]_(Abstract!vars)
<1>1. RING_SIZE \in Nat /\ RING_SIZE > 1 /\ Count \in Nat /\ Count > 0
  BY ExchangeAssumption
<1>2. /\ i2 \in Nat /\ i2 <= Count /\ i2 # Two!STOP /\ <<i2>> # <<Two!STOP>>
      /\ got2 = Replies(i2) /\ Len(got2) = i2
  BY <1>1, NextReply DEF TwoInv, Two!STOP
<1>3. /\ Sent = Two!Sent /\ Served = Two!Served /\ Got = got2
      /\ Stopped = Two!PrimaryDone /\ Exited = Two!SecondaryDone
      /\ Sent' = Two!Sent' /\ Served' = Two!Served' /\ Got' = got2'
      /\ Stopped' = Two!PrimaryDone' /\ Exited' = Two!SecondaryDone'
  BY TwoShows
<1>4. CASE Two!Send
  <2>1. /\ i2 < Count /\ primary_pc2 = "send" /\ primary_pc2' = "receive" /\ ring_a' = <<i2>>
        /\ UNCHANGED <<i2, got2, secondary_pc2>>
    BY <1>4, OneElement DEF Two!Send, Two!secondaryVars, TwoInv, TwoToken
  <2>2. Two!Sent = i2 /\ Two!Sent' = i2 + 1 /\ Two!Served = i2 /\ Two!Served' = i2
    BY <1>2, <2>1, OneElement DEF Two!Sent, Two!Served, Two!Waiting, Two!RequestPending
  <2>3. UNCHANGED <<Two!PrimaryDone, Two!SecondaryDone>>
    BY <2>1 DEF Two!PrimaryDone, Two!SecondaryDone
  <2>4. Abstract!Send
    BY <1>2, <1>3, <2>1, <2>2, <2>3 DEF Abstract!Send
  <2> QED
    BY <2>4 DEF Abstract!Next
<1>5. CASE Two!Dequeue /\ primary_pc2 = "receive"
  <2>1. /\ ring_a = <<i2>> /\ ring_a' = <<>> /\ secondary_pc2 = "dequeue"
        /\ secondary_pc2' = "malloc" /\ UNCHANGED <<primary_pc2, i2, got2>>
    BY <1>2, <1>5, OneElement DEF Two!Dequeue, Two!primaryVars, TwoInv, TwoToken, TwoRequest,
       TwoServing, TwoReply
  <2>2. Two!Sent = i2 + 1 /\ Two!Sent' = i2 + 1 /\ Two!Served = i2 /\ Two!Served' = i2 + 1
    BY <1>2, <1>5, <2>1, OneElement DEF Two!Sent, Two!Served, Two!Waiting, Two!RequestPending
  <2>3. UNCHANGED <<Two!PrimaryDone, Two!SecondaryDone>>
    BY <2>1 DEF Two!PrimaryDone, Two!SecondaryDone
  <2>4. Abstract!Serve
    BY <1>2, <1>3, <2>1, <2>2, <2>3 DEF Abstract!Serve
  <2> QED
    BY <2>4 DEF Abstract!Next
<1>6. CASE Two!Receive
  <2>1. /\ ring_a = <<>> /\ ring_b = <<10 * i2>> /\ primary_pc2 = "receive"
        /\ primary_pc2' = "malloc" /\ i2' = i2 + 1 /\ got2' = Append(got2, 10 * i2)
        /\ UNCHANGED secondary_pc2
    BY <1>6, OneElement DEF Two!Receive, Two!secondaryVars, TwoInv, TwoToken, TwoRequest,
       TwoServing, TwoReply
  <2>2. Two!Sent = i2 + 1 /\ Two!Sent' = i2 + 1 /\ Two!Served = i2 + 1 /\ Two!Served' = i2 + 1
    BY <1>2, <2>1, OneElement DEF Two!Sent, Two!Served, Two!Waiting, Two!RequestPending
  <2>3. UNCHANGED <<Two!PrimaryDone, Two!SecondaryDone>>
    BY <2>1 DEF Two!PrimaryDone, Two!SecondaryDone
  <2>4. Abstract!Receive
    BY <1>2, <1>3, <2>1, <2>2, <2>3 DEF Abstract!Receive
  <2> QED
    BY <2>4 DEF Abstract!Next
<1>7. CASE Two!SendStop
  <2>1. /\ i2 = Count /\ primary_pc2 = "stop" /\ primary_pc2' = "done"
        /\ UNCHANGED <<i2, got2, secondary_pc2>>
    BY <1>7 DEF Two!SendStop, Two!secondaryVars, TwoInv
  <2>2. UNCHANGED <<Two!Sent, Two!Served>>
    BY <2>1 DEF Two!Sent, Two!Served, Two!Waiting
  <2>3. ~Two!PrimaryDone /\ Two!PrimaryDone' = TRUE /\ UNCHANGED Two!SecondaryDone
    BY <2>1 DEF Two!PrimaryDone, Two!SecondaryDone
  <2>4. Abstract!Stop
    BY <1>2, <1>3, <2>1, <2>2, <2>3 DEF Abstract!Stop
  <2> QED
    BY <2>4 DEF Abstract!Next
<1>8. CASE Two!Dequeue /\ primary_pc2 # "receive"
  <2>1. /\ primary_pc2 = "done" /\ secondary_pc2 = "dequeue" /\ secondary_pc2' = "done"
        /\ UNCHANGED <<primary_pc2, i2, got2>>
    BY <1>8, OneElement DEF Two!Dequeue, Two!primaryVars, TwoInv, TwoToken, TwoIdle
  <2>2. UNCHANGED <<Two!Sent, Two!Served>>
    BY <2>1 DEF Two!Sent, Two!Served, Two!Waiting
  <2>3. /\ Two!PrimaryDone /\ UNCHANGED Two!PrimaryDone
        /\ ~Two!SecondaryDone /\ Two!SecondaryDone' = TRUE
    BY <2>1 DEF Two!PrimaryDone, Two!SecondaryDone
  <2>4. Abstract!Exit
    BY <1>3, <2>1, <2>2, <2>3 DEF Abstract!Exit
  <2> QED
    BY <2>4 DEF Abstract!Next
<1>9. CASE \/ Two!CreateRing \/ Two!CreateRing2 \/ Two!Malloc
           \/ Two!Lookup \/ Two!Lookup2 \/ Two!MallocReply \/ Two!Reply
  <2>1. /\ UNCHANGED <<i2, got2, ring_a>>
        /\ Two!Waiting' = Two!Waiting /\ Two!PrimaryDone' = Two!PrimaryDone
    BY <1>9 DEF Two!CreateRing, Two!CreateRing2, Two!Malloc, Two!Lookup, Two!Lookup2,
       Two!MallocReply, Two!Reply, Two!primaryVars, Two!Waiting, Two!PrimaryDone
  <2>2. Two!SecondaryDone' = Two!SecondaryDone
    BY <1>9 DEF Two!CreateRing, Two!CreateRing2, Two!Malloc, Two!Lookup, Two!Lookup2,
       Two!MallocReply, Two!Reply, Two!secondaryVars, Two!SecondaryDone
  <2>3. Two!RequestPending' = Two!RequestPending
    BY <2>1 DEF Two!RequestPending
  <2>4. UNCHANGED <<Two!Sent, Two!Served>>
    BY <2>1, <2>3 DEF Two!Sent, Two!Served
  <2> QED
    BY <1>3, <2>1, <2>2, <2>4 DEF Abstract!vars
<1> QED
  BY <1>4, <1>5, <1>6, <1>7, <1>8, <1>9 DEF Two!primary, Two!secondary

-----------------------------------------------------------------------------
(* SingleRing.  There is one message, in the ring or in the hands of one   *)
(* process; every put-back therefore finds the ring empty.                 *)

OneIdle == secondary_pc1 \in {"lookup", "wait", "print"}

\* The only message is x, and it is in the ring, with the primary, or with the
\* secondary, each of which has yet to look at it.
OneInRing(x) ==
  ring1 = <<x>> /\ r1 = One!Nothing /\ m1 = One!Nothing /\ primary_pc1 # "look" /\ OneIdle
OneAtPrimary(x) ==
  ring1 = <<>> /\ r1 = x /\ m1 = One!Nothing /\ primary_pc1 = "look" /\ OneIdle
OneAtSecondary(x) ==
  ring1 = <<>> /\ r1 = One!Nothing /\ m1 = x /\ primary_pc1 # "look" /\ secondary_pc1 = "look"
OneNowhere == ring1 = <<>> /\ r1 = One!Nothing /\ m1 = One!Nothing

\* The secondary has made the response and not yet enqueued it.
OneReplying ==
  /\ ring1 = <<>> /\ r1 = One!Nothing /\ m1 = One!Response(i1 * 10)
  /\ primary_pc1 = "wait" /\ secondary_pc1 = "reply"

OneTravels(x) == OneInRing(x) \/ OneAtPrimary(x) \/ OneAtSecondary(x)

\* What the message is, by the primary's place.
OneToken ==
  \/ primary_pc1 \in {"create", "send", "exit"} /\ OneNowhere /\ OneIdle
  \/ primary_pc1 \in {"wait", "look"} /\ OneTravels(One!Request(i1))
  \/ primary_pc1 \in {"wait", "look"} /\ OneTravels(One!Response(i1 * 10))
  \/ OneReplying
  \/ primary_pc1 = "done" /\ (OneInRing(One!EXIT) \/ OneAtSecondary(One!EXIT))
  \/ primary_pc1 = "done" /\ OneNowhere /\ secondary_pc1 = "done"

OneInv ==
  /\ i1 \in 0 .. Count
  /\ primary_pc1 = "create" => i1 = 0
  /\ primary_pc1 \in {"send", "wait", "look"} => i1 < Count
  /\ primary_pc1 \in {"exit", "done"} => i1 = Count
  /\ got1 = Replies(i1)
  /\ lost1 = {}
  /\ OneToken

\* The kinds of messages are told apart by destination and type.
LEMMA Kinds ==
  ASSUME NEW n
  PROVE  /\ One!Request(n).dst_id = One!PROC_B /\ One!Request(n).type = "REQ"
         /\ One!Request(n).value = n /\ One!Request(n) # One!Nothing
         /\ One!Response(n).dst_id = One!PROC_A /\ One!Response(n).type = "RESP"
         /\ One!Response(n).value = n /\ One!Response(n) # One!Nothing
         /\ One!EXIT.dst_id = One!PROC_B /\ One!EXIT.type = "EXIT" /\ One!EXIT # One!Nothing
         /\ One!Nothing.type = "NONE" /\ One!PROC_A # One!PROC_B
BY DEF One!Request, One!Response, One!EXIT, One!Nothing, One!PROC_A, One!PROC_B

LEMMA OneInit == One!Init => OneInv
<1>1. Replies(0) = <<>>
  BY DEF Replies
<1> QED
  BY <1>1, ExchangeAssumption DEF One!Init, OneInv, OneToken, OneNowhere, OneIdle

LEMMA OnePrimary == ASSUME OneInv, One!primary PROVE OneInv'
<1>1. RING_SIZE \in Nat /\ RING_SIZE > 1 /\ Count \in Nat /\ Count > 0
  BY ExchangeAssumption
<1>2. i1 \in Nat /\ i1 <= Count /\ i1 * 10 \in Int
  BY <1>1 DEF OneInv
<1>3. CASE One!Create
  BY <1>1, <1>3 DEF One!Create, One!secondaryVars, OneInv, OneToken, OneNowhere, OneIdle,
     OneTravels, OneInRing, OneAtPrimary, OneAtSecondary, OneReplying
<1>4. CASE One!Send
  <2>1. OneNowhere /\ OneIdle /\ ring1' = <<One!Request(i1)>>
    BY <1>4, OneElement DEF One!Send, OneInv, OneToken, OneNowhere, OneReplying
  <2> QED
    BY <1>4, <2>1 DEF One!Send, One!secondaryVars, OneInv, OneToken, OneNowhere, OneIdle,
       OneTravels, OneInRing
<1>5. CASE One!PrimaryDequeue
  <2>1. PICK x \in {One!Request(i1), One!Response(i1 * 10)} : OneInRing(x)
    BY <1>5, OneElement DEF One!PrimaryDequeue, OneInv, OneToken, OneNowhere, OneTravels,
       OneAtPrimary, OneAtSecondary, OneReplying
  <2>2. ring1' = <<>> /\ r1' = x
    BY <1>5, <2>1, OneElement DEF One!PrimaryDequeue, OneInRing
  <2>3. OneAtPrimary(x)'
    BY <1>5, <2>1, <2>2 DEF One!PrimaryDequeue, One!secondaryVars, OneInRing, OneAtPrimary, OneIdle
  <2> QED
    BY <1>5, <2>1, <2>3 DEF One!PrimaryDequeue, OneInv, OneToken, OneTravels
<1>6. CASE One!PrimaryPutBack
  <2>1. OneAtPrimary(One!Request(i1))
    BY <1>6, Kinds DEF One!PrimaryPutBack, OneInv, OneToken, OneTravels, OneInRing,
       OneAtPrimary, OneAtSecondary, OneReplying
  <2>2. ring1' = <<One!Request(i1)>> /\ lost1' = lost1
    BY <1>1, <1>6, <2>1, OneElement DEF One!PrimaryPutBack, One!HasRoom, OneAtPrimary
  <2>3. OneInRing(One!Request(i1))'
    BY <1>6, <2>1, <2>2 DEF One!PrimaryPutBack, One!secondaryVars, OneInRing, OneAtPrimary, OneIdle
  <2> QED
    BY <1>6, <2>1, <2>2, <2>3 DEF One!PrimaryPutBack, OneInv, OneToken, OneTravels
<1>7. CASE One!PrimaryReceive
  <2>1. OneAtPrimary(One!Response(i1 * 10)) /\ i1 < Count
    BY <1>7, Kinds DEF One!PrimaryReceive, OneInv, OneToken, OneTravels, OneInRing,
       OneAtPrimary, OneAtSecondary, OneReplying
  <2>2. /\ got1' = Append(got1, i1 * 10) /\ i1' = i1 + 1 /\ r1' = One!Nothing
        /\ primary_pc1' = IF i1 + 1 < Count THEN "send" ELSE "exit"
        /\ UNCHANGED <<ring1, secondary_pc1, m1, lost1>>
    BY <1>7, <2>1, Kinds DEF One!PrimaryReceive, One!secondaryVars, OneAtPrimary
  <2>3. got1' = Replies(i1')
    <3>1. got1 = Replies(i1) /\ i1 * 10 = 10 * i1
      BY <1>2 DEF OneInv
    <3> QED
      BY <1>2, <2>2, <3>1, NextReply
  <2>4. OneNowhere' /\ OneIdle'
    BY <2>1, <2>2 DEF OneAtPrimary, OneNowhere, OneIdle
  <2> QED
    BY <1>1, <1>2, <2>1, <2>2, <2>3, <2>4 DEF OneInv, OneToken
<1>8. CASE One!SendExit
  <2>1. OneNowhere /\ OneIdle /\ i1 = Count
    BY <1>8 DEF One!SendExit, OneInv, OneToken, OneReplying
  <2>2. ring1' = <<One!EXIT>> /\ lost1' = lost1
    BY <1>1, <1>8, <2>1, OneElement DEF One!SendExit, One!HasRoom, OneNowhere
  <2>3. OneInRing(One!EXIT)'
    BY <1>8, <2>1, <2>2 DEF One!SendExit, One!secondaryVars, OneInRing, OneNowhere, OneIdle
  <2> QED
    BY <1>8, <2>1, <2>2, <2>3 DEF One!SendExit, OneInv, OneToken
<1> QED
  BY <1>3, <1>4, <1>5, <1>6, <1>7, <1>8 DEF One!primary

LEMMA OneSecondary == ASSUME OneInv, One!secondary PROVE OneInv'
<1>1. RING_SIZE \in Nat /\ RING_SIZE > 1 /\ Count \in Nat /\ Count > 0
  BY ExchangeAssumption
<1>2. UNCHANGED <<primary_pc1, i1, r1, got1>>
  BY DEF One!secondary, One!Lookup, One!SecondaryDequeue, One!SecondaryPutBack, One!Exit,
     One!Serve, One!Reply, One!PrintSent, One!primaryVars
<1>3. CASE One!Lookup \/ One!PrintSent
  BY <1>2, <1>3 DEF One!Lookup, One!PrintSent, OneInv, OneToken, OneNowhere, OneIdle, OneTravels, OneInRing,
     OneAtPrimary, OneAtSecondary, OneReplying
<1>4. CASE One!SecondaryDequeue
  <2>1. \/ /\ primary_pc1 \in {"wait", "look"}
           /\ OneInRing(One!Request(i1)) \/ OneInRing(One!Response(i1 * 10))
        \/ primary_pc1 = "done" /\ OneInRing(One!EXIT)
    BY <1>4, OneElement DEF One!SecondaryDequeue, OneInv, OneToken, OneNowhere, OneTravels,
       OneAtPrimary, OneAtSecondary, OneReplying
  <2>2. ASSUME NEW x, OneInRing(x) PROVE OneAtSecondary(x)'
    <3>1. ring1' = <<>> /\ m1' = x
      BY <1>4, <2>2, OneElement DEF One!SecondaryDequeue, OneInRing
    <3> QED
      BY <1>2, <1>4, <2>2, <3>1 DEF One!SecondaryDequeue, OneInRing, OneAtSecondary
  <2>3. \/ /\ primary_pc1' \in {"wait", "look"}
           /\ OneAtSecondary(One!Request(i1))' \/ OneAtSecondary(One!Response(i1 * 10))'
        \/ primary_pc1' = "done" /\ OneAtSecondary(One!EXIT)'
    BY <1>2, <2>1, <2>2 DEF OneAtSecondary
  <2>4. OneToken'
    BY <2>3 DEF OneToken, OneTravels
  <2> QED
    BY <1>2, <1>4, <2>4 DEF One!SecondaryDequeue, OneInv
<1>5. CASE One!SecondaryPutBack
  <2>1. OneAtSecondary(One!Response(i1 * 10)) /\ primary_pc1 = "wait"
    BY <1>5, Kinds DEF One!SecondaryPutBack, OneInv, OneToken, OneNowhere, OneIdle, OneTravels,
       OneInRing, OneAtPrimary, OneAtSecondary, OneReplying
  <2>2. ring1' = <<One!Response(i1 * 10)>> /\ lost1' = lost1
    BY <1>1, <1>5, <2>1, OneElement DEF One!SecondaryPutBack, One!HasRoom, OneAtSecondary
  <2>3. OneInRing(One!Response(i1 * 10))'
    BY <1>2, <1>5, <2>1, <2>2 DEF One!SecondaryPutBack, OneInRing, OneAtSecondary, OneIdle
  <2> QED
    BY <1>2, <2>1, <2>2, <2>3 DEF OneInv, OneToken, OneTravels
<1>6. CASE One!Exit
  <2>1. OneAtSecondary(One!EXIT) /\ primary_pc1 = "done"
    BY <1>6, Kinds DEF One!Exit, OneInv, OneToken, OneNowhere, OneIdle, OneTravels,
       OneInRing, OneAtPrimary, OneAtSecondary, OneReplying
  <2> QED
    BY <1>2, <1>6, <2>1 DEF One!Exit, OneInv, OneToken, OneAtSecondary, OneNowhere
<1>7. CASE One!Serve
  <2>1. OneAtSecondary(One!Request(i1)) /\ primary_pc1 = "wait"
    BY <1>7, Kinds DEF One!Serve, OneInv, OneToken, OneNowhere, OneIdle, OneTravels,
       OneInRing, OneAtPrimary, OneAtSecondary, OneReplying
  <2>2. m1' = One!Response(i1 * 10)
    BY <1>7, <2>1, Kinds DEF One!Serve, OneAtSecondary
  <2>3. OneReplying'
    BY <1>2, <1>7, <2>1, <2>2 DEF One!Serve, OneReplying, OneAtSecondary
  <2> QED
    BY <1>2, <1>7, <2>3 DEF One!Serve, OneInv, OneToken
<1>8. CASE One!Reply
  <2>1. OneReplying
    BY <1>8 DEF One!Reply, OneInv, OneToken, OneIdle, OneTravels, OneInRing, OneAtPrimary,
       OneAtSecondary
  <2>2. ring1' = <<One!Response(i1 * 10)>>
    BY <1>8, <2>1, OneElement DEF One!Reply, OneReplying
  <2>3. OneInRing(One!Response(i1 * 10))'
    BY <1>2, <1>8, <2>1, <2>2 DEF One!Reply, OneInRing, OneReplying, OneIdle
  <2> QED
    BY <1>2, <1>8, <2>1, <2>3 DEF One!Reply, OneInv, OneToken, OneTravels, OneReplying
<1> QED
  BY <1>3, <1>4, <1>5, <1>6, <1>7, <1>8 DEF One!secondary

\* The invariant says that there is one message, unless the primary is between
\* two exchanges or the last one has been read.
LEMMA OneCounts == OneInv => One!OneMessage
<1> SUFFICES ASSUME OneInv PROVE One!OneMessage
  OBVIOUS
<1>1. One!InHand(One!Nothing) = 0
  BY DEF One!InHand
<1>2. /\ One!Request(i1) # One!Nothing /\ One!Response(i1 * 10) # One!Nothing
      /\ One!EXIT # One!Nothing
  BY Kinds
<1>3. ASSUME NEW x, x # One!Nothing, OneTravels(x)
      PROVE  Len(ring1) + One!InHand(r1) + One!InHand(m1) = 1 /\ secondary_pc1 # "done"
  <2>1. One!InHand(x) = 1
    BY <1>3 DEF One!InHand
  <2>2. Len(<<x>>) = 1 /\ Len(<<>>) = 0
    BY OneElement
  <2>3. CASE OneInRing(x)
    BY <1>1, <2>2, <2>3 DEF OneInRing, OneIdle
  <2>4. CASE OneAtPrimary(x)
    BY <1>1, <2>1, <2>2, <2>4 DEF OneAtPrimary, OneIdle
  <2>5. CASE OneAtSecondary(x)
    BY <1>1, <2>1, <2>2, <2>5 DEF OneAtSecondary
  <2> QED
    BY <1>3, <2>3, <2>4, <2>5 DEF OneTravels
<1>4. OneNowhere => Len(ring1) + One!InHand(r1) + One!InHand(m1) = 0
  BY <1>1, OneElement DEF OneNowhere
<1>5. OneReplying => Len(ring1) + One!InHand(r1) + One!InHand(m1) = 1
  BY <1>1, <1>2, OneElement DEF OneReplying, One!InHand
<1>6. OneInRing(One!EXIT) \/ OneAtSecondary(One!EXIT) => OneTravels(One!EXIT)
  BY DEF OneTravels
<1> QED
  BY <1>2, <1>3, <1>4, <1>5, <1>6
    DEF OneInv, OneToken, OneReplying, One!OneMessage, One!InPlay

\* The exchange as this program shows it.
LEMMA OneShows ==
  ASSUME OneRing, OneRing'
  PROVE  /\ Sent = One!Sent /\ Served = One!Served /\ Got = got1
         /\ Stopped = One!PrimaryDone /\ Exited = One!SecondaryDone
         /\ Sent' = One!Sent' /\ Served' = One!Served' /\ Got' = got1'
         /\ Stopped' = One!PrimaryDone' /\ Exited' = One!SecondaryDone'
<1>1. /\ Sent = One!Sent /\ Served = One!Served /\ Got = got1
      /\ Sent' = One!Sent' /\ Served' = One!Served' /\ Got' = got1'
  BY DEF Sent, Served, Got
<1>2. Stopped = One!PrimaryDone /\ Stopped' = One!PrimaryDone'
  BY Zenon DEF Stopped
<1>3. Exited = One!SecondaryDone /\ Exited' = One!SecondaryDone'
  BY Zenon DEF Exited
<1> QED
  BY <1>1, <1>2, <1>3

\* Sent and served, by the message that travels.
OneShown ==
  /\ primary_pc1 \in {"wait", "look"} /\ OneTravels(One!Request(i1))
       => One!Sent = i1 + 1 /\ One!Served = i1
  /\ primary_pc1 \in {"wait", "look"} /\ OneTravels(One!Response(i1 * 10))
       => One!Sent = i1 + 1 /\ One!Served = i1 + 1
  /\ OneReplying => One!Sent = i1 + 1 /\ One!Served = i1 + 1
  /\ primary_pc1 \in {"create", "send", "exit", "done"} => One!Sent = i1 /\ One!Served = i1

\* The request is pending while it is the message that travels.
LEMMA OneServed == OneShown
<1>1. ASSUME NEW x, OneTravels(x)
      PROVE  One!RequestPending <=> x.type = "REQ"
  <2>1. One!Nothing.type # "REQ"
    BY Kinds
  <2>2. CASE OneInRing(x)
    <3>1. DOMAIN ring1 = {1} /\ ring1[1] = x
      BY <2>2 DEF OneInRing
    <3> QED
      BY <2>1, <2>2, <3>1 DEF OneInRing, One!RequestPending
  <2>3. CASE OneAtPrimary(x)
    <3>1. DOMAIN ring1 = {}
      BY <2>3 DEF OneAtPrimary
    <3> QED
      BY <2>1, <2>3, <3>1 DEF OneAtPrimary, One!RequestPending
  <2>4. CASE OneAtSecondary(x)
    <3>1. DOMAIN ring1 = {}
      BY <2>4 DEF OneAtSecondary
    <3> QED
      BY <2>1, <2>4, <3>1 DEF OneAtSecondary, One!RequestPending
  <2> QED
    BY <1>1, <2>2, <2>3, <2>4 DEF OneTravels
<1>2. OneReplying => ~One!RequestPending
  <2>1. OneReplying => DOMAIN ring1 = {}
    BY DEF OneReplying
  <2> QED
    BY <2>1, Kinds DEF OneReplying, One!RequestPending
<1>3. One!Request(i1).type = "REQ" /\ One!Response(i1 * 10).type # "REQ"
  BY Kinds
<1>4. /\ OneTravels(One!Request(i1)) => One!RequestPending
      /\ OneTravels(One!Response(i1 * 10)) => ~One!RequestPending
  BY <1>1, <1>3
<1>5. OneReplying => primary_pc1 = "wait"
  BY DEF OneReplying
<1> QED
  BY <1>2, <1>4, <1>5 DEF OneShown, One!Sent, One!Served, One!Sending

\* Taking the message from the ring and putting it back.
LEMMA OneMoves ==
  ASSUME \/ One!PrimaryDequeue \/ One!PrimaryPutBack
         \/ One!SecondaryDequeue \/ One!SecondaryPutBack,
         NEW x, OneTravels(x), primary_pc1 \in {"wait", "look", "done"}
  PROVE  /\ OneTravels(x)' /\ UNCHANGED <<i1, got1>>
         /\ IF primary_pc1 = "done" THEN primary_pc1' = "done" ELSE primary_pc1' \in {"wait", "look"}
         /\ secondary_pc1 # "done" /\ secondary_pc1' # "done"
<1>1. RING_SIZE \in Nat /\ RING_SIZE > 1
  BY ExchangeAssumption
<1>2. Head(<<x>>) = x /\ Tail(<<x>>) = <<>> /\ Append(<<>>, x) = <<x>> /\ Len(<<>>) = 0
  BY OneElement
<1>3. CASE One!PrimaryDequeue
  <2>1. OneInRing(x)
    BY <1>3 DEF One!PrimaryDequeue, OneTravels, OneAtPrimary, OneAtSecondary
  <2>2. ring1' = <<>> /\ r1' = x
    BY <1>2, <1>3, <2>1 DEF One!PrimaryDequeue, OneInRing
  <2> QED
    BY <1>3, <2>1, <2>2 DEF One!PrimaryDequeue, One!secondaryVars, OneTravels, OneInRing,
       OneAtPrimary, OneIdle
<1>4. CASE One!PrimaryPutBack
  <2>1. OneAtPrimary(x)
    BY <1>4 DEF One!PrimaryPutBack, OneTravels, OneInRing, OneAtSecondary
  <2>2. ring1' = <<x>>
    BY <1>1, <1>2, <1>4, <2>1 DEF One!PrimaryPutBack, One!HasRoom, OneAtPrimary
  <2> QED
    BY <1>4, <2>1, <2>2 DEF One!PrimaryPutBack, One!secondaryVars, OneTravels, OneInRing,
       OneAtPrimary, OneIdle
<1>5. CASE One!SecondaryDequeue
  <2>1. OneInRing(x)
    BY <1>5, OneElement DEF One!SecondaryDequeue, OneTravels, OneAtPrimary, OneAtSecondary
  <2>2. ring1' = <<>> /\ m1' = x
    BY <1>2, <1>5, <2>1 DEF One!SecondaryDequeue, OneInRing
  <2> QED
    BY <1>5, <2>1, <2>2 DEF One!SecondaryDequeue, One!primaryVars, OneTravels, OneInRing,
       OneAtSecondary, OneIdle
<1>6. CASE One!SecondaryPutBack
  <2>1. OneAtSecondary(x)
    BY <1>6 DEF One!SecondaryPutBack, OneTravels, OneInRing, OneAtPrimary, OneIdle
  <2>2. ring1' = <<x>>
    BY <1>1, <1>2, <1>6, <2>1 DEF One!SecondaryPutBack, One!HasRoom, OneAtSecondary
  <2> QED
    BY <1>6, <2>1, <2>2 DEF One!SecondaryPutBack, One!primaryVars, OneTravels, OneInRing,
       OneAtSecondary, OneIdle
<1> QED
  BY <1>3, <1>4, <1>5, <1>6

\* A step of either process is a step of the exchange, or none: taking the
\* other's message and putting it back does not show.
LEMMA OneRefines ==
  ASSUME OneInv, OneInv', OneRing, OneRing', One!primary \/ One!secondary
  PROVE  [Abstract!Next]_(Abstract!vars)
<1>1. Count \in Nat /\ Count > 0
  BY ExchangeAssumption
<1>2. /\ i1 \in Nat /\ i1 <= Count /\ got1 = Replies(i1) /\ Len(got1) = i1
      /\ i1 * 10 = 10 * i1
  BY <1>1, NextReply DEF OneInv
<1>3. /\ Sent = One!Sent /\ Served = One!Served /\ Got = got1
      /\ Stopped = One!PrimaryDone /\ Exited = One!SecondaryDone
      /\ Sent' = One!Sent' /\ Served' = One!Served' /\ Got' = got1'
      /\ Stopped' = One!PrimaryDone' /\ Exited' = One!SecondaryDone'
  BY OneShows
<1>4. OneShown /\ OneShown'
  BY OneServed, PTL
<1>5. CASE One!Send
  <2>1. /\ i1 < Count /\ primary_pc1 = "send" /\ primary_pc1' = "wait"
        /\ UNCHANGED <<i1, got1, secondary_pc1>>
    BY <1>5 DEF One!Send, One!secondaryVars, OneInv
  <2>2. OneNowhere /\ OneIdle /\ ring1' = <<One!Request(i1)>>
    BY <1>5, OneElement DEF One!Send, OneInv, OneToken, OneNowhere, OneReplying
  <2>3. OneTravels(One!Request(i1))'
    BY <1>5, <2>1, <2>2 DEF One!Send, One!secondaryVars, OneNowhere, OneIdle, OneTravels, OneInRing
  <2>4. One!Sent = i1 /\ One!Sent' = i1 + 1 /\ One!Served = i1 /\ One!Served' = i1
    BY <1>4, <2>1, <2>3 DEF OneShown
  <2>5. UNCHANGED <<One!PrimaryDone, One!SecondaryDone>>
    BY <2>1 DEF One!PrimaryDone, One!SecondaryDone
  <2>6. Abstract!Send
    BY <1>2, <1>3, <2>1, <2>4, <2>5 DEF Abstract!Send
  <2> QED
    BY <2>6 DEF Abstract!Next
<1>6. CASE One!Serve
  <2>1. /\ OneAtSecondary(One!Request(i1)) /\ primary_pc1 = "wait" /\ primary_pc1' = "wait"
        /\ m1' = One!Response(m1.value * 10) /\ secondary_pc1 = "look" /\ secondary_pc1' = "reply"
        /\ UNCHANGED <<i1, got1, r1, ring1>>
    BY <1>6, Kinds DEF One!Serve, One!primaryVars, OneInv, OneToken, OneNowhere, OneIdle,
       OneTravels, OneInRing, OneAtPrimary, OneAtSecondary, OneReplying
  <2>2. OneReplying'
    <3>1. m1' = One!Response(i1 * 10)
      BY <2>1, Kinds DEF OneAtSecondary
    <3> QED
      BY <2>1, <3>1 DEF OneReplying, OneAtSecondary
  <2>3. One!Sent = i1 + 1 /\ One!Sent' = i1 + 1 /\ One!Served = i1 /\ One!Served' = i1 + 1
    BY <1>4, <2>1, <2>2 DEF OneShown, OneTravels
  <2>4. UNCHANGED <<One!PrimaryDone, One!SecondaryDone>>
    BY <2>1 DEF One!PrimaryDone, One!SecondaryDone
  <2>5. Abstract!Serve
    BY <1>2, <1>3, <2>1, <2>3, <2>4 DEF Abstract!Serve
  <2> QED
    BY <2>5 DEF Abstract!Next
<1>7. CASE One!PrimaryReceive
  <2>1. OneAtPrimary(One!Response(i1 * 10)) /\ i1 < Count /\ primary_pc1 = "look"
    BY <1>7, Kinds DEF One!PrimaryReceive, OneInv, OneToken, OneTravels, OneInRing,
       OneAtPrimary, OneAtSecondary, OneReplying
  <2>2. /\ got1' = Append(got1, i1 * 10) /\ i1' = i1 + 1
        /\ primary_pc1' \in {"send", "exit"} /\ UNCHANGED secondary_pc1
    BY <1>7, <2>1, Kinds DEF One!PrimaryReceive, One!secondaryVars, OneAtPrimary
  <2>3. One!Sent = i1 + 1 /\ One!Sent' = i1 + 1 /\ One!Served = i1 + 1 /\ One!Served' = i1 + 1
    BY <1>4, <2>1, <2>2 DEF OneShown, OneTravels
  <2>4. UNCHANGED <<One!PrimaryDone, One!SecondaryDone>>
    BY <2>1, <2>2 DEF One!PrimaryDone, One!SecondaryDone
  <2>5. Abstract!Receive
    BY <1>2, <1>3, <2>2, <2>3, <2>4 DEF Abstract!Receive
  <2> QED
    BY <2>5 DEF Abstract!Next
<1>8. CASE One!SendExit
  <2>1. /\ i1 = Count /\ primary_pc1 = "exit" /\ primary_pc1' = "done"
        /\ UNCHANGED <<i1, got1, secondary_pc1>>
    BY <1>8 DEF One!SendExit, One!secondaryVars, OneInv
  <2>2. UNCHANGED <<One!Sent, One!Served>>
    BY <1>4, <2>1 DEF OneShown
  <2>3. ~One!PrimaryDone /\ One!PrimaryDone' = TRUE /\ UNCHANGED One!SecondaryDone
    BY <2>1 DEF One!PrimaryDone, One!SecondaryDone
  <2>4. Abstract!Stop
    BY <1>2, <1>3, <2>1, <2>2, <2>3 DEF Abstract!Stop
  <2> QED
    BY <2>4 DEF Abstract!Next
<1>9. CASE One!Exit
  <2>1. /\ primary_pc1 = "done" /\ primary_pc1' = "done"
        /\ secondary_pc1 = "look" /\ secondary_pc1' = "done" /\ UNCHANGED <<i1, got1>>
    BY <1>9, Kinds DEF One!Exit, One!primaryVars, OneInv, OneToken, OneNowhere, OneIdle,
       OneTravels, OneInRing, OneAtPrimary, OneAtSecondary, OneReplying
  <2>2. UNCHANGED <<One!Sent, One!Served>>
    BY <1>4, <2>1 DEF OneShown
  <2>3. /\ One!PrimaryDone /\ UNCHANGED One!PrimaryDone
        /\ ~One!SecondaryDone /\ One!SecondaryDone' = TRUE
    BY <2>1 DEF One!PrimaryDone, One!SecondaryDone
  <2>4. Abstract!Exit
    BY <1>3, <2>1, <2>2, <2>3 DEF Abstract!Exit
  <2> QED
    BY <2>4 DEF Abstract!Next
<1>10. CASE \/ One!PrimaryDequeue \/ One!PrimaryPutBack
            \/ One!SecondaryDequeue \/ One!SecondaryPutBack
  <2>1. PICK x : /\ OneTravels(x) /\ primary_pc1 \in {"wait", "look", "done"}
                 /\ primary_pc1 # "done" => x \in {One!Request(i1), One!Response(i1 * 10)}
    BY <1>10, OneElement DEF One!PrimaryDequeue, One!PrimaryPutBack, One!SecondaryDequeue,
       One!SecondaryPutBack, OneInv, OneToken, OneReplying, OneNowhere, OneIdle, OneTravels
  <2>2. /\ OneTravels(x)' /\ UNCHANGED <<i1, got1>>
        /\ IF primary_pc1 = "done" THEN primary_pc1' = "done" ELSE primary_pc1' \in {"wait", "look"}
        /\ secondary_pc1 # "done" /\ secondary_pc1' # "done"
    BY <1>10, <2>1, OneMoves
  <2>3. UNCHANGED <<One!Sent, One!Served>>
    BY <1>4, <2>1, <2>2 DEF OneShown
  <2>4. UNCHANGED <<One!PrimaryDone, One!SecondaryDone>>
    BY <2>1, <2>2 DEF One!PrimaryDone, One!SecondaryDone
  <2> QED
    BY <1>3, <2>2, <2>3, <2>4 DEF Abstract!vars
<1>11. CASE One!Create
  <2>1. /\ primary_pc1 = "create" /\ primary_pc1' = "send"
        /\ UNCHANGED <<i1, got1, secondary_pc1>>
    BY <1>11 DEF One!Create, One!secondaryVars
  <2>2. UNCHANGED <<One!Sent, One!Served>>
    BY <1>4, <2>1 DEF OneShown
  <2>3. UNCHANGED <<One!PrimaryDone, One!SecondaryDone>>
    BY <2>1 DEF One!PrimaryDone, One!SecondaryDone
  <2> QED
    BY <1>3, <2>1, <2>2, <2>3 DEF Abstract!vars
<1>12. CASE One!Lookup \/ One!PrintSent
  <2>1. /\ UNCHANGED <<primary_pc1, i1, r1, got1, ring1, m1>>
        /\ secondary_pc1 \in {"lookup", "print"} /\ secondary_pc1' = "wait"
    BY <1>12 DEF One!Lookup, One!PrintSent, One!primaryVars
  <2>2. One!RequestPending' = One!RequestPending /\ One!Sending' = One!Sending
    BY <2>1 DEF One!RequestPending, One!Sending
  <2>3. UNCHANGED <<One!Sent, One!Served>>
    BY <2>1, <2>2 DEF One!Sent, One!Served
  <2>4. UNCHANGED <<One!PrimaryDone, One!SecondaryDone>>
    BY <2>1 DEF One!PrimaryDone, One!SecondaryDone
  <2> QED
    BY <1>3, <2>1, <2>3, <2>4 DEF Abstract!vars
<1>13. CASE One!Reply
  <2>1. /\ OneReplying /\ primary_pc1' = "wait" /\ UNCHANGED <<i1, got1, r1, primary_pc1>>
        /\ secondary_pc1 = "reply" /\ secondary_pc1' = "print"
    BY <1>13 DEF One!Reply, One!primaryVars, OneInv, OneToken, OneNowhere, OneIdle,
       OneTravels, OneInRing, OneAtPrimary, OneAtSecondary, OneReplying
  <2>2. OneTravels(One!Response(i1 * 10))'
    <3>1. ring1' = <<One!Response(i1 * 10)>>
      BY <1>13, <2>1, OneElement DEF One!Reply, OneReplying
    <3> QED
      BY <1>13, <2>1, <3>1 DEF One!Reply, OneReplying, OneTravels, OneInRing, OneIdle
  <2>3. One!Sent = i1 + 1 /\ One!Sent' = i1 + 1 /\ One!Served = i1 + 1 /\ One!Served' = i1 + 1
    BY <1>4, <2>1, <2>2 DEF OneShown
  <2>4. UNCHANGED <<One!PrimaryDone, One!SecondaryDone>>
    BY <2>1 DEF One!PrimaryDone, One!SecondaryDone
  <2> QED
    BY <1>3, <2>1, <2>3, <2>4 DEF Abstract!vars
<1> QED
  BY <1>5, <1>6, <1>7, <1>8, <1>9, <1>10, <1>11, <1>12, <1>13 DEF One!primary, One!secondary

-----------------------------------------------------------------------------
(* Messaging.  What was received and what is in the ring together is an    *)
(* increasing sequence of numbers below the next one.                      *)

Increasing(s, n) ==
  /\ s \in Seq(Nat)
  /\ \A j \in 1 .. Len(s) : s[j] < n
  /\ \A j, k \in 1 .. Len(s) : j < k => s[j] < s[k]

WayRing ==
  /\ ring3 \in Seq(Nat) /\ received3 \in Seq(Nat) /\ i3 \in Nat
  /\ refused3 \subseteq 0 .. (i3 - 1)
  /\ Increasing(received3 \o ring3, i3)
  /\ program3 # "sample_rte_mp" => Len(received3) + Len(ring3) + Cardinality(refused3) = i3
  /\ program3 # "rings" => refused3 = {}

\* Multi_Process_Messaging: an answer, or the flag it sets, needs a handler at
\* the secondary, and only the flag lets the primary send.
WayReady ==
  program3 = "mp_messaging" =>
    /\ secondary3 \in {"off", "attached", "registered", "receiving"}
    /\ pc3 \in {"start", "check", "send", "done"}
    /\ replies > 0 \/ secondary_ready => secondary3 \in {"registered", "receiving"}
    /\ pc3 \in {"start", "check"} => i3 = 0
    /\ pc3 \in {"send", "done"} => secondary_ready
    /\ pc3 = "send" => i3 < Sends["mp_messaging"]

\* sample_rte_mp: the message is sent once, and received at most once.
WaySample ==
  program3 = "sample_rte_mp" =>
    /\ ring3 = <<>> /\ secondary3 \in {"off", "attached", "done"}
    /\ secondary3 # "done" => replies = 0 /\ received3 = <<>> /\ i3 = 0
    /\ secondary3 = "done" => i3 = 1 /\ (replies = 0 \/ (replies = 1 /\ received3 = <<>>))

WayInv ==
  /\ program3 \in {"mp_messaging", "through_rte_ring", "sample_rte_mp", "rings"}
  /\ checks \in Nat /\ replies \in Nat
  /\ WayRing /\ WayReady /\ WaySample

\* Enqueuing the next number, not enqueuing it, and dequeuing.
LEMMA EnqueueOrder ==
  ASSUME NEW s \in Seq(Nat), NEW q \in Seq(Nat), NEW n \in Nat, Increasing(s \o q, n)
  PROVE  /\ Append(q, n) \in Seq(Nat) /\ Len(Append(q, n)) = Len(q) + 1
         /\ Increasing(s \o Append(q, n), n + 1)
<1> DEFINE w == s \o q
           w2 == s \o Append(q, n)
<1>1. Len(s) \in Nat /\ Len(q) \in Nat /\ Append(q, n) \in Seq(Nat) /\ Len(Append(q, n)) = Len(q) + 1
  BY LenProperties, AppendProperties
<1>2. w \in Seq(Nat) /\ Len(w) = Len(s) + Len(q)
  BY ConcatProperties
<1>3. w2 = Append(w, n)
  <2>1. Append(q, n) = q \o <<n>> /\ Append(w, n) = w \o <<n>>
    BY <1>2, AppendIsConcat
  <2>2. <<n>> \in Seq(Nat)
    OBVIOUS
  <2>3. (s \o q) \o <<n>> = s \o (q \o <<n>>)
    BY <2>2, ConcatAssociative
  <2> QED
    BY <2>1, <2>3
<1>4. PICK m \in Nat : m = Len(w)
  BY <1>1, <1>2
<1>5. /\ w2 \in Seq(Nat) /\ Len(w2) = m + 1 /\ w2[m + 1] = n
      /\ \A j \in 1 .. m : w2[j] = w[j]
  BY <1>2, <1>3, <1>4, AppendProperties
<1>6. /\ \A j \in 1 .. m : w[j] < n
      /\ \A j, k \in 1 .. m : j < k => w[j] < w[k]
  BY <1>4 DEF Increasing
<1>7. \A j \in 1 .. m : w[j] \in Nat
  BY <1>2, <1>4, ElementOfSeq
<1>8. \A j \in 1 .. (m + 1) : j \in 1 .. m \/ j = m + 1
  OBVIOUS
<1> HIDE DEF w, w2
<1>9. \A j \in 1 .. (m + 1) : w2[j] < n + 1
  <2>1. \A j \in 1 .. m : w[j] < n + 1
    BY <1>6, <1>7
  <2>2. n < n + 1
    OBVIOUS
  <2> QED
    BY <1>5, <1>8, <2>1, <2>2
<1>10. \A j, k \in 1 .. (m + 1) : j < k => w2[j] < w2[k]
  <2> SUFFICES ASSUME NEW j \in 1 .. (m + 1), NEW k \in 1 .. (m + 1), j < k
               PROVE  w2[j] < w2[k]
    OBVIOUS
  <2>1. j \in 1 .. m
    OBVIOUS
  <2> QED
    BY <1>5, <1>6, <1>8, <2>1
<1> QED
  BY <1>1, <1>5, <1>9, <1>10 DEF Increasing, w2

LEMMA RefuseOrder ==
  ASSUME NEW s, NEW n \in Nat, Increasing(s, n)
  PROVE  Increasing(s, n + 1)
<1>1. \A j \in 1 .. Len(s) : s[j] \in Nat
  BY ElementOfSeq DEF Increasing
<1> QED
  BY <1>1 DEF Increasing

\* The set of messages, opaque where only their order matters.
Numbered == Nat

LEMMA JoinedThrice ==
  \A x, y, z \in Seq(Numbered) : (x \o y) \o z = x \o (y \o z)
BY ConcatAssociative

LEMMA DequeueOrder ==
  ASSUME NEW s \in Seq(Nat), NEW q \in Seq(Nat), q # <<>>
  PROVE  /\ Tail(q) \in Seq(Nat) /\ Append(s, Head(q)) \in Seq(Nat)
         /\ Append(s, Head(q)) \o Tail(q) = s \o q
         /\ Len(Append(s, Head(q))) + Len(Tail(q)) = Len(s) + Len(q)
<1>1. Head(q) \in Nat /\ Tail(q) \in Seq(Nat) /\ Len(Tail(q)) = Len(q) - 1
  BY HeadTailProperties
<1>2. Append(s, Head(q)) \in Seq(Nat) /\ Len(Append(s, Head(q))) = Len(s) + 1
  BY <1>1, AppendProperties
<1>3. Append(s, Head(q)) = s \o <<Head(q)>> /\ q = <<Head(q)>> \o Tail(q)
  BY <1>1, AppendIsConcat
<1>4. <<Head(q)>> \in Seq(Nat)
  BY <1>1
<1>5. (s \o <<Head(q)>>) \o Tail(q) = s \o (<<Head(q)>> \o Tail(q))
  <2>1. PICK r, z \in Seq(Nat) : r = <<Head(q)>> /\ z = Tail(q)
    BY <1>1, <1>4
  <2>2. (s \o r) \o z = s \o (r \o z)
    <3>1. s \in Seq(Numbered) /\ r \in Seq(Numbered) /\ z \in Seq(Numbered)
      BY <2>1 DEF Numbered
    <3> QED
      BY <3>1, JoinedThrice
  <2> QED
    BY <2>1, <2>2
<1>6. Len(s) \in Nat /\ Len(q) \in Nat
  BY LenProperties
<1>7. Len(Append(s, Head(q))) + Len(Tail(q)) = Len(s) + Len(q)
  BY <1>1, <1>2, <1>6
<1>8. Append(s, Head(q)) \o Tail(q) = s \o q
  BY <1>3, <1>5
<1> QED
  BY <1>1, <1>2, <1>7, <1>8

\* One more number refused.
LEMMA RefuseOne ==
  ASSUME NEW n \in Nat, NEW R \in SUBSET (0 .. (n - 1))
  PROVE  /\ R \cup {n} \subseteq 0 .. n /\ Cardinality(R) \in Nat
         /\ Cardinality(R \cup {n}) = Cardinality(R) + 1
<1>1. IsFiniteSet(R)
  <2>1. IsFiniteSet(0 .. (n - 1))
    BY FS_Interval
  <2> QED
    BY <2>1, FS_Subset
<1>2. n \notin R /\ R \cup {n} \subseteq 0 .. n
  OBVIOUS
<1> QED
  BY <1>1, <1>2, FS_AddElement, FS_CardinalityType

LEMMA WayInit == Way!Init => WayInv
<1> SUFFICES ASSUME Way!Init PROVE WayInv
  OBVIOUS
<1>1. <<>> \in Seq(Nat) /\ <<>> \o <<>> = <<>> /\ Len(<<>>) = 0
  OBVIOUS
<1>2. Cardinality({}) = 0
  BY FS_EmptySet
<1>3. Increasing(<<>>, 0)
  BY <1>1 DEF Increasing
<1>4. WayRing
  BY <1>1, <1>2, <1>3 DEF Way!Init, WayRing
<1> QED
  BY <1>4 DEF Way!Init, WayInv, WayReady, WaySample, Way!Programs

\* The steps of any program that do not touch the ring.
LEMMA WayQuiet ==
  ASSUME WayInv,
         \/ Way!mp_start \/ Way!mp_check \/ Way!ready_cb \/ Way!Attach \/ Way!DropCheck
         \/ Way!RegisterCheck \/ Way!check_cb \/ Way!mp_lookup
         \/ Way!ring_create \/ Way!ring_lookup \/ Way!sample_register \/ Way!sample_wait
         \/ Way!launch \/ Way!produce_test \/ Way!printed \/ Way!consume_test
         \/ Way!handle_signal
  PROVE  WayInv'
<1> USE DEF Way!mp_start, Way!mp_check, Way!ready_cb, Way!Attach, Way!DropCheck,
        Way!RegisterCheck, Way!check_cb, Way!mp_lookup, Way!ring_create, Way!ring_lookup,
        Way!sample_register, Way!sample_wait, Way!launch, Way!produce_test, Way!printed,
        Way!consume_test, Way!handle_signal, Way!ringVars, Way!mpVars
<1>1. UNCHANGED <<program3, ring3, i3, received3, refused3>>
  OBVIOUS
<1>2. WayRing'
  BY <1>1 DEF WayInv, WayRing
<1>3. checks' \in Nat /\ replies' \in Nat
  BY DEF WayInv, Way!Arrives
<1>4. WayReady'
  BY <1>1, MessagingAssumption DEF WayInv, WayReady, Way!Arrives
<1>5. WaySample'
  BY <1>1 DEF WayInv, WaySample, Way!Arrives
<1> QED
  BY <1>1, <1>2, <1>3, <1>4, <1>5 DEF WayInv

\* The next number is enqueued, or refused by the ring of rings/sample.
LEMMA WayEnqueue ==
  ASSUME WayInv, program3 # "sample_rte_mp",
         UNCHANGED <<program3, received3>>, i3' = i3 + 1,
         \/ ring3' = Append(ring3, i3) /\ refused3' = refused3
         \/ program3 = "rings" /\ ring3' = ring3 /\ refused3' = refused3 \cup {i3}
  PROVE  WayRing'
<1>1. /\ ring3 \in Seq(Nat) /\ received3 \in Seq(Nat) /\ i3 \in Nat
      /\ refused3 \subseteq 0 .. (i3 - 1) /\ Increasing(received3 \o ring3, i3)
      /\ Len(received3) + Len(ring3) + Cardinality(refused3) = i3
      /\ program3 # "rings" => refused3 = {}
  BY DEF WayInv, WayRing
<1>2. /\ refused3 \cup {i3} \subseteq 0 .. i3 /\ Cardinality(refused3) \in Nat
      /\ Cardinality(refused3 \cup {i3}) = Cardinality(refused3) + 1
  BY <1>1, RefuseOne
<1>3. Len(received3) \in Nat /\ Len(ring3) \in Nat /\ i3 + 1 - 1 = i3
  BY <1>1, LenProperties
<1> DEFINE Total(a, b, c) == a + b + c
<1>6. \A a, b, c \in Nat : /\ Total(a, b + 1, c) = Total(a, b, c) + 1
                          /\ Total(a, b, c + 1) = Total(a, b, c) + 1
  OBVIOUS
<1>7. Total(Len(received3), Len(ring3), Cardinality(refused3)) = i3
  BY <1>1
<1>4. CASE ring3' = Append(ring3, i3) /\ refused3' = refused3
  <2>1. /\ ring3' \in Seq(Nat) /\ Len(ring3') = Len(ring3) + 1
        /\ Increasing(received3 \o ring3', i3 + 1)
    BY <1>1, <1>4, EnqueueOrder
  <2>2. Len(received3) + (Len(ring3) + 1) + Cardinality(refused3) = i3 + 1
    <3> HIDE DEF Total
    <3>1. Total(Len(received3), Len(ring3) + 1, Cardinality(refused3)) = i3 + 1
      BY <1>2, <1>3, <1>6, <1>7
    <3> QED
      BY <3>1 DEF Total
  <2>3. refused3 \subseteq 0 .. i3
    BY <1>2
  <2> QED
    BY <1>1, <1>3, <1>4, <2>1, <2>2, <2>3 DEF WayRing
<1>5. CASE program3 = "rings" /\ ring3' = ring3 /\ refused3' = refused3 \cup {i3}
  <2>1. Increasing(received3 \o ring3, i3 + 1)
    BY <1>1, RefuseOrder
  <2>2. Len(received3) + Len(ring3) + (Cardinality(refused3) + 1) = i3 + 1
    <3> HIDE DEF Total
    <3>1. Total(Len(received3), Len(ring3), Cardinality(refused3) + 1) = i3 + 1
      BY <1>2, <1>3, <1>6, <1>7
    <3> QED
      BY <3>1 DEF Total
  <2> QED
    BY <1>1, <1>2, <1>3, <1>5, <2>1, <2>2 DEF WayRing
<1> QED
  BY <1>4, <1>5

LEMMA WaySends ==
  ASSUME WayInv, Way!mp_send \/ Way!ring_primary \/ Way!produce PROVE WayInv'
<1>1. /\ program3 \in {"mp_messaging", "through_rte_ring", "rings"}
      /\ UNCHANGED <<program3, received3, checks, replies>> /\ i3' = i3 + 1
  BY DEF Way!mp_send, Way!ring_primary, Way!produce, Way!mpVars
<1>2. CASE Way!mp_send
  <2>1. i3 < Sends["mp_messaging"] /\ secondary_ready /\ program3 = "mp_messaging" /\ i3 \in Nat
    BY <1>2 DEF Way!mp_send, WayInv, WayReady, WayRing
  <2>2. Len(ring3) <= i3
    <3>1. Len(received3) \in Nat /\ Len(ring3) \in Nat
      BY LenProperties DEF WayInv, WayRing
    <3>2. Cardinality({}) = 0
      BY FS_EmptySet
    <3>3. refused3 = {} /\ Len(received3) + Len(ring3) + Cardinality(refused3) = i3
      BY <2>1 DEF WayInv, WayRing
    <3> QED
      BY <3>1, <3>2, <3>3
  <2>3. Way!HasRoom
    <3>1. /\ Sends["mp_messaging"] \in Nat /\ Capacity["mp_messaging"] \in Nat
          /\ Sends["mp_messaging"] <= Capacity["mp_messaging"]
      BY MessagingAssumption
    <3>2. Len(ring3) \in Nat
      BY LenProperties DEF WayInv, WayRing
    <3> QED
      BY <2>1, <2>2, <3>1, <3>2 DEF Way!HasRoom
  <2>4. WayRing'
    BY <1>1, <1>2, <2>1, <2>3, WayEnqueue DEF Way!mp_send
  <2>5. WayReady'
    <3>1. Sends["mp_messaging"] \in Nat
      BY MessagingAssumption
    <3>2. i3 + 1 = Sends["mp_messaging"] \/ i3 + 1 < Sends["mp_messaging"]
      BY <2>1, <3>1
    <3> QED
      BY <1>2, <2>1, <3>2 DEF Way!mp_send, Way!mpVars, WayInv, WayReady
  <2> QED
    BY <1>1, <2>1, <2>4, <2>5 DEF WayInv, WaySample
<1>3. CASE Way!ring_primary
  <2>1. WayRing'
    BY <1>1, <1>3, WayEnqueue DEF Way!ring_primary
  <2> QED
    BY <1>1, <1>3, <2>1 DEF Way!ring_primary, WayInv, WayReady, WaySample
<1>4. CASE Way!produce
  <2>1. WayRing'
    BY <1>1, <1>4, WayEnqueue DEF Way!produce
  <2> QED
    BY <1>1, <1>4, <2>1 DEF Way!produce, WayInv, WayReady, WaySample
<1> QED
  BY <1>2, <1>3, <1>4

LEMMA WayReceives ==
  ASSUME WayInv, Way!mp_receive \/ Way!ring_secondary \/ Way!consume PROVE WayInv'
<1>1. /\ program3 \in {"mp_messaging", "through_rte_ring", "rings"}
      /\ UNCHANGED <<program3, pc3, checks, replies, secondary_ready, i3, refused3>>
      /\ program3 # "rings" => UNCHANGED secondary3
  BY DEF Way!mp_receive, Way!ring_secondary, Way!Receive, Way!consume, Way!mpVars
<1>2. \/ UNCHANGED <<received3, ring3>>
      \/ ring3 # <<>> /\ received3' = Append(received3, Head(ring3)) /\ ring3' = Tail(ring3)
  BY DEF Way!mp_receive, Way!ring_secondary, Way!Receive, Way!consume
<1>3. WayRing'
  <2>1. CASE UNCHANGED <<received3, ring3>>
    BY <1>1, <2>1 DEF WayInv, WayRing
  <2>2. CASE ring3 # <<>> /\ received3' = Append(received3, Head(ring3)) /\ ring3' = Tail(ring3)
    <3>1. ring3 \in Seq(Nat) /\ received3 \in Seq(Nat)
      BY DEF WayInv, WayRing
    <3>2. /\ ring3' \in Seq(Nat) /\ received3' \in Seq(Nat)
          /\ received3' \o ring3' = received3 \o ring3
          /\ Len(received3') + Len(ring3') = Len(received3) + Len(ring3)
      BY <2>2, <3>1, DequeueOrder
    <3> QED
      BY <1>1, <3>2 DEF WayInv, WayRing
  <2> QED
    BY <1>2, <2>1, <2>2
<1> QED
  BY <1>1, <1>3 DEF WayInv, WayReady, WaySample

\* sample_rte_mp: the message is sent, and handled.
LEMMA WaySampleStep ==
  ASSUME WayInv, Way!send_message \/ Way!mp_message_handler PROVE WayInv'
<1>1. /\ program3 = "sample_rte_mp" /\ UNCHANGED <<program3, ring3, checks, refused3>>
      /\ ring3 = <<>> /\ refused3 = {} /\ replies \in Nat
  BY DEF Way!send_message, Way!mp_message_handler, WayInv, WayRing, WaySample
<1>2. /\ <<>> \in Seq(Nat) /\ <<0>> \in Seq(Nat) /\ <<>> \o <<>> = <<>> /\ <<0>> \o <<>> = <<0>>
      /\ Append(<<>>, 0) = <<0>> /\ Len(<<>>) = 0 /\ Len(<<0>>) = 1 /\ <<0>>[1] = 0
  OBVIOUS
<1>3. Increasing(<<>>, 1) /\ Increasing(<<0>>, 1)
  BY <1>2 DEF Increasing
<1>4. CASE Way!send_message
  <2>1. received3 = <<>> /\ received3' = <<>> /\ i3' = 1 /\ secondary3' = "done"
    BY <1>4 DEF Way!send_message, WayInv, WaySample
  <2>2. replies' = 0 \/ replies' = 1
    BY <1>4 DEF Way!send_message
  <2> QED
    BY <1>1, <1>2, <1>3, <2>1, <2>2 DEF WayInv, WayRing, WayReady, WaySample
<1>5. CASE Way!mp_message_handler
  <2>1. /\ replies = 1 /\ received3 = <<>> /\ i3 = 1 /\ i3' = 1
        /\ secondary3 = "done" /\ secondary3' = "done" /\ replies' = 0
    BY <1>1, <1>5 DEF Way!mp_message_handler, WayInv, WaySample
  <2>2. received3' = <<0>>
    BY <1>2, <1>5, <2>1 DEF Way!mp_message_handler
  <2>3. WayRing'
    BY <1>1, <1>2, <1>3, <2>1, <2>2 DEF WayInv, WayRing
  <2>4. WayReady' /\ WaySample'
    BY <1>1, <2>1 DEF WayReady, WaySample
  <2> QED
    BY <1>1, <2>1, <2>3, <2>4 DEF WayInv
<1> QED
  BY <1>4, <1>5

LEMMA WayStep ==
  ASSUME WayInv,
         \/ Way!Primary \/ Way!PrimaryCallbacks \/ Way!Secondary \/ Way!SecondaryCallbacks
         \/ Way!Attach \/ Way!handle_signal
  PROVE  WayInv'
BY WayQuiet, WaySends, WayReceives, WaySampleStep
  DEF Way!Primary, Way!PrimaryCallbacks, Way!Secondary, Way!SecondaryCallbacks, Way!producer,
      Way!consumer

\* The invariant says what the property says.
LEMMA WayOrdered == WayInv => Way!InOrderOnce
<1> SUFFICES ASSUME WayInv PROVE Way!InOrderOnce
  OBVIOUS
<1>1. DOMAIN (received3 \o ring3) = 1 .. Len(received3 \o ring3)
  BY LenProperties DEF WayInv, WayRing, Increasing
<1>2. \A j, k \in DOMAIN (received3 \o ring3) :
         j < k => (received3 \o ring3)[j] < (received3 \o ring3)[k]
  BY <1>1 DEF WayInv, WayRing, Increasing
<1>3. program3 = "mp_messaging" /\ i3 > 0 =>
        secondary_ready /\ secondary3 \in {"registered", "receiving"}
  BY DEF WayInv, WayReady, WayRing
<1>4. /\ program3 # "sample_rte_mp" => Len(received3) + Len(ring3) + Cardinality(refused3) = i3
      /\ program3 # "rings" => refused3 = {}
  BY DEF WayInv, WayRing
<1>5. Way!Cardinality(refused3) = Cardinality(refused3)
  BY DEF Cardinality, Way!Cardinality
<1> QED
  BY <1>2, <1>3, <1>4, <1>5 DEF Way!InOrderOnce

-----------------------------------------------------------------------------
(* All programs.  The ones that do not run keep their initial states.      *)

AllInv == IInv /\ TwoInv /\ OneInv /\ WayInv

NextAll == RunPrimary \/ RunSecondary \/ (\E r \in Readers : RunReader(r))
           \/ AtPrimary \/ AtSecondary \/ User

LEMMA AllInit == InitAll => AllInv
BY InitHolds, TwoInit, OneInit, WayInit DEF InitAll, AllInv

\* A program that does not run.
LEMMA RcuSame == ASSUME IInv, UNCHANGED vars PROVE IInv'
BY StepHolds
LEMMA TwoSame == ASSUME TwoInv, UNCHANGED twoVars PROVE TwoInv'
BY DEF twoVars, TwoInv, TwoToken, TwoIdle, TwoRequest, TwoServing, TwoReply,
   Two!MemoryAccounted, Two!InRings
LEMMA OneSame == ASSUME OneInv, UNCHANGED oneVars PROVE OneInv'
BY DEF oneVars, OneInv, OneToken, OneNowhere, OneIdle, OneTravels, OneInRing, OneAtPrimary,
   OneAtSecondary, OneReplying
LEMMA WaySame == ASSUME WayInv, UNCHANGED wayVars PROVE WayInv'
BY DEF wayVars, WayInv, WayRing, WayReady, WaySample

LEMMA AllStep == ASSUME AllInv, [NextAll]_allVars PROVE AllInv'
<1>1. IInv /\ TwoInv /\ OneInv /\ WayInv
  BY DEF AllInv
<1>2. CASE UNCHANGED allVars
  BY <1>1, <1>2, RcuSame, TwoSame, OneSame, WaySame DEF allVars, AllInv
<1>3. CASE RunPrimary
  <2>1. CASE Two!primary /\ UNCHANGED <<vars, oneVars, wayVars>>
    BY <1>1, <2>1, RcuSame, TwoPrimary, OneSame, WaySame DEF AllInv
  <2>2. CASE One!primary /\ UNCHANGED <<vars, twoVars, wayVars>>
    BY <1>1, <2>2, RcuSame, TwoSame, OnePrimary, WaySame DEF AllInv
  <2>3. CASE Way!Primary /\ UNCHANGED <<vars, oneVars, twoVars>>
    BY <1>1, <2>3, RcuSame, TwoSame, OneSame, WayStep DEF AllInv
  <2>4. CASE writer /\ UNCHANGED <<oneVars, twoVars, wayVars>>
    BY <1>1, <2>4, WriterStep, TwoSame, OneSame, WaySame DEF AllInv
  <2> QED
    BY <1>3, <2>1, <2>2, <2>3, <2>4 DEF RunPrimary
<1>4. CASE RunSecondary
  <2>1. CASE Two!secondary /\ UNCHANGED <<vars, oneVars, wayVars>>
    BY <1>1, <2>1, RcuSame, TwoSecondary, OneSame, WaySame DEF AllInv
  <2>2. CASE One!secondary /\ UNCHANGED <<vars, twoVars, wayVars>>
    BY <1>1, <2>2, RcuSame, TwoSame, OneSecondary, WaySame DEF AllInv
  <2>3. CASE Way!Secondary /\ UNCHANGED <<vars, oneVars, twoVars>>
    BY <1>1, <2>3, RcuSame, TwoSame, OneSame, WayStep DEF AllInv
  <2> QED
    BY <1>4, <2>1, <2>2, <2>3 DEF RunSecondary
<1>5. ASSUME NEW r \in Readers, RunReader(r) PROVE AllInv'
  BY <1>1, <1>5, ReaderStep, TwoSame, OneSame, WaySame DEF RunReader, AllInv
<1>6. CASE AtPrimary \/ AtSecondary \/ User
  <2>1. UNCHANGED vars /\ UNCHANGED oneVars /\ UNCHANGED twoVars
    BY <1>6 DEF AtPrimary, AtSecondary, User
  <2>2. WayInv'
    BY <1>1, <1>6, WayStep DEF AtPrimary, AtSecondary, User
  <2> QED
    BY <1>1, <2>1, <2>2, RcuSame, TwoSame, OneSame DEF AllInv
<1> QED
  BY <1>2, <1>3, <1>4, <1>5, <1>6 DEF NextAll

\* A step of the running program, seen as a step of the exchange.
LEMMA AllRefines ==
  ASSUME AllInv, AllInv', [NextAll]_allVars PROVE [Abstract!Next]_(Abstract!vars)
<1>1. TwoInv /\ OneInv /\ OneInv'
  BY DEF AllInv
<1>2. program' = program
  BY DEF NextAll, RunPrimary, RunSecondary, RunReader, AtPrimary, AtSecondary, User, allVars
<1>3. OneRing' <=> OneRing
  BY <1>2 DEF OneRing
<1>4. CASE UNCHANGED <<oneVars, twoVars>>
  <2>1. UNCHANGED <<Two!Sent, Two!Served, One!Sent, One!Served, got1, got2>>
    BY <1>4 DEF oneVars, twoVars, Two!Sent, Two!Served, Two!Waiting, Two!RequestPending,
       One!Sent, One!Served, One!Sending, One!RequestPending
  <2>2. UNCHANGED <<Two!PrimaryDone, Two!SecondaryDone, One!PrimaryDone, One!SecondaryDone>>
    BY <1>4 DEF oneVars, twoVars, Two!PrimaryDone, Two!SecondaryDone,
       One!PrimaryDone, One!SecondaryDone
  <2>3. CASE OneRing
    BY <1>3, <2>1, <2>2, <2>3, OneShows DEF Abstract!vars
  <2>4. CASE ~OneRing
    BY <1>3, <2>1, <2>2, <2>4, TwoShows DEF Abstract!vars
  <2> QED
    BY <2>3, <2>4
<1>5. CASE TwoRings /\ (Two!primary \/ Two!secondary)
  <2>1. ~OneRing /\ ~OneRing'
    BY <1>3, <1>5 DEF TwoRings, OneRing
  <2> QED
    BY <1>1, <1>5, <2>1, TwoRefines
<1>6. CASE OneRing /\ (One!primary \/ One!secondary)
  BY <1>1, <1>3, <1>6, OneRefines
<1> QED
  BY <1>4, <1>5, <1>6
    DEF NextAll, RunPrimary, RunSecondary, RunReader, AtPrimary, AtSecondary, User, allVars

-----------------------------------------------------------------------------
\* The inductive invariant of all programs.
THEOREM AllInvariance == SpecAll => []AllInv
BY AllInit, AllStep, PTL DEF SpecAll, NextAll

\* Also when it is one of the programs that may run: no reader of the RCU
\* sample follows a pointer that writer or main has freed.
THEOREM NeverFreedInUse == SpecAll => []NoUseAfterFree
<1>1. AllInv => NoUseAfterFree
  BY DEF AllInv, IInv, NoUseAfterFree, TypeOK, WriterOK, Held, Syncing
<1> QED
  BY <1>1, AllInvariance, PTL

\* Nothing is lost, leaked or received twice by any of the programs: the
\* enqueues whose result primary.c and secondary.c ignore find room.
THEOREM NothingLost == SpecAll => []MessagesAccounted
<1>1. AllInv => MessagesAccounted
  BY OneCounts, WayOrdered DEF AllInv, TwoInv, MessagesAccounted
<1> QED
  BY <1>1, AllInvariance, PTL

\* ring_full_duplex and single_ring_full_duplex implement RequestReply: every
\* request is answered once, in order, with ten times its value.
THEOREM Refinement == SpecAll => ImplementsExchange
<1>1. InitAll => Abstract!Init
  <2> SUFFICES ASSUME InitAll PROVE Abstract!Init
    OBVIOUS
  <2>1. One!Init /\ Two!Init
    BY DEF InitAll
  <2>2. One!Sent = 0 /\ One!Served = 0 /\ Two!Sent = 0 /\ Two!Served = 0
    BY <2>1 DEF One!Init, Two!Init, One!Sent, One!Served, One!Sending, Two!Sent, Two!Served,
       Two!Waiting
  <2>3. got1 = <<>> /\ got2 = <<>>
    BY <2>1 DEF One!Init, Two!Init
  <2>4. /\ One!PrimaryDone = FALSE /\ One!SecondaryDone = FALSE
        /\ Two!PrimaryDone = FALSE /\ Two!SecondaryDone = FALSE
    BY <2>1 DEF One!Init, Two!Init, One!PrimaryDone, One!SecondaryDone, Two!PrimaryDone,
       Two!SecondaryDone
  <2>5. Sent = 0 /\ Served = 0 /\ Got = <<>>
    BY <2>2, <2>3 DEF Sent, Served, Got
  <2>6. Stopped = FALSE /\ Exited = FALSE
    BY <2>4 DEF Stopped, Exited
  <2> QED
    BY <2>5, <2>6 DEF Abstract!Init
<1>2. AllInv /\ AllInv' /\ [NextAll]_allVars => [Abstract!Next]_(Abstract!vars)
  BY AllRefines
<1> QED
  BY <1>1, <1>2, AllInvariance, PTL DEF SpecAll, NextAll, ImplementsExchange, Abstract!Spec

=============================================================================
