----------------------------- MODULE MCExchanges -----------------------------
(***************************************************************************)
(* The programs in which two processes or threads exchange data: the two   *)
(* full-duplex ones (RingDuplex, SingleRing), both shown to implement      *)
(* RequestReply, the one-way ones (Messaging), and the RCU sample          *)
(* (RcuQsbr).  A behaviour runs one of them, chosen at the start.          *)
(***************************************************************************)
EXTENDS RcuQsbr, Sequences

CONSTANTS RING_SIZE, Count, Capacity, Sends, Pending

\* A ring holds something and a request is sent.  All the numbers of mp_messaging,
\* which does not look at the result of the enqueue, fit into its ring (5 into 31).
ASSUME ExchangeAssumption ==
  /\ RING_SIZE \in Nat /\ RING_SIZE > 1
  /\ Count \in Nat \ {0}
ASSUME MessagingAssumption ==
  LET Programs == {"mp_messaging", "through_rte_ring", "sample_rte_mp", "rings"}
  IN  /\ Sends \in [Programs -> Nat] /\ Capacity \in [Programs -> Nat]
      /\ 0 < Sends["mp_messaging"] /\ Sends["mp_messaging"] <= Capacity["mp_messaging"]

VARIABLES
  program,    \* "ring_full_duplex", "single_ring_full_duplex", "one_way" or "rcu"
  created1, ring1, primary_pc1, i1, r1, got1, secondary_pc1, m1, lost1,
  created2, ring_a, ring_b, primary_pc2, i2, got2, secondary_pc2, val2, allocated2,
  program3, pc3, secondary3, checks, replies, secondary_ready, created3, ring3, i3,
  received3, refused3, keep_running

oneVars == <<created1, ring1, primary_pc1, i1, r1, got1, secondary_pc1, m1, lost1>>
twoVars == <<created2, ring_a, ring_b, primary_pc2, i2, got2, secondary_pc2, val2, allocated2>>
wayVars == <<program3, pc3, secondary3, checks, replies, secondary_ready, created3, ring3, i3,
             received3, refused3, keep_running>>
allVars == <<vars, oneVars, twoVars, wayVars, program>>

One == INSTANCE SingleRing WITH
  created <- created1, ring <- ring1, primary_pc <- primary_pc1, i <- i1, r <- r1,
  got <- got1, secondary_pc <- secondary_pc1, m <- m1, lost <- lost1

Two == INSTANCE RingDuplex WITH
  created <- created2, ring <- ring_a, ring2 <- ring_b, primary_pc <- primary_pc2, i <- i2,
  got <- got2, secondary_pc <- secondary_pc2, val <- val2, allocated <- allocated2

Way == INSTANCE Messaging WITH
  program <- program3, pc <- pc3, secondary <- secondary3, created <- created3, ring <- ring3,
  i <- i3, received <- received3, refused <- refused3

TwoRings == program = "ring_full_duplex"
OneRing == program = "single_ring_full_duplex"
OneWay == program = "one_way"
Rcu == program = "rcu"

InitAll ==
  /\ Init /\ One!Init /\ Two!Init /\ Way!Init
  /\ (TwoRings \/ OneRing \/ OneWay \/ Rcu)
  /\ ~OneWay => program3 = "rings"

RunPrimary ==
  /\ UNCHANGED program
  /\ \/ TwoRings /\ Two!primary /\ UNCHANGED <<vars, oneVars, wayVars>>
     \/ OneRing /\ One!primary /\ UNCHANGED <<vars, twoVars, wayVars>>
     \/ OneWay /\ Way!Primary /\ UNCHANGED <<vars, oneVars, twoVars>>
     \/ Rcu /\ writer /\ UNCHANGED <<oneVars, twoVars, wayVars>>

RunSecondary ==
  /\ UNCHANGED program
  /\ \/ TwoRings /\ Two!secondary /\ UNCHANGED <<vars, oneVars, wayVars>>
     \/ OneRing /\ One!secondary /\ UNCHANGED <<vars, twoVars, wayVars>>
     \/ OneWay /\ Way!Secondary /\ UNCHANGED <<vars, oneVars, twoVars>>

RunReader(r) == Rcu /\ reader(r) /\ UNCHANGED <<oneVars, twoVars, wayVars, program>>
AtPrimary == OneWay /\ Way!PrimaryCallbacks /\ UNCHANGED <<vars, oneVars, twoVars, program>>
AtSecondary == OneWay /\ Way!SecondaryCallbacks /\ UNCHANGED <<vars, oneVars, twoVars, program>>
User == OneWay /\ (Way!Attach \/ Way!handle_signal) /\ UNCHANGED <<vars, oneVars, twoVars, program>>

\* The processes and threads have cores of their own, and the messages that are
\* delivered are handled; nothing is assumed about who gets to a shared ring
\* first, nor that anybody starts the secondary of a one-way exchange.
SpecAll ==
  /\ InitAll
  /\ [][RunPrimary \/ RunSecondary \/ (\E r \in Readers : RunReader(r))
        \/ AtPrimary \/ AtSecondary \/ User]_allVars
  /\ WF_allVars(RunPrimary) /\ WF_allVars(RunSecondary)
  /\ \A r \in Readers : WF_allVars(RunReader(r))
  /\ WF_allVars(AtPrimary) /\ WF_allVars(AtSecondary)

-----------------------------------------------------------------------------
\* What each one-way program sends, and what its ring holds: small rings where
\* the program retries or gives up, the ring as it is where it ignores the result.
SendsOf == [mp_messaging |-> 5, through_rte_ring |-> 10, sample_rte_mp |-> 1, rings |-> 6]
CapacityOf == [mp_messaging |-> 31, through_rte_ring |-> 3, sample_rte_mp |-> 0, rings |-> 3]

\* Nothing is lost, leaked or received twice.  In the full-duplex programs one
\* message is passed around: every put-back and every enqueue whose result they
\* ignore finds room (primary.c of both, secondary.c of the single ring), and
\* every message is freed once.  One-way messages are received in order and
\* once, whatever the order of starting, retries and full rings do.
MessagesAccounted ==
  /\ TwoRings => Two!MemoryAccounted
  /\ OneRing => One!OneMessage
  /\ Way!InOrderOnce

\* The exchange as the running program shows it.
Sent == IF OneRing THEN One!Sent ELSE Two!Sent
Served == IF OneRing THEN One!Served ELSE Two!Served
Got == IF OneRing THEN got1 ELSE got2
Stopped == IF OneRing THEN One!PrimaryDone ELSE Two!PrimaryDone
Exited == IF OneRing THEN One!SecondaryDone ELSE Two!SecondaryDone

\* Both programs implement the exchange: requests are answered one by one, in
\* order, with ten times their value, although the processes that share one
\* ring take each other's messages from it.
Abstract == INSTANCE RequestReply WITH
  sent <- Sent, served <- Served, got <- Got, stopped <- Stopped, exited <- Exited
ImplementsExchange == Abstract!Spec

\* With two rings the exchange always ends, whichever process starts first.
\* With one ring it may not, as the primary can take its own request back for
\* ever; but once it has left, the exit message reaches the secondary.  One-way
\* messages arrive once the secondary runs.
ExchangeEnds ==
  /\ TwoRings ~> Two!SecondaryDone
  /\ One!PrimaryDone ~> One!SecondaryDone
  /\ Way!MessagesArrive

\* Each synchronize of the RCU writer returns, and the program ends with
\* everything freed.
RcuEndsClean == SyncReturns /\ (Rcu => EndsClean)

=============================================================================
