------------------------------ MODULE Messaging ------------------------------
(***************************************************************************)
(* One-way exchanges.  A behaviour runs one of                             *)
(*   mp_messaging      Multi_Process_Messaging: the primary repeats a      *)
(*                     ready check until it is answered, then sends five   *)
(*                     numbers through a ring                              *)
(*   through_rte_ring  ten allocated messages through a ring, retrying     *)
(*   sample_rte_mp     one message, sent once                              *)
(*   rings             rings/sample: two threads and a stop flag           *)
(* A message between processes reaches the handler of the peer, in a       *)
(* thread of its own, if the peer has registered one by then; it is lost   *)
(* otherwise, or if the peer does not run or its socket is full.           *)
(***************************************************************************)
EXTENDS Integers, Sequences, FiniteSets

CONSTANTS
  Capacity,      \* program -> messages that fit into its ring
  Sends,         \* program -> messages it sends; a bound for rings/sample
  Pending        \* messages that fit into a socket

VARIABLES
  program,
  pc,                    \* the sender: "start", "check", "send", "make", "print", "done"
  secondary,             \* the receiver: "off", "attached", "registered", "receiving",
                         \* "dequeue", "done"
  checks, replies,       \* ready checks at the secondary; answers, or the message, at the primary
  secondary_ready,       \* secondary_ready, or out of sample_rte_mp
  created, ring, i,      \* the ring; messages made by the sender
  received, refused,     \* numbers received, and freed, in order; not enqueued
  keep_running

mpVars == <<checks, replies, secondary_ready>>
ringVars == <<created, ring, i, received, refused>>
vars == <<program, pc, secondary, mpVars, ringVars, keep_running>>

Programs == {"mp_messaging", "through_rte_ring", "sample_rte_mp", "rings"}

Init ==
  /\ program \in Programs
  /\ pc = "start" /\ secondary = "off"
  /\ checks = 0 /\ replies = 0 /\ secondary_ready = FALSE
  /\ created = FALSE /\ ring = <<>> /\ i = 0 /\ received = <<>> /\ refused = {}
  /\ keep_running = TRUE

HasRoom == Len(ring) < Capacity[program]
Running == secondary \in {"attached", "registered", "receiving"}

\* A message more at a socket, if it runs and has room.
Arrives(n, runs) == IF runs /\ n < Pending THEN n + 1 ELSE n

-----------------------------------------------------------------------------
(* Multi_Process_Messaging                                                 *)

\* The ring is created and the handler registered.
mp_start ==
  /\ program = "mp_messaging" /\ pc = "start"
  /\ created' = TRUE /\ pc' = "check"
  /\ UNCHANGED <<program, secondary, mpVars, ring, i, received, refused, keep_running>>

\* Faulty variant of mp_check: the answer is not waited for.
mp_check_NoWait ==
  /\ program = "mp_messaging" /\ pc = "check"
  /\ checks' = Arrives(checks, Running)
  /\ pc' = "send"
  /\ UNCHANGED <<program, secondary, replies, secondary_ready, ringVars, keep_running>>

\* while (!secondary_ready), once a second.
mp_check ==
  /\ program = "mp_messaging" /\ pc = "check"
  /\ IF secondary_ready THEN pc' = "send" /\ UNCHANGED checks
     ELSE checks' = Arrives(checks, Running) /\ UNCHANGED pc
  /\ UNCHANGED <<program, secondary, replies, secondary_ready, ringVars, keep_running>>

\* Five numbers; the result of the enqueue is not looked at.
mp_send ==
  /\ program = "mp_messaging" /\ pc = "send"
  /\ ring' = IF HasRoom THEN Append(ring, i) ELSE ring
  /\ refused' = IF HasRoom THEN refused ELSE refused \cup {i}
  /\ i' = i + 1
  /\ pc' = IF i' = Sends[program] THEN "done" ELSE "send"
  /\ UNCHANGED <<program, secondary, mpVars, created, received, keep_running>>

ready_cb ==
  /\ program = "mp_messaging" /\ pc # "start" /\ replies > 0
  /\ replies' = replies - 1
  /\ secondary_ready' = TRUE
  /\ UNCHANGED <<program, pc, secondary, checks, ringVars, keep_running>>

\* The secondary attaches to the shared memory; what arrives before its handler
\* is registered is dropped.
Attach ==
  /\ program # "rings" /\ secondary = "off"
  /\ secondary' = "attached"
  /\ UNCHANGED <<program, pc, mpVars, ringVars, keep_running>>
DropCheck ==
  /\ secondary = "attached" /\ checks > 0
  /\ checks' = checks - 1
  /\ UNCHANGED <<program, pc, secondary, replies, secondary_ready, ringVars, keep_running>>
RegisterCheck ==
  /\ program = "mp_messaging" /\ secondary = "attached"
  /\ secondary' = "registered"
  /\ UNCHANGED <<program, pc, mpVars, ringVars, keep_running>>

\* A primary that has ended does not get the reply.
check_cb ==
  /\ secondary \in {"registered", "receiving"} /\ checks > 0
  /\ checks' = checks - 1
  /\ replies' = Arrives(replies, pc # "done")
  /\ UNCHANGED <<program, pc, secondary, secondary_ready, ringVars, keep_running>>

\* rte_ring_lookup, until the ring is there.
mp_lookup ==
  /\ program = "mp_messaging" /\ secondary = "registered" /\ created
  /\ secondary' = "receiving"
  /\ UNCHANGED <<program, pc, mpVars, ringVars, keep_running>>

\* What is dequeued is printed and freed.
Receive(p) ==
  /\ program = p /\ secondary = "receiving" /\ ring # <<>>
  /\ received' = Append(received, Head(ring)) /\ ring' = Tail(ring)
  /\ UNCHANGED <<program, pc, secondary, mpVars, created, i, refused, keep_running>>
mp_receive == Receive("mp_messaging")

-----------------------------------------------------------------------------
(* through_rte_ring                                                        *)

ring_create ==
  /\ program = "through_rte_ring" /\ pc = "start"
  /\ created' = TRUE /\ pc' = "send"
  /\ UNCHANGED <<program, secondary, mpVars, ring, i, received, refused, keep_running>>

\* while (rte_ring_enqueue(ring, msg) < 0)
ring_primary ==
  /\ program = "through_rte_ring" /\ pc = "send" /\ HasRoom
  /\ ring' = Append(ring, i) /\ i' = i + 1
  /\ pc' = IF i' = Sends[program] THEN "done" ELSE "send"
  /\ UNCHANGED <<program, secondary, mpVars, created, received, refused, keep_running>>

\* while (!ring)
ring_lookup ==
  /\ program = "through_rte_ring" /\ secondary = "attached" /\ created
  /\ secondary' = "receiving"
  /\ UNCHANGED <<program, pc, mpVars, ringVars, keep_running>>
ring_secondary == Receive("through_rte_ring")

-----------------------------------------------------------------------------
(* sample_rte_mp: the primary receives                                     *)

sample_register ==
  /\ program = "sample_rte_mp" /\ pc = "start"
  /\ pc' = "check"
  /\ UNCHANGED <<program, secondary, mpVars, ringVars, keep_running>>

\* The message is dropped if it arrives before the handler is registered.
send_message ==
  /\ program = "sample_rte_mp" /\ secondary = "attached"
  /\ secondary' = "done" /\ i' = 1
  /\ replies' = IF pc = "start" THEN 0 ELSE 1
  /\ UNCHANGED <<program, pc, checks, secondary_ready, created, ring, received, refused, keep_running>>

mp_message_handler ==
  /\ program = "sample_rte_mp" /\ replies > 0
  /\ replies' = replies - 1
  /\ secondary_ready' = TRUE /\ received' = Append(received, 0)
  /\ UNCHANGED <<program, pc, secondary, checks, created, ring, i, refused, keep_running>>

\* while (!out)
sample_wait ==
  /\ program = "sample_rte_mp" /\ pc = "check" /\ secondary_ready
  /\ pc' = "done"
  /\ UNCHANGED <<program, secondary, mpVars, ringVars, keep_running>>

-----------------------------------------------------------------------------
(* rings/sample                                                            *)

\* main has created the ring and launches the threads.
launch ==
  /\ program = "rings" /\ pc = "start"
  /\ created' = TRUE /\ pc' = "send" /\ secondary' = "receiving"
  /\ UNCHANGED <<program, mpVars, ring, i, received, refused, keep_running>>

\* while (keep_running), of either thread.
produce_test ==
  /\ program = "rings" /\ pc = "send" /\ (keep_running => i < Sends[program])
  /\ pc' = IF keep_running THEN "make" ELSE "done"
  /\ UNCHANGED <<program, secondary, mpVars, ringVars, keep_running>>
consume_test ==
  /\ program = "rings" /\ secondary = "receiving"
  /\ secondary' = IF keep_running THEN "dequeue" ELSE "done"
  /\ UNCHANGED <<program, pc, mpVars, ringVars, keep_running>>

\* A number is made; it is freed again if the ring is full.  After that it is
\* printed, from memory that the consumer may have freed: what is printed may be
\* anything.
produce ==
  /\ program = "rings" /\ pc = "make"
  /\ i' = i + 1
  /\ ring' = IF HasRoom THEN Append(ring, i) ELSE ring
  /\ refused' = IF HasRoom THEN refused ELSE refused \cup {i}
  /\ pc' = "print"
  /\ UNCHANGED <<program, secondary, mpVars, created, received, keep_running>>
printed ==
  /\ program = "rings" /\ pc = "print"
  /\ pc' = "send"
  /\ UNCHANGED <<program, secondary, mpVars, ringVars, keep_running>>
producer == produce_test \/ produce \/ printed

consume ==
  /\ program = "rings" /\ secondary = "dequeue"
  /\ secondary' = "receiving"
  /\ IF ring = <<>> THEN UNCHANGED <<received, ring>>
     ELSE received' = Append(received, Head(ring)) /\ ring' = Tail(ring)
  /\ UNCHANGED <<program, pc, mpVars, created, i, refused, keep_running>>
consumer == consume_test \/ consume

handle_signal ==
  /\ program = "rings"
  /\ keep_running' = FALSE
  /\ UNCHANGED <<program, pc, secondary, mpVars, ringVars>>

-----------------------------------------------------------------------------
Primary == mp_start \/ mp_check \/ mp_send \/ ring_create \/ ring_primary
           \/ sample_register \/ sample_wait \/ launch \/ producer
PrimaryCallbacks == ready_cb \/ mp_message_handler
Secondary == RegisterCheck \/ mp_lookup \/ mp_receive \/ ring_lookup \/ ring_secondary
             \/ send_message \/ consumer
SecondaryCallbacks == DropCheck \/ check_cb
Next == Primary \/ PrimaryCallbacks \/ Secondary \/ SecondaryCallbacks \/ Attach \/ handle_signal

-----------------------------------------------------------------------------
\* What was made is received once and in the order of sending, is still in the
\* ring, or was refused; only rings/sample may meet a full ring.  Nothing is sent
\* before the secondary has answered a check.
InOrderOnce ==
  /\ \A j, k \in DOMAIN (received \o ring) :
       j < k => (received \o ring)[j] < (received \o ring)[k]
  /\ program # "sample_rte_mp" => Len(received) + Len(ring) + Cardinality(refused) = i
  /\ program # "rings" => refused = {}
  /\ program = "mp_messaging" /\ i > 0 => secondary_ready /\ secondary \in {"registered", "receiving"}

\* Once the secondary runs everything arrives, although checks are lost before
\* it has registered and are answered more than once.  The single message of
\* sample_rte_mp arrives if the primary had registered, and then it ends; the
\* threads of rings/sample stop.
MessagesArrive ==
  /\ (program \in {"mp_messaging", "through_rte_ring"} /\ secondary # "off")
       ~> (pc = "done" /\ Len(received) = Sends[program])
  /\ (program = "sample_rte_mp" /\ replies > 0) ~> (pc = "done" /\ received = <<0>>)
  /\ ~keep_running ~> (pc = "done" /\ secondary = "done")

=============================================================================
