----------------------------- MODULE RingDuplex -----------------------------
(***************************************************************************)
(* inter_process_comm/ring_full_duplex: two processes, one ring for each   *)
(* direction.  A message is the integer behind the pointer that the rings  *)
(* carry; an operation on a ring is atomic.  A process that polls a full   *)
(* or an empty ring does nothing.                                          *)
(***************************************************************************)
EXTENDS Integers, Sequences

CONSTANTS
  RING_SIZE,   \* a ring holds one object less
  Count        \* requests (10 in primary.c)

VARIABLES
  created, ring, ring2,      \* created: the rings that exist
  primary_pc, i, got,        \* got: the values received
  secondary_pc, val,
  allocated                  \* messages allocated and not freed

primaryVars == <<primary_pc, i, got>>
secondaryVars == <<secondary_pc, val>>
vars == <<created, ring, ring2, primaryVars, secondaryVars, allocated>>

STOP == -1

Init ==
  /\ created = {} /\ ring = <<>> /\ ring2 = <<>> /\ allocated = 0
  /\ primary_pc = "create" /\ i = 0 /\ got = <<>>
  /\ secondary_pc = "lookup" /\ val = 0

-----------------------------------------------------------------------------
(* primary.c                                                               *)

CreateRing ==
  /\ primary_pc = "create"
  /\ created' = created \cup {"ring"}
  /\ primary_pc' = "create2"
  /\ UNCHANGED <<ring, ring2, i, got, secondaryVars, allocated>>

CreateRing2 ==
  /\ primary_pc = "create2"
  /\ created' = created \cup {"ring2"}
  /\ primary_pc' = "malloc"
  /\ UNCHANGED <<ring, ring2, i, got, secondaryVars, allocated>>

\* A request, or after the last one the message that stops the secondary.
Malloc ==
  /\ primary_pc = "malloc"
  /\ allocated' = allocated + 1
  /\ primary_pc' = IF i < Count THEN "send" ELSE "stop"
  /\ UNCHANGED <<created, ring, ring2, i, got, secondaryVars>>

\* rte_ring_enqueue is repeated until there is room.
Send ==
  /\ primary_pc = "send"
  /\ Len(ring) < RING_SIZE - 1
  /\ ring' = Append(ring, i)
  /\ primary_pc' = "receive"
  /\ UNCHANGED <<created, ring2, i, got, secondaryVars, allocated>>

\* The reply is received, printed and freed.
Receive ==
  /\ primary_pc = "receive"
  /\ ring2 # <<>>
  /\ got' = Append(got, Head(ring2))
  /\ ring2' = Tail(ring2)
  /\ i' = i + 1
  /\ allocated' = allocated - 1
  /\ primary_pc' = "malloc"
  /\ UNCHANGED <<created, ring, secondaryVars>>

\* Here the result of rte_ring_enqueue is ignored.
SendStop ==
  /\ primary_pc = "stop"
  /\ ring' = IF Len(ring) < RING_SIZE - 1 THEN Append(ring, STOP) ELSE ring
  /\ primary_pc' = "done"
  /\ UNCHANGED <<created, ring2, i, got, secondaryVars, allocated>>

primary == CreateRing \/ CreateRing2 \/ Malloc \/ Send \/ Receive \/ SendStop

-----------------------------------------------------------------------------
(* secondary.c                                                             *)

\* rte_ring_lookup is repeated until the primary has created the ring.
Lookup ==
  /\ secondary_pc = "lookup"
  /\ "ring" \in created
  /\ secondary_pc' = "lookup2"
  /\ UNCHANGED <<created, ring, ring2, primaryVars, val, allocated>>

\* Faulty variant of Lookup2: one lookup, and the process gives up.
Lookup2_Once ==
  /\ secondary_pc = "lookup2"
  /\ secondary_pc' = IF "ring2" \in created THEN "dequeue" ELSE "failed"
  /\ UNCHANGED <<created, ring, ring2, primaryVars, val, allocated>>

Lookup2 ==
  /\ secondary_pc = "lookup2"
  /\ "ring2" \in created
  /\ secondary_pc' = "dequeue"
  /\ UNCHANGED <<created, ring, ring2, primaryVars, val, allocated>>

\* A message is dequeued and freed; the stop message ends the loop.
Dequeue ==
  /\ secondary_pc = "dequeue"
  /\ ring # <<>>
  /\ val' = Head(ring)
  /\ ring' = Tail(ring)
  /\ allocated' = allocated - 1
  /\ secondary_pc' = IF Head(ring) = STOP THEN "done" ELSE "malloc"
  /\ UNCHANGED <<created, ring2, primaryVars>>

MallocReply ==
  /\ secondary_pc = "malloc"
  /\ allocated' = allocated + 1
  /\ secondary_pc' = "reply"
  /\ UNCHANGED <<created, ring, ring2, primaryVars, val>>

\* The reply is sent, again with retries while the ring is full.
Reply ==
  /\ secondary_pc = "reply"
  /\ Len(ring2) < RING_SIZE - 1
  /\ ring2' = Append(ring2, 10 * val)
  /\ secondary_pc' = "dequeue"
  /\ UNCHANGED <<created, ring, primaryVars, val, allocated>>

secondary == Lookup \/ Lookup2 \/ Dequeue \/ MallocReply \/ Reply

Next == primary \/ secondary

\* The two processes run on cores of their own.
Spec == Init /\ [][Next]_vars /\ WF_vars(primary) /\ WF_vars(secondary)

-----------------------------------------------------------------------------
\* One token is passed around: at most one message is in the rings or in the
\* secondary's hands, so the primary's last enqueue, whose result it ignores,
\* and all others succeed; and all memory is in somebody's hands.
InRings == Len(ring) + Len(ring2)
MemoryAccounted ==
  /\ InRings <= 1
  /\ allocated = InRings + (IF primary_pc \in {"send", "stop"} THEN 1 ELSE 0)
                         + (IF secondary_pc = "reply" THEN 1 ELSE 0)

-----------------------------------------------------------------------------
(* The state of the request/reply exchange (module RequestReply).          *)

Waiting == primary_pc = "receive"
RequestPending == ring # <<>> /\ ring # <<STOP>>
Sent == IF Waiting THEN i + 1 ELSE i
Served == IF Waiting /\ ~RequestPending THEN i + 1 ELSE i
PrimaryDone == primary_pc = "done"
SecondaryDone == secondary_pc = "done"

=============================================================================
