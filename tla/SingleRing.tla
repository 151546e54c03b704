----------------------------- MODULE SingleRing -----------------------------
(***************************************************************************)
(* inter_process_comm/single_ring_full_duplex: both directions share one   *)
(* multi-producer, multi-consumer ring.  A process that dequeues a message *)
(* for the other one puts it back, in a second operation on the ring, and  *)
(* does not look whether that succeeded.                                   *)
(*                                                                         *)
(* A message is a record; its source is never read and is left out.  An    *)
(* operation on the ring is atomic.                                        *)
(***************************************************************************)
EXTENDS Integers, Sequences

CONSTANTS
  RING_SIZE,   \* a ring holds one object less
  Count        \* requests (10 in primary.c)

VARIABLES
  created, ring,
  primary_pc, i, r, got,     \* r: the message in hand; got: the values received
  secondary_pc, m,           \* m: the message in hand
  lost                       \* messages whose put-back found the ring full

primaryVars == <<primary_pc, i, r, got>>
secondaryVars == <<secondary_pc, m>>
vars == <<created, ring, primaryVars, secondaryVars, lost>>

PROC_A == 1
PROC_B == 2
Request(n) == [dst_id |-> PROC_B, type |-> "REQ", value |-> n]
Response(n) == [dst_id |-> PROC_A, type |-> "RESP", value |-> n]
EXIT == [dst_id |-> PROC_B, type |-> "EXIT", value |-> 0]
Nothing == [dst_id |-> 0, type |-> "NONE", value |-> 0]

Init ==
  /\ created = FALSE /\ ring = <<>> /\ lost = {}
  /\ primary_pc = "create" /\ i = 0 /\ r = Nothing /\ got = <<>>
  /\ secondary_pc = "lookup" /\ m = Nothing

HasRoom == Len(ring) < RING_SIZE - 1

-----------------------------------------------------------------------------
(* primary.c                                                               *)

Create ==
  /\ primary_pc = "create"
  /\ created' = TRUE
  /\ primary_pc' = "send"
  /\ UNCHANGED <<ring, i, r, got, secondaryVars, lost>>

\* A request is allocated and enqueued, with retries while the ring is full.
Send ==
  /\ primary_pc = "send"
  /\ HasRoom
  /\ ring' = Append(ring, Request(i))
  /\ primary_pc' = "wait"
  /\ UNCHANGED <<created, i, r, got, secondaryVars, lost>>

\* Something is dequeued.
PrimaryDequeue ==
  /\ primary_pc = "wait"
  /\ ring # <<>>
  /\ r' = Head(ring) /\ ring' = Tail(ring)
  /\ primary_pc' = "look"
  /\ UNCHANGED <<created, i, got, secondaryVars, lost>>

\* Not for me: put it back.  The result of the enqueue is ignored.
PrimaryPutBack ==
  /\ primary_pc = "look" /\ r.dst_id # PROC_A
  /\ IF HasRoom
     THEN ring' = Append(ring, r) /\ lost' = lost
     ELSE ring' = ring /\ lost' = lost \cup {r}
  /\ r' = Nothing
  /\ primary_pc' = "wait"
  /\ UNCHANGED <<created, i, got, secondaryVars>>

\* Faulty variant of PrimaryReceive: whatever comes back is the reply.
PrimaryReceive_Any ==
  /\ primary_pc = "look"
  /\ got' = Append(got, r.value)
  /\ i' = i + 1
  /\ r' = Nothing
  /\ primary_pc' = IF i + 1 < Count THEN "send" ELSE "exit"
  /\ UNCHANGED <<created, ring, secondaryVars, lost>>

\* For me: a response ends the wait and is freed.  Another message would be
\* leaked, and the wait would go on.
PrimaryReceive ==
  /\ primary_pc = "look" /\ r.dst_id = PROC_A
  /\ r' = Nothing
  /\ IF r.type = "RESP"
     THEN /\ got' = Append(got, r.value)
          /\ i' = i + 1
          /\ primary_pc' = IF i + 1 < Count THEN "send" ELSE "exit"
     ELSE /\ primary_pc' = "wait" /\ UNCHANGED <<got, i>>
  /\ UNCHANGED <<created, ring, secondaryVars, lost>>

\* The result of this enqueue is ignored too.
SendExit ==
  /\ primary_pc = "exit"
  /\ IF HasRoom
     THEN ring' = Append(ring, EXIT) /\ lost' = lost
     ELSE ring' = ring /\ lost' = lost \cup {EXIT}
  /\ primary_pc' = "done"
  /\ UNCHANGED <<created, i, r, got, secondaryVars>>

primary ==
  Create \/ Send \/ PrimaryDequeue \/ PrimaryPutBack \/ PrimaryReceive \/ SendExit

-----------------------------------------------------------------------------
(* secondary.c                                                             *)

\* rte_ring_lookup is repeated until the primary has created the ring.
Lookup ==
  /\ secondary_pc = "lookup"
  /\ created
  /\ secondary_pc' = "wait"
  /\ UNCHANGED <<created, ring, primaryVars, m, lost>>

SecondaryDequeue ==
  /\ secondary_pc = "wait"
  /\ ring # <<>>
  /\ m' = Head(ring) /\ ring' = Tail(ring)
  /\ secondary_pc' = "look"
  /\ UNCHANGED <<created, primaryVars, lost>>

\* Not for me: put it back.
SecondaryPutBack ==
  /\ secondary_pc = "look" /\ m.dst_id # PROC_B
  /\ IF HasRoom
     THEN ring' = Append(ring, m) /\ lost' = lost
     ELSE ring' = ring /\ lost' = lost \cup {m}
  /\ m' = Nothing
  /\ secondary_pc' = "wait"
  /\ UNCHANGED <<created, primaryVars>>

\* The exit message is freed and ends the loop.
Exit ==
  /\ secondary_pc = "look" /\ m.dst_id = PROC_B /\ m.type = "EXIT"
  /\ m' = Nothing
  /\ secondary_pc' = "done"
  /\ UNCHANGED <<created, ring, primaryVars, lost>>

\* A request is freed; its response is allocated, and enqueued, with retries
\* while the ring is full.
Serve ==
  /\ secondary_pc = "look" /\ m.dst_id = PROC_B /\ m.type = "REQ"
  /\ m' = Response(m.value * 10)
  /\ secondary_pc' = "reply"
  /\ UNCHANGED <<created, ring, primaryVars, lost>>

Reply ==
  /\ secondary_pc = "reply"
  /\ HasRoom
  /\ ring' = Append(ring, m)
  /\ m' = Nothing
  /\ secondary_pc' = "print"
  /\ UNCHANGED <<created, primaryVars, lost>>

\* The value of the response is read once more, to be printed.  The primary may
\* have freed it by then, and nothing but the output depends on what is read.
PrintSent ==
  /\ secondary_pc = "print"
  /\ secondary_pc' = "wait"
  /\ UNCHANGED <<created, ring, primaryVars, m, lost>>

secondary ==
  Lookup \/ SecondaryDequeue \/ SecondaryPutBack \/ Exit \/ Serve \/ Reply \/ PrintSent

Next == primary \/ secondary

\* Each process keeps running; no more is assumed of who gets to the ring.
Spec == Init /\ [][Next]_vars /\ WF_vars(primary) /\ WF_vars(secondary)

-----------------------------------------------------------------------------
\* Messages in the ring or in a process's hands.
InHand(x) == IF x = Nothing THEN 0 ELSE 1
InPlay == Len(ring) + InHand(r) + InHand(m)

\* There is one message, and it is never lost: whoever takes it, for itself
\* or by mistake, the put-back finds room.
OneMessage ==
  /\ lost = {}
  /\ InPlay = IF \/ primary_pc \in {"create", "send", "exit"} \/ secondary_pc = "done"
              THEN 0 ELSE 1

-----------------------------------------------------------------------------
(* The state of the request/reply exchange (module RequestReply).          *)

Sending == primary_pc \in {"create", "send", "exit", "done"}
RequestPending ==
  \/ r.type = "REQ" \/ m.type = "REQ" \/ \E j \in DOMAIN ring : ring[j].type = "REQ"
Sent == IF Sending THEN i ELSE i + 1
Served == IF Sending \/ RequestPending THEN i ELSE i + 1
PrimaryDone == primary_pc = "done"
SecondaryDone == secondary_pc = "done"

=============================================================================
