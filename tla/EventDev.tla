------------------------------ MODULE EventDev ------------------------------
(***************************************************************************)
(* The programs on an event device with atomic queues.  A behaviour runs   *)
(*   01project      one event from port 0 to port 1, in one thread         *)
(*   02practice     ten events of two flows from port 0 to ports 1 and 2   *)
(*   practice       one event, and a worker on another lcore               *)
(*   ipc            inter_process_comm/eventdev: a primary that sends      *)
(*                  mbufs without end, a secondary that frees them         *)
(*   parsing_event  packets of the RX adapter, and a worker that passes    *)
(*                  them to a second queue                                 *)
(*                                                                         *)
(* The device (event_sw, on a service core) moves an event from its queue  *)
(* to a port that is linked to it, and all events of a flow to the same    *)
(* port as long as the port has or holds one; a port holds what it was     *)
(* given until its next dequeue.                                           *)
(***************************************************************************)
EXTENDS Integers, Sequences, FiniteSets, SequencesExt

CONSTANTS
  Count,          \* events that 02practice sends (10)
  Mbufs,          \* NUM_MBUFS of ipc; packets received by parsing_event at a time
  Threshold,      \* events in flight before new ones are refused, more than Count
  Depth           \* events that wait at a port

ASSUME EventAssumption == Count \in Nat /\ Mbufs \in Nat

VARIABLES
  program,
  queue, cq, held,      \* queue -> events; port -> events waiting; port -> events held
  i,                    \* events sent, in the first three programs
  turn, received,       \* index of the port to be polled; the events received, in order
  pc,                   \* the consumer: "poll", "forward" or "done"
  pool, leaked          \* mbufs: not in use; refused by the device and lost

deviceVars == <<queue, cq, held>>
poolVars == <<pool, leaked>>
vars == <<program, deviceVars, i, turn, received, pc, poolVars>>

Programs == {"01project", "02practice", "practice", "ipc", "parsing_event"}
Queues == {0, 1}
Ports == {0, 1, 2}

project_events == <<[flow |-> 1, data |-> 12345]>>
second_events == [k \in 1 .. Count |-> [flow |-> (k - 1) % 2, data |-> k - 1]]
practice_events == <<[flow |-> 1, data |-> 42]>>

\* What is sent, and the ports the consumer polls in turn.
Events ==
  CASE program = "01project" -> project_events
    [] program = "02practice" -> second_events
    [] program = "practice" -> practice_events
    [] OTHER -> <<>>

\* Faulty variant of Polled: the second consumer is forgotten.
Polled_First ==
  IF program \in {"practice", "parsing_event"} THEN <<0>> ELSE <<1>>

Polled ==
  CASE program = "02practice" -> <<1, 2>>
    [] program \in {"practice", "parsing_event"} -> <<0>>
    [] OTHER -> <<1>>

\* rte_event_port_link: the ports to which a queue is linked.
Links(q) ==
  CASE program = "02practice" -> {1, 2}
    [] program = "ipc" -> {0, 1}
    [] program \in {"practice", "parsing_event"} -> {0}
    [] OTHER -> {1}

Init ==
  /\ program \in Programs
  /\ queue = [q \in Queues |-> <<>>]
  /\ cq = [p \in Ports |-> <<>>] /\ held = [p \in Ports |-> <<>>]
  /\ i = 0 /\ turn = 1 /\ received = <<>> /\ pc = "poll"
  /\ pool = (IF program \in {"ipc", "parsing_event"} THEN 1 .. Mbufs ELSE {})
  /\ leaked = {}

-----------------------------------------------------------------------------
(* The device                                                              *)

InDevice(q) == ToSet(queue[q]) \cup UNION {{e \in ToSet(cq[p] \o held[p]) : e.queue = q} : p \in Ports}
InFlight == InDevice(0) \cup InDevice(1)
Accepts == Cardinality(InFlight) < Threshold

\* An enqueued event; the device takes a new one below the threshold.
New(q, flow, data) == [queue |-> q, flow |-> flow, data |-> data]

\* The port that has or holds an event of a flow.
Pinned(q, flow, p) == \E e \in ToSet(cq[p] \o held[p]) : e.queue = q /\ e.flow = flow

\* The event at place k of a queue can go to port p: to that of its flow, or to
\* any if its flow has none, as long as there is room and no earlier event waits.
CanGo(q, k, p) ==
  LET e == queue[q][k]
  IN  /\ \A j \in 1 .. k - 1 : queue[q][j].flow # e.flow
      /\ \A other \in Ports \ {p} : ~Pinned(q, e.flow, other)
      /\ Len(cq[p]) < Depth

\* The first event of a queue that can go.
ScheduleFrom(q) ==
  /\ \E k \in DOMAIN queue[q], p \in Links(q) :
       /\ CanGo(q, k, p)
       /\ \A j \in 1 .. k - 1, other \in Links(q) : ~CanGo(q, j, other)
       /\ queue' = [queue EXCEPT ![q] = RemoveAt(@, k)]
       /\ cq' = [cq EXCEPT ![p] = Append(@, queue[q][k])]
  /\ UNCHANGED <<program, held, i, turn, received, pc, poolVars>>

\* rte_event_dequeue_burst of one event: what the port held is released.
Dequeue(p) ==
  /\ cq' = [cq EXCEPT ![p] = IF @ = <<>> THEN @ ELSE Tail(@)]
  /\ held' = [held EXCEPT ![p] = IF cq[p] = <<>> THEN <<>> ELSE <<Head(cq[p])>>]

-----------------------------------------------------------------------------
(* 01project, 02practice and practice                                      *)

\* while (rte_event_enqueue_burst(...) != 1)
enqueue_loop ==
  /\ i < Len(Events) /\ Accepts
  /\ i' = i + 1
  /\ queue' = [queue EXCEPT ![0] = Append(@, New(0, Events[i + 1].flow, Events[i + 1].data))]
  /\ UNCHANGED <<program, cq, held, turn, received, pc, poolVars>>

\* The ports are polled in turn; the count is tested after the last.
Poll ==
  LET p == Polled[turn]
  IN  /\ pc = "poll" /\ Events # <<>>
      /\ Dequeue(p)
      /\ received' = IF cq[p] = <<>> THEN received ELSE Append(received, Head(cq[p]))
      /\ turn' = (turn % Len(Polled)) + 1
      /\ pc' = IF turn' = 1 /\ Len(received') >= Len(Events) THEN "done" ELSE "poll"
      /\ UNCHANGED <<program, queue, i, poolVars>>

\* One thread sends and then receives.
project_main == program = "01project" /\ (enqueue_loop \/ (i = Len(Events) /\ Poll))
second_main == program = "02practice" /\ (enqueue_loop \/ (i = Len(Events) /\ Poll))

\* The worker polls while main sends.
practice_main == program = "practice" /\ enqueue_loop
event_worker == program = "practice" /\ Poll

-----------------------------------------------------------------------------
(* inter_process_comm/eventdev                                             *)

\* Faulty variant of primary: the result of rte_pktmbuf_alloc is not looked at.
primary_NoCheck ==
  /\ program = "ipc"
  /\ \E mbuf \in IF pool = {} THEN {0} ELSE pool :
       /\ pool' = pool \ {mbuf}
       /\ \/ Accepts /\ queue' = [queue EXCEPT ![0] = Append(@, New(0, 0, mbuf))] /\ UNCHANGED leaked
          \/ leaked' = leaked \cup {mbuf} /\ UNCHANGED queue
  /\ UNCHANGED <<program, cq, held, i, turn, received, pc>>

\* An mbuf, if there is one, goes into an event.  The device may refuse it, below
\* the threshold too, as it gives credits to a port in lots; the result is not
\* looked at.
primary ==
  /\ program = "ipc"
  /\ \E mbuf \in pool :
       /\ pool' = pool \ {mbuf}
       /\ \/ Accepts /\ queue' = [queue EXCEPT ![0] = Append(@, New(0, 0, mbuf))] /\ UNCHANGED leaked
          \/ leaked' = leaked \cup {mbuf} /\ UNCHANGED queue
  /\ UNCHANGED <<program, cq, held, i, turn, received, pc>>

\* What comes to port 1 is freed.
secondary ==
  /\ program = "ipc"
  /\ Dequeue(1)
  /\ pool' = IF cq[1] = <<>> THEN pool ELSE pool \cup {Head(cq[1]).data}
  /\ UNCHANGED <<program, queue, i, turn, received, pc, leaked>>

-----------------------------------------------------------------------------
(* parsing_event                                                           *)

\* The RX adapter makes an event of a packet, of the flow of its hash.
RxAdapter ==
  /\ program = "parsing_event" /\ Accepts
  /\ \E mbuf \in pool : \E flow \in {0, 1} :
       /\ pool' = pool \ {mbuf}
       /\ queue' = [queue EXCEPT ![0] = Append(@, New(0, flow, mbuf))]
  /\ UNCHANGED <<program, cq, held, i, turn, received, pc, leaked>>

\* The worker parses a packet ...
parse_worker ==
  /\ program = "parsing_event" /\ pc = "poll"
  /\ Dequeue(0)
  /\ pc' = IF cq[0] = <<>> THEN "poll" ELSE "forward"
  /\ UNCHANGED <<program, queue, i, turn, received, poolVars>>

\* ... and forwards it (the device takes the operation that it left in the event as
\* a forward) to the TX queue, which is linked to its own port: there is no TX
\* adapter, as its creation without a port configuration fails.
parse_forward ==
  /\ program = "parsing_event" /\ pc = "forward"
  /\ queue' = [queue EXCEPT ![1] = Append(@, New(1, held[0][1].flow, held[0][1].data))]
  /\ held' = [held EXCEPT ![0] = <<>>]
  /\ pc' = "poll"
  /\ UNCHANGED <<program, cq, i, turn, received, poolVars>>

\* main sets up the device, the RX adapter and, in vain, the TX adapter, and
\* launches the worker.
parsing_main == parse_worker \/ parse_forward

Consume == project_main \/ second_main \/ event_worker \/ secondary \/ parsing_main
Next == (\E q \in Queues : ScheduleFrom(q)) \/ Consume \/ practice_main \/ primary \/ RxAdapter

\* The threads run.  Every pass of the scheduler looks at every queue, so that one
\* that again and again has an event that can go is served.  The primary of ipc
\* and the network may stop.
Fairness ==
  /\ \A q \in Queues : SF_vars(ScheduleFrom(q))
  /\ WF_vars(Consume) /\ WF_vars(practice_main)

-----------------------------------------------------------------------------
\* Every event is somewhere once.  The events of a flow are received in the order
\* in which they were sent, by one port at a time, and none twice, whichever
\* ports the device chooses.  An mbuf of ipc is in one place once, and is
\* freed once, whoever is ahead: besides the events that the device refused, which
\* the code does leak, none is lost.  Packets of parsing_event are never lost.
EventsKept ==
  LET at(p) == Len(cq[p]) + Len(held[p])
      all == Len(queue[0]) + Len(queue[1]) + at(0) + at(1) + at(2)
      inDevice == {e.data : e \in InFlight}
  IN  /\ \A q \in Queues, flow \in {0, 1}, p1, p2 \in Ports :
           Pinned(q, flow, p1) /\ Pinned(q, flow, p2) => p1 = p2
      /\ \A j, k \in DOMAIN received :
           j < k /\ received[j].flow = received[k].flow => received[j].data < received[k].data
      /\ program = "ipc" =>
           LET sent == {e.data : e \in ToSet(queue[0] \o cq[0] \o cq[1])}
           IN  /\ sent \cup pool \cup leaked = 1 .. Mbufs
               /\ Len(queue[0]) + Len(cq[0]) + Len(cq[1]) + Cardinality(pool) + Cardinality(leaked) = Mbufs
      /\ program = "parsing_event" =>
           inDevice = (1 .. Mbufs) \ pool /\ all = Cardinality(inDevice)

\* The first three programs end, with all they sent, although flows are bound
\* to one of two ports and released only by polling it again.  In ipc all that
\* reaches port 1 is freed, and in parsing_event every packet comes to the worker
\* again and again; the port of the primary, which is linked too but which
\* nobody polls, may keep the flow of ipc for ever.
EventsArrive ==
  /\ program \in {"01project", "02practice", "practice"} ~> pc = "done" /\ Len(received) = Len(Events)
  /\ \A mbuf \in 1 .. Mbufs :
       /\ (program = "ipc" /\ mbuf \in {e.data : e \in ToSet(cq[1])}) ~> mbuf \in pool
       /\ (program = "parsing_event" /\ mbuf \in {e.data : e \in InFlight})
            ~> (pc = "forward" /\ held[0][1].data = mbuf)

=============================================================================
