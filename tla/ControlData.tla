----------------------------- MODULE ControlData -----------------------------
(***************************************************************************)
(* control_data_segregation: one lcore receives a burst, sorts it into a   *)
(* control and a data ring by the headers of each packet, then drains both *)
(* rings onto the wire.                                                    *)
(*                                                                         *)
(* A packet is the fields that classify_packet reads, with lengths in      *)
(* bytes.  On the wire and in the rings it carries the number of its burst *)
(* and its place in it.                                                    *)
(***************************************************************************)
EXTENDS Integers, Sequences

CONSTANTS
  BURST_SIZE, RING_SIZE,   \* a ring holds one object less (32 and 2048)
  Packets,                 \* what may arrive
  MaxBursts                \* bound: bursts received

VARIABLES
  pc,                          \* "rx", "control", "data"
  control_ring, data_ring,
  control_count, data_count,
  bursts, received,            \* bursts and packets received so far
  wire,                        \* packets the driver has taken
  freed, leaked                \* packets freed, and neither sent nor freed

ringVars == <<control_ring, data_ring>>
countVars == <<control_count, data_count, bursts, received>>
vars == <<pc, ringVars, countVars, wire, freed, leaked>>

Elements(s) == {s[j] : j \in DOMAIN s}
Lesser(m, n) == IF m < n THEN m ELSE n

-----------------------------------------------------------------------------
(* classify_packet                                                         *)

ETHER == 14    \* sizes of the headers
VLAN == 4
IPV4 == 20
UDP == 8
TCP == 20

is_control_tcp_port(p) == p \in {22, 53, 179, 389}
is_control_udp_port(p) == p \in {53, 67, 68, 123, 161}

\* Where the IPv4 header starts.
L3(m) == IF m.vlan THEN ETHER + VLAN ELSE ETHER

\* TRUE for control, FALSE for data.
classify_packet(m) ==
  /\ m.len >= ETHER
  /\ m.vlan => m.len >= ETHER + VLAN
  /\ m.eth_type = "IPV4"
  /\ m.len >= L3(m) + IPV4
  /\ \/ m.proto \in {"ICMP", "OSPF"}
     \/ m.proto = "UDP" /\ m.len >= L3(m) + m.ihl + UDP /\ is_control_udp_port(m.dst_port)
     \/ m.proto = "TCP" /\ m.len >= L3(m) + m.ihl + TCP /\ is_control_tcp_port(m.dst_port)

-----------------------------------------------------------------------------
(* The loop of main                                                        *)

Init ==
  /\ pc = "rx"
  /\ control_ring = <<>> /\ data_ring = <<>>
  /\ control_count = 0 /\ data_count = 0
  /\ bursts = 0 /\ received = 0
  /\ wire = <<>> /\ freed = {} /\ leaked = {}

Control(p) == classify_packet(p.m)

\* The loop over bufs: what it has put aside for one of the rings after k packets.
Sorted(s, control) ==
  LET aside[k \in 0 .. Len(s)] ==
        IF k = 0 THEN <<>>
        ELSE IF Control(s[k]) <=> control THEN Append(aside[k - 1], s[k]) ELSE aside[k - 1]
  IN  aside[Len(s)]

\* What fits of the packets ps into a ring, by one rte_ring_enqueue each.
Room(ring) == RING_SIZE - 1 - Len(ring)
Fitting(ring, ps) == SubSeq(ps, 1, Lesser(Len(ps), Room(ring)))
Excess(ring, ps) == SubSeq(ps, Lesser(Len(ps), Room(ring)) + 1, Len(ps))

\* A burst is received, and each packet enqueued and counted; one that does
\* not fit is freed.
RxBurst ==
  /\ pc = "rx" /\ bursts < MaxBursts
  /\ \E n \in 0 .. BURST_SIZE : \E ms \in [1 .. n -> Packets] :
       LET bufs == [k \in 1 .. n |-> [m |-> ms[k], burst |-> bursts + 1, place |-> k]]
           cs == Sorted(bufs, TRUE)
           ds == Sorted(bufs, FALSE)
       IN  /\ control_ring' = control_ring \o Fitting(control_ring, cs)
           /\ data_ring' = data_ring \o Fitting(data_ring, ds)
           /\ control_count' = control_count + Len(Fitting(control_ring, cs))
           /\ data_count' = data_count + Len(Fitting(data_ring, ds))
           /\ freed' = freed \cup Elements(Excess(control_ring, cs))
                             \cup Elements(Excess(data_ring, ds))
           /\ received' = received + n
  /\ bursts' = bursts + 1
  /\ pc' = "control"
  /\ UNCHANGED <<wire, leaked>>

\* rte_ring_dequeue_burst and rte_eth_tx_burst.  The driver takes the first
\* sent packets; its result is ignored, so nobody frees the others.
Drain(ring) ==
  LET n == Lesser(Len(ring), BURST_SIZE)
      out == SubSeq(ring, 1, n)
  IN  \E sent \in 0 .. n :
        /\ wire' = wire \o SubSeq(out, 1, sent)
        /\ leaked' = leaked \cup Elements(SubSeq(out, sent + 1, n))

\* Faulty variant of Drained: the packets stay in the ring.
Drained_Peek(ring) == ring

\* What the dequeue leaves in the ring.
Drained(ring) == SubSeq(ring, Lesser(Len(ring), BURST_SIZE) + 1, Len(ring))

DrainControl ==
  /\ pc = "control"
  /\ Drain(control_ring)
  /\ control_ring' = Drained(control_ring)
  /\ pc' = "data"
  /\ UNCHANGED <<data_ring, countVars, freed>>

\* Faulty variant of DrainData: one packet only.
DrainData_One ==
  /\ pc = "data"
  /\ Drain(IF data_ring = <<>> THEN <<>> ELSE <<Head(data_ring)>>)
  /\ data_ring' = IF data_ring = <<>> THEN <<>> ELSE Tail(data_ring)
  /\ pc' = "rx"
  /\ UNCHANGED <<control_ring, countVars, freed>>

DrainData ==
  /\ pc = "data"
  /\ Drain(data_ring)
  /\ data_ring' = Drained(data_ring)
  /\ pc' = "rx"
  /\ UNCHANGED <<control_ring, countVars, freed>>

Next == RxBurst \/ DrainControl \/ DrainData

Spec == Init /\ [][Next]_vars

-----------------------------------------------------------------------------
\* Each turn of the loop drains what it has put into the rings: at its head
\* both are empty, no enqueue ever fails, and the two counts that are printed
\* cover every packet received.
RingsDrained ==
  /\ pc = "rx" => control_ring = <<>> /\ data_ring = <<>>
  /\ freed = {}
  /\ control_count + data_count = received

Before(p, q) ==
  \/ p.burst < q.burst
  \/ p.burst = q.burst /\ Control(p) /\ ~Control(q)
  \/ p.burst = q.burst /\ (Control(p) <=> Control(q)) /\ p.place < q.place

\* README.md, 7-8: "Control packets (enqueued to `control_ring`): ICMP, OSPF
\* (IP proto 89), DNS/DHCP/NTP/SNMP (UDP 53/67/68/123/161), SSH/BGP/LDAP (TCP
\* 22/179/389)."
DocumentedControl(m) ==
  /\ m.eth_type = "IPV4"
  /\ \/ m.proto \in {"ICMP", "OSPF"}
     \/ m.proto = "UDP" /\ m.dst_port \in {53, 67, 68, 123, 161}
     \/ m.proto = "TCP" /\ m.dst_port \in {22, 179, 389}
OnlyDocumentedControl == \A j \in DOMAIN control_ring : DocumentedControl(control_ring[j].m)

\* Each burst goes out with its control packets first and, within a class, in
\* the order of arrival; a packet is sent at most once.  Of the list above the
\* code keeps this: a complete packet of it is never sent as data.
Complete(m) ==
  /\ m.ihl >= IPV4
  /\ m.len >= L3(m) + m.ihl + (CASE m.proto = "UDP" -> UDP [] m.proto = "TCP" -> TCP [] OTHER -> 0)
ControlFirst ==
  /\ \A j \in 1 .. (Len(wire) - 1) : Before(wire[j], wire[j + 1])
  /\ \A j \in DOMAIN data_ring : ~(DocumentedControl(data_ring[j].m) /\ Complete(data_ring[j].m))

=============================================================================
