------------------------------- MODULE Vxlan -------------------------------
(***************************************************************************)
(* vxlan/main.c: what arrives on port 0 is taken out of its VXLAN headers, *)
(* or put into them if it has none, and sent on port 1.  Two such programs *)
(* make a tunnel: a puts in, b takes out.  A behaviour has both, with a    *)
(* cable from port 1 of a to port 0 of b.                                  *)
(*                                                                         *)
(* A packet is the stack of its headers, the outermost first, over the     *)
(* data.  A layer of headers is what vxlan_decap looks at (the type of the *)
(* frame, the protocol, the UDP port), the VNI, and the length that the    *)
(* IPv4 header gives.  What is in VXLAN headers is a frame.                *)
(***************************************************************************)
EXTENDS Integers, Sequences, FiniteSets

CONSTANTS
  Incoming,      \* packets for a: [layers, size]
  Headroom,      \* RTE_PKTMBUF_HEADROOM, in bytes
  MaxPackets     \* bound: packets received by a

VARIABLES
  sent,          \* packets that came to a, in order
  a_in,          \* of the burst of a, those still to be handled
  cable,         \* from a to b
  delivered,     \* sent by b
  lost           \* packets that a driver did not take; nobody frees them

vars == <<sent, a_in, cable, delivered, lost>>

VXLAN_PORT == 4789
VXLAN_VNI == 100

ETHER == 14
Headers == 14 + 20 + 8 + 8     \* Ethernet, IPv4, UDP, VXLAN

Layer(vni, pkt_len) ==
  [eth_type |-> "IPV4", proto |-> "UDP", dst_port |-> VXLAN_PORT, vni |-> vni,
   total_length |-> Headers - ETHER + pkt_len]

\* Faulty variant of vxlan_encap: the length of the packet is taken after
\* the headers have been prepended.
vxlan_encap_Late(m) ==
  [m EXCEPT !.layers = <<Layer(VXLAN_VNI, m.size + Headers)>> \o @, !.size = @ + Headers,
            !.headroom = @ - Headers]

\* rte_pktmbuf_prepend is taken to succeed.
vxlan_encap(m) ==
  [m EXCEPT !.layers = <<Layer(VXLAN_VNI, m.size)>> \o @, !.size = @ + Headers,
            !.headroom = @ - Headers]

\* The VNI is not looked at.
IsVxlan(m) ==
  LET h == m.layers[1]
  IN  h.eth_type = "IPV4" /\ h.proto = "UDP" /\ h.dst_port = VXLAN_PORT

\* The headers are cut off; a packet that is too short stays as it is.
vxlan_decap(m) ==
  IF m.size < Headers THEN m
  ELSE [m EXCEPT !.layers = Tail(@), !.size = @ - Headers, !.headroom = @ + Headers]

Forward(m) == IF IsVxlan(m) THEN vxlan_decap(m) ELSE vxlan_encap(m)

Init == sent = <<>> /\ a_in = <<>> /\ cable = <<>> /\ delivered = <<>> /\ lost = {}

-----------------------------------------------------------------------------
\* rte_eth_tx_burst of one packet; the result is not looked at.
Tx(m, taken, there) ==
  IF taken THEN there' = Append(there, m) /\ UNCHANGED lost
           ELSE lost' = lost \cup {m.id} /\ UNCHANGED there

RxBurst ==
  /\ a_in = <<>>
  /\ \E n \in 1 .. (MaxPackets - Len(sent)) : \E ms \in [1 .. n -> Incoming] :
       a_in' = [k \in 1 .. n |->
                  [id |-> Len(sent) + k, layers |-> ms[k].layers, size |-> ms[k].size,
                   headroom |-> Headroom]]
  /\ sent' = sent \o a_in'
  /\ UNCHANGED <<cable, delivered, lost>>

ForwardAtA ==
  /\ a_in # <<>>
  /\ \E taken \in BOOLEAN : Tx(Forward(Head(a_in)), taken, cable)
  /\ a_in' = Tail(a_in)
  /\ UNCHANGED <<sent, delivered>>

\* The packet comes to b in an mbuf of its own.
ForwardAtB ==
  /\ cable # <<>>
  /\ \E taken \in BOOLEAN : Tx(Forward([Head(cable) EXCEPT !.headroom = Headroom]), taken, delivered)
  /\ cable' = Tail(cable)
  /\ UNCHANGED <<sent, a_in>>

main == RxBurst \/ ForwardAtA \/ ForwardAtB
Next == main

-----------------------------------------------------------------------------
\* What does not use VXLAN itself comes out of the tunnel as it went in, in
\* order and once unless a driver refused it.  VXLAN traffic of the hosts is
\* unpacked by a and packed again by b, so that its contents are kept and its
\* VNI is not; unless it holds VXLAN again, which b unpacks too.  Headers always
\* fit into the headroom, and the lengths that a has written are right.
Packed(m) == IsVxlan(m) /\ m.size >= Headers
Comes(m, out) ==
  IF ~Packed(m) THEN out.layers = m.layers /\ out.size = m.size
  ELSE LET inner == vxlan_decap(m)
       IN  IF IsVxlan(inner) THEN out.layers = vxlan_decap(inner).layers
           ELSE out.layers = <<Layer(VXLAN_VNI, inner.size)>> \o inner.layers
TunnelKeeps ==
  LET onward == delivered \o cable
  IN  /\ \A j \in DOMAIN delivered : Comes(sent[delivered[j].id], delivered[j])
      /\ \A j, k \in DOMAIN onward : j < k => onward[j].id < onward[k].id
      /\ Len(onward) + Len(a_in) + Cardinality(lost) = Len(sent)
      /\ \A j \in DOMAIN onward : onward[j].headroom >= 0
      /\ \A j \in DOMAIN cable :
           ~IsVxlan(sent[cable[j].id]) => cable[j].layers[1].total_length = cable[j].size - ETHER

=============================================================================
