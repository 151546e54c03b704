---------------------------- MODULE MCForwarders ----------------------------
(***************************************************************************)
(* The programs that decide packet by packet what to do: Load_Balancer,    *)
(* control_data_segregation (ControlData), ACL/l2fwd_acl (AclForward), the *)
(* other access lists (AclTables) and the VXLAN forwarder (Vxlan).  A      *)
(* behaviour runs one of them, chosen at the start.                        *)
(***************************************************************************)
EXTENDS LoadBalancer

CONSTANTS RING_SIZE, Mix, MaxBursts, Ports, portmask, Traffic, Frames, Keys, Incoming,
          Headroom, MaxPackets

VARIABLES
  program,      \* "balance", "segregate", "l2fwd_acl", "tables" or "vxlan"
  pc1, control_ring, data_ring, control_count, data_count, bursts1, received, wire1, freed1,
  leaked1,
  force_quit2, todo, bufs2, i2, number, bursts2, wire2, freed2, leaked2, exited,
  program3, bufs3, nb, shown, freed3, bursts3, built,
  sent, a_in, cable, delivered, lost

cdVars == <<pc1, control_ring, data_ring, control_count, data_count, bursts1, received, wire1,
            freed1, leaked1>>
aclVars == <<force_quit2, todo, bufs2, i2, number, bursts2, wire2, freed2, leaked2, exited>>
tableVars == <<program3, bufs3, nb, shown, freed3, bursts3, built>>
vxlanVars == <<sent, a_in, cable, delivered, lost>>
allVars == <<vars, cdVars, aclVars, tableVars, vxlanVars, program>>

Segregate == INSTANCE ControlData WITH
  Packets <- Mix, pc <- pc1, bursts <- bursts1, wire <- wire1, freed <- freed1, leaked <- leaked1

Acl == INSTANCE AclForward WITH
  Burst <- BURST_SIZE, force_quit <- force_quit2, bufs <- bufs2, i <- i2, bursts <- bursts2,
  wire <- wire2, freed <- freed2, leaked <- leaked2

Tables == INSTANCE AclTables WITH
  Burst <- BURST_SIZE, program <- program3, bufs <- bufs3, freed <- freed3, bursts <- bursts3

Tunnel == INSTANCE Vxlan

\* A ring holds a burst.  Ports are 16 bits wide, addresses are bytes.  The
\* headroom of an mbuf holds the headers of VXLAN.
ASSUME ForwarderAssumption ==
  /\ RING_SIZE \in Nat /\ BURST_SIZE < RING_SIZE
  /\ \A m \in Mix : m.len \in Nat /\ m.ihl \in Nat
  /\ \A m \in Keys \cup Frames : m.sport \in Tables!AllPorts /\ m.dport \in Tables!AllPorts
  /\ \A m \in Traffic : m.src \in Seq(Nat)
  /\ Ports \in Seq(Nat) /\ MaxPackets \in Nat
  /\ Headroom \in Nat /\ Headroom >= Tunnel!Headers
  /\ \A m \in Incoming :
       m.size \in Nat /\ m.layers \in Seq({m.layers[k] : k \in DOMAIN m.layers})

InitAll ==
  /\ Init /\ Segregate!Init /\ Acl!Init /\ Tables!Init /\ Tunnel!Init
  /\ program \in {"balance", "segregate", "l2fwd_acl", "tables", "vxlan"}
  /\ program # "tables" => program3 = "muti"

NextAll ==
  /\ UNCHANGED program
  /\ \/ /\ program = "balance" /\ Next
        /\ UNCHANGED <<cdVars, aclVars, tableVars, vxlanVars>>
     \/ /\ program = "segregate" /\ Segregate!Next
        /\ UNCHANGED <<vars, aclVars, tableVars, vxlanVars>>
     \/ /\ program = "l2fwd_acl" /\ Acl!Next
        /\ UNCHANGED <<vars, cdVars, tableVars, vxlanVars>>
     \/ /\ program = "tables" /\ Tables!Next
        /\ UNCHANGED <<vars, cdVars, aclVars, vxlanVars>>
     \/ /\ program = "vxlan" /\ Tunnel!Next
        /\ UNCHANGED <<vars, cdVars, aclVars, tableVars>>

SpecAll == InitAll /\ [][NextAll]_allVars

-----------------------------------------------------------------------------
\* The three backends of load_balancer.c.
BackendsOfTable == [b \in 0 .. 2 |-> <<192, 168, 0, 101 + b>>]

\* One packet for each way out of classify_packet.
Frame(l, v, e, p, d) ==
  [len |-> l, vlan |-> v, eth_type |-> e, proto |-> p, ihl |-> 20, dst_port |-> d]
Classified ==
  {Frame(10, FALSE, "none", "none", 0),      \* a short frame
   Frame(60, FALSE, "ARP", "none", 0),
   Frame(30, TRUE, "IPV4", "TCP", 22),       \* cut in its IPv4 header
   Frame(60, TRUE, "IPV4", "TCP", 22),
   Frame(60, FALSE, "IPV4", "TCP", 53),
   Frame(60, FALSE, "IPV4", "TCP", 80),
   Frame(40, FALSE, "IPV4", "UDP", 53),      \* cut in its UDP header
   Frame(42, FALSE, "IPV4", "UDP", 123),      \* no more than its headers
   Frame(60, FALSE, "IPV4", "ICMP", 0)}

\* The allowed host, its address the wrong way round, and another protocol.
PortList == <<0, 1, 2>>
AclTraffic ==
  {[ether |-> "IPV4", proto |-> "TCP", src |-> <<172, 17, 166, 200>>],
   [ether |-> "IPV4", proto |-> "TCP", src |-> <<200, 166, 17, 172>>],
   [ether |-> "IPV4", proto |-> "UDP", src |-> <<172, 17, 166, 200>>],
   [ether |-> "ARP", proto |-> "none", src |-> <<0, 0, 0, 0>>]}

\* Keys and packets on both sides of every rule.
AclKeys ==
  [proto : {"TCP", "UDP", "ICMP", "HOPOPT"},
   src : {"140.82.112.21", "172.17.166.200"}, dst : {"172.17.166.200", "239.255.255.250"},
   sport : {0, 443}, dport : {0, 53, 80, 1900, 42960}]
Received(e, p, s, d, port) ==
  [eth_type |-> e, proto |-> p, src |-> s, dst |-> d, sport |-> 443, dport |-> port]
AclFrames ==
  {Received("ARP", "none", "none", "none", 0),
   Received("IPV4", "TCP", "172.17.166.200", "140.82.112.21", 80),
   Received("IPV4", "TCP", "140.82.112.21", "172.17.166.200", 80),
   Received("IPV4", "UDP", "172.17.166.200", "239.255.255.250", 1900),
   Received("IPV4", "UDP", "172.17.166.200", "239.255.255.250", 53),
   Received("IPV4", "ICMP", "172.17.166.200", "239.255.255.250", 1900)}

\* Traffic without VXLAN, cut in its headers, with it, and with VXLAN in VXLAN.
Plain(t, p, port) ==
  [eth_type |-> t, proto |-> p, dst_port |-> port, vni |-> 0, total_length |-> 46]
VxlanTraffic ==
  {[layers |-> <<Plain("ARP", "none", 0)>>, size |-> 60],
   [layers |-> <<Plain("IPV4", "UDP", 53)>>, size |-> 60],
   [layers |-> <<Plain("IPV4", "UDP", 4789)>>, size |-> 46],
   [layers |-> <<Plain("IPV4", "UDP", 4789), Plain("IPV4", "TCP", 80)>>, size |-> 110],
   [layers |-> <<Plain("IPV4", "UDP", 4789), Plain("IPV4", "UDP", 4789),
                 Plain("IPV4", "TCP", 80)>>, size |-> 160]}

-----------------------------------------------------------------------------
\* Each turn of control_data_segregation drains what it has put into the rings.
RingsDrained == Segregate!RingsDrained

\* Control packets leave first, and those of the documented list are no data.
ControlFirst == Segregate!ControlFirst

\* README.md, 7-11, of control_data_segregation: nothing but the packets that it
\* lists is control.
OnlyDocumentedControl == Segregate!OnlyDocumentedControl

\* The access list of ACL/l2fwd_acl decides as documented, and every packet
\* meets one fate.
AclDecides == Acl!AclDecides

\* The other access lists, that of ACL/exp excepted, give what their comments
\* promise for every key; received packets are freed once.
TablesDecide == Tables!TablesDecide

\* main.c, 154, of ACL/exp: its rule is there to "match SSDP multicast traffic".
ExpMatchesSsdp == Tables!ExpMatchesSsdp

\* Two VXLAN forwarders make a tunnel that keeps packets as they are.
TunnelKeeps == Tunnel!TunnelKeeps

=============================================================================
