----------------------------- MODULE AclForward -----------------------------
(***************************************************************************)
(* ACL/l2fwd_acl: for each enabled port in turn a burst is received, each  *)
(* packet is looked up in an access list with one rule (TCP from one       *)
(* host), and sent back out of its port if it matches, or freed.           *)
(*                                                                         *)
(* An address is four bytes, most significant first; what it looks like in *)
(* memory depends on the host.  A packet has a number in the order of      *)
(* reception.  Destination and ports are not restricted by the rule and    *)
(* are left out.                                                           *)
(***************************************************************************)
EXTENDS Integers, Sequences, SequencesExt

CONSTANTS
  Ports,         \* ports that exist, in the order of RTE_ETH_FOREACH_DEV
  portmask,      \* the enabled ones
  LittleEndian,
  Traffic,       \* packets that may arrive: [ether, proto, src]
  Burst,
  MaxBursts      \* bound: bursts received

VARIABLES
  force_quit,
  todo,              \* ports left in this round of the loop
  bufs, i,           \* the burst, and the loop counter
  number, bursts,    \* packets and bursts received
  wire,              \* port -> packets the driver has taken, in order
  freed, leaked,     \* packets freed; refused by the driver and not freed
  exited

loopVars == <<todo, bufs, i, number, bursts>>
fateVars == <<wire, freed, leaked>>
vars == <<force_quit, loopVars, fateVars, exited>>

-----------------------------------------------------------------------------
(* Byte order, and the access list                                         *)

\* rte_be_to_cpu_32 of a value, and a value's bytes in memory.
rte_be_to_cpu_32(v) == IF LittleEndian THEN Reverse(v) ELSE v
InMemory(v) == IF LittleEndian THEN Reverse(v) ELSE v

AllowedHost == <<172, 17, 166, 200>>

\* Faulty variant of init_acl: the address of the rule in host order.
init_acl_HostOrder == [proto |-> "TCP", src |-> AllowedHost]

\* RTE_IPV4 is in host order already, and is converted once more.
init_acl == [proto |-> "TCP", src |-> rte_be_to_cpu_32(AllowedHost)]

\* The key of a packet: ip->src_addr is converted to host order.
pkt_key(m) == [proto |-> m.proto, src |-> rte_be_to_cpu_32(InMemory(m.src))]

\* The library takes the bytes of the key in memory as most significant first.
rte_acl_classify(key) == key.proto = init_acl.proto /\ InMemory(key.src) = init_acl.src

-----------------------------------------------------------------------------
(* main                                                                    *)

Init ==
  /\ force_quit = FALSE /\ exited = FALSE
  /\ todo = <<>> /\ bufs = <<>> /\ i = 1 /\ number = 0 /\ bursts = 0
  /\ wire = [p \in ToSet(Ports) |-> <<>>] /\ freed = {} /\ leaked = {}

InBurst == i <= Len(bufs)
port_id == Head(todo)

\* Before each round over the ports the flag is looked at.
LoopTest ==
  /\ todo = <<>>
  /\ ~exited
  /\ IF force_quit THEN exited' = TRUE /\ todo' = todo ELSE exited' = FALSE /\ todo' = Ports
  /\ UNCHANGED <<force_quit, bufs, i, number, bursts, fateVars>>

\* The port is not enabled, nothing has come in, or the burst is finished.
NextPort ==
  /\ todo # <<>> /\ ~InBurst
  /\ todo' = Tail(todo)
  /\ bufs' = <<>> /\ i' = 1
  /\ UNCHANGED <<force_quit, number, bursts, fateVars, exited>>

RxBurst ==
  /\ todo # <<>> /\ bufs = <<>> /\ port_id \in portmask
  /\ bursts < MaxBursts
  /\ \E n \in 1 .. Burst : \E ms \in [1 .. n -> Traffic] :
       /\ bufs' = [k \in 1 .. n |-> [m |-> ms[k], port |-> port_id, number |-> number + k]]
       /\ number' = number + n
  /\ bursts' = bursts + 1
  /\ UNCHANGED <<force_quit, todo, i, fateVars, exited>>

Accepted(p) == p.m.ether = "IPV4" /\ rte_acl_classify(pkt_key(p.m))

\* The packet is freed, or sent on its own: the driver takes it or not, and
\* nobody looks.
Process ==
  LET p == bufs[i]
  IN  /\ InBurst
      /\ \/ /\ ~Accepted(p)
            /\ freed' = freed \cup {p}
            /\ UNCHANGED <<wire, leaked>>
         \/ /\ Accepted(p)
            /\ wire' = [wire EXCEPT ![port_id] = Append(@, p)]
            /\ UNCHANGED <<freed, leaked>>
         \/ /\ Accepted(p)
            /\ leaked' = leaked \cup {p}
            /\ UNCHANGED <<wire, freed>>
      /\ i' = i + 1
      /\ UNCHANGED <<force_quit, todo, bufs, number, bursts, exited>>

main == LoopTest \/ NextPort \/ RxBurst \/ Process

signal_handler ==
  /\ force_quit' = TRUE
  /\ UNCHANGED <<loopVars, fateVars, exited>>

Next == main \/ signal_handler

-----------------------------------------------------------------------------
\* "Packets matching ACL rules are forwarded, others are dropped" (README.md,
\* 13), on any host: what the two byte-order conversions make of the rule and
\* of the key still selects TCP from the allowed host.  What leaves a port came
\* in there, in this order and once, and the loop is only left when each packet
\* received has met its fate.
Matches(m) == m.ether = "IPV4" /\ m.proto = "TCP" /\ m.src = AllowedHost
AclDecides ==
  /\ \A p \in freed : ~Matches(p.m)
  /\ \A p \in leaked : Matches(p.m)
  /\ \A q \in ToSet(Ports) : \A j \in DOMAIN wire[q] :
       /\ Matches(wire[q][j].m) /\ wire[q][j].port = q
       /\ \A k \in 1 .. (j - 1) : wire[q][k].number < wire[q][j].number
  /\ exited => {p.number : p \in freed \cup leaked \cup UNION {ToSet(wire[q]) : q \in ToSet(Ports)}}
                 = 1 .. number

=============================================================================
