---------------------------- MODULE LoadBalancer ----------------------------
(***************************************************************************)
(* Load_Balancer: one lcore receives bursts, gives each TCP or UDP packet  *)
(* to the next backend in turn and sends the burst back, until a signal.   *)
(*                                                                         *)
(* A packet is its kind and the destination that its headers hold, as the  *)
(* bytes on the wire.  A uint32_t or uint16_t is the sequence of its bytes *)
(* from the most significant on; what a store puts into a header depends   *)
(* on the byte order of the host.  Checksums are left out.                 *)
(***************************************************************************)
EXTENDS Integers, Sequences

CONSTANTS
  n_backends, BURST_SIZE,
  LittleEndian,     \* RTE_BYTE_ORDER of the host
  BackendIP,        \* BackendIP[b]: the arguments of RTE_IPV4 for backend b
  MaxRx             \* bound: packets received

ASSUME LoadBalancerAssumption ==
  /\ n_backends \in Nat \ {0} /\ BURST_SIZE \in Nat \ {0} /\ MaxRx \in Nat
  /\ LittleEndian \in BOOLEAN
  /\ BackendIP \in [0 .. n_backends - 1 -> Seq(0 .. 255)]

VARIABLES
  force_quit,
  next_backend, backend_hits,
  total_rx, total_tx, total_drop,
  pc, pkts, i,     \* lcore_main: its place, its burst, its loop counter
  wire,            \* packets sent
  freed            \* mbufs freed

balanceVars == <<next_backend, backend_hits>>
totalVars == <<total_rx, total_tx, total_drop>>
vars == <<force_quit, balanceVars, totalVars, pc, pkts, i, wire, freed>>

Backends == 0 .. (n_backends - 1)

Reversed(s) == [k \in 1 .. Len(s) |-> s[Len(s) + 1 - k]]

\* The bytes that a store of v leaves in memory, in address order.
Stored(v) == IF LittleEndian THEN Reversed(v) ELSE v

\* The swap that rte_cpu_to_be_16 makes of it on a little-endian host.
rte_cpu_to_be(v) == IF LittleEndian THEN Reversed(v) ELSE v

\* The table of backends: RTE_IPV4 is in host order, the port is converted.
RTE_IPV4(a) == a
Port10000 == <<39, 16>>
backends == [b \in Backends |-> [ip |-> RTE_IPV4(BackendIP[b]),
                                 port |-> rte_cpu_to_be(Port10000)]]

Kinds == {"TCP", "UDP", "other"}
Arriving(k) == [kind |-> k, dst |-> <<10, 0, 0, 1>>, port |-> <<0, 80>>, backend |-> -1]

Init ==
  /\ force_quit = FALSE
  /\ next_backend = 0 /\ backend_hits = [b \in Backends |-> 0]
  /\ total_rx = 0 /\ total_tx = 0 /\ total_drop = 0
  /\ pc = "test" /\ pkts = <<>> /\ i = 1
  /\ wire = <<>> /\ freed = 0

-----------------------------------------------------------------------------
\* SIGINT or SIGTERM, at any time.
signal_handler ==
  /\ ~force_quit
  /\ force_quit' = TRUE
  /\ UNCHANGED <<balanceVars, totalVars, pc, pkts, i, wire, freed>>

\* while (!force_quit): leave, ...
LoopExit ==
  /\ pc = "test" /\ force_quit
  /\ pc' = "done"
  /\ UNCHANGED <<force_quit, balanceVars, totalVars, pkts, i, wire, freed>>

\* ... or receive a burst.  An empty one is tried again.
RxBurst ==
  /\ pc = "test" /\ ~force_quit
  /\ \E nb_rx \in 1 .. BURST_SIZE :
       /\ total_rx + nb_rx <= MaxRx
       /\ total_rx' = total_rx + nb_rx
       /\ \E ks \in [1 .. nb_rx -> Kinds] : pkts' = [k \in 1 .. nb_rx |-> Arriving(ks[k])]
  /\ i' = 1
  /\ pc' = "rewrite"
  /\ UNCHANGED <<force_quit, balanceVars, total_tx, total_drop, wire, freed>>

\* Faulty variant of rewrite_l4_packet: the turn is passed on for every packet.
rewrite_l4_packet_Always(m) ==
  /\ next_backend' = (next_backend + 1) % n_backends
  /\ IF m.kind \notin {"TCP", "UDP"}
     THEN UNCHANGED <<pkts, backend_hits>>
     ELSE LET selected == next_backend
              bk == backends[selected]
          IN  /\ pkts' = [pkts EXCEPT ![i].dst = Stored(bk.ip), ![i].port = Stored(bk.port),
                                      ![i].backend = selected]
              /\ backend_hits' = [backend_hits EXCEPT ![selected] = @ + 1]

\* A packet that is not IPv4 TCP or UDP is left alone; another one goes to
\* the backend whose turn it is.
rewrite_l4_packet(m) ==
  IF m.kind \notin {"TCP", "UDP"}
  THEN UNCHANGED <<pkts, balanceVars>>
  ELSE LET selected == next_backend
           bk == backends[selected]
       IN  /\ next_backend' = (next_backend + 1) % n_backends
           /\ pkts' = [pkts EXCEPT ![i].dst = Stored(bk.ip), ![i].port = Stored(bk.port),
                                   ![i].backend = selected]
           /\ backend_hits' = [backend_hits EXCEPT ![selected] = @ + 1]

\* One round of the loop over the burst.
Rewrite ==
  /\ pc = "rewrite"
  /\ rewrite_l4_packet(pkts[i])
  /\ i' = i + 1
  /\ pc' = IF i = Len(pkts) THEN "send" ELSE "rewrite"
  /\ UNCHANGED <<force_quit, totalVars, wire, freed>>

\* Faulty variant of TxBurst: the first packet that was not sent is missed.
TxBurst_OffByOne ==
  /\ pc = "send"
  /\ \E nb_tx \in 0 .. Len(pkts) :
       /\ wire' = wire \o SubSeq(pkts, 1, nb_tx)
       /\ total_tx' = total_tx + nb_tx
       /\ total_drop' = total_drop + (Len(pkts) - nb_tx)
       /\ freed' = IF nb_tx < Len(pkts) THEN freed + (Len(pkts) - nb_tx - 1) ELSE freed
  /\ pkts' = <<>>
  /\ pc' = "test"
  /\ UNCHANGED <<force_quit, balanceVars, total_rx, i>>

\* The first nb_tx packets go out, the others are counted and freed.
TxBurst ==
  /\ pc = "send"
  /\ \E nb_tx \in 0 .. Len(pkts) :
       /\ wire' = wire \o SubSeq(pkts, 1, nb_tx)
       /\ total_tx' = total_tx + nb_tx
       /\ total_drop' = total_drop + (Len(pkts) - nb_tx)
       /\ freed' = freed + (Len(pkts) - nb_tx)
  /\ pkts' = <<>>
  /\ pc' = "test"
  /\ UNCHANGED <<force_quit, balanceVars, total_rx, i>>

lcore_main == LoopExit \/ RxBurst \/ Rewrite \/ TxBurst

Next == signal_handler \/ lcore_main

Spec == Init /\ [][Next]_vars

-----------------------------------------------------------------------------
Packets == [kind : Kinds, dst : Seq(0 .. 255), port : Seq(0 .. 255), backend : Backends \cup {-1}]

\* Types; the index into the table of backends never leaves it.
TypeOK ==
  /\ force_quit \in BOOLEAN
  /\ next_backend \in Backends /\ backend_hits \in [Backends -> Nat]
  /\ total_rx \in Nat /\ total_tx \in Nat /\ total_drop \in Nat
  /\ pc \in {"test", "rewrite", "send", "done"}
  /\ pkts \in Seq(Packets) /\ i \in Nat \ {0}
  /\ wire \in Seq(Packets) /\ freed \in Nat

\* The load is balanced: whatever the mix of traffic, however the bursts are
\* cut and whatever is dropped afterwards, no backend is more than one packet
\* ahead of another, and the next one is among those that have had the fewest.
Balanced ==
  /\ \A a, b \in Backends : backend_hits[a] <= backend_hits[b] + 1
  /\ \A b \in Backends : backend_hits[next_backend] <= backend_hits[b]

\* At the head of the loop every mbuf received has been given to the driver
\* or freed, and the printed totals say so.
MbufsAccounted ==
  pc \in {"test", "done"} => /\ total_rx = Len(wire) + freed
                             /\ total_tx = Len(wire) /\ total_drop = freed

\* "The program currently rotates across these backend IPs" (README.md, 24):
\* what goes to a backend carries its address.
SentToBackends ==
  \A j \in DOMAIN wire :
    wire[j].backend >= 0 => /\ wire[j].dst = BackendIP[wire[j].backend]
                            /\ wire[j].port = Port10000

=============================================================================
