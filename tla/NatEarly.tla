------------------------------ MODULE NatEarly ------------------------------
(***************************************************************************)
(* The NAT programs before the address pools.  A behaviour runs one of     *)
(*   sample      nat_project/sample: a table of the addresses heard        *)
(*   version2    nat_project/version2: of addresses and ports, emptied     *)
(*               after IDLE without a packet                               *)
(*   version3    nat_project/version3: sources are replaced by a table     *)
(*               that is entered at the start; the table of addresses is   *)
(*               emptied too, but the call that fills it is commented out  *)
(*   static_nat  NAT/static_nat: one address for another, both ways        *)
(*                                                                         *)
(* All send back what they receive.  A frame has a kind ("TCP", "UDP",     *)
(* "other" for the rest of IPv4, or "none") and a source and destination,  *)
(* each an address and a port.  Times are kept as ages: how long ago they  *)
(* were taken, counted up to the limit they are compared with.             *)
(***************************************************************************)
EXTENDS Integers, Sequences, FiniteSets

CONSTANTS
  Frames,              \* [kind, src, dst], src and dst being <<address, port>>
  Lines,               \* mappings that may be entered: <<private, public>>
  MAX_IPS, MAX_NAT_ENTRIES, BURST_SIZE,
  IDLE,                \* 5 s
  PRIVATE_IP, PUBLIC_IP

VARIABLES
  program,
  pc, bufs, i,         \* main: its place, its burst ([m: as received, out]), the counter
  table,               \* ht: the keys heard
  nat,                 \* version3: private -> public, a function on its keys
  started, start_age, rx_age,
  leaked,              \* packets were left to nobody
  heard                \* history: when each key was last received, up to IDLE

hashVars == <<table, nat>>
timerVars == <<started, start_age, rx_age>>
vars == <<program, pc, bufs, i, hashVars, timerVars, leaked, heard>>

Programs == {"sample", "version2", "version3", "static_nat"}
Lesser(m, n) == IF m < n THEN m ELSE n

Init ==
  /\ program \in Programs
  /\ pc = IF program = "version3" THEN "config" ELSE "rx"
  /\ bufs = <<>> /\ i = 1
  /\ table = {} /\ nat = [p \in {} |-> p]
  /\ started = FALSE /\ start_age = 0 /\ rx_age = 0
  /\ leaked = FALSE
  /\ heard = [k \in {} |-> 0]

-----------------------------------------------------------------------------
(* The mappings of version3, from the file or typed in                     *)

\* A mapping of the same private address is replaced; a full table is the end.
nat_add_mapping ==
  /\ pc = "config"
  /\ \E l \in Lines :
       IF l[1] \in DOMAIN nat \/ Cardinality(DOMAIN nat) < MAX_NAT_ENTRIES
       THEN /\ nat' = [p \in DOMAIN nat \cup {l[1]} |-> IF p = l[1] THEN l[2] ELSE nat[p]]
            /\ UNCHANGED pc
       ELSE pc' = "failed" /\ UNCHANGED nat
  /\ UNCHANGED <<program, bufs, i, table, timerVars, leaked, heard>>

Configured ==
  /\ pc = "config"
  /\ pc' = "rx"
  /\ UNCHANGED <<program, bufs, i, hashVars, timerVars, leaked, heard>>

-----------------------------------------------------------------------------
(* What is done to one packet                                              *)

\* The keys of a packet: addresses in sample, addresses with ports in version2,
\* which passes over what has no ports.
Key(end) == IF program = "sample" THEN end[1] ELSE end
Keys(m) ==
  IF m.kind = "none" \/ (program = "version2" /\ m.kind = "other") THEN <<>>
  ELSE <<Key(m.src), Key(m.dst)>>

\* rte_hash_add_key_data of a key that is not there; a full table ignores it.
Add(t, k) == IF Cardinality(t) < MAX_IPS THEN t \cup {k} ELSE t

hash_ips ==
  /\ program \in {"sample", "version2"}
  /\ LET keys == Keys(bufs[i].m)
     IN  /\ table' = IF keys = <<>> THEN table ELSE Add(Add(table, keys[1]), keys[2])
         /\ heard' = [k \in DOMAIN heard \cup {keys[j] : j \in DOMAIN keys} |->
                        IF \E j \in DOMAIN keys : keys[j] = k THEN 0 ELSE heard[k]]
  /\ UNCHANGED <<bufs, nat>>

Rewrite(m) == bufs' = [bufs EXCEPT ![i].out = m]

\* Packets without a mapping pass unchanged.
nat_apply ==
  /\ program = "version3"
  /\ LET m == bufs[i].m
     IN  IF m.kind = "none" \/ m.src[1] \notin DOMAIN nat THEN UNCHANGED bufs
         ELSE Rewrite([m EXCEPT !.src[1] = nat[m.src[1]]])
  /\ UNCHANGED <<hashVars, heard>>

\* Both directions are looked at, one after the other.
Translated(m) ==
  IF m.kind = "none" THEN m
  ELSE [m EXCEPT !.src[1] = IF @ = PRIVATE_IP THEN PUBLIC_IP ELSE @,
                 !.dst[1] = IF @ = PUBLIC_IP THEN PRIVATE_IP ELSE @]
simulate_nat ==
  /\ program = "static_nat"
  /\ Rewrite(Translated(bufs[i].m))
  /\ UNCHANGED <<hashVars, heard>>

Process ==
  /\ pc = "process"
  /\ hash_ips \/ nat_apply \/ simulate_nat
  /\ i' = i + 1
  /\ pc' = IF i = Len(bufs) THEN "tx" ELSE "process"
  /\ UNCHANGED <<program, timerVars, leaked>>

-----------------------------------------------------------------------------
(* main                                                                    *)

\* The first packet after a reset starts the timer.
RxBurst ==
  /\ pc = "rx"
  /\ \E n \in 1 .. BURST_SIZE : \E ms \in [1 .. n -> Frames] :
       bufs' = [k \in 1 .. n |-> [m |-> ms[k], out |-> ms[k]]]
  /\ i' = 1
  /\ pc' = "process"
  /\ IF program = "static_nat" \/ started THEN UNCHANGED <<started, start_age>>
     ELSE started' = TRUE /\ start_age' = 0
  /\ UNCHANGED <<program, hashVars, rx_age, leaked, heard>>

\* last_rx_tsc is taken; the driver takes some of the packets, and the rest is
\* freed, except by static_nat, which does not look at the result.
TxBurst ==
  /\ pc = "tx"
  /\ rx_age' = IF program = "static_nat" THEN rx_age ELSE 0
  /\ \E nb_tx \in 0 .. Len(bufs) :
       leaked' = (leaked \/ (program = "static_nat" /\ nb_tx < Len(bufs)))
  /\ bufs' = <<>> /\ i' = 1
  /\ pc' = "rx"
  /\ UNCHANGED <<program, hashVars, started, start_age, heard>>

\* Faulty variant of idle: time since the first packet, not since the last.
idle_Start == start_age

\* "check idle time against last_rx, not start_tsc"
idle == rx_age

\* A poll without packets, long enough after the last: the timer is reset, and
\* the table too except in sample.
IdleReset ==
  /\ program # "static_nat" /\ pc = "rx" /\ started /\ idle >= IDLE
  /\ started' = FALSE /\ start_age' = 0 /\ rx_age' = 0
  /\ table' = IF program = "sample" THEN table ELSE {}
  /\ UNCHANGED <<program, pc, bufs, i, nat, leaked, heard>>

\* Time passes.
Tick ==
  /\ start_age' = IF started THEN Lesser(start_age + 1, IDLE) ELSE 0
  /\ rx_age' = IF started THEN Lesser(rx_age + 1, IDLE) ELSE 0
  /\ heard' = [k \in DOMAIN heard |-> Lesser(heard[k] + 1, IDLE)]
  /\ UNCHANGED <<program, pc, bufs, i, hashVars, started, leaked>>

Next ==
  \/ nat_add_mapping \/ Configured
  \/ RxBurst \/ Process \/ TxBurst \/ IdleReset \/ Tick

-----------------------------------------------------------------------------
\* A key that was heard less than IDLE ago is in the table, whatever resets
\* there were, unless the table is full; sample keeps what it has ever heard.
\* Nothing else is in it.
RecentKnown ==
  /\ table \subseteq DOMAIN heard
  /\ Cardinality(table) < MAX_IPS =>
       \A k \in DOMAIN heard : heard[k] < IDLE \/ program = "sample" => k \in table

\* No packet leaves with a private address as its source, nor comes back to the
\* public one; and with static_nat the answer to a packet that has left reaches
\* its sender as the answer to the packet that it sent.
Answer(m) == [m EXCEPT !.src = m.dst, !.dst = m.src]
Private == IF program = "version3" THEN DOMAIN nat ELSE {PRIVATE_IP}
NothingPrivate ==
  program \in {"version3", "static_nat"} /\ pc = "tx" =>
    \A k \in DOMAIN bufs :
      LET m == bufs[k].m
          out == bufs[k].out
      IN  out.kind # "none" =>
            /\ out.src[1] \notin Private
            /\ program = "static_nat" =>
                 /\ out.dst[1] # PUBLIC_IP
                 /\ m.src[1] = PRIVATE_IP /\ m.dst[1] \notin {PRIVATE_IP, PUBLIC_IP} =>
                      Translated(Answer(out)) = Answer(m)

=============================================================================
