------------------------------ MODULE NatPool ------------------------------
(***************************************************************************)
(* nat_project/version5 (static_nat.c and the loop of main.c): IP-only NAT *)
(* with a pool of public addresses.  One lcore runs rte_timer_manage, RX,  *)
(* nat_pool_apply and TX in turn.  Two timers release slots: expiry_timer  *)
(* (periodic, idle slots) and table_timer (single shot, re-armed by every  *)
(* burst, the whole table).                                                *)
(*                                                                         *)
(* Time is counted in ticks and passes between any two steps of the loop.  *)
(* A slot keeps its age, now - last_seen_tsc, up to the idle timeout.      *)
(***************************************************************************)
EXTENDS Integers, FiniteSets

CONSTANTS
  Sources,        \* source addresses of IPv4 packets
  NoAddr,         \* no address: private_ip of a free slot
  Destinations,   \* destination addresses the inbound map may list
  Elsewhere,      \* any other destination
  pool_size,
  IDLE_TIMEOUT, TABLE_TIMEOUT, EXPIRY_INTERVAL,
  BURST_SIZE,
  NMbufs          \* size of the mempool

ASSUME NatPoolAssumption ==
  /\ pool_size \in Nat \ {0}
  /\ IDLE_TIMEOUT \in Nat \ {0}
  /\ TABLE_TIMEOUT \in Nat \ {0}
  /\ EXPIRY_INTERVAL \in Nat \ {0}
  /\ BURST_SIZE \in Nat \ {0}
  /\ NMbufs \in Nat
  /\ NoAddr \notin Sources
  /\ Elsewhere \notin Destinations

VARIABLES
  entries,        \* slot -> [private_ip, age]; free iff private_ip = NoAddr
  outbound_map,   \* source -> slot or NoSlot
  inbound_map,    \* the public addresses with a static mapping
  expiry_timer,   \* ticks to the next expiry; negative when overdue
  table_timer,    \* ticks to the table reset; Stopped when not armed
  started,
  pc,             \* "timers", "rx", "apply" or "tx"
  todo, kept,     \* packets of the burst still to process, and still to send
  mbufs,          \* mbufs in the mempool
  refused,        \* history: mbufs the driver did not take
  silence,        \* history: ticks since the last burst, up to TABLE_TIMEOUT
  unheard         \* history: source with a mapping -> ticks since its last
                  \* packet was translated, up to IDLE_TIMEOUT

timerVars == <<expiry_timer, table_timer, started>>
historyVars == <<silence, unheard>>
loopVars == <<pc, todo, kept, mbufs, refused>>
vars == <<entries, outbound_map, inbound_map, timerVars, loopVars, historyVars>>

Slots == 0 .. (pool_size - 1)
NoSlot == -1
Stopped == -1
FreeSlot == [private_ip |-> NoAddr, age |-> 0]
InUse(s) == entries[s].private_ip # NoAddr
Saturate(n, max) == IF n < max THEN n + 1 ELSE n

\* What nat_pool_apply tells apart: not IPv4, or a source and a destination.
Packets == [ipv4 : {FALSE}] \cup
           [ipv4 : {TRUE}, src : Sources, dst : Destinations \cup {Elsewhere}]

-----------------------------------------------------------------------------
\* nat_pool_create: all slots free, expiry_timer armed, table_timer not.
nat_pool_create ==
  /\ entries = [s \in Slots |-> FreeSlot]
  /\ outbound_map = [a \in Sources |-> NoSlot]
  /\ expiry_timer = EXPIRY_INTERVAL
  /\ table_timer = Stopped
  /\ started = FALSE

\* nat_inbound_load_from_file: whatever the file lists, nothing if it cannot
\* be opened; malformed lines are skipped.
nat_inbound_load_from_file == inbound_map \in SUBSET Destinations

Init ==
  /\ nat_pool_create
  /\ nat_inbound_load_from_file
  /\ pc = "timers" /\ todo = 0 /\ kept = 0
  /\ mbufs = NMbufs /\ refused = 0
  /\ silence = 0
  /\ unheard = [a \in Sources |-> 0]

-----------------------------------------------------------------------------
\* The slots that expiry_timer_cb finds idle.
IdleSlots == {s \in Slots : InUse(s) /\ entries[s].age >= IDLE_TIMEOUT}

\* Faulty variant of expiry_timer_cb: the key stays in the map.
expiry_timer_cb_KeepKey ==
  /\ entries' = [s \in Slots |-> IF s \in IdleSlots THEN FreeSlot ELSE entries[s]]
  /\ UNCHANGED <<outbound_map, table_timer, started>>

\* expiry_timer_cb: the key of every idle slot is deleted, the slot cleared.
expiry_timer_cb ==
  /\ entries' = [s \in Slots |-> IF s \in IdleSlots THEN FreeSlot ELSE entries[s]]
  /\ outbound_map' = [a \in Sources |->
                        IF \E s \in IdleSlots : entries[s].private_ip = a
                        THEN NoSlot ELSE outbound_map[a]]
  /\ UNCHANGED <<table_timer, started>>

\* table_timer_cb: all slots cleared, the map reset, the timer spent.
table_timer_cb ==
  /\ entries' = [s \in Slots |-> FreeSlot]
  /\ outbound_map' = [a \in Sources |-> NoSlot]
  /\ table_timer' = Stopped
  /\ started' = FALSE

\* A PERIODICAL timer is re-armed one period after its last expiry time.
Rearm == expiry_timer' = IF expiry_timer <= 0 THEN expiry_timer + EXPIRY_INTERVAL
                                              ELSE expiry_timer

\* rte_timer_manage runs the callbacks of the due timers; when both are due
\* the outcome is that of table_timer_cb, in either order.
rte_timer_manage ==
  /\ pc = "timers"
  /\ \/ table_timer = 0 /\ table_timer_cb
     \/ table_timer # 0 /\ expiry_timer <= 0 /\ expiry_timer_cb
     \/ /\ table_timer # 0 /\ expiry_timer > 0
        /\ UNCHANGED <<entries, outbound_map, table_timer, started>>
  /\ Rearm
  /\ unheard' = [a \in Sources |-> IF outbound_map'[a] = NoSlot THEN 0 ELSE unheard[a]]
  /\ pc' = "rx"
  /\ UNCHANGED <<inbound_map, todo, kept, mbufs, refused, silence>>

\* Faulty variant of nat_table_timer_arm: armed by the first packet only.
nat_table_timer_arm_First ==
  table_timer' = IF started THEN table_timer ELSE TABLE_TIMEOUT

\* nat_table_timer_arm: rte_timer_reset puts the reset off.
nat_table_timer_arm == table_timer' = TABLE_TIMEOUT

\* rte_eth_rx_burst; a burst sets started and re-arms table_timer.
RxBurst ==
  /\ pc = "rx"
  /\ \E n \in 1 .. BURST_SIZE :
       /\ n <= mbufs
       /\ todo' = n
       /\ mbufs' = mbufs - n
  /\ started' = TRUE
  /\ nat_table_timer_arm
  /\ silence' = 0
  /\ pc' = "apply"
  /\ UNCHANGED <<entries, outbound_map, inbound_map, expiry_timer, kept, refused, unheard>>

\* Faulty variant of RxNothing: polls again before the timers.
RxNothing_Poll ==
  /\ pc = "rx"
  /\ pc' = "rx"
  /\ UNCHANGED <<entries, outbound_map, inbound_map, timerVars, todo, kept, mbufs,
                 refused, historyVars>>

\* No packet: nothing but the next iteration.
RxNothing ==
  /\ pc = "rx"
  /\ pc' = "timers"
  /\ UNCHANGED <<entries, outbound_map, inbound_map, timerVars, todo, kept, mbufs,
                 refused, historyVars>>

-----------------------------------------------------------------------------
(* nat_pool_apply, one packet at a time.                                   *)

Translate == todo' = todo - 1 /\ kept' = kept + 1 /\ mbufs' = mbufs

\* Not IPv4, or a destination with a static mapping: sent on, rewritten in
\* the second case.
PassOrInbound(p) ==
  /\ p.ipv4 => p.dst \in inbound_map
  /\ Translate
  /\ UNCHANGED <<entries, outbound_map, unheard>>

\* A source with a mapping: its slot is refreshed.
OutboundReuse(p) ==
  /\ p.ipv4 /\ p.dst \notin inbound_map
  /\ outbound_map[p.src] # NoSlot
  /\ Translate
  /\ entries' = [entries EXCEPT ![outbound_map[p.src]].age = 0]
  /\ unheard' = [unheard EXCEPT ![p.src] = 0]
  /\ UNCHANGED outbound_map

\* find_free_slot returns the first free slot s.
find_free_slot(s) == ~InUse(s) /\ \A t \in 0 .. (s - 1) : InUse(t)

\* A new source gets a slot.  outbound_map has room for twice the pool, so
\* the unchecked insertion succeeds.
OutboundAssign(p, slot) ==
  /\ p.ipv4 /\ p.dst \notin inbound_map
  /\ outbound_map[p.src] = NoSlot
  /\ find_free_slot(slot)
  /\ entries' = [entries EXCEPT ![slot] = [private_ip |-> p.src, age |-> 0]]
  /\ outbound_map' = [outbound_map EXCEPT ![p.src] = slot]
  /\ unheard' = [unheard EXCEPT ![p.src] = 0]
  /\ Translate

\* A new source finds the pool exhausted: the mbuf is freed, bufs[i] = NULL.
PoolExhausted(p) ==
  /\ p.ipv4 /\ p.dst \notin inbound_map
  /\ outbound_map[p.src] = NoSlot
  /\ \A s \in Slots : InUse(s)
  /\ todo' = todo - 1 /\ mbufs' = mbufs + 1
  /\ UNCHANGED <<kept, entries, outbound_map, unheard>>

nat_pool_apply(p) ==
  /\ pc = "apply"
  /\ todo > 0
  /\ \/ PassOrInbound(p) \/ OutboundReuse(p)
     \/ \E slot \in Slots : OutboundAssign(p, slot)
     \/ PoolExhausted(p)
  /\ pc' = IF todo = 1 THEN "tx" ELSE "apply"
  /\ UNCHANGED <<inbound_map, timerVars, refused, silence>>

\* One rte_eth_tx_burst per remaining mbuf.  The result is not looked at: an
\* mbuf the driver does not take is lost.
Transmit ==
  /\ pc = "tx" /\ kept > 0
  /\ kept' = kept - 1
  /\ \/ mbufs' = mbufs + 1 /\ refused' = refused
     \/ mbufs' = mbufs /\ refused' = refused + 1
  /\ UNCHANGED <<pc, entries, outbound_map, inbound_map, timerVars, todo, historyVars>>

LoopAgain ==
  /\ pc = "tx" /\ kept = 0
  /\ pc' = "timers"
  /\ UNCHANGED <<entries, outbound_map, inbound_map, timerVars, todo, kept, mbufs,
                 refused, historyVars>>

\* One tick.  A timer overdue by a whole period is as late as can matter.
Tick ==
  /\ expiry_timer' = IF expiry_timer > -EXPIRY_INTERVAL THEN expiry_timer - 1 ELSE expiry_timer
  /\ table_timer' = IF table_timer > 0 THEN table_timer - 1 ELSE table_timer
  /\ entries' = [s \in Slots |->
                   IF InUse(s) THEN [entries[s] EXCEPT !.age = Saturate(@, IDLE_TIMEOUT)]
                   ELSE entries[s]]
  /\ silence' = Saturate(silence, TABLE_TIMEOUT)
  /\ unheard' = [a \in Sources |->
                   IF outbound_map[a] # NoSlot THEN Saturate(unheard[a], IDLE_TIMEOUT)
                   ELSE unheard[a]]
  /\ UNCHANGED <<outbound_map, inbound_map, started, loopVars>>

Loop ==
  \/ rte_timer_manage \/ RxBurst \/ RxNothing
  \/ \E p \in Packets : nat_pool_apply(p)
  \/ Transmit \/ LoopAgain

Next == Loop \/ Tick

\* The lcore polls for ever, and time passes.
Spec == Init /\ [][Next]_vars /\ WF_vars(Loop) /\ WF_vars(Tick)

-----------------------------------------------------------------------------
TimerOK ==
  /\ expiry_timer \in (-EXPIRY_INTERVAL) .. EXPIRY_INTERVAL
  /\ table_timer \in {Stopped} \cup (0 .. TABLE_TIMEOUT)
  /\ started \in BOOLEAN

\* Slots, map, timers and counters have their types: in particular the map
\* only holds slot numbers of the array and no deadline is further away than
\* its timeout.
TypeOK ==
  /\ entries \in [Slots -> [private_ip : Sources \cup {NoAddr}, age : 0 .. IDLE_TIMEOUT]]
  /\ outbound_map \in [Sources -> Slots \cup {NoSlot}]
  /\ inbound_map \in SUBSET Destinations
  /\ TimerOK
  /\ pc \in {"timers", "rx", "apply", "tx"}
  /\ todo \in Nat /\ kept \in Nat /\ mbufs \in Nat /\ refused \in Nat
  /\ silence \in 0 .. TABLE_TIMEOUT
  /\ unheard \in [Sources -> 0 .. IDLE_TIMEOUT]

\* entries and outbound_map say the same: no two sources share a public
\* address, no slot is lost, and the map never holds more keys than the pool
\* has slots, so that the unchecked insertion of nat_pool_apply cannot fail.
MapMatchesSlots ==
  \A a \in Sources, s \in Slots :
    outbound_map[a] = s <=> entries[s].private_ip = a

\* A source keeps its public address until it has been unheard for
\* IDLE_TIMEOUT or the whole link silent for TABLE_TIMEOUT, whatever the two
\* timers and the other sources did in between; and it never changes slots
\* without having been released first.
MappingKept ==
  [][ \A a \in Sources :
        outbound_map[a] # NoSlot /\ outbound_map'[a] # outbound_map[a]
          => /\ outbound_map'[a] = NoSlot
             /\ unheard[a] = IDLE_TIMEOUT \/ silence = TABLE_TIMEOUT ]_vars

\* An idle slot is given back (or its source speaks again), also under
\* constant traffic of the others and on a silent link.
IdleSlotReclaimed ==
  \A s \in Slots : (InUse(s) /\ entries[s].age = IDLE_TIMEOUT)
                     ~> (~InUse(s) \/ entries[s].age < IDLE_TIMEOUT)

\* "INBOUND: dst IP in static inbound map -> translate, else drop" (comment
\* in nat_pool_apply): a packet to a public address that has no static
\* mapping is not sent on.
UnmappedInboundDropped ==
  [][ \A p \in Packets :
        (p.ipv4 /\ p.dst \in Destinations \ inbound_map /\ nat_pool_apply(p))
          => kept' = kept ]_vars

=============================================================================
