----------------------------- MODULE NatLazyPool -----------------------------
(***************************************************************************)
(* nat_project/version4: dynamic NAT from a pool of public addresses.      *)
(* There are no timers: a mapping that has been idle for IDLE ticks keeps  *)
(* its address until a host without one makes find_free_slot scan the      *)
(* pool, which then releases every idle mapping.                           *)
(*                                                                         *)
(* Times are kept as ages: how long ago last_seen_tsc or last_rx_tsc was   *)
(* set, counted up to the limit it is compared with.  A packet is its      *)
(* source host and the slot whose public address replaced it.  The hash    *)
(* has room for twice as many keys as there are slots, so an add succeeds. *)
(***************************************************************************)
EXTENDS Integers, Sequences

CONSTANTS
  Hosts, NotIPv4,     \* source addresses; the source of other frames
  pool_size, BURST_SIZE,
  IDLE,               \* idle_tsc, 5 s
  RESET               \* silence after which main resets its timer, 15 s

VARIABLES
  in_use, private_ip, age,   \* entries, by slot
  map,                       \* private_ip -> slot, a function on its keys
  pc, bufs, i,               \* main: its place, its burst, the loop counter
  started, rx_age            \* main's own timer

poolVars == <<in_use, private_ip, age, map>>
timerVars == <<started, rx_age>>
vars == <<poolVars, pc, bufs, i, timerVars>>

Slots == 0 .. (pool_size - 1)
NoSlot == -1        \* not translated (yet)
Dropped == -2       \* freed, and bufs[i] set to NULL
NoHost == 0         \* private_ip of a free slot

Lesser(m, n) == IF m < n THEN m ELSE n

\* nat_pool_create, and the start of main.
Init ==
  /\ in_use = {}
  /\ private_ip = [s \in Slots |-> NoHost] /\ age = [s \in Slots |-> 0]
  /\ map = [h \in {} |-> NoSlot]
  /\ pc = "rx" /\ bufs = <<>> /\ i = 1
  /\ started = FALSE /\ rx_age = 0

-----------------------------------------------------------------------------
(* find_free_slot                                                          *)

Idle == {s \in in_use : age[s] >= IDLE}
Available == (Slots \ in_use) \cup Idle
IsFirst(s, S) == s \in S /\ \A r \in S : s <= r

\* Faulty variant of Unmapped: the keys stay in the hash.
Unmapped_None == DOMAIN map

\* s is the slot that the scan returns.
find_free_slot(s) == IsFirst(s, Available)

\* The scan releases all idle mappings, from the hash too.
Release == Idle
Unmapped == DOMAIN map \ {private_ip[s] : s \in Release}

-----------------------------------------------------------------------------
(* nat_pool_apply, for one packet                                          *)

Translate(s) == bufs' = [bufs EXCEPT ![i].slot = s]

\* Anything but IPv4 is skipped.
Skip ==
  /\ bufs[i].host = NotIPv4
  /\ UNCHANGED <<poolVars, bufs>>

\* The mapping exists: it is refreshed and used.
Reuse ==
  LET h == bufs[i].host
  IN  /\ h \in DOMAIN map
      /\ age' = [age EXCEPT ![map[h]] = 0]
      /\ Translate(map[h])
      /\ UNCHANGED <<in_use, private_ip, map>>

\* No mapping: a slot is found and assigned, and the idle ones released.
Assign ==
  LET h == bufs[i].host
  IN  /\ h \in Hosts \ DOMAIN map
      /\ \E s \in Slots :
           /\ find_free_slot(s)
           /\ in_use' = (in_use \ Release) \cup {s}
           /\ private_ip' = [r \in Slots |-> IF r = s THEN h
                                             ELSE IF r \in Release THEN NoHost
                                             ELSE private_ip[r]]
           /\ age' = [r \in Slots |-> IF r \in Release \cup {s} THEN 0 ELSE age[r]]
           /\ map' = [k \in Unmapped \cup {h} |-> IF k = h THEN s ELSE map[k]]
           /\ Translate(s)

\* No slot to be found: the packet is freed.
Exhausted ==
  LET h == bufs[i].host
  IN  /\ h \in Hosts \ DOMAIN map
      /\ ~\E s \in Slots : find_free_slot(s)
      /\ Translate(Dropped)
      /\ UNCHANGED poolVars

nat_pool_apply ==
  /\ pc = "apply"
  /\ Skip \/ Reuse \/ Assign \/ Exhausted
  /\ i' = i + 1
  /\ pc' = IF i = Len(bufs) THEN "tx" ELSE "apply"
  /\ UNCHANGED timerVars

-----------------------------------------------------------------------------
(* main                                                                    *)

RxBurst ==
  /\ pc = "rx"
  /\ \E n \in 1 .. BURST_SIZE : \E hs \in [1 .. n -> Hosts \cup {NotIPv4}] :
       bufs' = [k \in 1 .. n |-> [host |-> hs[k], slot |-> NoSlot]]
  /\ i' = 1
  /\ started' = TRUE
  /\ pc' = "apply"
  /\ UNCHANGED <<poolVars, rx_age>>

\* The burst is over: last_rx_tsc is set, and all that is left is given to
\* the driver, one by one and without a look at the result.
TxBurst ==
  /\ pc = "tx"
  /\ rx_age' = 0
  /\ bufs' = <<>> /\ i' = 1
  /\ pc' = "rx"
  /\ UNCHANGED <<poolVars, started>>

\* Nothing received for long enough: main's timer is reset, the pool stays.
IdleReset ==
  /\ pc = "rx" /\ started /\ rx_age >= RESET
  /\ started' = FALSE /\ rx_age' = 0
  /\ UNCHANGED <<poolVars, pc, bufs, i>>

\* Time passes.
Tick ==
  /\ age' = [s \in Slots |-> IF s \in in_use THEN Lesser(age[s] + 1, IDLE) ELSE 0]
  /\ rx_age' = IF started THEN Lesser(rx_age + 1, RESET) ELSE 0
  /\ UNCHANGED <<in_use, private_ip, map, pc, bufs, i, started>>

Next == RxBurst \/ nat_pool_apply \/ TxBurst \/ IdleReset \/ Tick

Spec == Init /\ [][Next]_vars

-----------------------------------------------------------------------------
\* The table and the hash say the same: a host has at most one public address
\* and an address at most one host, through all releases and reassignments.
PoolConsistent ==
  /\ in_use \subseteq Slots
  /\ \A h \in DOMAIN map : map[h] \in in_use /\ private_ip[map[h]] = h
  /\ \A s \in in_use : private_ip[s] \in DOMAIN map /\ map[private_ip[s]] = s

\* "-1 only if all slots active and none expired" (static_nat.c, 95): a packet
\* is dropped only when every address was used less than IDLE ago.
DropOnlyWhenBusy ==
  [][\A k \in DOMAIN bufs :
       pc = "apply" /\ bufs[k].slot # Dropped /\ bufs'[k].slot = Dropped =>
         \A s \in Slots : s \in in_use /\ age[s] < IDLE]_vars

\* A mapping in use within the idle time stays with its host, whatever other
\* hosts do.
BusyMappingsStay ==
  [][\A s \in in_use : age[s] < IDLE => s \in in_use' /\ private_ip'[s] = private_ip[s]]_vars

=============================================================================
