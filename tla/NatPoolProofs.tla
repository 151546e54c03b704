--------------------------- MODULE NatPoolProofs ---------------------------
(***************************************************************************)
(* Proofs about the pools of MCNatPools and the versions before them, for  *)
(* every pool size, set of hosts, set of frames and timeout.               *)
(*                                                                         *)
(* NatPool: MapMatchesSlots is inductive together with TypeOK; the action  *)
(* property MappingKept needs in addition that a slot's age and the table  *)
(* timer measure what the history variables measure (Ages, Countdown).     *)
(* NatLazyPool: the agreement of table and hash is inductive with the      *)
(* types; that a drop means a busy pool needs what the scan for a slot     *)
(* finds (FoundSlot, NoneFound).                                           *)
(* NatEarly: EarlyInv.  AllInv composes the three.                         *)
(***************************************************************************)
EXTENDS MCNatPools, FiniteSetTheorems, SequenceTheorems, WellFoundedInduction, TLAPS

\* The age of a slot is the time its source has been unheard.
Ages ==
  \A a \in Sources : outbound_map[a] # NoSlot => unheard[a] = entries[outbound_map[a]].age

\* An armed table_timer counts down from the last burst.
Countdown == table_timer # Stopped => silence + table_timer = TABLE_TIMEOUT

IInv == TypeOK /\ MapMatchesSlots /\ Ages /\ Countdown

Slot == [private_ip : Sources \cup {NoAddr}, age : 0 .. IDLE_TIMEOUT]

\* The constants NoSlot and FreeSlot against the types.
LEMMA Constants ==
  /\ NoSlot \notin Slots
  /\ FreeSlot \in Slot
  /\ FreeSlot.private_ip = NoAddr
  /\ NoAddr \notin Sources
BY NatPoolAssumption DEF NoSlot, Slots, FreeSlot, Slot

LEMMA InitHolds == Init => IInv
<1> SUFFICES ASSUME Init PROVE IInv
  OBVIOUS
<1>1. TypeOK
  <2>1. entries \in [Slots -> Slot] /\ outbound_map \in [Sources -> Slots \cup {NoSlot}]
    BY Constants DEF Init, nat_pool_create
  <2>2. TimerOK
    <3>1. started \in BOOLEAN /\ table_timer = Stopped /\ expiry_timer = EXPIRY_INTERVAL
      BY DEF Init, nat_pool_create
    <3>2. EXPIRY_INTERVAL \in (-EXPIRY_INTERVAL) .. EXPIRY_INTERVAL
      BY NatPoolAssumption
    <3> QED
      BY <3>1, <3>2 DEF TimerOK
  <2>3. silence \in 0 .. TABLE_TIMEOUT /\ unheard \in [Sources -> 0 .. IDLE_TIMEOUT]
    BY NatPoolAssumption DEF Init
  <2>4. /\ inbound_map \in SUBSET Destinations
        /\ todo \in Nat /\ kept \in Nat /\ mbufs \in Nat /\ refused \in Nat
        /\ pc \in {"timers", "rx", "apply", "tx"}
    BY NatPoolAssumption DEF Init, nat_inbound_load_from_file
  <2> QED
    BY <2>1, <2>2, <2>3, <2>4 DEF TypeOK, Slot
<1>2. MapMatchesSlots /\ Ages
  BY Constants DEF Init, nat_pool_create, MapMatchesSlots, Ages
<1> QED
  BY <1>1, <1>2 DEF IInv, Init, nat_pool_create, Countdown

-----------------------------------------------------------------------------
\* expiry_timer_cb, table_timer_cb and a call that finds no timer due.
LEMMA ManageStep == ASSUME IInv, rte_timer_manage PROVE IInv'
<1>1. TypeOK /\ MapMatchesSlots /\ Ages /\ Countdown
  BY DEF IInv
<1>2. /\ entries' \in [Slots -> Slot]
      /\ outbound_map' \in [Sources -> Slots \cup {NoSlot}]
      /\ MapMatchesSlots'
      /\ \A a \in Sources : outbound_map'[a] # NoSlot =>
           /\ outbound_map'[a] = outbound_map[a]
           /\ entries'[outbound_map[a]] = entries[outbound_map[a]]
      /\ table_timer' \in {table_timer, Stopped}
      /\ started' \in BOOLEAN
  <2>1. CASE table_timer_cb
    BY <2>1, Constants DEF table_timer_cb, MapMatchesSlots
  <2>2. CASE expiry_timer_cb
    <3>1. /\ entries' = [s \in Slots |-> IF s \in IdleSlots THEN FreeSlot ELSE entries[s]]
          /\ outbound_map' = [a \in Sources |->
                                IF \E s \in IdleSlots : entries[s].private_ip = a
                                THEN NoSlot ELSE outbound_map[a]]
          /\ UNCHANGED <<table_timer, started>>
      BY <2>2 DEF expiry_timer_cb
    <3>2. IdleSlots \subseteq Slots
      BY DEF IdleSlots
    <3>3. entries' \in [Slots -> Slot] /\ outbound_map' \in [Sources -> Slots \cup {NoSlot}]
      BY <3>1, <1>1, Constants DEF TypeOK, Slot
    <3>4. \A a \in Sources, s \in Slots : outbound_map'[a] = s <=> entries'[s].private_ip = a
      BY <3>1, <3>2, <1>1, Constants DEF MapMatchesSlots
    <3>5. \A a \in Sources : outbound_map'[a] # NoSlot =>
            /\ outbound_map'[a] = outbound_map[a]
            /\ entries'[outbound_map[a]] = entries[outbound_map[a]]
      BY <3>1, <3>2, <1>1 DEF MapMatchesSlots, TypeOK
    <3>6. started' \in BOOLEAN
      BY <3>1, <1>1 DEF TypeOK, TimerOK
    <3> QED
      BY <3>1, <3>3, <3>4, <3>5, <3>6 DEF MapMatchesSlots
  <2>3. CASE UNCHANGED <<entries, outbound_map, table_timer, started>>
    BY <2>3, <1>1 DEF TypeOK, TimerOK, Slot, MapMatchesSlots
  <2> QED
    BY <2>1, <2>2, <2>3 DEF rte_timer_manage
<1>3. unheard' = [a \in Sources |-> IF outbound_map'[a] = NoSlot THEN 0 ELSE unheard[a]]
  BY DEF rte_timer_manage
<1>4. TimerOK'
  <2>1. expiry_timer' \in (-EXPIRY_INTERVAL) .. EXPIRY_INTERVAL
    BY <1>1, NatPoolAssumption DEF rte_timer_manage, Rearm, TypeOK, TimerOK
  <2> QED
    BY <1>1, <1>2, <2>1 DEF TypeOK, TimerOK
<1>5. TypeOK'
  BY <1>1, <1>2, <1>3, <1>4, NatPoolAssumption DEF rte_timer_manage, TypeOK, Slot
<1>6. Ages'
  BY <1>1, <1>2, <1>3 DEF Ages
<1>7. Countdown'
  BY <1>1, <1>2 DEF Countdown, rte_timer_manage
<1> QED
  BY <1>2, <1>5, <1>6, <1>7 DEF IInv

\* nat_pool_apply on one packet.
LEMMA ApplyStep == ASSUME IInv, NEW p \in Packets, nat_pool_apply(p) PROVE IInv'
<1>1. TypeOK /\ MapMatchesSlots /\ Ages /\ Countdown
  BY DEF IInv
<1>2. /\ UNCHANGED <<inbound_map, timerVars, refused, silence>>
      /\ todo \in Nat \ {0} /\ pc' \in {"timers", "rx", "apply", "tx"}
  BY <1>1 DEF nat_pool_apply, TypeOK
<1>3. TimerOK' /\ Countdown'
  BY <1>1, <1>2 DEF TypeOK, TimerOK, Countdown, timerVars
<1>4. todo' \in Nat /\ kept' \in Nat /\ mbufs' \in Nat
  BY <1>1, <1>2 DEF nat_pool_apply, PassOrInbound, OutboundReuse, OutboundAssign,
                    PoolExhausted, Translate, TypeOK
<1>5. SUFFICES /\ entries' \in [Slots -> Slot]
               /\ outbound_map' \in [Sources -> Slots \cup {NoSlot}]
               /\ unheard' \in [Sources -> 0 .. IDLE_TIMEOUT]
               /\ MapMatchesSlots' /\ Ages'
  BY <1>1, <1>2, <1>3, <1>4 DEF IInv, TypeOK, Slot
<1>6. CASE PassOrInbound(p) \/ PoolExhausted(p)
  BY <1>6, <1>1 DEF PassOrInbound, PoolExhausted, TypeOK, Slot, MapMatchesSlots, Ages
<1>7. CASE OutboundReuse(p)
  <2> DEFINE s == outbound_map[p.src]
  <2>1. /\ p.src \in Sources /\ s \in Slots
        /\ entries' = [entries EXCEPT ![s].age = 0]
        /\ unheard' = [unheard EXCEPT ![p.src] = 0]
        /\ outbound_map' = outbound_map
    BY <1>7, <1>1 DEF OutboundReuse, Packets, TypeOK
  <2>2. entries' \in [Slots -> Slot] /\ unheard' \in [Sources -> 0 .. IDLE_TIMEOUT]
    BY <2>1, <1>1, NatPoolAssumption DEF TypeOK, Slot
  <2>3. \A t \in Slots : entries'[t].private_ip = entries[t].private_ip
    BY <2>1, <1>1 DEF TypeOK
  <2>4. MapMatchesSlots'
    BY <2>1, <2>3, <1>1 DEF MapMatchesSlots
  <2>5. Ages'
    <3> SUFFICES ASSUME NEW a \in Sources, outbound_map[a] # NoSlot
                 PROVE  unheard'[a] = entries'[outbound_map[a]].age
      BY <2>1 DEF Ages
    <3>1. outbound_map[a] \in Slots
      BY <1>1 DEF TypeOK
    <3>2. a # p.src => outbound_map[a] # s
      BY <3>1, <2>1, <1>1 DEF MapMatchesSlots
    <3> QED
      BY <3>1, <3>2, <2>1, <1>1 DEF TypeOK, Ages
  <2> QED
    BY <2>1, <2>2, <2>4, <2>5, <1>1 DEF TypeOK
<1>8. ASSUME NEW slot \in Slots, OutboundAssign(p, slot)
      PROVE  /\ entries' \in [Slots -> Slot]
             /\ outbound_map' \in [Sources -> Slots \cup {NoSlot}]
             /\ unheard' \in [Sources -> 0 .. IDLE_TIMEOUT]
             /\ MapMatchesSlots' /\ Ages'
  <2>1. /\ p.src \in Sources
        /\ outbound_map[p.src] = NoSlot
        /\ entries[slot].private_ip = NoAddr
        /\ entries' = [entries EXCEPT ![slot] = [private_ip |-> p.src, age |-> 0]]
        /\ outbound_map' = [outbound_map EXCEPT ![p.src] = slot]
        /\ unheard' = [unheard EXCEPT ![p.src] = 0]
    BY <1>8 DEF OutboundAssign, find_free_slot, InUse, Packets
  <2>2. /\ entries' \in [Slots -> Slot]
        /\ outbound_map' \in [Sources -> Slots \cup {NoSlot}]
        /\ unheard' \in [Sources -> 0 .. IDLE_TIMEOUT]
    BY <2>1, <1>1, NatPoolAssumption DEF TypeOK, Slot
  <2>3. MapMatchesSlots'
    BY <2>1, <1>1, Constants DEF MapMatchesSlots, TypeOK
  <2>4. Ages'
    <3> SUFFICES ASSUME NEW a \in Sources, outbound_map'[a] # NoSlot
                 PROVE  unheard'[a] = entries'[outbound_map'[a]].age
      BY DEF Ages
    <3>1. CASE a = p.src
      BY <3>1, <2>1, <1>1 DEF TypeOK
    <3>2. CASE a # p.src
      <4>1. outbound_map'[a] = outbound_map[a] /\ outbound_map[a] \in Slots
        BY <3>2, <2>1, <1>1 DEF TypeOK
      <4>2. entries[outbound_map[a]].private_ip = a
        BY <4>1, <1>1 DEF MapMatchesSlots
      <4>3. outbound_map[a] # slot
        BY <4>2, <2>1, Constants
      <4> QED
        BY <3>2, <4>1, <4>3, <2>1, <1>1 DEF TypeOK, Ages
    <3> QED
      BY <3>1, <3>2
  <2> QED
    BY <2>2, <2>3, <2>4
<1> QED
  BY <1>6, <1>7, <1>8 DEF nat_pool_apply

\* Time moves the slots' ages with unheard and table_timer against silence.
LEMMA TickStep == ASSUME IInv, Tick PROVE IInv'
<1>1. TypeOK /\ MapMatchesSlots /\ Ages /\ Countdown
  BY DEF IInv
<1>2. ASSUME NEW s \in Slots
      PROVE  /\ entries'[s] \in Slot
             /\ entries'[s].private_ip = entries[s].private_ip
             /\ InUse(s) => entries'[s].age = Saturate(entries[s].age, IDLE_TIMEOUT)
  BY <1>1, NatPoolAssumption DEF Tick, TypeOK, Slot, Saturate
<1>3. entries' \in [Slots -> Slot]
  BY <1>2 DEF Tick
<1>4. TypeOK'
  <2>1. TimerOK'
    BY <1>1, NatPoolAssumption DEF Tick, TypeOK, TimerOK, Stopped
  <2>2. silence' \in 0 .. TABLE_TIMEOUT /\ unheard' \in [Sources -> 0 .. IDLE_TIMEOUT]
    BY <1>1, NatPoolAssumption DEF Tick, TypeOK, Saturate
  <2> QED
    BY <1>1, <1>3, <2>1, <2>2 DEF Tick, TypeOK, Slot, loopVars
<1>5. MapMatchesSlots'
  BY <1>1, <1>2 DEF Tick, MapMatchesSlots
<1>6. Ages'
  <2> SUFFICES ASSUME NEW a \in Sources, outbound_map[a] # NoSlot
               PROVE  unheard'[a] = entries'[outbound_map[a]].age
    BY DEF Tick, Ages
  <2>1. outbound_map[a] \in Slots
    BY <1>1 DEF TypeOK
  <2>2. InUse(outbound_map[a])
    BY <2>1, <1>1, Constants DEF MapMatchesSlots, InUse
  <2>3. unheard'[a] = Saturate(unheard[a], IDLE_TIMEOUT)
    BY DEF Tick
  <2> QED
    BY <2>1, <2>2, <2>3, <1>1, <1>2 DEF Ages
<1>7. Countdown'
  BY <1>1, NatPoolAssumption DEF Tick, TypeOK, TimerOK, Countdown, Saturate, Stopped
<1> QED
  BY <1>4, <1>5, <1>6, <1>7 DEF IInv

\* The rest of the loop leaves slots and map alone.
LEMMA LoopStep ==
  ASSUME IInv, RxBurst \/ RxNothing \/ Transmit \/ LoopAgain \/ UNCHANGED vars
  PROVE  IInv'
<1>1. TypeOK /\ MapMatchesSlots /\ Ages /\ Countdown
  BY DEF IInv
<1>2. UNCHANGED <<entries, outbound_map, unheard>>
  BY DEF RxBurst, RxNothing, Transmit, LoopAgain, vars, historyVars
<1>3. MapMatchesSlots' /\ Ages'
  BY <1>1, <1>2 DEF MapMatchesSlots, Ages
<1>4. TimerOK' /\ Countdown' /\ silence' \in 0 .. TABLE_TIMEOUT
  <2>1. CASE RxBurst
    BY <2>1, <1>1, NatPoolAssumption
      DEF RxBurst, nat_table_timer_arm, TypeOK, TimerOK, Countdown
  <2>2. CASE UNCHANGED <<timerVars, silence>>
    BY <2>2, <1>1 DEF timerVars, TypeOK, TimerOK, Countdown
  <2> QED
    BY <2>1, <2>2 DEF RxNothing, Transmit, LoopAgain, vars, historyVars
<1>5. TypeOK'
  <2>1. CASE RxBurst
    BY <2>1, <1>1, <1>2, <1>4 DEF RxBurst, TypeOK
  <2>2. CASE RxNothing \/ Transmit \/ LoopAgain
    BY <2>2, <1>1, <1>2, <1>4 DEF RxNothing, Transmit, LoopAgain, TypeOK
  <2>3. CASE UNCHANGED vars
    BY <2>3, <1>1, <1>2, <1>4 DEF vars, loopVars, TypeOK
  <2> QED
    BY <2>1, <2>2, <2>3
<1> QED
  BY <1>3, <1>4, <1>5 DEF IInv

LEMMA StepHolds == IInv /\ [Next]_vars => IInv'
BY ManageStep, ApplyStep, TickStep, LoopStep DEF Next, Loop

-----------------------------------------------------------------------------
\* The invariant holds in every state of every behaviour.
THEOREM Invariance == Spec => []IInv
BY InitHolds, StepHolds, PTL DEF Spec

\* Slot numbers stay inside the array and deadlines inside their timeouts.
THEOREM TypeCorrect == Spec => []TypeOK
<1>1. IInv => TypeOK
  BY DEF IInv
<1> QED
  BY <1>1, Invariance, PTL

\* Slot table and map of nat_pool agree.
THEOREM MapCorrect == Spec => []MapMatchesSlots
<1>1. IInv => MapMatchesSlots
  BY DEF IInv
<1> QED
  BY <1>1, Invariance, PTL

\* Only time without packets takes a mapping away.
THEOREM MappingsStay == Spec => MappingKept
<1> DEFINE Step ==
      \A a \in Sources :
        outbound_map[a] # NoSlot /\ outbound_map'[a] # outbound_map[a]
          => /\ outbound_map'[a] = NoSlot
             /\ unheard[a] = IDLE_TIMEOUT \/ silence = TABLE_TIMEOUT
<1>1. ASSUME IInv, [Next]_vars PROVE [Step]_vars
  <2> SUFFICES ASSUME NEW a \in Sources,
                      outbound_map[a] # NoSlot, outbound_map'[a] # outbound_map[a]
               PROVE  /\ outbound_map'[a] = NoSlot
                      /\ unheard[a] = IDLE_TIMEOUT \/ silence = TABLE_TIMEOUT
    OBVIOUS
  <2>1. TypeOK /\ MapMatchesSlots /\ Ages /\ Countdown
    BY <1>1 DEF IInv
  <2>2. outbound_map[a] \in Slots /\ entries[outbound_map[a]].private_ip = a
    BY <2>1 DEF TypeOK, MapMatchesSlots
  <2>3. ASSUME NEW p \in Packets, nat_pool_apply(p) PROVE FALSE
    BY <2>1, <2>3 DEF nat_pool_apply, PassOrInbound, OutboundReuse, OutboundAssign,
                      PoolExhausted, TypeOK
  <2>4. rte_timer_manage
    BY <1>1, <2>3 DEF Next, Loop, RxBurst, RxNothing, Transmit, LoopAgain, Tick, vars
  <2>5. CASE table_timer = 0 /\ table_timer_cb
    BY <2>1, <2>5, NatPoolAssumption DEF table_timer_cb, Countdown, Stopped, TypeOK
  <2>6. CASE expiry_timer_cb
    <3>1. PICK s \in IdleSlots : entries[s].private_ip = a
      BY <2>6 DEF expiry_timer_cb
    <3>2. s \in Slots /\ outbound_map[a] = s /\ entries[s].age >= IDLE_TIMEOUT
      BY <3>1, <2>1 DEF IdleSlots, MapMatchesSlots
    <3>3. entries[s].age \in 0 .. IDLE_TIMEOUT
      BY <3>2, <2>1 DEF TypeOK
    <3>4. unheard[a] = IDLE_TIMEOUT
      BY <3>2, <3>3, <2>1, NatPoolAssumption DEF Ages
    <3>5. outbound_map'[a] = NoSlot
      BY <2>6, <3>1 DEF expiry_timer_cb
    <3> QED
      BY <3>4, <3>5
  <2> QED
    BY <2>4, <2>5, <2>6 DEF rte_timer_manage
<1> QED
  BY <1>1, Invariance, PTL DEF Spec, MappingKept

-----------------------------------------------------------------------------
(* NatLazyPool (version 4).  What the scan of find_free_slot releases is   *)
(* idle, and the slot it returns was free or is released by it.            *)

LazyPacket == [host : Sources \cup {NotIPv4}, slot : Int]

LazyType ==
  /\ in_use4 \subseteq Lazy!Slots
  /\ private_ip4 \in [Lazy!Slots -> Sources \cup {Lazy!NoHost}]
  /\ age4 \in [Lazy!Slots -> Nat]
  /\ bufs4 \in Seq(LazyPacket)
  /\ i4 \in Nat
  /\ pc4 = "apply" => i4 \in 1 .. Len(bufs4)

LazyInv == LazyType /\ Lazy!PoolConsistent

\* A set of numbers that is not empty has a least one.
LEMMA LeastNat ==
  ASSUME NEW S, S \subseteq Nat, S # {}
  PROVE  \E n \in S : \A k \in S : n <= k
<1>1. IsWellFoundedOn(OpToRel(<, Nat), Nat)
  BY NatLessThanWellFounded
<1>2. PICK n \in S : \A k \in S : ~(<<k, n>> \in OpToRel(<, Nat))
  BY <1>1, WFMin
<1>3. \A k \in S : ~(k < n)
  BY <1>2 DEF OpToRel
<1> QED
  BY <1>3

LEMMA LazyInit == Lazy!Init => LazyInv
<1> SUFFICES ASSUME Lazy!Init PROVE LazyInv
  OBVIOUS
<1>1. LazyType
  <2>1. <<>> \in Seq(LazyPacket)
    OBVIOUS
  <2>2. private_ip4 \in [Lazy!Slots -> Sources \cup {Lazy!NoHost}] /\ age4 \in [Lazy!Slots -> Nat]
    BY DEF Lazy!Init
  <2> QED
    BY <2>1, <2>2 DEF Lazy!Init, LazyType
<1>2. DOMAIN map4 = {}
  BY DEF Lazy!Init
<1> QED
  BY <1>1, <1>2 DEF LazyInv, Lazy!Init, Lazy!PoolConsistent

\* The slot found is free, or idle and therefore released.
LEMMA FoundSlot ==
  ASSUME NEW s \in Lazy!Slots, Lazy!find_free_slot(s)
  PROVE  s \notin in_use4 \ Lazy!Idle
BY DEF Lazy!find_free_slot, Lazy!IsFirst, Lazy!Available

\* None is found only when all are in use and none is idle.
LEMMA NoneFound ==
  ASSUME LazyInv, ~\E s \in Lazy!Slots : Lazy!find_free_slot(s)
  PROVE  \A s \in Lazy!Slots : s \in in_use4 /\ age4[s] < IDLE_TIMEOUT
<1>1. Lazy!Available \subseteq Lazy!Slots /\ Lazy!Slots \subseteq Nat
  <2>1. Lazy!Available \subseteq Lazy!Slots
    BY DEF LazyInv, LazyType, Lazy!Available, Lazy!Idle
  <2>2. Lazy!Slots \subseteq Nat
    BY DEF Lazy!Slots
  <2> QED
    BY <2>1, <2>2
<1>2. Lazy!Available = {}
  <2>1. SUFFICES ASSUME Lazy!Available # {} PROVE FALSE
    OBVIOUS
  <2>2. PICK s \in Lazy!Available : \A r \in Lazy!Available : s <= r
    BY <1>1, <2>1, LeastNat
  <2> QED
    BY <1>1, <2>2 DEF Lazy!find_free_slot, Lazy!IsFirst
<1>3. \A s \in Lazy!Slots : age4[s] \in Nat /\ IDLE_TIMEOUT \in Nat
  BY NatPoolAssumption DEF LazyInv, LazyType
<1> QED
  BY <1>2, <1>3 DEF Lazy!Available, Lazy!Idle

\* What Assign does to the table and to the hash.
LEMMA LazyAssign == ASSUME LazyInv, pc4 = "apply", Lazy!Assign PROVE Lazy!PoolConsistent'
<1> DEFINE h == bufs4[i4].host
<1>1. /\ in_use4 \subseteq Lazy!Slots
      /\ \A k \in DOMAIN map4 : map4[k] \in in_use4 /\ private_ip4[map4[k]] = k
      /\ \A r \in in_use4 : private_ip4[r] \in DOMAIN map4 /\ map4[private_ip4[r]] = r
  BY DEF LazyInv, Lazy!PoolConsistent
<1>2. h \in Sources \ DOMAIN map4
  BY DEF Lazy!Assign
<1>3. PICK s \in Lazy!Slots :
        /\ Lazy!find_free_slot(s)
        /\ in_use4' = (in_use4 \ Lazy!Idle) \cup {s}
        /\ private_ip4' = [r \in Lazy!Slots |-> IF r = s THEN h
                                                ELSE IF r \in Lazy!Idle THEN Lazy!NoHost
                                                ELSE private_ip4[r]]
        /\ map4' = [k \in Lazy!Unmapped \cup {h} |-> IF k = h THEN s ELSE map4[k]]
  BY DEF Lazy!Assign, Lazy!Release
<1>4. s \notin in_use4 \ Lazy!Idle /\ Lazy!Idle \subseteq in_use4
  BY <1>3, FoundSlot DEF Lazy!Idle
<1>5. Lazy!Unmapped = DOMAIN map4 \ {private_ip4[r] : r \in Lazy!Idle}
  BY DEF Lazy!Unmapped, Lazy!Release
<1> HIDE DEF h
<1>6. in_use4' \subseteq Lazy!Slots
  BY <1>1, <1>3
<1>7. /\ DOMAIN map4' = Lazy!Unmapped \cup {h} /\ map4'[h] = s
      /\ \A k \in Lazy!Unmapped : k # h /\ map4'[k] = map4[k]
  BY <1>2, <1>3, <1>5
<1>8. \A k \in Lazy!Unmapped : map4[k] \in in_use4 \ Lazy!Idle /\ map4[k] # s
  BY <1>1, <1>4, <1>5
<1>9. \A k \in DOMAIN map4' : map4'[k] \in in_use4' /\ private_ip4'[map4'[k]] = k
  <2> SUFFICES ASSUME NEW k \in DOMAIN map4'
               PROVE  map4'[k] \in in_use4' /\ private_ip4'[map4'[k]] = k
    OBVIOUS
  <2>1. CASE k = h
    BY <1>3, <1>7, <2>1
  <2>2. CASE k \in Lazy!Unmapped
    <3>1. map4'[k] = map4[k] /\ map4[k] \in Lazy!Slots /\ private_ip4[map4[k]] = k
      BY <1>1, <1>5, <1>7, <2>2
    <3>2. map4[k] \in in_use4' /\ private_ip4'[map4[k]] = private_ip4[map4[k]]
      BY <1>3, <1>8, <2>2, <3>1
    <3> QED
      BY <3>1, <3>2
  <2> QED
    BY <1>7, <2>1, <2>2
<1>10. \A r \in in_use4' : private_ip4'[r] \in DOMAIN map4' /\ map4'[private_ip4'[r]] = r
  <2> SUFFICES ASSUME NEW r \in in_use4'
               PROVE  private_ip4'[r] \in DOMAIN map4' /\ map4'[private_ip4'[r]] = r
    OBVIOUS
  <2>1. CASE r = s
    <3>1. private_ip4'[r] = h
      BY <1>3, <2>1
    <3> QED
      BY <1>7, <2>1, <3>1
  <2>2. CASE r # s
    <3>1. r \in in_use4 \ Lazy!Idle /\ private_ip4'[r] = private_ip4[r]
      BY <1>1, <1>3, <2>2
    <3>2. private_ip4[r] \in Lazy!Unmapped
      <4>1. \A q \in Lazy!Idle : private_ip4[q] # private_ip4[r]
        BY <1>1, <1>4, <3>1
      <4> QED
        BY <1>1, <1>5, <3>1, <4>1
    <3> QED
      BY <1>1, <1>7, <3>1, <3>2
  <2> QED
    BY <2>1, <2>2
<1> QED
  BY <1>6, <1>9, <1>10 DEF Lazy!PoolConsistent

LEMMA LazyApply == ASSUME LazyInv, Lazy!nat_pool_apply PROVE LazyInv'
<1>1. /\ LazyType /\ pc4 = "apply" /\ i4 \in 1 .. Len(bufs4) /\ i4' = i4 + 1 /\ i4 \in Nat
      /\ pc4' = IF i4 = Len(bufs4) THEN "tx" ELSE "apply"
  BY DEF Lazy!nat_pool_apply, LazyInv, LazyType
<1>2. bufs4 \in Seq(LazyPacket) /\ bufs4[i4] \in LazyPacket /\ Len(bufs4) \in Nat
  BY <1>1, ElementOfSeq, LenProperties DEF LazyType
<1>3. ASSUME NEW s \in Int, bufs4' = [bufs4 EXCEPT ![i4].slot = s]
      PROVE  bufs4' \in Seq(LazyPacket) /\ Len(bufs4') = Len(bufs4)
  <2>1. [bufs4[i4] EXCEPT !.slot = s] \in LazyPacket
    BY <1>2 DEF LazyPacket
  <2>2. bufs4' = [bufs4 EXCEPT ![i4] = [bufs4[i4] EXCEPT !.slot = s]]
    BY <1>3
  <2> QED
    BY <1>1, <1>2, <2>1, <2>2, ExceptSeq
<1>4. ASSUME bufs4' \in Seq(LazyPacket), Len(bufs4') = Len(bufs4)
      PROVE  /\ bufs4' \in Seq(LazyPacket) /\ i4' \in Nat
             /\ pc4' = "apply" => i4' \in 1 .. Len(bufs4')
  BY <1>1, <1>2, <1>4
<1>5. CASE Lazy!Skip
  <2>1. UNCHANGED <<in_use4, private_ip4, age4, map4, bufs4>>
    BY <1>5 DEF Lazy!Skip, Lazy!poolVars
  <2> QED
    BY <1>1, <1>2, <1>4, <2>1 DEF LazyInv, LazyType, Lazy!PoolConsistent
<1>6. CASE Lazy!Reuse
  <2> DEFINE h == bufs4[i4].host
  <2>1. h \in DOMAIN map4 /\ map4[h] \in Lazy!Slots /\ map4[h] \in Int
    <3>1. h \in DOMAIN map4 /\ map4[h] \in Lazy!Slots
      BY <1>6 DEF Lazy!Reuse, LazyInv, Lazy!PoolConsistent
    <3> QED
      BY <3>1 DEF Lazy!Slots
  <2>2. /\ UNCHANGED <<in_use4, private_ip4, map4>> /\ age4' = [age4 EXCEPT ![map4[h]] = 0]
        /\ bufs4' = [bufs4 EXCEPT ![i4].slot = map4[h]]
    BY <1>6 DEF Lazy!Reuse, Lazy!Translate
  <2>3. bufs4' \in Seq(LazyPacket) /\ Len(bufs4') = Len(bufs4)
    BY <1>3, <2>1, <2>2
  <2>4. age4' \in [Lazy!Slots -> Nat]
    BY <1>1, <2>2 DEF LazyType
  <2> QED
    BY <1>1, <1>4, <2>2, <2>3, <2>4 DEF LazyInv, LazyType, Lazy!PoolConsistent
<1>7. CASE Lazy!Assign
  <2>1. Lazy!PoolConsistent'
    BY <1>1, <1>7, LazyAssign
  <2>2. PICK s \in Lazy!Slots :
          /\ private_ip4' = [r \in Lazy!Slots |-> IF r = s THEN bufs4[i4].host
                                                  ELSE IF r \in Lazy!Release THEN Lazy!NoHost
                                                  ELSE private_ip4[r]]
          /\ age4' = [r \in Lazy!Slots |-> IF r \in Lazy!Release \cup {s} THEN 0 ELSE age4[r]]
          /\ bufs4' = [bufs4 EXCEPT ![i4].slot = s]
    BY <1>7 DEF Lazy!Assign, Lazy!Translate
  <2>3. s \in Int /\ bufs4[i4].host \in Sources
    BY <1>7 DEF Lazy!Assign, Lazy!Slots
  <2>4. bufs4' \in Seq(LazyPacket) /\ Len(bufs4') = Len(bufs4)
    BY <1>3, <2>2, <2>3
  <2>5. /\ private_ip4' \in [Lazy!Slots -> Sources \cup {Lazy!NoHost}]
        /\ age4' \in [Lazy!Slots -> Nat]
    BY <1>1, <2>2, <2>3 DEF LazyType
  <2> QED
    BY <1>4, <2>1, <2>4, <2>5 DEF LazyInv, LazyType, Lazy!PoolConsistent
<1>8. CASE Lazy!Exhausted
  <2>1. /\ UNCHANGED <<in_use4, private_ip4, age4, map4>>
        /\ bufs4' = [bufs4 EXCEPT ![i4].slot = Lazy!Dropped] /\ Lazy!Dropped \in Int
    BY <1>8 DEF Lazy!Exhausted, Lazy!Translate, Lazy!poolVars, Lazy!Dropped
  <2>2. bufs4' \in Seq(LazyPacket) /\ Len(bufs4') = Len(bufs4)
    BY <1>3, <2>1
  <2> QED
    BY <1>1, <1>4, <2>1, <2>2 DEF LazyInv, LazyType, Lazy!PoolConsistent
<1> QED
  BY <1>5, <1>6, <1>7, <1>8 DEF Lazy!nat_pool_apply

LEMMA LazyStep == ASSUME LazyInv, Lazy!Next PROVE LazyInv'
<1>1. CASE Lazy!RxBurst
  <2>1. PICK n \in 1 .. LazyBurst : \E hs \in [1 .. n -> Sources \cup {NotIPv4}] :
          bufs4' = [k \in 1 .. n |-> [host |-> hs[k], slot |-> Lazy!NoSlot]]
    BY <1>1 DEF Lazy!RxBurst
  <2>2. n \in Nat /\ n >= 1 /\ Lazy!NoSlot \in Int
    BY DEF Lazy!NoSlot
  <2>3. bufs4' \in [1 .. n -> LazyPacket]
    BY <2>1, <2>2 DEF LazyPacket
  <2>4. bufs4' \in Seq(LazyPacket) /\ Len(bufs4') = n
    BY <2>2, <2>3
  <2> QED
    BY <1>1, <2>2, <2>4 DEF Lazy!RxBurst, Lazy!poolVars, LazyInv, LazyType, Lazy!PoolConsistent
<1>2. CASE Lazy!TxBurst
  <2>1. bufs4' \in Seq(LazyPacket) /\ i4' \in Nat
    BY <1>2 DEF Lazy!TxBurst
  <2> QED
    BY <1>2, <2>1 DEF Lazy!TxBurst, Lazy!poolVars, LazyInv, LazyType, Lazy!PoolConsistent
<1>3. CASE Lazy!IdleReset
  BY <1>3 DEF Lazy!IdleReset, Lazy!poolVars, LazyInv, LazyType, Lazy!PoolConsistent
<1>4. CASE Lazy!Tick
  <2>1. age4' \in [Lazy!Slots -> Nat]
    BY <1>4, NatPoolAssumption DEF Lazy!Tick, Lazy!Lesser, LazyInv, LazyType
  <2> QED
    BY <1>4, <2>1 DEF Lazy!Tick, LazyInv, LazyType, Lazy!PoolConsistent
<1> QED
  BY <1>1, <1>2, <1>3, <1>4, LazyApply DEF Lazy!Next

\* A mapping in use within the idle time survives any step.
LEMMA LazyBusy ==
  ASSUME LazyInv, Lazy!Next, NEW s \in in_use4, age4[s] < IDLE_TIMEOUT
  PROVE  s \in in_use4' /\ private_ip4'[s] = private_ip4[s]
<1>1. s \in Lazy!Slots /\ s \notin Lazy!Idle
  <2>1. s \in Lazy!Slots /\ age4[s] \in Nat /\ IDLE_TIMEOUT \in Nat
    BY NatPoolAssumption DEF LazyInv, LazyType
  <2> QED
    BY <2>1 DEF Lazy!Idle
<1>2. CASE Lazy!nat_pool_apply /\ Lazy!Assign
  <2>1. PICK r \in Lazy!Slots :
          /\ Lazy!find_free_slot(r)
          /\ in_use4' = (in_use4 \ Lazy!Idle) \cup {r}
          /\ private_ip4' = [q \in Lazy!Slots |-> IF q = r THEN bufs4[i4].host
                                                  ELSE IF q \in Lazy!Idle THEN Lazy!NoHost
                                                  ELSE private_ip4[q]]
    BY <1>2 DEF Lazy!Assign, Lazy!Release
  <2>2. s # r
    BY <1>1, <2>1, FoundSlot
  <2> QED
    BY <1>1, <2>1, <2>2
<1>3. CASE UNCHANGED <<in_use4, private_ip4>>
  BY <1>3
<1> QED
  BY <1>2, <1>3 DEF Lazy!Next, Lazy!nat_pool_apply, Lazy!Skip, Lazy!Reuse, Lazy!Exhausted,
     Lazy!RxBurst, Lazy!TxBurst, Lazy!IdleReset, Lazy!Tick, Lazy!poolVars

\* A packet is dropped only when every slot is busy.
LEMMA LazyDrop ==
  ASSUME LazyInv, Lazy!Next, NEW k \in DOMAIN bufs4, pc4 = "apply",
         bufs4[k].slot # Lazy!Dropped, bufs4'[k].slot = Lazy!Dropped
  PROVE  \A s \in Lazy!Slots : s \in in_use4 /\ age4[s] < IDLE_TIMEOUT
<1>1. bufs4 \in Seq(LazyPacket) /\ DOMAIN bufs4 = 1 .. Len(bufs4) /\ i4 \in DOMAIN bufs4
  BY LenProperties DEF LazyInv, LazyType
<1>2. ASSUME NEW s \in Lazy!Slots, bufs4' = [bufs4 EXCEPT ![i4].slot = s] PROVE FALSE
  <2>1. s # Lazy!Dropped
    BY DEF Lazy!Slots, Lazy!Dropped
  <2>2. bufs4[i4] \in LazyPacket
    BY <1>1, ElementOfSeq
  <2>3. bufs4'[i4].slot = s /\ \A j \in DOMAIN bufs4 : j # i4 => bufs4'[j] = bufs4[j]
    BY <1>1, <1>2, <2>2 DEF LazyPacket
  <2> QED
    BY <2>1, <2>3
<1>3. CASE Lazy!Reuse
  <2>1. map4[bufs4[i4].host] \in Lazy!Slots
    BY <1>3 DEF Lazy!Reuse, LazyInv, Lazy!PoolConsistent
  <2> QED
    BY <1>2, <1>3, <2>1 DEF Lazy!Reuse, Lazy!Translate
<1>4. CASE Lazy!Assign
  BY <1>2, <1>4 DEF Lazy!Assign, Lazy!Translate
<1>5. CASE Lazy!Exhausted
  BY <1>5, NoneFound DEF Lazy!Exhausted
<1> QED
  BY <1>3, <1>4, <1>5 DEF Lazy!Next, Lazy!nat_pool_apply, Lazy!Skip, Lazy!RxBurst, Lazy!TxBurst,
     Lazy!IdleReset, Lazy!Tick

-----------------------------------------------------------------------------
(* NatEarly.  While main polls, nothing was heard later than last_rx_tsc,  *)
(* so that a reset after an idle time forgets only what is old enough.     *)

EarlyTable ==
  /\ table3 \subseteq DOMAIN heard /\ IsFiniteSet(table3)
  /\ \A k \in DOMAIN heard : heard[k] \in Nat
  /\ Cardinality(table3) < MAX_IPS =>
       \A k \in DOMAIN heard : heard[k] < IDLE_TIMEOUT \/ program = "sample" => k \in table3

EarlyTimes ==
  /\ rx_age3 \in Nat
  /\ pc3 = "rx" => \A k \in DOMAIN heard : heard[k] >= rx_age3
  /\ program \in {"version3", "static_nat"} => DOMAIN heard = {}
  /\ pc3 = "config" => program = "version3"

\* What was entered: private addresses to public ones, which are not private.
EarlyNat ==
  /\ \A p \in DOMAIN nat3 : \E l \in Lines : l[1] = p
  /\ \A p \in DOMAIN nat3 : \E l \in Lines : l[2] = nat3[p]

\* What is done to a packet of the burst: it leaves as out.
EarlyDone(m, out) ==
  /\ program = "version3" => out.kind = "none" \/ out.src[1] \notin DOMAIN nat3
  /\ program = "static_nat" => out = Early!Translated(m)

EarlyBurst ==
  /\ i3 \in Nat
  /\ pc3 \in {"process", "tx"} =>
       /\ Len(bufs3) \in Nat /\ DOMAIN bufs3 = 1 .. Len(bufs3)
       /\ i3 \in 1 .. (Len(bufs3) + 1)
       /\ pc3 = "process" => i3 <= Len(bufs3)
       /\ pc3 = "tx" => i3 = Len(bufs3) + 1
       /\ \A k \in DOMAIN bufs3 : /\ bufs3[k] = [m |-> bufs3[k].m, out |-> bufs3[k].out]
                                  /\ bufs3[k].m \in Frames
       /\ \A k \in 1 .. (i3 - 1) : EarlyDone(bufs3[k].m, bufs3[k].out)
       /\ \A k \in i3 .. Len(bufs3) : bufs3[k].out = bufs3[k].m

EarlyInv == EarlyTable /\ EarlyTimes /\ EarlyNat /\ EarlyBurst

LEMMA EarlyInit == Early!Init => EarlyInv
<1> SUFFICES ASSUME Early!Init PROVE EarlyInv
  OBVIOUS
<1>1. DOMAIN heard = {} /\ DOMAIN nat3 = {} /\ table3 = {} /\ IsFiniteSet({})
  BY FS_EmptySet DEF Early!Init
<1>2. pc3 \in {"config", "rx"} /\ (pc3 = "config" => program = "version3")
  BY DEF Early!Init
<1>3. i3 = 1 /\ rx_age3 = 0
  BY DEF Early!Init
<1> QED
  BY <1>1, <1>2, <1>3 DEF EarlyInv, EarlyTable, EarlyTimes, EarlyNat, EarlyBurst

\* Adding a key: it is there unless the table is full.
LEMMA AddKey ==
  ASSUME NEW T, NEW k, IsFiniteSet(T)
  PROVE  /\ IsFiniteSet(Early!Add(T, k)) /\ T \subseteq Early!Add(T, k)
         /\ Early!Add(T, k) \subseteq T \cup {k}
         /\ Cardinality(T) \in Nat /\ Cardinality(Early!Add(T, k)) \in Nat
         /\ Cardinality(T) <= Cardinality(Early!Add(T, k))
         /\ Cardinality(Early!Add(T, k)) < MAX_IPS => k \in Early!Add(T, k)
<1>1. Early!Cardinality(T) = Cardinality(T)
  BY DEF Cardinality, Early!Cardinality
<1>2. Early!Add(T, k) = IF Cardinality(T) < MAX_IPS THEN T \cup {k} ELSE T
  BY <1>1 DEF Early!Add
<1>3. IsFiniteSet(T \cup {k}) /\ Cardinality(T) \in Nat /\ Cardinality(T \cup {k}) \in Nat
  BY FS_AddElement, FS_CardinalityType
<1>4. Cardinality(T) <= Cardinality(T \cup {k})
  BY <1>3, FS_Subset
<1>5. CASE Cardinality(T) < MAX_IPS
  BY <1>2, <1>3, <1>4, <1>5
<1>6. CASE ~(Cardinality(T) < MAX_IPS)
  BY <1>2, <1>3, <1>6
<1> QED
  BY <1>5, <1>6

\* hash_ips keeps the table.
LEMMA EarlyHash ==
  ASSUME EarlyTable, Early!hash_ips, program' = program
  PROVE  EarlyTable'
<1> DEFINE keys == Early!Keys(bufs3[i3].m)
<1>1. /\ table3 \subseteq DOMAIN heard /\ IsFiniteSet(table3) /\ MAX_IPS \in Nat
      /\ \A k \in DOMAIN heard : heard[k] \in Nat
      /\ Cardinality(table3) < MAX_IPS =>
           \A k \in DOMAIN heard : heard[k] < IDLE_TIMEOUT \/ program = "sample" => k \in table3
  BY EarlyAssumption DEF EarlyTable
<1>2. /\ table3' = IF keys = <<>> THEN table3 ELSE Early!Add(Early!Add(table3, keys[1]), keys[2])
      /\ heard' = [k \in DOMAIN heard \cup {keys[j] : j \in DOMAIN keys} |->
                     IF \E j \in DOMAIN keys : keys[j] = k THEN 0 ELSE heard[k]]
  BY DEF Early!hash_ips
<1>3. keys = <<>> \/ \E a, b : keys = <<a, b>>
  BY DEF Early!Keys
<1> HIDE DEF keys
<1>4. CASE keys = <<>>
  <2>1. DOMAIN keys = {}
    BY <1>4
  <2>2. table3' = table3 /\ DOMAIN heard' = DOMAIN heard /\ \A k \in DOMAIN heard : heard'[k] = heard[k]
    BY <1>2, <1>4, <2>1
  <2> QED
    BY <1>1, <2>2 DEF EarlyTable
<1>5. ASSUME NEW a, NEW b, keys = <<a, b>> PROVE EarlyTable'
  <2>1. DOMAIN keys = {1, 2} /\ keys[1] = a /\ keys[2] = b /\ keys # <<>>
    BY <1>5
  <2>2. /\ DOMAIN heard' = DOMAIN heard \cup {a, b}
        /\ \A k \in DOMAIN heard' : heard'[k] = IF k \in {a, b} THEN 0 ELSE heard[k]
    BY <1>2, <2>1
  <2> DEFINE T1 == Early!Add(table3, a)
             T2 == Early!Add(T1, b)
  <2>3. table3' = T2
    BY <1>2, <2>1
  <2>4. /\ IsFiniteSet(T1) /\ table3 \subseteq T1 /\ T1 \subseteq table3 \cup {a}
        /\ Cardinality(table3) \in Nat /\ Cardinality(T1) \in Nat
        /\ Cardinality(table3) <= Cardinality(T1)
        /\ Cardinality(T1) < MAX_IPS => a \in T1
    BY <1>1, AddKey
  <2> HIDE DEF T1
  <2>5. /\ IsFiniteSet(T2) /\ T1 \subseteq T2 /\ T2 \subseteq T1 \cup {b}
        /\ Cardinality(T2) \in Nat /\ Cardinality(T1) <= Cardinality(T2)
        /\ Cardinality(T2) < MAX_IPS => b \in T2
    BY <2>4, AddKey
  <2> HIDE DEF T2
  <2>6. T2 \subseteq DOMAIN heard'
    BY <1>1, <2>2, <2>4, <2>5
  <2>7. \A k \in DOMAIN heard' : heard'[k] \in Nat
    BY <1>1, <2>2
  <2>8. ASSUME Cardinality(T2) < MAX_IPS, NEW k \in DOMAIN heard',
               heard'[k] < IDLE_TIMEOUT \/ program = "sample"
        PROVE  k \in T2
    <3>1. Cardinality(T1) < MAX_IPS /\ Cardinality(table3) < MAX_IPS
      BY <1>1, <2>4, <2>5, <2>8
    <3>2. CASE k \in {a, b}
      BY <2>4, <2>5, <2>8, <3>1, <3>2
    <3>3. CASE k \notin {a, b}
      BY <1>1, <2>2, <2>4, <2>5, <2>8, <3>1, <3>3
    <3> QED
      BY <3>2, <3>3
  <2> QED
    BY <2>3, <2>5, <2>6, <2>7, <2>8 DEF EarlyTable
<1> QED
  BY <1>3, <1>4, <1>5

\* Replacing both ends of a frame.
LEMMA BothEnds ==
  ASSUME NEW k, NEW s0, NEW d0, NEW s, NEW d
  PROVE  [[kind |-> k, src |-> s0, dst |-> d0] EXCEPT !.src = s, !.dst = d]
           = [kind |-> k, src |-> s, dst |-> d]
<1> DEFINE m == [kind |-> k, src |-> s0, dst |-> d0]
           f == [m EXCEPT !.src = s, !.dst = d]
           g == [kind |-> k, src |-> s, dst |-> d]
<1>1. DOMAIN f = DOMAIN g
  OBVIOUS
<1>2. DOMAIN g = {"kind", "src", "dst"}
  OBVIOUS
<1>3. f["kind"] = g["kind"] /\ f["src"] = g["src"] /\ f["dst"] = g["dst"]
  OBVIOUS
<1>4. f = [x \in DOMAIN f |-> f[x]] /\ g = [x \in DOMAIN g |-> g[x]]
  OBVIOUS
<1> HIDE DEF f, g
<1>5. \A x \in DOMAIN g : f[x] = g[x]
  BY <1>2, <1>3
<1>6. f = g
  BY <1>1, <1>4, <1>5
<1> QED
  BY <1>6 DEF f, g

\* simulate_nat, field by field.
LEMMA TranslatedIs ==
  ASSUME NEW k, k # "none", NEW a, NEW b, NEW c, NEW e
  PROVE  Early!Translated([kind |-> k, src |-> <<a, b>>, dst |-> <<c, e>>])
           = [kind |-> k, src |-> <<IF a = PRIVATE_IP THEN PUBLIC_IP ELSE a, b>>,
                          dst |-> <<IF c = PUBLIC_IP THEN PRIVATE_IP ELSE c, e>>]
<1> DEFINE m == [kind |-> k, src |-> <<a, b>>, dst |-> <<c, e>>]
           x == IF a = PRIVATE_IP THEN PUBLIC_IP ELSE a
           y == IF c = PUBLIC_IP THEN PRIVATE_IP ELSE c
<1>1. Early!Translated(m) = [m EXCEPT !.src[1] = x, !.dst[1] = y]
  BY DEF Early!Translated
<1> HIDE DEF x, y
<1>2. [<<a, b>> EXCEPT ![1] = x] = <<x, b>> /\ [<<c, e>> EXCEPT ![1] = y] = <<y, e>>
  OBVIOUS
<1>3. [m EXCEPT !.src[1] = x, !.dst[1] = y] = [kind |-> k, src |-> <<x, b>>, dst |-> <<y, e>>]
  <2>1. m.src = <<a, b>> /\ m.dst = <<c, e>>
    OBVIOUS
  <2> DEFINE f == [m EXCEPT !.src[1] = x, !.dst[1] = y]
             g == [kind |-> k, src |-> <<x, b>>, dst |-> <<y, e>>]
  <2>2. [m.src EXCEPT ![1] = x] = g.src /\ [m.dst EXCEPT ![1] = y] = g.dst
    BY <1>2, <2>1
  <2>3. DOMAIN m = {"kind", "src", "dst"} /\ DOMAIN g = {"kind", "src", "dst"} /\ m.kind = g.kind
    OBVIOUS
  <2>4. f = [z \in DOMAIN f |-> f[z]] /\ g = [z \in DOMAIN g |-> g[z]]
    OBVIOUS
  <2> HIDE DEF m, g
  <2>5. DOMAIN f = DOMAIN m /\ f["kind"] = m.kind /\ f["src"] = [m.src EXCEPT ![1] = x]
        /\ f["dst"] = [m.dst EXCEPT ![1] = y]
    BY <2>3
  <2> HIDE DEF f
  <2>6. \A z \in DOMAIN g : f[z] = g[z]
    BY <2>2, <2>3, <2>5
  <2>7. f = g
    BY <2>3, <2>4, <2>5, <2>6
  <2> QED
    BY <2>7 DEF f, g
<1> QED
  BY <1>1, <1>3 DEF x, y

\* The answer of a frame.
LEMMA AnswerIs ==
  ASSUME NEW k, NEW s, NEW d
  PROVE  Early!Answer([kind |-> k, src |-> s, dst |-> d]) = [kind |-> k, src |-> d, dst |-> s]
<1> DEFINE m == [kind |-> k, src |-> s, dst |-> d]
<1>1. m.src = s /\ m.dst = d
  OBVIOUS
<1>2. Early!Answer(m) = [m EXCEPT !.src = d, !.dst = s]
  BY <1>1 DEF Early!Answer
<1> QED
  BY <1>2, BothEnds

\* What leaves through simulate_nat, and what its answer becomes.
LEMMA StaticAnswers ==
  ASSUME NEW m \in Frames, m.kind # "none"
  PROVE  /\ Early!Translated(m).kind # "none"
         /\ Early!Translated(m).src[1] # PRIVATE_IP
         /\ Early!Translated(m).dst[1] # PUBLIC_IP
         /\ m.src[1] = PRIVATE_IP /\ m.dst[1] \notin {PRIVATE_IP, PUBLIC_IP} =>
              Early!Translated(Early!Answer(Early!Translated(m))) = Early!Answer(m)
<1> DEFINE k == m.kind  a == m.src[1]  b == m.src[2]  c == m.dst[1]  e == m.dst[2]
           x == IF a = PRIVATE_IP THEN PUBLIC_IP ELSE a
           y == IF c = PUBLIC_IP THEN PRIVATE_IP ELSE c
           out == [kind |-> k, src |-> <<x, b>>, dst |-> <<y, e>>]
<1>1. PRIVATE_IP # PUBLIC_IP /\ m = [kind |-> k, src |-> <<a, b>>, dst |-> <<c, e>>]
  BY EarlyAssumption
<1>2. x # PRIVATE_IP /\ y # PUBLIC_IP
  BY <1>1
<1> HIDE DEF k, a, b, c, e, x, y
<1>3. k # "none"
  BY DEF k
<1>4. Early!Translated(m) = out
  BY <1>1, <1>3, TranslatedIs DEF x, y
<1>5. out.kind = k /\ out.src[1] = x /\ out.dst[1] = y
  OBVIOUS
<1>6. ASSUME a = PRIVATE_IP, c \notin {PRIVATE_IP, PUBLIC_IP}
      PROVE  Early!Translated(Early!Answer(out)) = Early!Answer(m)
  <2>1. x = PUBLIC_IP /\ y = c
    BY <1>6 DEF x, y
  <2>2. Early!Answer(out) = [kind |-> k, src |-> <<c, e>>, dst |-> <<PUBLIC_IP, b>>]
    BY <2>1, AnswerIs
  <2>3. Early!Translated(Early!Answer(out))
          = [kind |-> k, src |-> <<c, e>>, dst |-> <<PRIVATE_IP, b>>]
    BY <1>3, <1>6, <2>2, TranslatedIs
  <2>4. Early!Answer(m) = [kind |-> k, src |-> <<c, e>>, dst |-> <<a, b>>]
    BY <1>1, AnswerIs
  <2> QED
    BY <1>6, <2>3, <2>4
<1>7. m.src[1] = a /\ m.dst[1] = c
  BY DEF a, c
<1> QED
  BY <1>2, <1>3, <1>4, <1>5, <1>6, <1>7

LEMMA EarlyProcess == ASSUME EarlyInv, Early!Process PROVE EarlyInv'
<1>1. /\ pc3 = "process" /\ i3' = i3 + 1 /\ pc3' = IF i3 = Len(bufs3) THEN "tx" ELSE "process"
      /\ UNCHANGED <<program, rx_age3, nat3>>
  BY DEF Early!Process, Early!timerVars, Early!hash_ips, Early!nat_apply, Early!simulate_nat,
     Early!hashVars
<1>2. /\ i3 \in Nat /\ Len(bufs3) \in Nat /\ DOMAIN bufs3 = 1 .. Len(bufs3)
      /\ i3 \in 1 .. (Len(bufs3) + 1) /\ i3 <= Len(bufs3)
      /\ \A k \in DOMAIN bufs3 : /\ bufs3[k] = [m |-> bufs3[k].m, out |-> bufs3[k].out]
                                 /\ bufs3[k].m \in Frames
      /\ \A k \in 1 .. (i3 - 1) : EarlyDone(bufs3[k].m, bufs3[k].out)
      /\ \A k \in i3 .. Len(bufs3) : bufs3[k].out = bufs3[k].m
  BY <1>1 DEF EarlyInv, EarlyBurst
<1> DEFINE m == bufs3[i3].m
<1>3. /\ i3 \in DOMAIN bufs3 /\ bufs3[i3] = [m |-> m, out |-> bufs3[i3].out]
      /\ bufs3[i3].out = m /\ m \in Frames
  BY <1>2
<1>4. m = [kind |-> m.kind, src |-> <<m.src[1], m.src[2]>>, dst |-> <<m.dst[1], m.dst[2]>>]
  BY <1>3, EarlyAssumption
<1>5. EarlyTable' /\ EarlyTimes'
  <2>1. CASE Early!hash_ips
    BY <1>1, <2>1, EarlyHash DEF EarlyInv, EarlyTimes, Early!hash_ips
  <2>2. CASE UNCHANGED <<table3, heard>>
    BY <1>1, <2>2 DEF EarlyInv, EarlyTable, EarlyTimes
  <2> QED
    BY <2>1, <2>2 DEF Early!Process, Early!nat_apply, Early!simulate_nat, Early!hashVars
<1>6. EarlyNat'
  BY <1>1 DEF EarlyInv, EarlyNat
<1> DEFINE Handled(out) ==
             /\ Len(bufs3') = Len(bufs3) /\ DOMAIN bufs3' = DOMAIN bufs3
             /\ \A k \in DOMAIN bufs3 : k # i3 => bufs3'[k] = bufs3[k]
             /\ bufs3'[i3] = [m |-> m, out |-> out]
<1>7. ASSUME NEW out, Early!Rewrite(out) PROVE Handled(out)
  <2>1. bufs3' = [bufs3 EXCEPT ![i3] = [bufs3[i3] EXCEPT !.out = out]]
    BY <1>7 DEF Early!Rewrite
  <2>2. [bufs3[i3] EXCEPT !.out = out] = [m |-> m, out |-> out]
    <3>1. ASSUME NEW x, NEW y PROVE [[m |-> x, out |-> y] EXCEPT !.out = out] = [m |-> x, out |-> out]
      OBVIOUS
    <3> HIDE DEF m
    <3> QED
      BY <1>3, <3>1
  <2>3. DOMAIN bufs3' = DOMAIN bufs3
    BY <2>1
  <2>4. Len(bufs3') = Len(bufs3)
    BY <1>2, <2>3
  <2>5. bufs3'[i3] = [m |-> m, out |-> out]
    BY <1>3, <2>1, <2>2
  <2> QED
    BY <2>1, <2>3, <2>4, <2>5
<1>8. ASSUME UNCHANGED bufs3 PROVE Handled(m)
  BY <1>3, <1>8
<1>9. \E out : Handled(out) /\ EarlyDone(m, out)
  <2>1. CASE Early!hash_ips
    <3>1. Handled(m)
      BY <1>8, <2>1 DEF Early!hash_ips
    <3>2. EarlyDone(m, m)
      BY <2>1 DEF Early!hash_ips, EarlyDone
    <3> QED
      BY <3>1, <3>2
  <2>2. CASE Early!nat_apply
    <3>1. program = "version3"
      BY <2>2 DEF Early!nat_apply
    <3>2. CASE m.kind = "none" \/ m.src[1] \notin DOMAIN nat3
      <4>1. Handled(m)
        BY <1>8, <2>2, <3>2 DEF Early!nat_apply
      <4>2. EarlyDone(m, m)
        BY <3>1, <3>2 DEF EarlyDone
      <4> QED
        BY <4>1, <4>2
    <3>3. CASE ~(m.kind = "none" \/ m.src[1] \notin DOMAIN nat3)
      <4> DEFINE out == [m EXCEPT !.src[1] = nat3[m.src[1]]]
      <4>1. Handled(out)
        BY <1>7, <2>2, <3>3 DEF Early!nat_apply
      <4>2. nat3[m.src[1]] \notin DOMAIN nat3
        BY <3>3, EarlyAssumption DEF EarlyInv, EarlyNat
      <4>3. out.src[1] = nat3[m.src[1]]
        <5>1. ASSUME NEW k, NEW a, NEW b, NEW d, NEW x,
                     m = [kind |-> k, src |-> <<a, b>>, dst |-> d]
              PROVE  [m EXCEPT !.src[1] = x].src[1] = x
          <6>1. m.src = <<a, b>> /\ "src" \in DOMAIN m
            BY <5>1
          <6>2. [m EXCEPT !.src[1] = x].src = [m.src EXCEPT ![1] = x]
            BY <6>1
          <6> QED
            BY <6>1, <6>2
        <5> QED
          BY <1>4, <5>1
      <4>4. EarlyDone(m, out)
        BY <3>1, <4>2, <4>3 DEF EarlyDone
      <4> HIDE DEF out
      <4> QED
        BY <4>1, <4>4
    <3> QED
      BY <3>2, <3>3
  <2>3. CASE Early!simulate_nat
    <3>1. Early!Rewrite(Early!Translated(m)) /\ program = "static_nat"
      BY <2>3 DEF Early!simulate_nat
    <3>2. EarlyDone(m, Early!Translated(m))
      BY <3>1 DEF EarlyDone
    <3>3. Handled(Early!Translated(m))
      BY <1>7, <3>1
    <3> QED
      BY <3>2, <3>3
  <2> QED
    BY <2>1, <2>2, <2>3 DEF Early!Process
<1>10. PICK out : Handled(out) /\ EarlyDone(m, out)
  BY <1>9
<1>11. bufs3'[i3].m = m /\ bufs3'[i3].out = out
  BY <1>10
<1>12. EarlyDone(bufs3'[i3].m, bufs3'[i3].out)
  BY <1>10, <1>11
<1>13. \A a, b : EarlyDone(a, b) => EarlyDone(a, b)'
  BY <1>1 DEF EarlyDone, Early!Translated
<1> PICK n \in Nat : n = Len(bufs3)
  BY <1>2
<1>14. \A k \in 1 .. (i3' - 1) : EarlyDone(bufs3'[k].m, bufs3'[k].out)
  <2> TAKE k \in 1 .. (i3' - 1)
  <2>1. k \in 1 .. n /\ (k = i3 \/ k \in 1 .. (i3 - 1))
    <3>1. i3' = i3 + 1 /\ i3 \in Nat /\ i3 <= n
      BY <1>1, <1>2
    <3> QED
      BY <3>1
  <2> HIDE DEF m
  <2> QED
    BY <1>2, <1>10, <1>12, <2>1
<1>15. EarlyBurst'
  <2>1. /\ i3' \in Nat /\ Len(bufs3') \in Nat /\ DOMAIN bufs3' = 1 .. Len(bufs3')
        /\ i3' \in 1 .. (Len(bufs3') + 1)
        /\ pc3' = "process" => i3' <= Len(bufs3')
        /\ pc3' = "tx" => i3' = Len(bufs3') + 1
    <3>1. Len(bufs3') = n /\ DOMAIN bufs3' = 1 .. n
      BY <1>2, <1>10
    <3>2. i3' = i3 + 1 /\ i3 \in Nat /\ i3 >= 1 /\ i3 <= n
          /\ pc3' = IF i3 = n THEN "tx" ELSE "process"
      BY <1>1, <1>2
    <3> QED
      BY <3>1, <3>2
  <2>2. \A k \in DOMAIN bufs3' : /\ bufs3'[k] = [m |-> bufs3'[k].m, out |-> bufs3'[k].out]
                                 /\ bufs3'[k].m \in Frames
    <3> TAKE k \in DOMAIN bufs3'
    <3>1. CASE k = i3
      BY <1>3, <1>10, <1>11, <3>1
    <3>2. CASE k # i3
      BY <1>2, <1>10, <3>2
    <3> QED
      BY <3>1, <3>2
  <2>3. \A k \in 1 .. (i3' - 1) : EarlyDone(bufs3[k].m, bufs3[k].out)'
    BY <1>13, <1>14
  <2>4. \A k \in i3' .. Len(bufs3') : bufs3'[k].out = bufs3'[k].m
    <3> TAKE k \in i3' .. Len(bufs3')
    <3>1. Len(bufs3') = n /\ DOMAIN bufs3 = 1 .. n /\ i3' = i3 + 1 /\ i3 \in Nat /\ i3 >= 1
      BY <1>1, <1>2, <1>10
    <3>2. k \in 1 .. n /\ k \in i3 .. n /\ k # i3
      BY <3>1
    <3> QED
      BY <1>2, <1>10, <3>1, <3>2
  <2> QED
    BY <2>1, <2>2, <2>3, <2>4 DEF EarlyBurst
<1> QED
  BY <1>5, <1>6, <1>15 DEF EarlyInv

\* A burst arrives: nothing of it is done yet.
LEMMA EarlyReceive == ASSUME EarlyInv, Early!RxBurst PROVE EarlyInv'
<1>1. PICK n \in 1 .. BURST_SIZE : \E ms \in [1 .. n -> Frames] :
        bufs3' = [k \in 1 .. n |-> [m |-> ms[k], out |-> ms[k]]]
  BY DEF Early!RxBurst
<1>2. PICK ms \in [1 .. n -> Frames] : bufs3' = [k \in 1 .. n |-> [m |-> ms[k], out |-> ms[k]]]
  BY <1>1
<1>3. n \in Nat /\ n >= 1
  BY NatPoolAssumption
<1>4. DOMAIN bufs3' = 1 .. n /\ Len(bufs3') = n
  BY <1>2, <1>3
<1>5. \A k \in 1 .. n : /\ bufs3'[k] = [m |-> ms[k], out |-> ms[k]] /\ ms[k] \in Frames
                        /\ bufs3'[k].m = ms[k] /\ bufs3'[k].out = ms[k]
  BY <1>2
<1>6. pc3' = "process" /\ i3' = 1 /\ UNCHANGED <<program, table3, nat3, rx_age3, heard>>
  BY DEF Early!RxBurst, Early!hashVars
<1>7. EarlyBurst'
  <2>1. i3' \in 1 .. (n + 1) /\ i3' <= n /\ 1 .. (i3' - 1) = {} /\ i3' .. n = 1 .. n
    BY <1>3, <1>6
  <2> QED
    BY <1>3, <1>4, <1>5, <1>6, <2>1 DEF EarlyBurst
<1> QED
  BY <1>6, <1>7 DEF EarlyInv, EarlyTable, EarlyTimes, EarlyNat

LEMMA EarlyStep == ASSUME EarlyInv, Early!Next PROVE EarlyInv'
<1>1. EarlyTable /\ EarlyTimes /\ EarlyNat /\ EarlyBurst
  BY DEF EarlyInv
<1>2. CASE Early!nat_add_mapping
  <2>1. PICK l \in Lines :
          IF l[1] \in DOMAIN nat3 \/ Early!Cardinality(DOMAIN nat3) < MAX_NAT_ENTRIES
          THEN /\ nat3' = [p \in DOMAIN nat3 \cup {l[1]} |-> IF p = l[1] THEN l[2] ELSE nat3[p]]
               /\ UNCHANGED pc3
          ELSE pc3' = "failed" /\ UNCHANGED nat3
    BY <1>2 DEF Early!nat_add_mapping
  <2>2. /\ pc3 = "config" /\ pc3' \in {"config", "failed"} /\ program = "version3"
        /\ UNCHANGED <<program, i3, table3, rx_age3, heard>>
    BY <1>1, <1>2, <2>1 DEF Early!nat_add_mapping, Early!timerVars, EarlyTimes
  <2>3. EarlyNat'
    <3>1. CASE UNCHANGED nat3
      BY <1>1, <3>1 DEF EarlyNat
    <3>2. CASE nat3' = [p \in DOMAIN nat3 \cup {l[1]} |-> IF p = l[1] THEN l[2] ELSE nat3[p]]
      <4>1. DOMAIN nat3' = DOMAIN nat3 \cup {l[1]}
            /\ \A p \in DOMAIN nat3' : nat3'[p] = IF p = l[1] THEN l[2] ELSE nat3[p]
        BY <3>2
      <4> QED
        BY <1>1, <4>1 DEF EarlyNat
    <3> QED
      BY <2>1, <3>1, <3>2
  <2>4. EarlyTable' /\ EarlyTimes' /\ EarlyBurst'
    BY <1>1, <2>2 DEF EarlyTable, EarlyTimes, EarlyBurst
  <2> QED
    BY <2>3, <2>4 DEF EarlyInv
<1>3. CASE Early!Configured
  <2>1. /\ pc3 = "config" /\ pc3' = "rx" /\ UNCHANGED <<program, i3, table3, nat3, rx_age3, heard>>
    BY <1>3 DEF Early!Configured, Early!hashVars, Early!timerVars
  <2>2. DOMAIN heard = {}
    BY <1>1, <2>1 DEF EarlyTimes
  <2> QED
    BY <1>1, <2>1, <2>2 DEF EarlyInv, EarlyTable, EarlyTimes, EarlyNat, EarlyBurst
<1>4. CASE Early!RxBurst
  BY <1>4, EarlyReceive
<1>5. CASE Early!Process
  BY <1>5, EarlyProcess
<1>6. CASE Early!TxBurst
  <2>1. /\ pc3 = "tx" /\ pc3' = "rx" /\ i3' = 1 /\ UNCHANGED <<program, table3, nat3, heard>>
        /\ rx_age3' = IF program = "static_nat" THEN rx_age3 ELSE 0
    BY <1>6 DEF Early!TxBurst, Early!hashVars
  <2>2. EarlyTimes'
    <3>1. CASE program = "static_nat"
      <4>1. DOMAIN heard' = {}
        BY <1>1, <2>1, <3>1 DEF EarlyTimes
      <4> QED
        BY <1>1, <2>1, <3>1, <4>1 DEF EarlyTimes
    <3>2. CASE program # "static_nat"
      <4>1. rx_age3' = 0 /\ \A k \in DOMAIN heard : heard[k] >= 0
        BY <1>1, <2>1, <3>2 DEF EarlyTable
      <4> QED
        BY <1>1, <2>1, <4>1 DEF EarlyTimes
    <3> QED
      BY <3>1, <3>2
  <2> QED
    BY <1>1, <2>1, <2>2 DEF EarlyInv, EarlyTable, EarlyNat, EarlyBurst
<1>7. CASE Early!IdleReset
  <2>1. /\ pc3 = "rx" /\ rx_age3 >= IDLE_TIMEOUT /\ rx_age3' = 0
        /\ table3' = IF program = "sample" THEN table3 ELSE {}
        /\ UNCHANGED <<program, pc3, bufs3, i3, nat3, heard>>
    BY <1>7 DEF Early!IdleReset, Early!idle
  <2>2. rx_age3 \in Nat /\ \A k \in DOMAIN heard : heard[k] \in Nat /\ heard[k] >= rx_age3
    BY <1>1, <2>1 DEF EarlyTimes, EarlyTable
  <2>3. \A k \in DOMAIN heard : heard[k] >= 0 /\ ~(heard[k] < IDLE_TIMEOUT)
    BY <2>1, <2>2, NatPoolAssumption
  <2>4. EarlyTable'
    <3>1. CASE program = "sample"
      BY <1>1, <2>1, <3>1 DEF EarlyTable
    <3>2. CASE program # "sample"
      <4>1. table3' = {} /\ IsFiniteSet({})
        BY <2>1, <3>2, FS_EmptySet
      <4> QED
        BY <1>1, <2>1, <2>3, <3>2, <4>1 DEF EarlyTable
    <3> QED
      BY <3>1, <3>2
  <2>5. EarlyTimes'
    BY <1>1, <2>1, <2>3 DEF EarlyTimes
  <2>6. EarlyNat' /\ EarlyBurst'
    BY <1>1, <2>1 DEF EarlyNat, EarlyBurst, EarlyDone, Early!Translated
  <2> QED
    BY <2>4, <2>5, <2>6 DEF EarlyInv
<1>8. CASE Early!Tick
  <2>1. /\ heard' = [k \in DOMAIN heard |-> Early!Lesser(heard[k] + 1, IDLE_TIMEOUT)]
        /\ rx_age3' = IF started3 THEN Early!Lesser(rx_age3 + 1, IDLE_TIMEOUT) ELSE 0
        /\ UNCHANGED <<program, pc3, bufs3, i3, table3, nat3>>
    BY <1>8 DEF Early!Tick, Early!hashVars
  <2>2. IDLE_TIMEOUT \in Nat /\ rx_age3 \in Nat /\ \A k \in DOMAIN heard : heard[k] \in Nat
    BY <1>1, NatPoolAssumption DEF EarlyTable, EarlyTimes
  <2>3. DOMAIN heard' = DOMAIN heard
        /\ \A k \in DOMAIN heard : /\ heard'[k] \in Nat
                                   /\ heard'[k] < IDLE_TIMEOUT => heard[k] < IDLE_TIMEOUT
                                   /\ heard[k] >= rx_age3 => heard'[k] >= rx_age3'
    <3>1. DOMAIN heard' = DOMAIN heard
          /\ \A k \in DOMAIN heard : heard'[k] = Early!Lesser(heard[k] + 1, IDLE_TIMEOUT)
      BY <2>1
    <3>2. ASSUME NEW h \in Nat
          PROVE  /\ Early!Lesser(h + 1, IDLE_TIMEOUT) \in Nat
                 /\ Early!Lesser(h + 1, IDLE_TIMEOUT) < IDLE_TIMEOUT => h < IDLE_TIMEOUT
                 /\ h >= rx_age3 => Early!Lesser(h + 1, IDLE_TIMEOUT) >= rx_age3'
      BY <2>1, <2>2 DEF Early!Lesser
    <3> QED
      BY <2>2, <3>1, <3>2
  <2>4. rx_age3' \in Nat
    BY <2>1, <2>2 DEF Early!Lesser
  <2>5. EarlyTable' /\ EarlyTimes'
    BY <1>1, <2>1, <2>3, <2>4 DEF EarlyTable, EarlyTimes
  <2>6. EarlyNat' /\ EarlyBurst'
    BY <1>1, <2>1, ZenonT(30) DEF EarlyNat, EarlyBurst, EarlyDone, Early!Translated
  <2> QED
    BY <2>5, <2>6 DEF EarlyInv
<1> QED
  BY <1>2, <1>3, <1>4, <1>5, <1>6, <1>7, <1>8 DEF Early!Next

LEMMA EarlySafe == EarlyInv => EarlyVersionsHold
<1> SUFFICES ASSUME EarlyInv PROVE EarlyVersionsHold
  OBVIOUS
<1>1. Early!RecentKnown
  <2>1. Early!Cardinality(table3) = Cardinality(table3)
    BY DEF Cardinality, Early!Cardinality
  <2> QED
    BY <2>1 DEF EarlyInv, EarlyTable, Early!RecentKnown
<1>2. Early!NothingPrivate
  <2> SUFFICES ASSUME program \in {"version3", "static_nat"}, pc3 = "tx", NEW k \in DOMAIN bufs3,
                      bufs3[k].out.kind # "none"
               PROVE  /\ bufs3[k].out.src[1] \notin Early!Private
                      /\ program = "static_nat" =>
                           /\ bufs3[k].out.dst[1] # PUBLIC_IP
                           /\ bufs3[k].m.src[1] = PRIVATE_IP
                              /\ bufs3[k].m.dst[1] \notin {PRIVATE_IP, PUBLIC_IP} =>
                                Early!Translated(Early!Answer(bufs3[k].out)) = Early!Answer(bufs3[k].m)
    BY DEF Early!NothingPrivate
  <2>1. EarlyDone(bufs3[k].m, bufs3[k].out) /\ bufs3[k].m \in Frames
    BY DEF EarlyInv, EarlyBurst
  <2>2. CASE program = "version3"
    BY <2>1, <2>2 DEF EarlyDone, Early!Private
  <2>3. CASE program = "static_nat"
    <3>1. bufs3[k].out = Early!Translated(bufs3[k].m)
      BY <2>1, <2>3 DEF EarlyDone
    <3>2. bufs3[k].m.kind # "none"
      BY <3>1 DEF Early!Translated
    <3>3. Early!Private = {PRIVATE_IP}
      BY <2>3 DEF Early!Private
    <3> QED
      BY <2>1, <3>1, <3>2, <3>3, StaticAnswers
  <2> QED
    BY <2>2, <2>3
<1> QED
  BY <1>1, <1>2 DEF EarlyVersionsHold

-----------------------------------------------------------------------------
(* One of the three runs, and the state of the others stays as it was.     *)

AllInv == IInv /\ LazyInv /\ EarlyInv

LEMMA PoolSame == ASSUME IInv, UNCHANGED vars PROVE IInv'
BY StepHolds

LEMMA LazySame == ASSUME LazyInv, UNCHANGED lazyVars PROVE LazyInv'
BY DEF LazyInv, LazyType, lazyVars, Lazy!PoolConsistent

LEMMA EarlySame == ASSUME EarlyInv, UNCHANGED earlyVars PROVE EarlyInv'
BY ZenonT(30) DEF EarlyInv, EarlyTable, EarlyTimes, EarlyNat, EarlyBurst, EarlyDone, earlyVars, Early!Translated

LEMMA AllStep == AllInv /\ [Run3 \/ Run4 \/ RunLoop5 \/ RunTick5]_allVars => AllInv'
<1> SUFFICES ASSUME AllInv, [Run3 \/ Run4 \/ RunLoop5 \/ RunTick5]_allVars PROVE AllInv'
  OBVIOUS
<1>1. IInv'
  <2>1. CASE UNCHANGED vars
    BY <2>1, PoolSame DEF AllInv
  <2>2. CASE Loop \/ Tick
    BY <2>2, StepHolds DEF AllInv, Next
  <2> QED
    BY <2>1, <2>2 DEF Run3, Run4, RunLoop5, RunTick5, allVars
<1>2. LazyInv'
  <2>1. CASE UNCHANGED lazyVars
    BY <2>1, LazySame DEF AllInv
  <2>2. CASE Lazy!Next
    BY <2>2, LazyStep DEF AllInv
  <2> QED
    BY <2>1, <2>2 DEF Run3, Run4, RunLoop5, RunTick5, allVars
<1>3. EarlyInv'
  <2>1. CASE UNCHANGED earlyVars
    BY <2>1, EarlySame DEF AllInv
  <2>2. CASE Early!Next
    BY <2>2, EarlyStep DEF AllInv
  <2> QED
    BY <2>1, <2>2 DEF Run3, Run4, RunLoop5, RunTick5, allVars
<1> QED
  BY <1>1, <1>2, <1>3 DEF AllInv

THEOREM AllInvariance == SpecAll => []AllInv
<1>1. InitAll => AllInv
  BY InitHolds, LazyInit, EarlyInit DEF InitAll, AllInv
<1> QED
  BY <1>1, AllStep, PTL DEF SpecAll

\* Version 4: the slot table and the hash agree after every release and every
\* reassignment, for every pool size.
THEOREM LazyPoolCorrect == SpecAll => []LazyPoolConsistent
<1>1. AllInv => LazyPoolConsistent
  BY DEF AllInv, LazyInv, LazyPoolConsistent
<1> QED
  BY <1>1, AllInvariance, PTL

\* The versions without a pool: the table holds what was heard lately unless it
\* is full, and no private address leaves.
THEOREM EarlyCorrect == SpecAll => []EarlyVersionsHold
<1>1. AllInv => EarlyVersionsHold
  BY EarlySafe DEF AllInv
<1> QED
  BY <1>1, AllInvariance, PTL

\* Version 4: a mapping in use stays with its host, and a packet is dropped only
\* when every address was used within the idle time (the part of IdleReclaimed
\* that is not liveness).
THEOREM LazyReleasesIdleOnly == SpecAll => Lazy!BusyMappingsStay /\ Lazy!DropOnlyWhenBusy
<1> DEFINE Stay == \A s \in in_use4 :
                     age4[s] < IDLE_TIMEOUT => s \in in_use4' /\ private_ip4'[s] = private_ip4[s]
           Drop == \A k \in DOMAIN bufs4 :
                     pc4 = "apply" /\ bufs4[k].slot # Lazy!Dropped /\ bufs4'[k].slot = Lazy!Dropped =>
                       \A s \in Lazy!Slots : s \in in_use4 /\ age4[s] < IDLE_TIMEOUT
<1>1. ASSUME AllInv, [Run3 \/ Run4 \/ RunLoop5 \/ RunTick5]_allVars
      PROVE  [Stay]_(Lazy!vars) /\ [Drop]_(Lazy!vars)
  <2>1. CASE Lazy!Next
    <3>1. Stay
      BY <1>1, <2>1, LazyBusy DEF AllInv
    <3>2. Drop
      BY <1>1, <2>1, LazyDrop DEF AllInv
    <3> QED
      BY <3>1, <3>2
  <2>2. CASE UNCHANGED lazyVars
    BY <2>2 DEF lazyVars, Lazy!vars, Lazy!poolVars, Lazy!timerVars
  <2> QED
    BY <1>1, <2>1, <2>2 DEF Run3, Run4, RunLoop5, RunTick5, allVars
<1> QED
  BY <1>1, AllInvariance, PTL DEF SpecAll, Lazy!BusyMappingsStay, Lazy!DropOnlyWhenBusy

=============================================================================
