----------------------------- MODULE NatProofs -----------------------------
(***************************************************************************)
(* Proofs about NatFlow and NatMain, for every value of their constants.   *)
(*                                                                         *)
(* The inductive invariant of the NAPT engine is                           *)
(*                                                                         *)
(*    TypeOK /\ TablesSound /\ Mirror /\ Timed                             *)
(*                                                                         *)
(* Mirror is RoundTrip said of the keys; Timed relates the timer of an     *)
(* entry to the ticks since its last packet.                               *)
(*                                                                         *)
(* Clashes need Spaced as well: the port of an entry is as many behind     *)
(* the allocator as ports were handed out since.                           *)
(*                                                                         *)
(* The loop of NatMain, for every burst size and pool: the mbufs it owns   *)
(* are, one each, in the two parts of bufs that it will still look at, the *)
(* packets kept so far and those not yet processed.  And the NAPT engine   *)
(* keeps its own invariant inside the loop.                                *)
(***************************************************************************)
EXTENDS NatMain, TLAPS, FunctionTheorems, FiniteSetTheorems

\* While clean, both keys of a live entry lead to it.
Mirror ==
  clean => \A e \in Live : /\ fwd_hash[entries[e].flow] = e
                           /\ rev_hash[RevKey(entries[e])] = e

\* refresh and create_entry are the only ways to reset either of the two.
Timed == \A e \in Live : quiet[e] + entries[e].timer = NAT_TIMEOUT

IInv == TypeOK /\ TablesSound /\ Mirror /\ Timed

-----------------------------------------------------------------------------
(* What the hash-table operators return.                                   *)

\* HashAdd changes no key but the one it is given, and that only to e.
LEMMA HashAddEffect ==
  ASSUME NEW K, NEW hash \in [K -> EntryIds \cup {NoEntry}],
         NEW key \in K, NEW e \in EntryIds
  PROVE  /\ HashAdd(hash, key, e) \in [K -> EntryIds \cup {NoEntry}]
         /\ \A k \in K : \/ HashAdd(hash, key, e)[k] = hash[k]
                         \/ k = key /\ HashAdd(hash, key, e)[k] = e
BY DEF HashAdd

\* HashDel empties exactly the keys it is given.
LEMMA HashDelEffect ==
  ASSUME NEW K, NEW hash \in [K -> EntryIds \cup {NoEntry}], NEW keys
  PROVE  /\ HashDel(hash, keys) \in [K -> EntryIds \cup {NoEntry}]
         /\ \A k \in K : HashDel(hash, keys)[k] = IF k \in keys THEN NoEntry ELSE hash[k]
BY DEF HashDel

\* The allocator stays in the range, and below 2^16 before it is compared.
LEMMA PortInRange == ASSUME TypeOK PROVE allocate_port \in Ports
BY NatFlowAssumption DEF TypeOK, Ports, allocate_port

\* A live entry is a nat_entry, and its keys are keys of the two tables.
LEMMA LiveEntry ==
  ASSUME TypeOK, NEW e \in Live
  PROVE  /\ e \in EntryIds
         /\ entries[e] \in NatEntry
         /\ entries[e].flow \in Flows
         /\ RevKey(entries[e]) \in RevKeys
<1>1. e \in EntryIds /\ entries[e] \in NatEntry
  BY DEF TypeOK, Live
<1>2. entries[e].flow \in Flows /\ entries[e].flow.dst \in Endpoints
      /\ entries[e].public_port \in Ports
  BY <1>1 DEF NatEntry, Flows
<1> QED
  BY <1>1, <1>2, NatFlowAssumption DEF RevKey, RevKeys, Ports, L4Ports

-----------------------------------------------------------------------------
(* One lemma per kind of step.                                             *)

LEMMA InitHolds == Init => IInv
<1> SUFFICES ASSUME Init PROVE IInv
  OBVIOUS
<1>1. TypeOK
  BY NatFlowAssumption DEF Init, TypeOK, Ports
<1>2. Live = {}
  BY DEF Init, Live
<1>3. TablesSound
  BY DEF Init, TablesSound
<1> QED
  BY <1>1, <1>2, <1>3 DEF IInv, Mirror, Timed

\* refresh: both paths of nat_process_packet that find an entry.
LEMMA RefreshStep ==
  ASSUME IInv, NEW d \in Live, refresh(d),
         quiet' = [quiet EXCEPT ![d] = 0],
         UNCHANGED <<fwd_hash, rev_hash, current_port, allocs, clean>>
  PROVE  IInv'
<1>1. TypeOK /\ TablesSound /\ Mirror /\ Timed
  BY DEF IInv
<1>2. d \in EntryIds /\ entries[d] \in NatEntry
  BY <1>1, LiveEntry
<1>3. [entries[d] EXCEPT !.timer = NAT_TIMEOUT] \in NatEntry
  BY <1>2, NatFlowAssumption DEF NatEntry
<1>4. entries' = [entries EXCEPT ![d] = [entries[d] EXCEPT !.timer = NAT_TIMEOUT]]
  BY DEF refresh
<1>5. TypeOK'
  <2>1. entries' \in [EntryIds -> NatEntry \cup {NoEntry}]
    BY <1>1, <1>3, <1>4 DEF TypeOK
  <2>2. quiet' \in [EntryIds -> 0 .. NAT_TIMEOUT]
    BY <1>1, <1>2, NatFlowAssumption DEF TypeOK
  <2> QED
    BY <1>1, <2>1, <2>2 DEF TypeOK
<1>6. Live' = Live
  BY <1>1, <1>2, <1>3, <1>4, NoEntryAssumption DEF Live, TypeOK
<1>7. \A e \in Live : /\ entries'[e].flow = entries[e].flow
                      /\ RevKey(entries'[e]) = RevKey(entries[e])
  <2>1. \A e \in Live : /\ entries'[e].flow = entries[e].flow
                        /\ entries'[e].public_port = entries[e].public_port
    BY <1>1, <1>2, <1>4, LiveEntry DEF TypeOK, NatEntry
  <2> QED
    BY <2>1 DEF RevKey
<1>8. TablesSound'
  BY <1>1, <1>6, <1>7 DEF TablesSound, RevKey
<1>9. Mirror'
  BY <1>1, <1>6, <1>7 DEF Mirror, RevKey
<1>10. Timed'
  <2> SUFFICES ASSUME NEW e \in Live PROVE quiet'[e] + entries'[e].timer = NAT_TIMEOUT
    BY <1>6 DEF Timed
  <2>1. CASE e = d
    BY <2>1, <1>1, <1>2, <1>4, NatFlowAssumption DEF TypeOK, NatEntry
  <2>2. CASE e # d
    BY <2>2, <1>1, <1>2, <1>4, LiveEntry DEF TypeOK, Timed
  <2> QED
    BY <2>1, <2>2
<1> QED
  BY <1>5, <1>8, <1>9, <1>10 DEF IInv

\* create_entry: the path of nat_process_packet that opens a flow.
LEMMA CreateStep ==
  ASSUME IInv, NEW f \in Flows, NEW e \in EntryIds,
         fwd_hash[f] = NoEntry, entries[e] = NoEntry, create_entry(f, e)
  PROVE  IInv'
<1> DEFINE entry == [flow |-> f, public_port |-> allocate_port,
                     timer |-> NAT_TIMEOUT, born |-> allocs]
           key == RevKey(entry)
<1>1. TypeOK /\ TablesSound /\ Mirror /\ Timed
  BY DEF IInv
<1>2. entry \in NatEntry /\ key \in RevKeys
  <2>1. entry \in NatEntry
    BY <1>1, PortInRange, NatFlowAssumption DEF NatEntry, TypeOK
  <2>2. f.dst \in Endpoints
    BY DEF Flows
  <2> QED
    BY <1>1, <2>1, <2>2, PortInRange, NatFlowAssumption
      DEF RevKey, RevKeys, Ports, L4Ports
<1>3. /\ entries' = [entries EXCEPT ![e] = entry]
      /\ current_port' = allocate_port
      /\ fwd_hash' = HashAdd(fwd_hash, f, e)
      /\ rev_hash' = HashAdd(rev_hash, key, e)
      /\ allocs' = allocs + 1
      /\ quiet' = [quiet EXCEPT ![e] = 0]
      /\ clean' = /\ clean
                  /\ \A d \in Live : RevKey(entries[d]) # key
                  /\ fwd_hash'[f] = e
                  /\ rev_hash'[key] = e
  BY DEF create_entry
<1> HIDE DEF entry, key
<1>4. /\ fwd_hash' \in [Flows -> EntryIds \cup {NoEntry}]
      /\ \A g \in Flows : fwd_hash'[g] = fwd_hash[g] \/ (g = f /\ fwd_hash'[g] = e)
  <2>1. fwd_hash \in [Flows -> EntryIds \cup {NoEntry}]
    BY <1>1 DEF TypeOK
  <2> QED
    BY <1>3, <2>1, HashAddEffect
<1>5. /\ rev_hash' \in [RevKeys -> EntryIds \cup {NoEntry}]
      /\ \A k \in RevKeys : rev_hash'[k] = rev_hash[k] \/ (k = key /\ rev_hash'[k] = e)
  BY <1>1, <1>2, <1>3, HashAddEffect DEF TypeOK
<1>6. TypeOK'
  <2>1. entries' \in [EntryIds -> NatEntry \cup {NoEntry}]
    BY <1>1, <1>2, <1>3 DEF TypeOK
  <2>2. quiet' \in [EntryIds -> 0 .. NAT_TIMEOUT] /\ allocs' \in Nat
    BY <1>1, <1>3, NatFlowAssumption DEF TypeOK
  <2>3. current_port' \in Ports
    BY <1>1, <1>3, PortInRange
  <2>4. clean' \in BOOLEAN
    BY <1>3
  <2> QED
    BY <1>4, <1>5, <2>1, <2>2, <2>3, <2>4 DEF TypeOK
<1>7. Live' = Live \cup {e} /\ e \notin Live
  BY <1>1, <1>2, <1>3, NoEntryAssumption DEF Live, TypeOK
<1>8. entries'[e] = entry /\ \A d \in Live : entries'[d] = entries[d]
  BY <1>1, <1>3, <1>7, LiveEntry DEF TypeOK
<1>9. entry.flow = f
  BY DEF entry
<1>10. TablesSound'
  <2>1. ASSUME NEW g \in Flows, fwd_hash'[g] # NoEntry
        PROVE  fwd_hash'[g] \in Live' /\ entries'[fwd_hash'[g]].flow = g
    BY <2>1, <1>1, <1>4, <1>7, <1>8, <1>9 DEF TablesSound
  <2>2. ASSUME NEW k \in RevKeys, rev_hash'[k] # NoEntry
        PROVE  rev_hash'[k] \in Live' /\ RevKey(entries'[rev_hash'[k]]) = k
    <3>1. CASE rev_hash'[k] = rev_hash[k]
      BY <3>1, <2>2, <1>1, <1>7, <1>8 DEF TablesSound
    <3>2. CASE k = key /\ rev_hash'[k] = e
      BY <3>2, <1>7, <1>8 DEF key
    <3> QED
      BY <3>1, <3>2, <1>5
  <2> QED
    BY <2>1, <2>2 DEF TablesSound, RevKey
<1>11. Mirror'
  <2> SUFFICES ASSUME clean', NEW d \in Live'
               PROVE  /\ fwd_hash'[entries'[d].flow] = d
                      /\ rev_hash'[RevKey(entries'[d])] = d
    BY DEF Mirror, RevKey
  <2>1. /\ clean
        /\ \A c \in Live : RevKey(entries[c]) # key
        /\ fwd_hash'[f] = e /\ rev_hash'[key] = e
    BY <1>3
  <2>2. CASE d = e
    BY <2>1, <2>2, <1>8, <1>9 DEF key
  <2>3. CASE d \in Live
    <3>1. /\ entries[d].flow \in Flows /\ RevKey(entries[d]) \in RevKeys
          /\ d # NoEntry
      BY <2>3, <1>1, LiveEntry, NatFlowAssumption
    <3>2. fwd_hash[entries[d].flow] = d /\ rev_hash[RevKey(entries[d])] = d
      BY <2>1, <2>3, <1>1 DEF Mirror
    <3>3. entries[d].flow # f
      BY <3>1, <3>2
    <3>4. RevKey(entries[d]) # key
      BY <2>1, <2>3
    <3> QED
      BY <2>3, <3>1, <3>2, <3>3, <3>4, <1>4, <1>5, <1>8
  <2> QED
    BY <2>2, <2>3, <1>7
<1>12. Timed'
  <2> SUFFICES ASSUME NEW d \in Live' PROVE quiet'[d] + entries'[d].timer = NAT_TIMEOUT
    BY DEF Timed
  <2>1. CASE d = e
    BY <2>1, <1>1, <1>3, <1>8, NatFlowAssumption DEF entry, TypeOK
  <2>2. CASE d \in Live
    BY <2>2, <1>1, <1>3, <1>7, <1>8, LiveEntry DEF TypeOK, Timed
  <2> QED
    BY <2>1, <2>2, <1>7
<1> QED
  BY <1>6, <1>10, <1>11, <1>12 DEF IInv

\* nat_entry_expire: an entry that is not due keeps both its keys, because
\* while clean no other entry shares them.
LEMMA ExpireStep ==
  ASSUME IInv, nat_entry_expire
  PROVE  IInv'
<1> DEFINE flows == {entries[e].flow : e \in Due}
           keys == {RevKey(entries[e]) : e \in Due}
<1>1. TypeOK /\ TablesSound /\ Mirror /\ Timed
  BY DEF IInv
<1>2. /\ fwd_hash' = HashDel(fwd_hash, flows)
      /\ rev_hash' = HashDel(rev_hash, keys)
      /\ entries' = [e \in EntryIds |-> IF e \in Due THEN NoEntry ELSE entries[e]]
      /\ UNCHANGED <<current_port, allocs, quiet, clean>>
  BY DEF nat_entry_expire
<1>3. /\ fwd_hash' \in [Flows -> EntryIds \cup {NoEntry}]
      /\ \A g \in Flows : fwd_hash'[g] = IF g \in flows THEN NoEntry ELSE fwd_hash[g]
  <2>1. fwd_hash \in [Flows -> EntryIds \cup {NoEntry}]
    BY <1>1 DEF TypeOK
  <2> HIDE DEF flows
  <2> QED
    BY <1>2, <2>1, HashDelEffect
<1>4. /\ rev_hash' \in [RevKeys -> EntryIds \cup {NoEntry}]
      /\ \A k \in RevKeys : rev_hash'[k] = IF k \in keys THEN NoEntry ELSE rev_hash[k]
  <2>1. rev_hash \in [RevKeys -> EntryIds \cup {NoEntry}]
    BY <1>1 DEF TypeOK
  <2> HIDE DEF keys
  <2> QED
    BY <1>2, <2>1, HashDelEffect
<1>5. TypeOK'
  BY <1>1, <1>2, <1>3, <1>4 DEF TypeOK
<1>6. Live' = Live \ Due
  BY <1>2 DEF Live, Due
<1>7. \A d \in Live' : entries'[d] = entries[d]
  BY <1>2, <1>6 DEF Live
<1>8. TablesSound'
  <2>1. ASSUME NEW g \in Flows, fwd_hash'[g] # NoEntry
        PROVE  fwd_hash'[g] \in Live' /\ entries'[fwd_hash'[g]].flow = g
    BY <2>1, <1>1, <1>3, <1>6, <1>7 DEF TablesSound
  <2>2. ASSUME NEW k \in RevKeys, rev_hash'[k] # NoEntry
        PROVE  rev_hash'[k] \in Live' /\ RevKey(entries'[rev_hash'[k]]) = k
    BY <2>2, <1>1, <1>4, <1>6, <1>7 DEF TablesSound
  <2> QED
    BY <2>1, <2>2 DEF TablesSound, RevKey
<1>9. Mirror'
  <2> SUFFICES ASSUME clean', NEW d \in Live'
               PROVE  /\ fwd_hash'[entries'[d].flow] = d
                      /\ rev_hash'[RevKey(entries'[d])] = d
    BY DEF Mirror, RevKey
  <2>1. d \in Live /\ d \notin Due /\ clean
    BY <1>2, <1>6
  <2>2. entries[d].flow \in Flows /\ RevKey(entries[d]) \in RevKeys
    BY <2>1, <1>1, LiveEntry
  <2>3. \A c \in Live : /\ fwd_hash[entries[c].flow] = c
                        /\ rev_hash[RevKey(entries[c])] = c
    BY <2>1, <1>1 DEF Mirror
  <2>4. entries[d].flow \notin flows /\ RevKey(entries[d]) \notin keys
    BY <2>1, <2>3 DEF Due
  <2> QED
    BY <2>1, <2>2, <2>3, <2>4, <1>3, <1>4, <1>7
<1>10. Timed'
  BY <1>1, <1>2, <1>6, <1>7 DEF Timed
<1> QED
  BY <1>5, <1>8, <1>9, <1>10 DEF IInv

\* Tick: only the two counters of a live entry move, against each other.
LEMMA TickStep ==
  ASSUME IInv, Tick
  PROVE  IInv'
<1>1. TypeOK /\ TablesSound /\ Mirror /\ Timed
  BY DEF IInv
<1>2. /\ entries' = [e \in EntryIds |->
                      IF e \in Live \ Due
                      THEN [entries[e] EXCEPT !.timer = @ - 1]
                      ELSE entries[e]]
      /\ quiet' = [e \in EntryIds |->
                    IF e \in Live /\ quiet[e] < NAT_TIMEOUT
                    THEN quiet[e] + 1 ELSE quiet[e]]
      /\ UNCHANGED <<fwd_hash, rev_hash, current_port, allocs, clean>>
  BY DEF Tick
<1>3. ASSUME NEW e \in Live
      PROVE  /\ e \in EntryIds
             /\ entries'[e] \in NatEntry
             /\ entries'[e].flow = entries[e].flow
             /\ RevKey(entries'[e]) = RevKey(entries[e])
             /\ entries'[e].timer = IF e \in Due THEN 0 ELSE entries[e].timer - 1
             /\ entries[e].timer \in 0 .. NAT_TIMEOUT
  <2>1. e \in EntryIds /\ entries[e] \in NatEntry
    BY <1>1, LiveEntry
  <2>2. CASE e \in Due
    BY <2>1, <2>2, <1>2 DEF Due, NatEntry
  <2>3. CASE e \notin Due
    <3>1. entries[e].timer \in 1 .. NAT_TIMEOUT
      BY <2>1, <2>3, NatFlowAssumption DEF Due, NatEntry
    <3>2. entries'[e] = [entries[e] EXCEPT !.timer = entries[e].timer - 1]
      BY <2>1, <2>3, <1>2
    <3>3. entries[e].timer - 1 \in 0 .. NAT_TIMEOUT
      BY <3>1, NatFlowAssumption
    <3>4. entries'[e] \in NatEntry
      BY <2>1, <3>2, <3>3 DEF NatEntry
    <3> QED
      BY <2>1, <2>3, <3>1, <3>2, <3>4, NatFlowAssumption DEF NatEntry, RevKey
  <2> QED
    BY <2>2, <2>3
<1>4. Live' = Live
  <2>1. \A e \in EntryIds \ Live : entries'[e] = NoEntry
    BY <1>2 DEF Live
  <2> QED
    BY <1>3, <2>1, NoEntryAssumption DEF Live
<1>5. TypeOK'
  <2>1. entries' \in [EntryIds -> NatEntry \cup {NoEntry}]
    <3>1. \A e \in EntryIds : entries'[e] \in NatEntry \cup {NoEntry}
      BY <1>2, <1>3 DEF Live
    <3> QED
      BY <3>1, <1>2
  <2>2. quiet' \in [EntryIds -> 0 .. NAT_TIMEOUT]
    BY <1>1, <1>2, NatFlowAssumption DEF TypeOK
  <2> QED
    BY <1>1, <1>2, <2>1, <2>2 DEF TypeOK
<1>6. TablesSound'
  BY <1>1, <1>2, <1>3, <1>4 DEF TablesSound, RevKey
<1>7. Mirror'
  BY <1>1, <1>2, <1>3, <1>4, ZenonT(30) DEF Mirror, RevKey
<1>8. Timed'
  <2> SUFFICES ASSUME NEW e \in Live PROVE quiet'[e] + entries'[e].timer = NAT_TIMEOUT
    BY <1>4 DEF Timed
  <2>1. quiet[e] + entries[e].timer = NAT_TIMEOUT /\ quiet[e] \in 0 .. NAT_TIMEOUT
    BY <1>1, <1>3 DEF Timed, TypeOK
  <2>2. quiet'[e] = IF quiet[e] < NAT_TIMEOUT THEN quiet[e] + 1 ELSE quiet[e]
    BY <1>2, <1>3
  <2>3. e \in Due <=> entries[e].timer = 0
    BY DEF Due
  <2> QED
    BY <2>1, <2>2, <2>3, <1>3, NatFlowAssumption
<1> QED
  BY <1>5, <1>6, <1>7, <1>8 DEF IInv

-----------------------------------------------------------------------------
\* Every step of nat_process_packet and nat_timer_manage, and every tick.
LEMMA StepHolds == IInv /\ [Next]_natVars => IInv'
<1> SUFFICES ASSUME IInv, [Next]_natVars PROVE IInv'
  OBVIOUS
<1>1. TypeOK /\ TablesSound
  BY DEF IInv
<1>2. ASSUME NEW f \in Flows, OutboundHit(f) PROVE IInv'
  BY <1>1, <1>2, RefreshStep DEF OutboundHit, TablesSound
<1>3. ASSUME NEW f \in Flows, NEW e \in EntryIds, OutboundNew(f, e) PROVE IInv'
  BY <1>3, CreateStep DEF OutboundNew
<1>4. ASSUME NEW k \in RevKeys, InboundHit(k) PROVE IInv'
  BY <1>1, <1>4, RefreshStep DEF InboundHit, TablesSound
<1>5. ASSUME UNCHANGED natVars PROVE IInv'
  BY <1>5 DEF natVars, IInv, TypeOK, TablesSound, Mirror, Timed, Live, RevKey
<1>6. ASSUME NEW p \in Packets, Forward(p) PROVE IInv'
  <2>1. CASE p.kind = "in" /\ InboundHit(p.key)
    <3>1. p.key \in RevKeys
      BY <2>1 DEF Packets
    <3> QED
      BY <2>1, <3>1, <1>4
  <2>2. CASE p.kind = "out" /\ OutboundHit(p.flow)
    <3>1. p.flow \in Flows
      BY <2>2 DEF Packets
    <3> QED
      BY <2>2, <3>1, <1>2
  <2>3. CASE p.kind = "out" /\ \E e \in EntryIds : OutboundNew(p.flow, e)
    <3>1. p.flow \in Flows
      BY <2>3 DEF Packets
    <3> QED
      BY <2>3, <3>1, <1>3
  <2> QED
    BY <1>6, <2>1, <2>2, <2>3 DEF Forward
<1>7. ASSUME NEW p \in Packets, Drop(p) PROVE IInv'
  BY <1>5, <1>7 DEF Drop, InboundMiss, OutboundNoMemory
<1> QED
  BY <1>5, <1>6, <1>7, ExpireStep, TickStep DEF Next

\* The invariant holds in every state of every behaviour.
THEOREM Invariance == Spec => []IInv
BY InitHolds, StepHolds, PTL DEF Spec

\* current_port stays in its range and both tables lead into the heap.
THEOREM TypeCorrect == Spec => []TypeOK
<1>1. IInv => TypeOK
  BY DEF IInv
<1> QED
  BY <1>1, Invariance, PTL

\* No lookup yields freed memory or the entry of another flow.
THEOREM LookupsSound == Spec => []TablesSound
<1>1. IInv => TablesSound
  BY DEF IInv
<1> QED
  BY <1>1, Invariance, PTL

\* Until a port clash or a full table, replies reach the endpoint that
\* opened the flow.
THEOREM RepliesReturn == Spec => []RoundTrip
<1>1. IInv => RoundTrip
  BY LiveEntry DEF IInv, Mirror, RoundTrip, rewrite_out, rewrite_in, RevKey
<1> QED
  BY <1>1, Invariance, PTL

\* While clean, only a flow that was quiet for NAT_TIMEOUT ticks is removed.
THEOREM BusyFlowsStay == Spec => OnlyIdleExpires
<1> DEFINE Step == \A f \in Flows :
                     clean /\ fwd_hash[f] # NoEntry /\ fwd_hash'[f] = NoEntry
                       => quiet[fwd_hash[f]] = NAT_TIMEOUT
<1>1. ASSUME IInv, [Next]_natVars PROVE [Step]_natVars
  <2> SUFFICES ASSUME NEW f \in Flows, clean,
                      fwd_hash[f] # NoEntry, fwd_hash'[f] = NoEntry
               PROVE  quiet[fwd_hash[f]] = NAT_TIMEOUT
    OBVIOUS
  <2>1. TypeOK /\ TablesSound /\ Mirror /\ Timed
    BY <1>1 DEF IInv
  <2>2. fwd_hash \in [Flows -> EntryIds \cup {NoEntry}]
    BY <2>1 DEF TypeOK
  <2>3. ASSUME NEW g \in Flows, NEW e \in EntryIds, create_entry(g, e) PROVE FALSE
    <3>1. fwd_hash' = HashAdd(fwd_hash, g, e)
      BY <2>3 DEF create_entry
    <3>2. fwd_hash'[f] = fwd_hash[f] \/ fwd_hash'[f] = e
      BY <2>2, <3>1, HashAddEffect
    <3> QED
      BY <3>2, NatFlowAssumption
  <2>4. ASSUME NEW p \in Packets, Forward(p) \/ Drop(p) PROVE FALSE
    <3>1. CASE UNCHANGED fwd_hash
      BY <3>1
    <3>2. CASE p.kind = "out" /\ \E e \in EntryIds : OutboundNew(p.flow, e)
      <4>1. p.flow \in Flows
        BY <3>2 DEF Packets
      <4> QED
        BY <3>2, <4>1, <2>3 DEF OutboundNew
    <3> QED
      BY <2>4, <3>1, <3>2
        DEF Forward, Drop, OutboundHit, InboundHit, InboundMiss, OutboundNoMemory, natVars
  <2>5. nat_entry_expire
    BY <1>1, <2>4 DEF Next, Tick, natVars
  <2>6. PICK d \in Due : entries[d].flow = f
    <3> DEFINE flows == {entries[e].flow : e \in Due}
    <3>1. fwd_hash' = HashDel(fwd_hash, flows)
      BY <2>5 DEF nat_entry_expire
    <3>2. fwd_hash'[f] = IF f \in flows THEN NoEntry ELSE fwd_hash[f]
      <4> HIDE DEF flows
      <4> QED
        BY <3>1, <2>2, HashDelEffect
    <3> QED
      BY <3>2
  <2>7. d \in Live /\ entries[d].timer = 0 /\ d \in EntryIds
    BY DEF Due, Live
  <2>8. fwd_hash[f] = d
    BY <2>1, <2>6, <2>7 DEF Mirror
  <2>9. quiet[d] + 0 = NAT_TIMEOUT /\ quiet[d] \in 0 .. NAT_TIMEOUT
    BY <2>1, <2>7 DEF Timed, TypeOK
  <2> QED
    BY <2>8, <2>9, NatFlowAssumption
<1> QED
  BY <1>1, Invariance, PTL DEF Spec, OnlyIdleExpires

-----------------------------------------------------------------------------
(* The allocator                                                           *)

\* Ports handed out since entry e got its own.
Since(e) == allocs - entries[e].born - 1

\* The port of an entry is as many behind current_port as were handed out since,
\* once around the range or not; about entries older than a round nothing is said.
Spaced ==
  \A e \in Live : /\ Since(e) \in Nat
                  /\ Since(e) < NPorts =>
                       current_port - entries[e].public_port \in {Since(e), Since(e) - NPorts}

\* The fields of a live entry.
LEMMA LivePort ==
  ASSUME TypeOK, NEW e \in Live
  PROVE  entries[e].public_port \in Ports /\ entries[e].born \in Nat
<1>1. entries[e] \in NatEntry
  BY LiveEntry
<1> QED
  BY <1>1 DEF NatEntry

LEMMA SpacedInit == Init => Spaced
BY DEF Init, Spaced, Live

\* No step but create_entry moves the allocator or touches the port of an entry.
LEMMA SpacedKept ==
  ASSUME Spaced, UNCHANGED <<current_port, allocs>>,
         \A e \in Live' : /\ e \in Live /\ entries'[e].born = entries[e].born
                          /\ entries'[e].public_port = entries[e].public_port
  PROVE  Spaced'
<1> SUFFICES ASSUME NEW e \in Live'
             PROVE  /\ Since(e)' \in Nat
                    /\ Since(e)' < NPorts =>
                         current_port' - entries'[e].public_port \in {Since(e)', Since(e)' - NPorts}
  BY DEF Spaced, NPorts
<1>1. Since(e)' = Since(e)
  BY DEF Since
<1> QED
  BY <1>1 DEF Spaced

LEMMA SpacedRefresh ==
  ASSUME TypeOK, Spaced, NEW d \in Live, refresh(d), UNCHANGED <<current_port, allocs>>
  PROVE  Spaced'
<1>1. d \in EntryIds /\ entries[d] \in NatEntry
  BY LiveEntry
<1>2. PICK x : x = [entries[d] EXCEPT !.timer = NAT_TIMEOUT]
  OBVIOUS
<1>3. x.born = entries[d].born /\ x.public_port = entries[d].public_port
  BY <1>1, <1>2 DEF NatEntry
<1>4. entries' = [entries EXCEPT ![d] = x]
  BY <1>2 DEF refresh
<1>5. \A e \in EntryIds : entries'[e] = IF e = d THEN x ELSE entries[e]
  BY <1>1, <1>4 DEF TypeOK
<1>6. \A e \in Live' : /\ e \in Live /\ entries'[e].born = entries[e].born
                       /\ entries'[e].public_port = entries[e].public_port
  BY <1>3, <1>5 DEF Live
<1> QED
  BY <1>6, SpacedKept

\* What the next port is, seen from an entry that is younger than a round.
LEMMA NextPort ==
  ASSUME TypeOK, NEW k \in Nat, NEW q \in Ports, k < NPorts, current_port - q \in {k, k - NPorts}
  PROVE  /\ k + 1 < NPorts => allocate_port - q \in {k + 1, k + 1 - NPorts}
         /\ k + 1 < NPorts => allocate_port # q
<1>1. MIN_PORT \in Nat /\ MAX_PORT \in Nat /\ MIN_PORT < MAX_PORT /\ current_port \in MIN_PORT .. (MAX_PORT - 1)
  BY NatFlowAssumption DEF TypeOK, Ports
<1>2. q \in MIN_PORT .. (MAX_PORT - 1) /\ NPorts = MAX_PORT - MIN_PORT
  BY DEF Ports, NPorts
<1>3. CASE current_port + 1 >= MAX_PORT
  <2>1. allocate_port = MIN_PORT /\ current_port = MAX_PORT - 1
    BY <1>1, <1>3 DEF allocate_port
  <2> QED
    BY <1>1, <1>2, <2>1
<1>4. CASE ~(current_port + 1 >= MAX_PORT)
  <2>1. allocate_port = current_port + 1
    BY <1>4 DEF allocate_port
  <2> QED
    BY <1>1, <1>2, <2>1
<1> QED
  BY <1>3, <1>4

LEMMA SpacedCreate ==
  ASSUME TypeOK, Spaced, NEW f \in Flows, NEW e \in EntryIds, entries[e] = NoEntry, create_entry(f, e)
  PROVE  Spaced'
<1>1. PICK x : x = [flow |-> f, public_port |-> allocate_port, timer |-> NAT_TIMEOUT, born |-> allocs]
  OBVIOUS
<1>2. x.public_port = allocate_port /\ x.born = allocs
  BY <1>1
<1>3. entries' = [entries EXCEPT ![e] = x] /\ current_port' = allocate_port /\ allocs' = allocs + 1
  BY <1>1 DEF create_entry
<1>4. \A d \in EntryIds : entries'[d] = IF d = e THEN x ELSE entries[d]
  BY <1>3 DEF TypeOK
<1>5. allocs \in Nat /\ NPorts \in Nat /\ NPorts > 0
  BY NatFlowAssumption DEF TypeOK, NPorts
<1> SUFFICES ASSUME NEW d \in Live'
             PROVE  /\ Since(d)' \in Nat
                    /\ Since(d)' < NPorts =>
                         current_port' - entries'[d].public_port \in {Since(d)', Since(d)' - NPorts}
  BY DEF Spaced, NPorts
<1>6. d \in EntryIds
  BY DEF Live
<1>7. CASE d = e
  <2>1. entries'[d] = x
    BY <1>4, <1>6, <1>7
  <2>2. Since(d)' = 0
    BY <1>2, <1>3, <1>5, <2>1 DEF Since
  <2>3. allocate_port \in Int /\ current_port' - entries'[d].public_port = 0
    BY <1>2, <1>3, <2>1, PortInRange, NatFlowAssumption DEF Ports
  <2> QED
    BY <2>2, <2>3
<1>8. CASE d # e
  <2>1. entries'[d] = entries[d]
    BY <1>4, <1>6, <1>8
  <2>2. d \in Live
    BY <1>6, <2>1 DEF Live
  <2>3. PICK q \in Ports, b \in Nat : q = entries[d].public_port /\ b = entries[d].born
    BY <2>2, LivePort
  <2>4. PICK k \in Nat : k = Since(d)
    BY <2>2 DEF Spaced
  <2>5. Since(d)' = k + 1
    BY <1>3, <1>5, <2>1, <2>3, <2>4 DEF Since
  <2>6. k < NPorts => current_port - q \in {k, k - NPorts}
    BY <2>2, <2>3, <2>4 DEF Spaced
  <2>7. PICK p \in Int : p = allocate_port
    BY PortInRange, NatFlowAssumption DEF Ports
  <2>8. ASSUME k + 1 < NPorts PROVE p - q = k + 1 \/ p - q = k + 1 - NPorts
    BY <1>5, <2>3, <2>4, <2>6, <2>7, <2>8, NextPort
  <2>9. PICK s \in Nat : s = k + 1
    BY <2>4
  <2>10. Since(d)' = s
    BY <2>5, <2>9
  <2>11. s < NPorts => p - q \in {s, s - NPorts}
    BY <1>5, <2>3, <2>4, <2>7, <2>8, <2>9, NatFlowAssumption DEF Ports
  <2>12. current_port' = p /\ entries'[d].public_port = q
    BY <1>3, <2>1, <2>3, <2>7
  <2> QED
    BY <2>9, <2>10, <2>11, <2>12
<1> QED
  BY <1>7, <1>8

LEMMA SpacedStep == IInv /\ Spaced /\ [Next]_natVars => Spaced'
<1> SUFFICES ASSUME IInv, Spaced, [Next]_natVars PROVE Spaced'
  OBVIOUS
<1>1. TypeOK /\ TablesSound
  BY DEF IInv
<1>2. ASSUME NEW f \in Flows, OutboundHit(f) PROVE Spaced'
  BY <1>1, <1>2, SpacedRefresh DEF OutboundHit, TablesSound
<1>3. ASSUME NEW f \in Flows, NEW e \in EntryIds, OutboundNew(f, e) PROVE Spaced'
  BY <1>1, <1>3, SpacedCreate DEF OutboundNew
<1>4. ASSUME NEW k \in RevKeys, InboundHit(k) PROVE Spaced'
  BY <1>1, <1>4, SpacedRefresh DEF InboundHit, TablesSound
<1>5. ASSUME UNCHANGED natVars PROVE Spaced'
  BY <1>5, SpacedKept DEF natVars, Live
<1>6. ASSUME NEW p \in Packets, Forward(p) PROVE Spaced'
  <2>1. CASE p.kind = "in" /\ InboundHit(p.key)
    <3>1. p.key \in RevKeys
      BY <2>1 DEF Packets
    <3> QED
      BY <2>1, <3>1, <1>4
  <2>2. CASE p.kind = "out" /\ OutboundHit(p.flow)
    <3>1. p.flow \in Flows
      BY <2>2 DEF Packets
    <3> QED
      BY <2>2, <3>1, <1>2
  <2>3. CASE p.kind = "out" /\ \E e \in EntryIds : OutboundNew(p.flow, e)
    <3>1. p.flow \in Flows
      BY <2>3 DEF Packets
    <3> QED
      BY <2>3, <3>1, <1>3
  <2> QED
    BY <1>6, <2>1, <2>2, <2>3 DEF Forward
<1>7. ASSUME NEW p \in Packets, Drop(p) PROVE Spaced'
  BY <1>5, <1>7 DEF Drop, InboundMiss, OutboundNoMemory
<1>8. CASE nat_entry_expire
  <2>1. /\ entries' = [e \in EntryIds |-> IF e \in Due THEN NoEntry ELSE entries[e]]
        /\ UNCHANGED <<current_port, allocs>>
    BY <1>8 DEF nat_entry_expire
  <2>2. \A e \in Live' : e \in Live /\ entries'[e] = entries[e]
    BY <2>1 DEF Live
  <2> QED
    BY <2>1, <2>2, SpacedKept
<1>9. CASE Tick
  <2>1. /\ entries' = [e \in EntryIds |->
                        IF e \in Live \ Due THEN [entries[e] EXCEPT !.timer = @ - 1] ELSE entries[e]]
        /\ UNCHANGED <<current_port, allocs>>
    BY <1>9 DEF Tick
  <2>2. ASSUME NEW e \in Live' PROVE /\ e \in Live /\ entries'[e].born = entries[e].born
                                     /\ entries'[e].public_port = entries[e].public_port
    <3>1. e \in EntryIds /\ entries'[e] # NoEntry
      BY DEF Live
    <3>2. CASE e \in Live \ Due
      <4>1. entries[e] \in NatEntry
        BY <1>1, <3>2, LiveEntry
      <4>2. entries'[e] = [entries[e] EXCEPT !.timer = entries[e].timer - 1]
        BY <2>1, <3>1, <3>2
      <4> QED
        BY <3>2, <4>1, <4>2 DEF NatEntry
    <3>3. CASE e \notin Live \ Due
      <4>1. entries'[e] = entries[e]
        BY <2>1, <3>1, <3>3
      <4> QED
        BY <3>1, <4>1 DEF Live
    <3> QED
      BY <3>2, <3>3
  <2> QED
    BY <2>1, <2>2, SpacedKept
<1> QED
  BY <1>5, <1>6, <1>7, <1>8, <1>9 DEF Next

\* When create_entry gives a new mapping the reverse key that a live one still
\* holds, that very mapping is a whole round of the port range old.
THEOREM ClashesNeedARound == Spec => ClashNeedsWrap
<1> DEFINE Step == \A e \in EntryIds, d \in Live :
                     /\ entries[e] = NoEntry /\ entries'[e] # NoEntry
                     /\ RevKey(entries'[e]) = RevKey(entries[d])
                     => allocs - entries[d].born >= NPorts
<1>1. Init => IInv /\ Spaced
  BY InitHolds, SpacedInit
<1>2. IInv /\ Spaced /\ [Next]_natVars => IInv' /\ Spaced'
  BY StepHolds, SpacedStep
<1>3. ASSUME IInv, Spaced, [Next]_natVars PROVE [Step]_natVars
  <2> SUFFICES ASSUME NEW c \in EntryIds, NEW d \in Live, entries[c] = NoEntry, entries'[c] # NoEntry,
                      RevKey(entries'[c]) = RevKey(entries[d])
               PROVE  allocs - entries[d].born >= NPorts
    OBVIOUS
  <2>1. TypeOK /\ TablesSound
    BY <1>3 DEF IInv
  <2>2. PICK f \in Flows, e \in EntryIds : create_entry(f, e)
    <3>1. c \notin Live
      BY DEF Live
    <3>2. ~(\E e \in Live : refresh(e))
      BY <2>1, <3>1 DEF refresh, TypeOK, Live
    <3>3. PICK p \in Packets : Forward(p) \/ Drop(p)
      BY <1>3, <2>1, <3>1 DEF Next, nat_entry_expire, Tick, natVars
    <3>4. p.kind = "out" /\ \E e \in EntryIds : OutboundNew(p.flow, e)
      <4>1. ~Drop(p)
        BY DEF Drop, InboundMiss, OutboundNoMemory, natVars
      <4>2. ~(p.kind = "out" /\ OutboundHit(p.flow))
        BY <2>1, <3>2 DEF OutboundHit, TablesSound, Packets
      <4>3. ~(p.kind = "in" /\ InboundHit(p.key))
        BY <2>1, <3>2 DEF InboundHit, TablesSound, Packets
      <4> QED
        BY <3>3, <4>1, <4>2, <4>3 DEF Forward
    <3>5. p.flow \in Flows
      BY <3>3, <3>4 DEF Packets
    <3> QED
      BY <3>4, <3>5 DEF OutboundNew
  <2>3. PICK x : x = [flow |-> f, public_port |-> allocate_port, timer |-> NAT_TIMEOUT, born |-> allocs]
    OBVIOUS
  <2>4. entries'[c] = x
    BY <2>1, <2>2, <2>3 DEF create_entry, TypeOK
  <2>5. RevKey(entries'[c]).port = allocate_port
    BY <2>3, <2>4 DEF RevKey
  <2>6. entries[d].public_port = allocate_port
    <3>1. PICK r : r = RevKey(entries[d])
      OBVIOUS
    <3>2. r.port = entries[d].public_port
      BY <3>1 DEF RevKey
    <3> QED
      BY <2>5, <3>1, <3>2
  <2>7. PICK k \in Nat, q \in Ports : k = Since(d) /\ q = entries[d].public_port
    BY <1>3, <2>1, LivePort DEF Spaced
  <2>8. k < NPorts => current_port - q \in {k, k - NPorts}
    BY <1>3, <2>7 DEF Spaced
  <2>9. NPorts \in Nat /\ allocs \in Nat /\ entries[d].born \in Nat
    BY <2>1, LivePort, NatFlowAssumption DEF NPorts, TypeOK
  <2>10. ~(k + 1 < NPorts)
    BY <2>1, <2>6, <2>7, <2>8, <2>9, NextPort
  <2> QED
    BY <2>7, <2>9, <2>10 DEF Since
<1> QED
  BY <1>1, <1>2, <1>3, PTL DEF Spec, ClashNeedsWrap

-----------------------------------------------------------------------------
(* The loop of main                                                        *)

\* The loop's mbufs under owners o, and those in the places J of an array b.
App(o) == {m \in Mbufs : o[m] = "app"}
At(b, J) == {b[j] : j \in J}

\* Exactly the mbufs in the places J are the loop's, one in each.
Holds(b, o, J) ==
  /\ J \subseteq Indices
  /\ \A j, k \in J : b[j] = b[k] => j = k
  /\ App(o) = At(b, J)

LoopType ==
  /\ pc \in StartUp \cup Loop \cup {"cleanup", "done", "failed"}
  /\ nb_rx \in Nat /\ i \in Nat /\ tx_count \in Nat
  /\ bufs \in [Indices -> Mbufs]
  /\ owner \in [Mbufs -> {"pool", "app", "nic"}]

\* What the loop still has to look at, by its place.
Owned ==
  /\ ~misuse
  /\ pc = "process" => /\ tx_count <= i /\ i <= nb_rx /\ nb_rx <= BURST_SIZE
                       /\ Holds(bufs, owner, (0 .. (tx_count - 1)) \cup (i .. (nb_rx - 1)))
  /\ pc = "free_unsent" => /\ i <= tx_count /\ tx_count <= BURST_SIZE
                           /\ Holds(bufs, owner, i .. (tx_count - 1))
  /\ pc \notin {"process", "free_unsent"} => App(owner) = {}
  /\ pc \in StartUp \cup {"rx"} => i = 0 /\ tx_count = 0

LoopInv == LoopType /\ Owned

-----------------------------------------------------------------------------
(* What the steps do to the places of bufs.                                *)

\* Giving up the mbufs in the places K: they were the loop's, and the others
\* still are.
LEMMA GiveUpKeeps ==
  ASSUME NEW b \in [Indices -> Mbufs], NEW o \in [Mbufs -> {"pool", "app", "nic"}],
         NEW J, Holds(b, o, J), NEW K \in SUBSET J, NEW to \in {"pool", "nic"}
  PROVE  /\ \A m \in At(b, K) : o[m] = "app"
         /\ Holds(b, [m \in Mbufs |-> IF m \in At(b, K) THEN to ELSE o[m]], J \ K)
<1> DEFINE o2 == [m \in Mbufs |-> IF m \in At(b, K) THEN to ELSE o[m]]
<1>1. /\ J \subseteq Indices /\ \A j, k \in J : b[j] = b[k] => j = k
      /\ App(o) = At(b, J)
  BY DEF Holds
<1>2. At(b, K) \subseteq At(b, J)
  BY DEF At
<1>3. \A m \in At(b, K) : o[m] = "app"
  BY <1>1, <1>2 DEF App
<1>4. App(o2) = App(o) \ At(b, K)
  BY DEF App
<1>5. At(b, J) \ At(b, K) = At(b, J \ K)
  BY <1>1 DEF At
<1> HIDE DEF o2
<1>6. Holds(b, o2, J \ K)
  BY <1>1, <1>4, <1>5 DEF Holds
<1> QED
  BY <1>3, <1>6 DEF o2

\* Moving the mbuf at place x to place t, which the loop does not look at or
\* which is the same.
LEMMA MoveKeeps ==
  ASSUME NEW b \in [Indices -> Mbufs], NEW o, NEW J, Holds(b, o, J),
         NEW x \in J, NEW t \in Indices, t \notin J \/ t = x
  PROVE  Holds([b EXCEPT ![t] = b[x]], o, (J \ {x}) \cup {t})
<1> DEFINE b2 == [b EXCEPT ![t] = b[x]]
           J2 == (J \ {x}) \cup {t}
<1>1. /\ J \subseteq Indices /\ \A j, k \in J : b[j] = b[k] => j = k
      /\ App(o) = At(b, J)
  BY DEF Holds
<1>2. b2[t] = b[x] /\ \A j \in Indices \ {t} : b2[j] = b[j]
  OBVIOUS
<1> HIDE DEF b2
<1>3. J2 \subseteq Indices
  BY <1>1
<1>4. \A j \in J2 : j # t => j \in J /\ j # x /\ b2[j] = b[j]
  BY <1>1, <1>2
<1>5. \A j, k \in J2 : b2[j] = b2[k] => j = k
  BY <1>1, <1>2, <1>4
<1>6. At(b2, J2) = At(b, J)
  <2>1. \A j \in J2 : b2[j] \in At(b, J)
    BY <1>2, <1>4 DEF At
  <2>2. \A j \in J : j # x => j \in J2 /\ b2[j] = b[j]
    BY <1>1, <1>2
  <2>3. \A j \in J : b[j] \in At(b2, J2)
    BY <1>2, <2>2 DEF At
  <2> QED
    BY <2>1, <2>3 DEF At
<1> QED
  BY <1>1, <1>3, <1>5, <1>6 DEF Holds, b2

\* n mbufs in n places: no mbuf is in two of them.
LEMMA BurstDistinct ==
  ASSUME NEW n \in Nat, NEW b, Cardinality(At(b, 0 .. (n - 1))) = n
  PROVE  \A j, k \in 0 .. (n - 1) : b[j] = b[k] => j = k
<1> DEFINE S == 0 .. (n - 1)
           T == At(b, S)
           f == [j \in S |-> b[j]]
<1>1. IsFiniteSet(S) /\ Cardinality(S) = n
  BY FS_Interval
<1>2. f \in Surjection(S, T)
  <2>1. f \in [S -> T] /\ \A t \in T : \E j \in S : f[j] = t
    BY DEF At
  <2> HIDE DEF f, S, T
  <2> QED
    BY <2>1, Fun_IsSurj
<1> HIDE DEF f, S, T
<1>3. f \in Injection(S, T)
  <2>1. Cardinality(T) = Cardinality(S)
    BY <1>1 DEF S, T
  <2> QED
    BY <1>1, <1>2, <2>1, FS_Surjection
<1>4. \A j, k \in S : f[j] = f[k] => j = k
  BY <1>3, Fun_InjectionProperties
<1> QED
  BY <1>4 DEF f, S

-----------------------------------------------------------------------------
LEMMA LoopInit == InitMain => LoopInv
<1> SUFFICES ASSUME InitMain PROVE LoopInv
  OBVIOUS
<1>1. Mbufs # {}
  BY NatMainAssumption, FS_EmptySet
<1>2. bufs \in [Indices -> Mbufs]
  <2>1. (CHOOSE m \in Mbufs : TRUE) \in Mbufs
    BY <1>1
  <2> QED
    BY <2>1 DEF InitMain
<1>3. LoopType
  BY <1>2 DEF InitMain, LoopType, StartUp
<1>4. App(owner) = {}
  BY DEF InitMain, App
<1>5. Owned
  BY <1>4 DEF InitMain, Owned
<1> QED
  BY <1>3, <1>5 DEF LoopInv

LEMMA LoopRx == ASSUME LoopInv, RxBurst PROVE LoopInv'
<1>1. LoopType /\ Owned
  BY DEF LoopInv
<1>2. PICK n \in 1 .. BURST_SIZE, b \in [Indices -> Mbufs] :
        LET got == {b[j] : j \in 0 .. (n - 1)}
        IN  /\ Cardinality(got) = n
            /\ bufs' = b /\ nb_rx' = n
            /\ owner' = [m \in Mbufs |-> IF m \in got THEN "app" ELSE owner[m]]
  BY DEF RxBurst
<1>3. n \in Nat /\ n <= BURST_SIZE /\ n >= 1
  BY NatMainAssumption
<1>4. /\ pc = "rx" /\ pc' = "process" /\ i = 0 /\ tx_count = 0
      /\ UNCHANGED <<i, tx_count, misuse>> /\ App(owner) = {} /\ ~misuse
  BY <1>1 DEF RxBurst, Owned
<1> DEFINE J == 0 .. (n - 1)
<1>5. J \subseteq Indices
  BY <1>3, NatMainAssumption DEF Indices
<1>6. Cardinality(At(b, J)) = n
  BY <1>2 DEF At
<1>7. \A j, k \in J : b[j] = b[k] => j = k
  BY <1>3, <1>6, BurstDistinct
<1>8. owner' = [m \in Mbufs |-> IF m \in At(b, J) THEN "app" ELSE owner[m]]
  BY <1>2 DEF At
<1>9. At(b, J) \subseteq Mbufs
  BY <1>5 DEF At
<1> HIDE DEF J
<1>10. App(owner') = At(b, J)
  BY <1>4, <1>8, <1>9 DEF App
<1>11. Holds(b, owner', J)
  BY <1>5, <1>7, <1>10 DEF Holds
<1>12. (0 .. (tx_count' - 1)) \cup (i' .. (nb_rx' - 1)) = J
  BY <1>2, <1>3, <1>4 DEF J
<1>13. LoopType'
  BY <1>1, <1>2, <1>3, <1>4, <1>8 DEF LoopType, Loop
<1>14. Owned'
  <2>1. tx_count' <= i' /\ i' <= nb_rx' /\ nb_rx' <= BURST_SIZE
    BY <1>2, <1>3, <1>4
  <2>2. Holds(bufs', owner', (0 .. (tx_count' - 1)) \cup (i' .. (nb_rx' - 1)))
    BY <1>2, <1>11, <1>12
  <2> QED
    BY <1>4, <2>1, <2>2 DEF Owned, StartUp
<1> QED
  BY <1>13, <1>14 DEF LoopInv

LEMMA LoopKeep == ASSUME LoopInv, Keep PROVE LoopInv'
<1>1. LoopType /\ Owned
  BY DEF LoopInv
<1>2. /\ pc = "process" /\ i < nb_rx
      /\ bufs' = [bufs EXCEPT ![tx_count] = bufs[i]]
      /\ tx_count' = tx_count + 1 /\ i' = i + 1
      /\ UNCHANGED <<pc, nb_rx, owner, misuse>>
  BY DEF Keep
<1> DEFINE J == (0 .. (tx_count - 1)) \cup (i .. (nb_rx - 1))
<1>3. /\ tx_count <= i /\ nb_rx <= BURST_SIZE /\ Holds(bufs, owner, J) /\ ~misuse
      /\ nb_rx \in Nat /\ i \in Nat /\ tx_count \in Nat /\ bufs \in [Indices -> Mbufs]
  BY <1>1, <1>2 DEF LoopType, Owned
<1>4. i \in J /\ tx_count \in Indices /\ (tx_count \notin J \/ tx_count = i) /\ i \in Indices
  BY <1>2, <1>3, NatMainAssumption DEF Indices
<1>5. (0 .. ((tx_count + 1) - 1)) \cup ((i + 1) .. (nb_rx - 1)) = (J \ {i}) \cup {tx_count}
  BY <1>2, <1>3
<1> HIDE DEF J
<1>6. Holds(bufs', owner, (J \ {i}) \cup {tx_count})
  BY <1>2, <1>3, <1>4, MoveKeeps
<1>7. LoopType'
  BY <1>1, <1>2, <1>3, <1>4 DEF LoopType
<1>8. Owned'
  <2>1. tx_count' <= i' /\ i' <= nb_rx' /\ nb_rx' <= BURST_SIZE
    BY <1>2, <1>3
  <2>2. Holds(bufs', owner', (0 .. (tx_count' - 1)) \cup (i' .. (nb_rx' - 1)))
    BY <1>2, <1>5, <1>6
  <2> QED
    BY <1>2, <1>3, <2>1, <2>2 DEF Owned, StartUp
<1> QED
  BY <1>7, <1>8 DEF LoopInv

LEMMA LoopDrop == ASSUME LoopInv, DropPacket PROVE LoopInv'
<1>1. LoopType /\ Owned
  BY DEF LoopInv
<1>2. /\ pc = "process" /\ i < nb_rx /\ GiveUp({bufs[i]}, "pool") /\ i' = i + 1
      /\ UNCHANGED <<pc, bufs, nb_rx, tx_count>>
  BY DEF DropPacket
<1> DEFINE J == (0 .. (tx_count - 1)) \cup (i .. (nb_rx - 1))
<1>3. /\ tx_count <= i /\ nb_rx <= BURST_SIZE /\ Holds(bufs, owner, J) /\ ~misuse
      /\ nb_rx \in Nat /\ i \in Nat /\ tx_count \in Nat /\ bufs \in [Indices -> Mbufs]
      /\ owner \in [Mbufs -> {"pool", "app", "nic"}]
  BY <1>1, <1>2 DEF LoopType, Owned
<1>4. {i} \in SUBSET J
  BY <1>2, <1>3
<1>5. (0 .. (tx_count - 1)) \cup ((i + 1) .. (nb_rx - 1)) = J \ {i}
  BY <1>2, <1>3
<1>6. {bufs[i]} = At(bufs, {i})
  BY DEF At
<1> HIDE DEF J
<1>7. /\ owner' = [m \in Mbufs |-> IF m \in At(bufs, {i}) THEN "pool" ELSE owner[m]]
      /\ misuse' = (misuse \/ \E m \in At(bufs, {i}) : owner[m] # "app")
  BY <1>2, <1>6 DEF GiveUp
<1>8. (\A m \in At(bufs, {i}) : owner[m] = "app") /\ Holds(bufs, owner', J \ {i})
  BY <1>3, <1>4, <1>7, GiveUpKeeps
<1>9. LoopType'
  BY <1>1, <1>2, <1>3, <1>7 DEF LoopType
<1>10. Owned'
  <2>1. tx_count' <= i' /\ i' <= nb_rx' /\ nb_rx' <= BURST_SIZE
    BY <1>2, <1>3
  <2>2. Holds(bufs', owner', (0 .. (tx_count' - 1)) \cup (i' .. (nb_rx' - 1)))
    BY <1>2, <1>5, <1>8
  <2>3. ~misuse'
    BY <1>3, <1>7, <1>8
  <2> QED
    BY <1>2, <2>1, <2>2, <2>3 DEF Owned, StartUp
<1> QED
  BY <1>9, <1>10 DEF LoopInv

LEMMA LoopTx == ASSUME LoopInv, TxBurst PROVE LoopInv'
<1>1. LoopType /\ Owned
  BY DEF LoopInv
<1>2. PICK sent \in 0 .. tx_count :
        GiveUp({bufs[j] : j \in 0 .. (sent - 1)}, "nic") /\ i' = sent
  BY DEF TxBurst
<1>3. /\ pc = "process" /\ i = nb_rx /\ pc' = "free_unsent" /\ UNCHANGED <<bufs, nb_rx, tx_count>>
  BY DEF TxBurst
<1> DEFINE J == 0 .. (tx_count - 1)
           K == 0 .. (sent - 1)
<1>4. /\ tx_count <= i /\ nb_rx <= BURST_SIZE /\ ~misuse
      /\ Holds(bufs, owner, (0 .. (tx_count - 1)) \cup (i .. (nb_rx - 1)))
      /\ nb_rx \in Nat /\ i \in Nat /\ tx_count \in Nat /\ bufs \in [Indices -> Mbufs]
      /\ owner \in [Mbufs -> {"pool", "app", "nic"}]
  BY <1>1, <1>3 DEF LoopType, Owned
<1>5. (0 .. (tx_count - 1)) \cup (i .. (nb_rx - 1)) = J
  BY <1>3, <1>4
<1>6. sent \in Nat /\ sent <= tx_count
  BY <1>4
<1>7. K \in SUBSET J /\ J \ K = sent .. (tx_count - 1)
  BY <1>4, <1>6
<1>8. /\ owner' = [m \in Mbufs |-> IF m \in At(bufs, K) THEN "nic" ELSE owner[m]]
      /\ misuse' = (misuse \/ \E m \in At(bufs, K) : owner[m] # "app")
  BY <1>2 DEF GiveUp, At
<1> HIDE DEF J, K
<1>9. (\A m \in At(bufs, K) : owner[m] = "app") /\ Holds(bufs, owner', J \ K)
  BY <1>4, <1>5, <1>7, <1>8, GiveUpKeeps
<1>10. LoopType'
  BY <1>1, <1>2, <1>3, <1>4, <1>6, <1>8 DEF LoopType, Loop
<1>11. Owned'
  <2>1. i' <= tx_count' /\ tx_count' <= BURST_SIZE
    BY <1>2, <1>3, <1>4, <1>6, NatMainAssumption
  <2>2. Holds(bufs', owner', i' .. (tx_count' - 1))
    BY <1>2, <1>3, <1>7, <1>9
  <2>3. ~misuse'
    BY <1>4, <1>8, <1>9
  <2> QED
    BY <1>3, <2>1, <2>2, <2>3 DEF Owned, StartUp
<1> QED
  BY <1>10, <1>11 DEF LoopInv

LEMMA LoopFree == ASSUME LoopInv, FreeUnsent PROVE LoopInv'
<1>1. LoopType /\ Owned
  BY DEF LoopInv
<1> DEFINE J == i .. (tx_count - 1)
<1>2. /\ pc = "free_unsent" /\ pc' = "timers" /\ UNCHANGED <<bufs, nb_rx, i, tx_count>>
      /\ owner' = [m \in Mbufs |-> IF m \in At(bufs, J) THEN "pool" ELSE owner[m]]
      /\ misuse' = (misuse \/ \E m \in At(bufs, J) : owner[m] # "app")
  BY DEF FreeUnsent, GiveUp, At
<1>3. /\ Holds(bufs, owner, J) /\ ~misuse /\ bufs \in [Indices -> Mbufs]
      /\ owner \in [Mbufs -> {"pool", "app", "nic"}]
  BY <1>1, <1>2 DEF LoopType, Owned
<1> HIDE DEF J
<1>4. (\A m \in At(bufs, J) : owner[m] = "app") /\ Holds(bufs, owner', J \ J)
  BY <1>2, <1>3, GiveUpKeeps
<1>5. App(owner') = {}
  BY <1>4 DEF Holds, At
<1>6. LoopType'
  BY <1>1, <1>2, <1>3 DEF LoopType, Loop
<1>7. Owned'
  BY <1>2, <1>3, <1>4, <1>5 DEF Owned, StartUp
<1> QED
  BY <1>6, <1>7 DEF LoopInv

\* The driver only gives back what it was given.
LEMMA LoopTxDone == ASSUME LoopInv, TxDone PROVE LoopInv'
<1>1. LoopType /\ Owned
  BY DEF LoopInv
<1>2. PICK m \in Mbufs : owner[m] = "nic" /\ owner' = [owner EXCEPT ![m] = "pool"]
  BY DEF TxDone
<1>3. UNCHANGED <<pc, bufs, nb_rx, i, tx_count, misuse>>
  BY DEF TxDone
<1>4. LoopType'
  BY <1>1, <1>2, <1>3 DEF LoopType
<1>5. App(owner') = App(owner)
  BY <1>1, <1>2 DEF App, LoopType
<1>6. Owned'
  BY <1>1, <1>3, <1>5 DEF Owned, Holds
<1> QED
  BY <1>4, <1>6 DEF LoopInv

\* Startup, the loop test, the timers, signals and time touch no mbuf.
LEMMA LoopOther ==
  ASSUME LoopInv,
         \/ rte_eal_init \/ create_mempool \/ init_port \/ nat_init \/ RxNothing
         \/ Timers \/ Cleanup \/ signal_handler \/ Clock \/ UNCHANGED vars
  PROVE  LoopInv'
<1>1. LoopType /\ Owned
  BY DEF LoopInv
<1>2. CASE \/ rte_eal_init \/ create_mempool \/ init_port \/ nat_init \/ RxNothing
  <2>1. /\ pc \in StartUp \cup {"rx"}
        /\ pc' \in StartUp \cup {"rx", "cleanup", "failed"}
        /\ UNCHANGED <<bufs, nb_rx, i, tx_count, owner, misuse>>
    BY <1>2 DEF rte_eal_init, create_mempool, init_port, nat_init, RxNothing, Start, LoopTest,
                StartUp
  <2> QED
    BY <1>1, <2>1 DEF LoopInv, LoopType, Owned, StartUp, Loop
<1>3. CASE Timers
  BY <1>1, <1>3 DEF Timers, LoopTest, LoopInv, LoopType, Owned, StartUp, Loop
<1>4. CASE Cleanup
  BY <1>1, <1>4 DEF Cleanup, LoopInv, LoopType, Owned, StartUp, Loop
<1>5. CASE signal_handler \/ Clock \/ UNCHANGED vars
  <2>1. UNCHANGED <<pc, bufs, nb_rx, i, tx_count, owner, misuse>>
    BY <1>5 DEF signal_handler, Clock, vars, loopVars
  <2> QED
    BY <1>1, <2>1 DEF LoopInv, LoopType, Owned
<1> QED
  BY <1>2, <1>3, <1>4, <1>5

LEMMA LoopStep == LoopInv /\ [NextMain]_vars => LoopInv'
BY LoopRx, LoopKeep, LoopDrop, LoopTx, LoopFree, LoopTxDone, LoopOther DEF NextMain, Lcore

\* The loop's mbufs are where it will look, in every state.
THEOREM LoopInvariance == SpecMain => []LoopInv
BY LoopInit, LoopStep, PTL DEF SpecMain

\* Every mbuf that the loop of main.c receives is sent or freed exactly once,
\* while it compacts bufs in place, and none is its own when it receives again.
THEOREM MbufsReturned == SpecMain => []MbufsAccounted
<1>1. LoopInv => MbufsAccounted
  <2> SUFFICES ASSUME LoopInv PROVE MbufsAccounted
    OBVIOUS
  <2>1. pc = "process" =>
          {m \in Mbufs : owner[m] = "app"}
            = {bufs[j] : j \in (0 .. (tx_count - 1)) \cup (i .. (nb_rx - 1))}
    BY DEF LoopInv, Owned, Holds, App, At
  <2>2. pc \in {"rx", "timers", "cleanup", "done"} => \A m \in Mbufs : owner[m] # "app"
    BY DEF LoopInv, Owned, App
  <2> QED
    BY <2>1, <2>2 DEF LoopInv, Owned, MbufsAccounted
<1> QED
  BY <1>1, LoopInvariance, PTL

\* The loop calls the NAPT engine by its own steps: its tables stay sound while
\* the loop drives it, in whatever order packets, timers and signals come.
THEOREM EngineInLoop == SpecMain => []TablesSound
<1>1. InitMain => IInv
  BY InitHolds DEF InitMain
<1>2. [NextMain]_vars => [Next]_natVars
  BY DEF NextMain, Lcore, TxDone, signal_handler, Clock, rte_eal_init, create_mempool,
         init_port, nat_init, Start, RxBurst, RxNothing, Keep, DropPacket, TxBurst,
         FreeUnsent, Timers, Cleanup, Next, vars
<1>3. IInv /\ [NextMain]_vars => IInv'
  BY <1>2, StepHolds
<1>4. IInv => TablesSound
  BY DEF IInv
<1> QED
  BY <1>1, <1>3, <1>4, PTL DEF SpecMain

=============================================================================
