-------------------------- MODULE ForwarderProofs --------------------------
(***************************************************************************)
(* Proofs about the programs of MCForwarders, for any sizes and traffic.   *)
(*                                                                         *)
(* The round robin of LoadBalancer: the backends before next_backend have  *)
(* had one packet more than the others.  Then its mbufs: each one received *)
(* is in the burst in hand, with the driver, or freed, and the printed     *)
(* totals count them.  Then AclTables, AclForward, Vxlan and ControlData,  *)
(* each with its inductive invariant, the step that preserves it and what  *)
(* follows from it; at the end all of them as one specification.           *)
(***************************************************************************)
EXTENDS MCForwarders, FiniteSetTheorems, SequenceTheorems, WellFoundedInduction, TLAPS

\* In round q: backends below next_backend have had their packet already.
InRound(q) ==
  \A b \in Backends : backend_hits[b] = (IF b < next_backend THEN q + 1 ELSE q)

IInv ==
  /\ next_backend \in Backends /\ backend_hits \in [Backends -> Nat]
  /\ \E q \in Nat : InRound(q)

-----------------------------------------------------------------------------
\* The turn passes to the next backend, and from the last one to the first.
LEMMA NextTurn ==
  ASSUME NEW b \in Backends
  PROVE  (b + 1) % n_backends = (IF b = n_backends - 1 THEN 0 ELSE b + 1)
<1>1. n_backends \in Nat \ {0}
  BY LoadBalancerAssumption
<1>2. b \in Nat /\ b <= n_backends - 1
  BY <1>1 DEF Backends
<1>3. CASE b = n_backends - 1
  <2>1. n_backends % n_backends = 0
    BY <1>1
  <2> QED
    BY <1>1, <1>3, <2>1
<1>4. CASE b < n_backends - 1
  <2>1. b + 1 \in 0 .. (n_backends - 1)
    BY <1>1, <1>2, <1>4
  <2>2. \A x \in 0 .. (n_backends - 1) : x % n_backends = x
    BY <1>1
  <2> QED
    BY <1>1, <1>2, <1>4, <2>1, <2>2
<1> QED
  BY <1>1, <1>2, <1>3, <1>4

LEMMA InitHolds == Init => IInv
<1> SUFFICES ASSUME Init PROVE IInv
  OBVIOUS
<1>1. next_backend \in Backends /\ backend_hits \in [Backends -> Nat]
  BY LoadBalancerAssumption DEF Init, Backends
<1>2. InRound(0)
  BY DEF Init, InRound, Backends
<1> QED
  BY <1>1, <1>2 DEF IInv

\* One packet: it stays as it is, or the backend whose turn it is gets it.
LEMMA RewriteStep == ASSUME IInv, Rewrite PROVE IInv'
<1>1. PICK q \in Nat : InRound(q)
  BY DEF IInv
<1>2. next_backend \in Backends /\ backend_hits \in [Backends -> Nat]
  BY DEF IInv
<1>3. CASE UNCHANGED balanceVars
  BY <1>3 DEF IInv, InRound, balanceVars
<1>4. CASE /\ next_backend' = (next_backend + 1) % n_backends
           /\ backend_hits' = [backend_hits EXCEPT ![next_backend] = @ + 1]
  <2>1. backend_hits' \in [Backends -> Nat]
    BY <1>2, <1>4
  <2>2. next_backend' = (IF next_backend = n_backends - 1 THEN 0 ELSE next_backend + 1)
    BY <1>2, <1>4, NextTurn
  <2>3. next_backend' \in Backends
    BY <1>2, <2>2, LoadBalancerAssumption DEF Backends
  <2>4. CASE next_backend = n_backends - 1
    <3>1. \A b \in Backends : backend_hits'[b] = q + 1
      BY <1>1, <1>2, <1>4, <2>4, LoadBalancerAssumption DEF InRound, Backends
    <3>2. InRound(q + 1)'
      BY <2>2, <2>4, <3>1 DEF InRound, Backends
    <3> QED
      BY <2>1, <2>3, <3>2 DEF IInv
  <2>5. CASE next_backend # n_backends - 1
    <3>1. InRound(q)'
      BY <1>1, <1>2, <1>4, <2>2, <2>5, LoadBalancerAssumption DEF InRound, Backends
    <3> QED
      BY <2>1, <2>3, <3>1 DEF IInv
  <2> QED
    BY <2>4, <2>5
<1> QED
  BY <1>3, <1>4 DEF Rewrite, rewrite_l4_packet

LEMMA StepHolds == IInv /\ [Next]_vars => IInv'
<1> SUFFICES ASSUME IInv, [Next]_vars PROVE IInv'
  OBVIOUS
<1>1. CASE UNCHANGED balanceVars
  BY <1>1 DEF IInv, InRound, balanceVars
<1>2. CASE Rewrite
  BY <1>2, RewriteStep
<1> QED
  BY <1>1, <1>2 DEF Next, lcore_main, signal_handler, LoopExit, RxBurst, TxBurst, vars

-----------------------------------------------------------------------------
\* The round-robin invariant.
THEOREM Invariance == Spec => []IInv
BY InitHolds, StepHolds, PTL DEF Spec

\* However the traffic is mixed and the bursts are cut, next_backend stays in
\* the table and no backend gets more than one packet ahead of another.
THEOREM RoundRobin == Spec => []Balanced
<1>1. IInv => Balanced
  <2> SUFFICES ASSUME IInv PROVE Balanced
    OBVIOUS
  <2>1. PICK q \in Nat : InRound(q)
    BY DEF IInv
  <2>2. next_backend \in Backends
    BY DEF IInv
  <2>3. \A b \in Backends : backend_hits[b] \in {q, q + 1}
    BY <2>1 DEF InRound
  <2>4. \A b \in Backends : b \in Int
    BY LoadBalancerAssumption DEF Backends
  <2>5. backend_hits[next_backend] = q
    BY <2>1, <2>2, <2>4 DEF InRound
  <2> QED
    BY <2>3, <2>5 DEF Balanced
<1> QED
  BY <1>1, Invariance, PTL

-----------------------------------------------------------------------------
(* Types and totals.                                                       *)

\* The loop over the burst stays inside it, and the burst in hand is the
\* difference between the totals.
InHand ==
  /\ pc = "rewrite" => i <= Len(pkts)
  /\ pc \in {"test", "done"} => pkts = <<>>
  /\ total_rx = Len(wire) + freed + Len(pkts)
  /\ total_tx = Len(wire) /\ total_drop = freed

\* The other byte order has the same bytes.
LEMMA ReversedSequence ==
  ASSUME NEW S, NEW s \in Seq(S)
  PROVE  Reversed(s) \in Seq(S)
<1>1. Len(s) \in Nat /\ \A j \in 1 .. Len(s) : s[j] \in S
  BY LenProperties, ElementOfSeq
<1>2. \A k \in 1 .. Len(s) : Len(s) + 1 - k \in 1 .. Len(s)
  BY <1>1
<1>3. Reversed(s) \in [1 .. Len(s) -> S]
  BY <1>1, <1>2 DEF Reversed
<1> QED
  BY <1>1, <1>3, SeqDef

\* What the headers get from the table of backends.
LEMMA BackendBytes ==
  ASSUME NEW b \in Backends
  PROVE  /\ Stored(backends[b].ip) \in Seq(0 .. 255)
         /\ Stored(backends[b].port) \in Seq(0 .. 255)
<1>1. BackendIP[b] \in Seq(0 .. 255)
  BY LoadBalancerAssumption DEF Backends
<1>2. Port10000 \in Seq(0 .. 255)
  BY DEF Port10000
<1>3. rte_cpu_to_be(Port10000) \in Seq(0 .. 255)
  BY <1>2, ReversedSequence DEF rte_cpu_to_be
<1>4. backends[b].ip = BackendIP[b] /\ backends[b].port = rte_cpu_to_be(Port10000)
  BY DEF backends, RTE_IPV4
<1> QED
  BY <1>1, <1>3, <1>4, ReversedSequence DEF Stored

\* A burst of n packets of any kinds.
LEMMA BurstIsSequence ==
  ASSUME NEW n \in Nat, NEW ks \in [1 .. n -> Kinds]
  PROVE  /\ [k \in 1 .. n |-> Arriving(ks[k])] \in Seq(Packets)
         /\ Len([k \in 1 .. n |-> Arriving(ks[k])]) = n
<1> DEFINE s == [k \in 1 .. n |-> Arriving(ks[k])]
<1>1. \A k \in 1 .. n : Arriving(ks[k]) \in Packets
  <2>1. <<10, 0, 0, 1>> \in Seq(0 .. 255) /\ <<0, 80>> \in Seq(0 .. 255)
    OBVIOUS
  <2> QED
    BY <2>1 DEF Arriving, Packets
<1>2. s \in [1 .. n -> Packets]
  BY <1>1
<1>3. s \in Seq(Packets)
  BY <1>2, SeqDef
<1>4. DOMAIN s = 1 .. n /\ Len(s) \in Nat /\ DOMAIN s = 1 .. Len(s)
  BY <1>3, LenProperties
<1>5. 1 .. n = 1 .. Len(s)
  BY <1>4
<1> HIDE DEF s
<1>6. Len(s) = n
  BY <1>4, <1>5
<1> QED
  BY <1>3, <1>6 DEF s

LEMMA TotalsInit == Init => TypeOK /\ InHand
<1> SUFFICES ASSUME Init PROVE TypeOK /\ InHand
  OBVIOUS
<1>1. <<>> \in Seq(Packets) /\ Len(<<>>) = 0
  BY EmptySeq
<1>2. 0 \in Backends /\ [b \in Backends |-> 0] \in [Backends -> Nat]
  BY LoadBalancerAssumption DEF Backends
<1> QED
  BY <1>1, <1>2 DEF Init, TypeOK, InHand

\* Rewriting a packet in place moves no mbuf.
LEMMA TotalsRewrite == ASSUME TypeOK, InHand, Rewrite PROVE TypeOK' /\ InHand'
<1>1. /\ pc = "rewrite" /\ i' = i + 1
      /\ pc' = IF i = Len(pkts) THEN "send" ELSE "rewrite"
      /\ UNCHANGED <<force_quit, total_rx, total_tx, total_drop, wire, freed>>
  BY DEF Rewrite, totalVars
<1>2. Len(pkts) \in Nat /\ Len(wire) \in Nat /\ i \in Nat \ {0} /\ i <= Len(pkts)
  BY <1>1, LenProperties DEF TypeOK, InHand
<1>3. i \in 1 .. Len(pkts) /\ pkts[i] \in Packets
  BY <1>2, ElementOfSeq DEF TypeOK
<1>4. /\ pkts' \in Seq(Packets) /\ Len(pkts') = Len(pkts)
      /\ next_backend' \in Backends /\ backend_hits' \in [Backends -> Nat]
  <2>1. CASE UNCHANGED <<pkts, balanceVars>>
    BY <2>1 DEF TypeOK, balanceVars
  <2>2. CASE /\ next_backend' = (next_backend + 1) % n_backends
             /\ pkts' = [pkts EXCEPT ![i].dst = Stored(backends[next_backend].ip),
                                     ![i].port = Stored(backends[next_backend].port),
                                     ![i].backend = next_backend]
             /\ backend_hits' = [backend_hits EXCEPT ![next_backend] = @ + 1]
    <3> DEFINE x == [kind |-> pkts[i].kind, dst |-> Stored(backends[next_backend].ip),
                     port |-> Stored(backends[next_backend].port), backend |-> next_backend]
    <3>1. next_backend \in Backends /\ backend_hits \in [Backends -> Nat]
      BY DEF TypeOK
    <3>2. x \in Packets
      BY <1>3, <3>1, BackendBytes DEF Packets
    <3>3. pkts' = [pkts EXCEPT ![i] = x]
      <4>1. pkts \in [1 .. Len(pkts) -> Packets]
        BY LenProperties DEF TypeOK
      <4>2. DOMAIN pkts' = DOMAIN pkts /\ \A k \in DOMAIN pkts \ {i} : pkts'[k] = pkts[k]
        BY <1>3, <2>2, <4>1
      <4>3. pkts'[i] = x
        BY <1>3, <2>2, <4>1 DEF Packets
      <4> QED
        BY <1>3, <2>2, <4>1, <4>2, <4>3
    <3> HIDE DEF x
    <3>4. pkts' \in Seq(Packets) /\ Len(pkts') = Len(pkts)
      BY <1>3, <3>2, <3>3, ExceptSeq DEF TypeOK
    <3>5. next_backend' \in Backends
      BY <2>2, <3>1, NextTurn, LoadBalancerAssumption DEF Backends
    <3>6. backend_hits' \in [Backends -> Nat]
      BY <2>2, <3>1
    <3> QED
      BY <3>4, <3>5, <3>6
  <2> QED
    BY <2>1, <2>2 DEF Rewrite, rewrite_l4_packet
<1>5. TypeOK'
  BY <1>1, <1>2, <1>4 DEF TypeOK
<1>6. InHand'
  BY <1>1, <1>2, <1>4 DEF TypeOK, InHand
<1> QED
  BY <1>5, <1>6

\* The driver takes the first packets of the burst, the others are freed.
LEMMA TotalsTx == ASSUME TypeOK, InHand, TxBurst PROVE TypeOK' /\ InHand'
<1>1. PICK nb_tx \in 0 .. Len(pkts) :
        /\ wire' = wire \o SubSeq(pkts, 1, nb_tx)
        /\ total_tx' = total_tx + nb_tx
        /\ total_drop' = total_drop + (Len(pkts) - nb_tx)
        /\ freed' = freed + (Len(pkts) - nb_tx)
  BY DEF TxBurst
<1>2. /\ pkts' = <<>> /\ pc' = "test"
      /\ UNCHANGED <<force_quit, next_backend, backend_hits, total_rx, i>>
  BY DEF TxBurst, balanceVars
<1>3. Len(pkts) \in Nat /\ Len(wire) \in Nat /\ nb_tx \in Nat
  BY LenProperties DEF TypeOK
<1>4. \A j \in 1 .. nb_tx : pkts[j] \in Packets
  BY <1>3, ElementOfSeq DEF TypeOK
<1>5. SubSeq(pkts, 1, nb_tx) \in Seq(Packets) /\ Len(SubSeq(pkts, 1, nb_tx)) = nb_tx
  BY <1>3, <1>4, SubSeqProperties DEF TypeOK
<1>6. wire' \in Seq(Packets) /\ Len(wire') = Len(wire) + nb_tx
  BY <1>1, <1>5, ConcatProperties DEF TypeOK
<1>7. pkts' \in Seq(Packets) /\ Len(pkts') = 0
  BY <1>2, EmptySeq
<1>8. TypeOK'
  BY <1>1, <1>2, <1>3, <1>6, <1>7 DEF TypeOK
<1>9. /\ total_rx = Len(wire) + freed + Len(pkts)
      /\ total_tx = Len(wire) /\ total_drop = freed /\ freed \in Nat
  BY DEF InHand, TypeOK
<1>10. /\ total_rx' = Len(wire') + freed' + Len(pkts')
       /\ total_tx' = Len(wire') /\ total_drop' = freed'
  <2>1. total_tx' = Len(wire') /\ total_drop' = freed'
    BY <1>1, <1>3, <1>6, <1>9
  <2>2. Len(wire') = Len(wire) + nb_tx /\ freed' = freed + (Len(pkts) - nb_tx)
        /\ Len(pkts') = 0 /\ total_rx' = total_rx
    BY <1>1, <1>2, <1>6, <1>7
  <2>3. total_rx' = Len(wire') + freed' + Len(pkts')
    BY <1>3, <1>9, <2>2
  <2> QED
    BY <2>1, <2>3
<1>11. InHand'
  BY <1>2, <1>10 DEF InHand
<1> QED
  BY <1>8, <1>11

LEMMA TotalsStep == TypeOK /\ InHand /\ [Next]_vars => TypeOK' /\ InHand'
<1> SUFFICES ASSUME TypeOK, InHand, [Next]_vars PROVE TypeOK' /\ InHand'
  OBVIOUS
<1>1. CASE signal_handler
  BY <1>1 DEF signal_handler, TypeOK, InHand, balanceVars, totalVars
<1>2. CASE LoopExit
  BY <1>2 DEF LoopExit, TypeOK, InHand, balanceVars, totalVars
<1>3. CASE RxBurst
  <2>1. PICK nb_rx \in 1 .. BURST_SIZE :
          /\ total_rx' = total_rx + nb_rx
          /\ \E ks \in [1 .. nb_rx -> Kinds] :
                pkts' = [k \in 1 .. nb_rx |-> Arriving(ks[k])]
    BY <1>3 DEF RxBurst
  <2>2. nb_rx \in Nat /\ nb_rx >= 1
    BY LoadBalancerAssumption
  <2>3. pkts' \in Seq(Packets) /\ Len(pkts') = nb_rx
    BY <2>1, <2>2, BurstIsSequence
  <2>4. /\ pc = "test" /\ i' = 1 /\ pc' = "rewrite"
        /\ UNCHANGED <<force_quit, next_backend, backend_hits, total_tx, total_drop, wire, freed>>
    BY <1>3 DEF RxBurst, balanceVars
  <2>5. Len(pkts) = 0 /\ Len(wire) \in Nat
    BY <2>4, EmptySeq, LenProperties DEF TypeOK, InHand
  <2> QED
    BY <2>1, <2>2, <2>3, <2>4, <2>5 DEF TypeOK, InHand
<1>4. CASE Rewrite
  BY <1>4, TotalsRewrite
<1>5. CASE TxBurst
  BY <1>5, TotalsTx
<1>6. CASE UNCHANGED vars
  BY <1>6 DEF vars, TypeOK, InHand, balanceVars, totalVars
<1> QED
  BY <1>1, <1>2, <1>3, <1>4, <1>5, <1>6 DEF Next, lcore_main

\* Types, with the index into the table of backends inside it, and the burst
\* in hand as the difference between the totals.
THEOREM TypeCorrect == Spec => [](TypeOK /\ InHand)
<1>1. Init => TypeOK /\ InHand
  BY TotalsInit
<1>2. (TypeOK /\ InHand) /\ [Next]_vars => (TypeOK /\ InHand)'
  BY TotalsStep
<1> QED
  BY <1>1, <1>2, PTL DEF Spec

\* No mbuf leaks in the loop of lcore_main, however many packets the driver
\* takes, and the totals it prints account for each.
THEOREM MbufsReturned == Spec => []MbufsAccounted
<1>1. TypeOK /\ InHand => MbufsAccounted
  <2> SUFFICES ASSUME TypeOK, InHand PROVE MbufsAccounted
    OBVIOUS
  <2>1. Len(wire) \in Nat /\ freed \in Nat
    BY LenProperties DEF TypeOK
  <2>2. pc \in {"test", "done"} => Len(pkts) = 0
    BY EmptySeq DEF InHand
  <2> QED
    BY <2>1, <2>2 DEF InHand, MbufsAccounted
<1> QED
  BY <1>1, TypeCorrect, PTL

-----------------------------------------------------------------------------
(* AclTables.  The rule with the highest priority decides; a key that no   *)
(* rule matches gets 0, which is what the defaults say.                    *)

\* Port numbers as numbers.
LEMMA Ports16 ==
  /\ 0 \in Tables!AllPorts /\ Tables!AllPorts \subseteq Int
  /\ \A x, n \in Int : x \in Tables!Only(n) <=> x = n
<1>1. 0 \in Tables!AllPorts /\ Tables!AllPorts \subseteq Int
  BY SMT DEF Tables!AllPorts
<1>2. \A x, n \in Int : x \in Tables!Only(n) <=> x = n
  BY SMT DEF Tables!Only
<1> QED
  BY <1>1, <1>2

\* One matching rule has the highest priority, or none matches.
LEMMA Classified1 ==
  ASSUME NEW rules, NEW key, NEW r \in Tables!Matching(rules, key), r.priority \in Int,
         \A s \in Tables!Matching(rules, key) : s # r => s.priority \in Int /\ s.priority < r.priority
  PROVE  Tables!rte_acl_classify(rules, key) = r.userdata
<1> DEFINE found == Tables!Matching(rules, key)
           best == CHOOSE x \in found : \A s \in found : s.priority <= x.priority
<1>1. Tables!rte_acl_classify(rules, key) = best.userdata
  BY DEF Tables!rte_acl_classify
<1>2. \A s \in found : s.priority <= r.priority
  OBVIOUS
<1>3. best \in found /\ \A s \in found : s.priority <= best.priority
  BY <1>2
<1>4. best = r
  BY <1>3
<1> QED
  BY <1>1, <1>4

LEMMA Unmatched ==
  ASSUME NEW rules, NEW key, Tables!Matching(rules, key) = {}
  PROVE  Tables!rte_acl_classify(rules, key) = 0
BY DEF Tables!rte_acl_classify

\* A table with one rule.
LEMMA OneRule ==
  ASSUME NEW r, r.priority \in Int, NEW key
  PROVE  /\ r \in Tables!Matching({r}, key) => Tables!rte_acl_classify({r}, key) = r.userdata
         /\ r \notin Tables!Matching({r}, key) => Tables!rte_acl_classify({r}, key) = 0
<1>1. Tables!Matching({r}, key) \subseteq {r}
  BY DEF Tables!Matching
<1>2. CASE r \in Tables!Matching({r}, key)
  BY <1>1, <1>2, Classified1
<1>3. CASE r \notin Tables!Matching({r}, key)
  BY <1>1, <1>3, Unmatched
<1> QED
  BY <1>2, <1>3

LEMMA ExpAnswers ==
  ASSUME NEW key, key.sport \in Tables!AllPorts, key.dport \in Tables!AllPorts
  PROVE  Tables!rte_acl_classify(Tables!exp_rules, key) \in {0, 1}
<1> DEFINE r == Tables!Rule("TCP", "172.17.166.200", Tables!Any, Tables!AllPorts, Tables!AllPorts, 10, 1)
<1>1. /\ r.proto = "TCP" /\ r.src = "172.17.166.200" /\ r.dst = "any" /\ r.priority = 10
      /\ r.sport = Tables!AllPorts /\ r.dport = Tables!AllPorts /\ r.userdata = 1
  BY SMT DEF Tables!Rule, Tables!Any
<1>2. Tables!exp_rules = {r}
  BY DEF Tables!exp_rules
<1> HIDE DEF r
<1> QED
  BY <1>1, <1>2, OneRule

LEMMA RealDecides ==
  ASSUME NEW key, key.sport \in Tables!AllPorts, key.dport \in Tables!AllPorts
  PROVE  Tables!rte_acl_classify(Tables!real_rules, key) = Tables!Promised("real", key)
<1> DEFINE r == Tables!Rule("UDP", Tables!Any, "239.255.255.250", Tables!AllPorts, Tables!Only(1900), 10, 1)
<1>1. /\ r.proto = "UDP" /\ r.src = "any" /\ r.dst = "239.255.255.250" /\ r.priority = 10
      /\ r.sport = Tables!AllPorts /\ r.dport = Tables!Only(1900) /\ r.userdata = 1
  BY SMT DEF Tables!Rule, Tables!Any
<1>2. Tables!real_rules = {r}
  BY DEF Tables!real_rules
<1> HIDE DEF r
<1>3. key.dport \in Tables!Only(1900) <=> key.dport = 1900
  <2>1. key.sport \in Int /\ key.dport \in Int
    BY Ports16, Zenon
  <2> QED
    BY <2>1, SMT DEF Tables!Only
<1>4. r \in Tables!Matching({r}, key)
        <=> key.proto = "UDP" /\ key.dst = "239.255.255.250" /\ key.dport = 1900
  BY <1>1, <1>3 DEF Tables!Matching, Tables!Any
<1>5. Tables!Promised("real", key)
        = IF key.proto = "UDP" /\ key.dst = "239.255.255.250" /\ key.dport = 1900 THEN 1 ELSE 0
  BY DEF Tables!Promised, Tables!IsSsdp
<1> QED
  BY <1>1, <1>2, <1>4, <1>5, OneRule

LEMMA MutiDecides ==
  ASSUME NEW key, key.sport \in Tables!AllPorts, key.dport \in Tables!AllPorts
  PROVE  Tables!rte_acl_classify(Tables!muti_rules, key) = Tables!Promised("muti", key)
<1> DEFINE r1 == Tables!Rule("UDP", Tables!Any, Tables!Any, Tables!AllPorts, Tables!Only(53), 100, 1)
           r2 == Tables!Rule("TCP", Tables!Any, Tables!Any, Tables!AllPorts, Tables!Only(80), 90, 2)
           r3 == Tables!Rule("HOPOPT", Tables!Any, Tables!Any, Tables!AllPorts, Tables!AllPorts, 1, 0)
           found == Tables!Matching(Tables!muti_rules, key)
<1>1. /\ r1.proto = "UDP" /\ r1.src = "any" /\ r1.dst = "any" /\ r1.priority = 100
      /\ r1.sport = Tables!AllPorts /\ r1.dport = Tables!Only(53) /\ r1.userdata = 1
  BY SMT DEF Tables!Rule, Tables!Any
<1>2. /\ r2.proto = "TCP" /\ r2.src = "any" /\ r2.dst = "any" /\ r2.priority = 90
      /\ r2.sport = Tables!AllPorts /\ r2.dport = Tables!Only(80) /\ r2.userdata = 2
  BY SMT DEF Tables!Rule, Tables!Any
<1>3. /\ r3.proto = "HOPOPT" /\ r3.src = "any" /\ r3.dst = "any" /\ r3.priority = 1
      /\ r3.sport = Tables!AllPorts /\ r3.dport = Tables!AllPorts /\ r3.userdata = 0
  BY SMT DEF Tables!Rule, Tables!Any
<1>4. Tables!muti_rules = {r1, r2, r3}
  BY DEF Tables!muti_rules
<1> HIDE DEF r1, r2, r3
<1>5. (key.dport \in Tables!Only(53) <=> key.dport = 53) /\ (key.dport \in Tables!Only(80) <=> key.dport = 80)
  <2>1. key.sport \in Int /\ key.dport \in Int
    BY Ports16, Zenon
  <2> QED
    BY <2>1, SMT DEF Tables!Only
<1>6. found \subseteq {r1, r2, r3}
  BY <1>4 DEF Tables!Matching
<1>7. /\ r1 \in found <=> key.proto = "UDP" /\ key.dport = 53
      /\ r2 \in found <=> key.proto = "TCP" /\ key.dport = 80
      /\ r3 \in found <=> key.proto = "HOPOPT"
  BY <1>1, <1>2, <1>3, <1>4, <1>5 DEF Tables!Matching, Tables!Any
<1>8. Tables!Promised("muti", key)
        = IF key.proto = "UDP" /\ key.dport = 53 THEN 1
          ELSE IF key.proto = "TCP" /\ key.dport = 80 THEN 2 ELSE 0
  BY DEF Tables!Promised
<1> HIDE DEF found
<1>9. CASE r1 \in found
  <2>1. found = {r1}
    BY <1>6, <1>7, <1>9
  <2> QED
    BY <1>1, <1>7, <1>8, <1>9, <2>1, Classified1 DEF found
<1>10. CASE r2 \in found
  <2>1. found = {r2}
    BY <1>6, <1>7, <1>10
  <2> QED
    BY <1>2, <1>7, <1>8, <1>10, <2>1, Classified1 DEF found
<1>11. CASE r3 \in found
  <2>1. found = {r3}
    BY <1>6, <1>7, <1>11
  <2> QED
    BY <1>3, <1>7, <1>8, <1>11, <2>1, Classified1 DEF found
<1>12. CASE found = {}
  BY <1>7, <1>8, <1>12, Unmatched DEF found
<1> QED
  BY <1>6, <1>9, <1>10, <1>11, <1>12

LEMMA DualDecides ==
  ASSUME NEW key, key.sport \in Tables!AllPorts, key.dport \in Tables!AllPorts
  PROVE  Tables!rte_acl_classify(Tables!dual_rules, key) = Tables!Promised("dual", key)
<1> DEFINE r1 == Tables!Rule("TCP", "140.82.112.21", "172.17.166.200", Tables!Only(443), Tables!Only(42960), 100, Tables!ACTION_ALLOW)
           r2 == Tables!Rule(Tables!Any, Tables!Any, Tables!Any, Tables!Only(0), Tables!Only(0), 1, Tables!ACTION_DROP)
           found == Tables!Matching(Tables!dual_rules, key)
           Flow == /\ key.proto = "TCP" /\ key.src = "140.82.112.21" /\ key.dst = "172.17.166.200"
                   /\ key.sport = 443 /\ key.dport = 42960
<1>1. /\ r1.proto = "TCP" /\ r1.src = "140.82.112.21" /\ r1.dst = "172.17.166.200" /\ r1.priority = 100
      /\ r1.sport = Tables!Only(443) /\ r1.dport = Tables!Only(42960) /\ r1.userdata = 777
  BY SMT DEF Tables!Rule, Tables!Any, Tables!ACTION_ALLOW
<1>2. r2.priority = 1 /\ r2.userdata = 0
  BY SMT DEF Tables!Rule, Tables!Any, Tables!ACTION_DROP
<1>3. Tables!dual_rules = {r1, r2}
  BY DEF Tables!dual_rules
<1> HIDE DEF r1, r2
<1>4. (key.sport \in Tables!Only(443) <=> key.sport = 443) /\ (key.dport \in Tables!Only(42960) <=> key.dport = 42960)
  <2>1. key.sport \in Int /\ key.dport \in Int
    BY Ports16, Zenon
  <2> QED
    BY <2>1, SMT DEF Tables!Only
<1>5. found \subseteq {r1, r2}
  BY <1>3 DEF Tables!Matching
<1>6. r1 \in found <=> Flow
  BY <1>1, <1>3, <1>4 DEF Tables!Matching, Tables!Any
<1>7. Tables!Promised("dual", key) = IF Flow THEN 777 ELSE 0
  <2> DEFINE g == [f \in DOMAIN Tables!pkt |-> key[f]]
  <2>1. Tables!Promised("dual", key) = IF g = Tables!pkt THEN 777 ELSE 0
    BY DEF Tables!Promised, Tables!ACTION_ALLOW, Tables!ACTION_DROP
  <2>2. DOMAIN Tables!pkt = {"proto", "src", "dst", "sport", "dport"}
    BY DEF Tables!pkt
  <2>3. /\ Tables!pkt["proto"] = "TCP" /\ Tables!pkt["src"] = "140.82.112.21"
        /\ Tables!pkt["dst"] = "172.17.166.200" /\ Tables!pkt["sport"] = 443 /\ Tables!pkt["dport"] = 42960
    BY DEF Tables!pkt
  <2>4. Tables!pkt = [f \in DOMAIN Tables!pkt |-> Tables!pkt[f]]
    BY DEF Tables!pkt
  <2>5. g = Tables!pkt <=> Flow
    <3>1. ASSUME Flow PROVE g = Tables!pkt
      <4>1. \A f \in DOMAIN Tables!pkt : key[f] = Tables!pkt[f]
        BY <2>2, <2>3, <3>1
      <4> QED
        BY <2>4, <4>1
    <3>2. ASSUME g = Tables!pkt PROVE Flow
      <4>1. \A f \in DOMAIN Tables!pkt : key[f] = Tables!pkt[f]
        BY <3>2
      <4> QED
        BY <2>2, <2>3, <4>1
    <3> QED
      BY <3>1, <3>2
  <2> QED
    BY <2>1, <2>5
<1> HIDE DEF found, Flow
<1>8. CASE r1 \in found
  BY <1>1, <1>2, <1>5, <1>6, <1>7, <1>8, Classified1 DEF found
<1>9. CASE r1 \notin found /\ r2 \in found
  <2>1. found = {r2}
    BY <1>5, <1>9
  <2> QED
    BY <1>2, <1>6, <1>7, <1>9, <2>1, Classified1 DEF found
<1>10. CASE found = {}
  BY <1>6, <1>7, <1>10, Unmatched DEF found
<1> QED
  BY <1>5, <1>8, <1>9, <1>10

Decided == [m : Frames \cup {Tables!pkt}, res : Int]

TablesInv ==
  /\ program3 \in Tables!Programs
  /\ bufs3 \in Seq(Frames) /\ nb \in Nat /\ freed3 \in Nat /\ freed3 + Len(bufs3) = nb
  /\ shown \in Seq(Decided)
  /\ program3 # "exp" => \A j \in DOMAIN shown : shown[j].res = Tables!Promised(program3, shown[j].m)

\* Whatever the key, the table of a program gives what is promised of it, but for
\* that of exp, of which only the range is known.
LEMMA TableDecides ==
  ASSUME NEW p \in Tables!Programs, NEW key,
         key.sport \in Tables!AllPorts, key.dport \in Tables!AllPorts
  PROVE  /\ p # "exp" => Tables!rte_acl_classify(Tables!RulesOf(p), key) = Tables!Promised(p, key)
         /\ Tables!rte_acl_classify(Tables!RulesOf(p), key) \in Int
<1>1. p \in {"dual", "muti", "exp", "real"}
  BY DEF Tables!Programs
<1>2. Tables!Promised(p, key) \in Int
  BY <1>1, SMT DEF Tables!Promised, Tables!ACTION_ALLOW, Tables!ACTION_DROP
<1>3. /\ Tables!RulesOf("dual") = Tables!dual_rules /\ Tables!RulesOf("muti") = Tables!muti_rules
      /\ Tables!RulesOf("exp") = Tables!exp_rules /\ Tables!RulesOf("real") = Tables!real_rules
  BY DEF Tables!RulesOf
<1>4. CASE p = "dual"
  BY <1>2, <1>3, <1>4, DualDecides
<1>5. CASE p = "muti"
  BY <1>2, <1>3, <1>5, MutiDecides
<1>6. CASE p = "exp"
  BY <1>3, <1>6, ExpAnswers
<1>7. CASE p = "real"
  BY <1>2, <1>3, <1>7, RealDecides
<1> QED
  BY <1>1, <1>4, <1>5, <1>6, <1>7

LEMMA TablesInit == Tables!Init => TablesInv
<1> SUFFICES ASSUME Tables!Init PROVE TablesInv
  OBVIOUS
<1>1. DOMAIN shown = {} /\ shown \in Seq(Decided) /\ bufs3 \in Seq(Frames) /\ Len(bufs3) = 0
  BY DEF Tables!Init
<1> QED
  BY <1>1 DEF Tables!Init, TablesInv

LEMMA TablesStep == ASSUME TablesInv, Tables!Next PROVE TablesInv'
<1>1. CASE Tables!Build
  BY <1>1 DEF TablesInv, Tables!Build
<1>2. CASE program3 = "dual" /\ Tables!Ask
  <2> DEFINE d == [m |-> Tables!pkt, res |-> Tables!rte_acl_classify(Tables!dual_rules, Tables!pkt)]
  <2>1. shown' = <<d>> /\ UNCHANGED <<program3, bufs3, nb, freed3>>
    BY <1>2 DEF Tables!Ask
  <2>2. Tables!pkt.sport \in Tables!AllPorts /\ Tables!pkt.dport \in Tables!AllPorts
    BY SMT DEF Tables!pkt, Tables!AllPorts
  <2>3. "dual" \in Tables!Programs /\ Tables!RulesOf("dual") = Tables!dual_rules
    BY DEF Tables!Programs, Tables!RulesOf
  <2>4. d.m = Tables!pkt /\ d.res = Tables!Promised("dual", Tables!pkt) /\ d \in Decided
    BY <2>2, <2>3, TableDecides DEF Decided
  <2> HIDE DEF d
  <2>5. shown' \in Seq(Decided) /\ \A j \in DOMAIN shown' : shown'[j] = d
    BY <2>1, <2>4
  <2> QED
    BY <1>2, <2>1, <2>4, <2>5 DEF TablesInv
<1>3. CASE Tables!Rx
  <2>1. PICK n \in 1 .. BURST_SIZE : bufs3' \in [1 .. n -> Frames] /\ nb' = n
    BY <1>3 DEF Tables!Rx
  <2>2. n \in Nat /\ bufs3' \in Seq(Frames) /\ Len(bufs3') = n
    BY <2>1, LoadBalancerAssumption
  <2>3. shown' = <<>> /\ freed3' = 0 /\ program3' = program3 /\ shown' \in Seq(Decided) /\ DOMAIN shown' = {}
    BY <1>3 DEF Tables!Rx
  <2> QED
    BY <2>1, <2>2, <2>3 DEF TablesInv
<1>4. CASE program3 \in {"exp", "real"} /\ Tables!Handle
  <2> DEFINE m == Head(bufs3)
             key == Tables!key_of(m)
             d == [m |-> m, res |-> Tables!rte_acl_classify(Tables!RulesOf(program3), key)]
  <2>1. /\ bufs3 # <<>> /\ bufs3' = Tail(bufs3) /\ freed3' = freed3 + 1
        /\ shown' = (IF m.eth_type # "IPV4" THEN shown ELSE Append(shown, d))
        /\ UNCHANGED <<program3, nb>>
    BY <1>4 DEF Tables!Handle
  <2>2. /\ bufs3 \in Seq(Frames) /\ nb \in Nat /\ freed3 \in Nat /\ freed3 + Len(bufs3) = nb
        /\ shown \in Seq(Decided) /\ program3 \in Tables!Programs
        /\ program3 # "exp" =>
             \A j \in DOMAIN shown : shown[j].res = Tables!Promised(program3, shown[j].m)
    BY DEF TablesInv
  <2>3. m \in Frames /\ Tail(bufs3) \in Seq(Frames) /\ Len(Tail(bufs3)) = Len(bufs3) - 1 /\ Len(bufs3) \in Nat
    BY <2>1, <2>2
  <2>4. freed3' \in Nat /\ freed3' + Len(bufs3') = nb
    <3>1. PICK n \in Nat : n = Len(bufs3)
      BY <2>3
    <3>2. Len(bufs3') = n - 1 /\ freed3' = freed3 + 1 /\ freed3 + n = nb
      BY <2>1, <2>2, <2>3, <3>1
    <3> QED
      BY <2>2, <3>2
  <2> HIDE DEF m
  <2>5. key.sport \in Tables!AllPorts /\ key.dport \in Tables!AllPorts
    BY <2>3, ForwarderAssumption, Ports16 DEF Tables!key_of
  <2>6. Tables!Promised(program3, key) = Tables!Promised(program3, m)
    <3>1. key.proto = m.proto /\ key.src = m.src /\ key.dst = m.dst /\ (m.proto = "UDP" => key.dport = m.dport)
      BY DEF Tables!key_of
    <3> HIDE DEF key
    <3> QED
      BY <1>4, <3>1 DEF Tables!Promised, Tables!IsSsdp
  <2> HIDE DEF key
  <2>7. d.m = m /\ (program3 # "exp" => d.res = Tables!Promised(program3, m)) /\ d \in Decided
    BY <2>2, <2>3, <2>5, <2>6, TableDecides DEF Decided
  <2> HIDE DEF d
  <2>8. /\ Append(shown, d) \in Seq(Decided)
        /\ \A j \in DOMAIN Append(shown, d) : \/ Append(shown, d)[j] = d
                                              \/ j \in DOMAIN shown /\ Append(shown, d)[j] = shown[j]
    BY <2>2, <2>7
  <2>9. /\ shown' \in Seq(Decided)
        /\ program3 # "exp" =>
             \A j \in DOMAIN shown' : shown'[j].res = Tables!Promised(program3, shown'[j].m)
    BY <2>1, <2>2, <2>7, <2>8
  <2> QED
    BY <2>1, <2>2, <2>3, <2>4, <2>9 DEF TablesInv
<1> QED
  BY <1>1, <1>2, <1>3, <1>4 DEF Tables!Next, Tables!dual_main, Tables!muti_main, Tables!exp_main,
     Tables!real_main

LEMMA TablesSafe == TablesInv => TablesDecide
<1> SUFFICES ASSUME TablesInv PROVE TablesDecide
  OBVIOUS
<1>1. program3 # "exp" => \A key \in Keys : Tables!rte_acl_classify(Tables!RulesOf(program3), key)
                                                = Tables!Promised(program3, key)
  BY ForwarderAssumption, TableDecides DEF TablesInv
<1>2. bufs3 = <<>> => freed3 = nb
  BY DEF TablesInv
<1> QED
  BY <1>1, <1>2 DEF TablesInv, TablesDecide, Tables!TablesDecide

-----------------------------------------------------------------------------
(* AclForward.  Packets are numbered as they come in; those that have met  *)
(* their fate are the ones up to the loop counter.                         *)

PortSet == Acl!ToSet(Ports)
Packet == [m : Traffic, port : PortSet, number : Nat]

\* All packets that were freed, refused or sent.
Fated == freed2 \cup leaked2 \cup UNION {Acl!ToSet(wire2[q]) : q \in PortSet}

AclLoop ==
  /\ i2 \in Nat /\ i2 >= 1 /\ number \in Nat /\ bufs2 \in Seq(Packet)
  /\ i2 <= Len(bufs2) + 1 /\ Len(bufs2) <= number
  /\ todo \in Seq(PortSet)
  /\ todo = <<>> => bufs2 = <<>>
  /\ exited => todo = <<>>
  /\ \A k \in DOMAIN bufs2 :
       bufs2[k].number = (number - Len(bufs2)) + k /\ bufs2[k].port = Head(todo)

AclFates ==
  /\ \A p \in freed2 : ~Acl!Matches(p.m)
  /\ \A p \in leaked2 : Acl!Matches(p.m)
  /\ wire2 \in [PortSet -> Seq(Packet)]
  /\ \A q \in PortSet : \A j \in DOMAIN wire2[q] :
       /\ Acl!Matches(wire2[q][j].m) /\ wire2[q][j].port = q
       /\ \A k \in 1 .. (j - 1) : wire2[q][k].number < wire2[q][j].number
  /\ {p.number : p \in Fated} = 1 .. ((number - Len(bufs2)) + (i2 - 1))

AclInv == AclLoop /\ AclFates

\* The conversions of the byte order cancel out on either kind of host.
LEMMA ReversedTwice ==
  ASSUME NEW v \in Seq(Nat)
  PROVE  Acl!Reverse(v) \in Seq(Nat) /\ Acl!Reverse(Acl!Reverse(v)) = v
<1> DEFINE r == Acl!Reverse(v)
<1>1. PICK n \in Nat : n = Len(v) /\ DOMAIN v = 1 .. n
  OBVIOUS
<1>2. r = [k \in 1 .. n |-> v[(n - k) + 1]]
  BY <1>1 DEF Acl!Reverse
<1>3. \A k \in 1 .. n : (n - k) + 1 \in 1 .. n /\ (n - ((n - k) + 1)) + 1 = k
  BY <1>1
<1>4. \A k \in 1 .. n : v[(n - k) + 1] \in Nat
  BY <1>1, <1>3
<1>5. r \in Seq(Nat) /\ Len(r) = n
  BY <1>2, <1>4
<1>6. Acl!Reverse(r) = [k \in 1 .. n |-> r[(n - k) + 1]]
  BY <1>5 DEF Acl!Reverse
<1>7. \A k \in 1 .. n : r[(n - k) + 1] = v[k]
  BY <1>2, <1>3
<1>8. v = [k \in 1 .. n |-> v[k]]
  BY <1>1
<1>9. [k \in 1 .. n |-> r[(n - k) + 1]] = [k \in 1 .. n |-> v[k]]
  <2> HIDE DEF r
  <2> QED
    BY <1>7
<1>10. Acl!Reverse(r) = v
  <2> HIDE DEF r
  <2> QED
    BY <1>6, <1>8, <1>9
<1> QED
  BY <1>5, <1>10 DEF r

LEMMA AcceptsMatching ==
  ASSUME NEW p \in Packet
  PROVE  Acl!Accepted(p) <=> Acl!Matches(p.m)
<1> DEFINE v == p.m.src
           a == Acl!AllowedHost
<1>1. v \in Seq(Nat) /\ a \in Seq(Nat)
  BY ForwarderAssumption DEF Packet, Acl!AllowedHost
<1>2. Acl!rte_acl_classify(Acl!pkt_key(p.m))
        <=> /\ p.m.proto = "TCP"
            /\ Acl!InMemory(Acl!rte_be_to_cpu_32(Acl!InMemory(v))) = Acl!rte_be_to_cpu_32(a)
  BY DEF Acl!rte_acl_classify, Acl!pkt_key, Acl!init_acl
<1> HIDE DEF v, a
<1>3. Acl!InMemory(Acl!rte_be_to_cpu_32(Acl!InMemory(v))) = Acl!rte_be_to_cpu_32(a) <=> v = a
  <2>1. CASE LittleEndian
    <3>1. /\ Acl!Reverse(Acl!Reverse(v)) = v /\ Acl!Reverse(Acl!Reverse(a)) = a
      <4>1. \A w \in Seq(Nat) : Acl!Reverse(Acl!Reverse(w)) = w
        BY ReversedTwice
      <4> QED
        BY <1>1, <4>1
    <3>2. Acl!InMemory(Acl!rte_be_to_cpu_32(Acl!InMemory(v))) = Acl!Reverse(v)
      BY <2>1, <3>1 DEF Acl!InMemory, Acl!rte_be_to_cpu_32
    <3>3. Acl!rte_be_to_cpu_32(a) = Acl!Reverse(a)
      BY <2>1 DEF Acl!rte_be_to_cpu_32
    <3> QED
      BY <3>1, <3>2, <3>3
  <2>2. CASE ~LittleEndian
    BY <2>2 DEF Acl!InMemory, Acl!rte_be_to_cpu_32
  <2> QED
    BY <2>1, <2>2
<1> QED
  BY <1>2, <1>3 DEF Acl!Accepted, Acl!Matches, v, a

LEMMA AclInit == Acl!Init => AclInv
<1> SUFFICES ASSUME Acl!Init PROVE AclInv
  OBVIOUS
<1>1. /\ todo = <<>> /\ bufs2 = <<>> /\ i2 = 1 /\ number = 0 /\ exited = FALSE
      /\ wire2 = [p \in PortSet |-> <<>>] /\ freed2 = {} /\ leaked2 = {}
  BY DEF Acl!Init, PortSet
<1>2. DOMAIN <<>> = {} /\ Len(<<>>) = 0 /\ \A S : <<>> \in Seq(S)
  OBVIOUS
<1>3. AclLoop
  BY <1>1, <1>2 DEF AclLoop
<1>4. Fated = {}
  BY <1>1, <1>2 DEF Fated, Acl!ToSet
<1>5. (number - Len(bufs2)) + (i2 - 1) = 0
  <2>1. Len(bufs2) = 0 /\ number = 0 /\ i2 = 1
    BY <1>1, <1>2
  <2> QED
    BY <2>1
<1>6. {p.number : p \in Fated} = 1 .. ((number - Len(bufs2)) + (i2 - 1))
  BY <1>4, <1>5
<1> QED
  BY <1>1, <1>2, <1>3, <1>6 DEF AclInv, AclFates

\* A step that settles nothing: as many packets are in hand as before, or new.
LEMMA SameFates ==
  ASSUME AclFates, UNCHANGED <<wire2, freed2, leaked2>>,
         (number' - Len(bufs2')) + (i2' - 1) = (number - Len(bufs2)) + (i2 - 1)
  PROVE  AclFates'
BY DEF AclFates, Fated, PortSet, Acl!Matches

\* A packet meets its fate.
LEMMA AclProcess == ASSUME AclInv, Acl!Process PROVE AclInv'
<1>1. AclLoop /\ AclFates
  BY DEF AclInv
<1>2. PICK p : p = bufs2[i2]
  OBVIOUS
<1>3. PICK n \in Nat : n = Len(bufs2) /\ DOMAIN bufs2 = 1 .. n
  BY <1>1 DEF AclLoop
<1>4. /\ i2 \in Nat /\ i2 >= 1 /\ i2 <= n /\ number \in Nat /\ n <= number /\ i2' = i2 + 1
      /\ UNCHANGED <<todo, bufs2, number, exited>>
  BY <1>1, <1>3 DEF Acl!Process, Acl!InBurst, AclLoop
<1>5. AclLoop'
  BY <1>1, <1>3, <1>4 DEF AclLoop
<1>6. /\ p \in Packet /\ p.number = (number - n) + i2 /\ p.port = Head(todo) /\ Head(todo) \in PortSet
      /\ bufs2 # <<>>
  <2>1. i2 \in DOMAIN bufs2 /\ bufs2 \in Seq(Packet) /\ todo \in Seq(PortSet) /\ bufs2 # <<>>
    BY <1>1, <1>3, <1>4 DEF AclLoop
  <2>2. todo # <<>>
    BY <1>1, <2>1 DEF AclLoop
  <2> QED
    BY <1>1, <1>2, <1>3, <2>1, <2>2 DEF AclLoop
<1>7. Acl!Accepted(p) <=> Acl!Matches(p.m)
  BY <1>6, AcceptsMatching
<1>8. \/ /\ ~Acl!Matches(p.m) /\ freed2' = freed2 \cup {p} /\ UNCHANGED <<wire2, leaked2>>
      \/ /\ Acl!Matches(p.m) /\ leaked2' = leaked2 \cup {p} /\ UNCHANGED <<wire2, freed2>>
      \/ /\ Acl!Matches(p.m) /\ UNCHANGED <<freed2, leaked2>>
         /\ wire2' = [wire2 EXCEPT ![Head(todo)] = Append(wire2[Head(todo)], p)]
  BY <1>2, <1>7 DEF Acl!Process, Acl!port_id
<1>9. \A S : {x.number : x \in S \cup {p}} = {x.number : x \in S} \cup {p.number}
  OBVIOUS
<1>10. ASSUME Fated' = Fated \cup {p}
       PROVE  {x.number : x \in Fated'} = 1 .. ((number' - Len(bufs2')) + (i2' - 1))
  <2>1. {x.number : x \in Fated} = 1 .. ((number - n) + (i2 - 1))
    BY <1>1, <1>3 DEF AclFates
  <2>2. 1 .. ((number - n) + i2) = 1 .. ((number - n) + (i2 - 1)) \cup {(number - n) + i2}
    BY <1>4
  <2>3. (number' - Len(bufs2')) + (i2' - 1) = (number - n) + i2
    BY <1>3, <1>4
  <2> QED
    BY <1>6, <1>9, <1>10, <2>1, <2>2, <2>3
<1>11. CASE /\ UNCHANGED wire2
            /\ \/ ~Acl!Matches(p.m) /\ freed2' = freed2 \cup {p} /\ UNCHANGED leaked2
               \/ Acl!Matches(p.m) /\ leaked2' = leaked2 \cup {p} /\ UNCHANGED freed2
  <2>1. Fated' = Fated \cup {p}
    <3>1. freed2' \cup leaked2' = freed2 \cup leaked2 \cup {p}
      BY <1>11
    <3>2. UNION {Acl!ToSet(wire2'[q]) : q \in PortSet} = UNION {Acl!ToSet(wire2[q]) : q \in PortSet}
      BY <1>11
    <3> QED
      BY <3>1, <3>2 DEF Fated, PortSet
  <2> QED
    BY <1>1, <1>5, <1>10, <1>11, <2>1 DEF AclInv, AclFates, PortSet, Acl!Matches
<1>12. CASE /\ Acl!Matches(p.m) /\ UNCHANGED <<freed2, leaked2>>
            /\ wire2' = [wire2 EXCEPT ![Head(todo)] = Append(wire2[Head(todo)], p)]
  <2>1. PICK h \in PortSet : h = Head(todo)
    BY <1>6
  <2>2. PICK s \in Seq(Packet) : s = wire2[h]
    BY <1>1 DEF AclFates
  <2>3. wire2' = [wire2 EXCEPT ![h] = Append(s, p)]
    BY <1>12, <2>1, <2>2
  <2>4. Append(s, p) \in Seq(Packet) /\ wire2' \in [PortSet -> Seq(Packet)]
        /\ wire2'[h] = Append(s, p) /\ \A q \in PortSet : q # h => wire2'[q] = wire2[q]
    BY <1>1, <1>6, <2>2, <2>3 DEF AclFates
  <2>5. PICK l \in Nat : l = Len(s) /\ DOMAIN s = 1 .. l
    BY <2>2
  <2>6. /\ DOMAIN Append(s, p) = 1 .. (l + 1) /\ Append(s, p)[l + 1] = p
        /\ \A j \in 1 .. l : Append(s, p)[j] = s[j]
    BY <2>2, <2>5
  <2>7. 1 .. (l + 1) = 1 .. l \cup {l + 1}
    BY <2>5
  <2>8. Acl!ToSet(Append(s, p)) = Acl!ToSet(s) \cup {p}
    BY <2>5, <2>6, <2>7 DEF Acl!ToSet
  <2>9. Fated' = Fated \cup {p}
    <3>1. \A q \in PortSet : Acl!ToSet(wire2'[q]) = IF q = h THEN Acl!ToSet(wire2[q]) \cup {p}
                                                    ELSE Acl!ToSet(wire2[q])
      BY <2>2, <2>4, <2>8
    <3> DEFINE U == UNION {Acl!ToSet(wire2[q]) : q \in PortSet}
    <3>2. ASSUME NEW x \in U PROVE x \in U'
      <4>1. PICK q \in PortSet : x \in Acl!ToSet(wire2[q])
        OBVIOUS
      <4>2. x \in Acl!ToSet(wire2'[q])
        BY <3>1, <4>1
      <4> QED
        BY <4>2
    <3>3. ASSUME NEW x \in U', x # p PROVE x \in U
      <4>1. PICK q \in PortSet : x \in Acl!ToSet(wire2'[q])
        OBVIOUS
      <4>2. x \in Acl!ToSet(wire2[q])
        BY <3>1, <3>3, <4>1
      <4> QED
        BY <4>2
    <3>4. p \in U'
      <4>1. p \in Acl!ToSet(wire2'[h])
        BY <2>1, <3>1
      <4> QED
        BY <2>1, <4>1
    <3>5. Fated = (freed2 \cup leaked2) \cup U /\ Fated' = (freed2 \cup leaked2)' \cup U'
      BY DEF Fated
    <3> HIDE DEF U
    <3>6. U' = U \cup {p}
      BY <3>2, <3>3, <3>4
    <3> QED
      BY <1>12, <3>5, <3>6
  <2>10. \A j \in 1 .. l : s[j].number < p.number
    <3>1. \A j \in 1 .. l : s[j] \in Fated
      BY <2>2, <2>5 DEF Fated, Acl!ToSet
    <3>2. \A j \in 1 .. l : s[j].number \in 1 .. ((number - n) + (i2 - 1))
      BY <1>1, <1>3, <3>1 DEF AclFates
    <3> QED
      BY <1>4, <1>6, <3>2, SMTT(30)
  <2>11. ASSUME NEW q \in PortSet, NEW j \in DOMAIN wire2'[q]
         PROVE  /\ Acl!Matches(wire2'[q][j].m) /\ wire2'[q][j].port = q
                /\ \A k \in 1 .. (j - 1) : wire2'[q][k].number < wire2'[q][j].number
    <3>1. CASE q # h
      BY <1>1, <2>4, <2>11, <3>1 DEF AclFates
    <3>2. CASE q = h /\ j \in 1 .. l
      <4>1. wire2'[q][j] = s[j] /\ \A k \in 1 .. (j - 1) : wire2'[q][k] = s[k]
        BY <2>4, <2>5, <2>6, <3>2
      <4> QED
        BY <1>1, <2>2, <2>5, <3>2, <4>1, SMTT(30) DEF AclFates
    <3>3. CASE q = h /\ j = l + 1
      <4>1. wire2'[q][j] = p /\ \A k \in 1 .. (j - 1) : k \in 1 .. l /\ wire2'[q][k] = s[k]
        BY <2>4, <2>5, <2>6, <3>3
      <4> QED
        BY <1>6, <1>12, <2>1, <2>10, <3>3, <4>1
    <3> QED
      BY <2>4, <2>6, <2>7, <2>11, <3>1, <3>2, <3>3
  <2>12. {x.number : x \in Fated'} = 1 .. ((number' - Len(bufs2')) + (i2' - 1))
    BY <1>10, <2>9
  <2>13. AclFates'
    BY <1>1, <1>12, <2>4, <2>11, <2>12 DEF AclFates, PortSet
  <2> QED
    BY <1>5, <2>13 DEF AclInv
<1> QED
  BY <1>8, <1>11, <1>12

LEMMA AclStep == ASSUME AclInv, Acl!Next PROVE AclInv'
<1>1. AclLoop /\ AclFates
  BY DEF AclInv
<1>2. PICK n \in Nat : n = Len(bufs2) /\ DOMAIN bufs2 = 1 .. n
  BY <1>1 DEF AclLoop
<1>3. DOMAIN <<>> = {} /\ Len(<<>>) = 0 /\ \A S : <<>> \in Seq(S)
  OBVIOUS
<1>4. CASE Acl!LoopTest
  <2>1. /\ todo = <<>> /\ bufs2 = <<>> /\ UNCHANGED <<bufs2, i2, number, wire2, freed2, leaked2>>
        /\ (exited' /\ todo' = <<>>) \/ (~exited' /\ todo' = Ports)
    BY <1>1, <1>4 DEF Acl!LoopTest, Acl!fateVars, AclLoop
  <2>2. Ports \in Seq(PortSet)
    BY ForwarderAssumption DEF PortSet, Acl!ToSet
  <2>3. AclLoop'
    BY <1>1, <1>3, <2>1, <2>2 DEF AclLoop, PortSet
  <2>4. AclFates'
    BY <1>1, <2>1, SameFates
  <2> QED
    BY <2>3, <2>4 DEF AclInv
<1>5. CASE Acl!NextPort
  <2>1. /\ todo # <<>> /\ ~(i2 <= n) /\ todo' = Tail(todo) /\ bufs2' = <<>> /\ i2' = 1
        /\ UNCHANGED <<number, wire2, freed2, leaked2, exited>>
    BY <1>2, <1>5 DEF Acl!NextPort, Acl!InBurst, Acl!fateVars
  <2>2. i2 = n + 1 /\ number \in Nat
    BY <1>1, <1>2, <2>1 DEF AclLoop
  <2>3. AclLoop'
    BY <1>1, <1>3, <2>1, <2>2 DEF AclLoop, PortSet
  <2>4. (number' - Len(bufs2')) + (i2' - 1) = (number - Len(bufs2)) + (i2 - 1)
    BY <1>2, <1>3, <2>1, <2>2
  <2>5. AclFates'
    BY <1>1, <2>1, <2>4, SameFates
  <2> QED
    BY <2>3, <2>5 DEF AclInv
<1>6. CASE Acl!RxBurst
  <2>1. PICK l \in 1 .. BURST_SIZE : \E ms \in [1 .. l -> Traffic] :
          /\ bufs2' = [k \in 1 .. l |-> [m |-> ms[k], port |-> Head(todo), number |-> number + k]]
          /\ number' = number + l
    BY <1>6 DEF Acl!RxBurst, Acl!port_id
  <2>2. PICK ms \in [1 .. l -> Traffic] :
          /\ bufs2' = [k \in 1 .. l |-> [m |-> ms[k], port |-> Head(todo), number |-> number + k]]
          /\ number' = number + l
    BY <2>1
  <2>3. /\ todo # <<>> /\ bufs2 = <<>> /\ UNCHANGED <<todo, i2, wire2, freed2, leaked2, exited>>
    BY <1>6 DEF Acl!RxBurst, Acl!fateVars
  <2>4. l \in Nat /\ l >= 1 /\ number \in Nat /\ i2 = 1 /\ n = 0
    BY <1>1, <1>2, <1>3, <2>3, LoadBalancerAssumption DEF AclLoop
  <2>5. Head(todo) \in PortSet
    BY <1>1, <2>3 DEF AclLoop
  <2>6. \A k \in 1 .. l : /\ bufs2'[k] = [m |-> ms[k], port |-> Head(todo), number |-> number + k]
                          /\ bufs2'[k] \in Packet
                          /\ bufs2'[k].port = Head(todo) /\ bufs2'[k].number = number + k
    BY <2>2, <2>4, <2>5 DEF Packet
  <2>7. bufs2' \in Seq(Packet) /\ Len(bufs2') = l /\ DOMAIN bufs2' = 1 .. l
    BY <2>2, <2>4, <2>6
  <2>8. AclLoop'
    <3>1. number' \in Nat /\ l <= number' /\ i2' <= l + 1 /\ number' - l = number
      BY <2>2, <2>3, <2>4
    <3>2. \A k \in 1 .. l : bufs2'[k].number = (number' - l) + k /\ bufs2'[k].port = Head(todo')
      BY <2>3, <2>6, <3>1
    <3>3. (todo' = <<>> => bufs2' = <<>>) /\ (exited' => todo' = <<>>) /\ todo' \in Seq(PortSet)
          /\ i2' \in Nat /\ i2' >= 1
      BY <1>1, <2>3 DEF AclLoop
    <3> QED
      BY <2>7, <3>1, <3>2, <3>3 DEF AclLoop, PortSet, Packet
  <2>9. (number' - Len(bufs2')) + (i2' - 1) = (number - Len(bufs2)) + (i2 - 1)
    BY <1>2, <2>2, <2>3, <2>4, <2>7
  <2>10. AclFates'
    BY <1>1, <2>3, <2>9, SameFates
  <2> QED
    BY <2>8, <2>10 DEF AclInv
<1>7. CASE Acl!Process
  BY <1>7, AclProcess
<1>8. CASE Acl!signal_handler
  <2>1. UNCHANGED <<todo, bufs2, i2, number, wire2, freed2, leaked2, exited>>
    BY <1>8 DEF Acl!signal_handler, Acl!loopVars, Acl!fateVars
  <2>2. AclLoop'
    BY <1>1, <2>1 DEF AclLoop
  <2>3. AclFates'
    BY <1>1, <2>1, SameFates
  <2> QED
    BY <2>2, <2>3 DEF AclInv
<1> QED
  BY <1>4, <1>5, <1>6, <1>7, <1>8 DEF Acl!Next, Acl!main

LEMMA AclSafe == AclInv => AclDecides
<1> SUFFICES ASSUME AclInv PROVE AclDecides
  OBVIOUS
<1>1. exited => {p.number : p \in Fated} = 1 .. number
  <2>1. ASSUME exited PROVE (number - Len(bufs2)) + (i2 - 1) = number
    BY <2>1 DEF AclInv, AclLoop
  <2> QED
    BY <2>1 DEF AclInv, AclFates
<1> QED
  BY <1>1 DEF AclInv, AclFates, AclDecides, Acl!AclDecides, Fated, PortSet

-----------------------------------------------------------------------------
(* Vxlan.  A packet on the cable or delivered is what one or two forwarders *)
(* make of the packet that came in under its number.                        *)

InMbuf(k, m) == [id |-> k, layers |-> m.layers, size |-> m.size, headroom |-> Headroom]
InPackets == {InMbuf(k, m) : k \in Nat, m \in Incoming}

AtB(y) == [y EXCEPT !.headroom = Headroom]
Out(x) == Tunnel!Forward(AtB(Tunnel!Forward(x)))

\* The packets that a has handled, and the numbers of those on their way.
Handled == Len(sent) - Len(a_in)
OnwardId(j) == IF j <= Len(delivered) THEN delivered[j].id ELSE cable[j - Len(delivered)].id
Onward == 1 .. (Len(delivered) + Len(cable))

TunnelPackets ==
  /\ sent \in Seq(InPackets) /\ \A k \in DOMAIN sent : sent[k].id = k
  /\ a_in \in Seq(InPackets) /\ Len(a_in) <= Len(sent)
  /\ \A k \in DOMAIN a_in : a_in[k] = sent[Handled + k]
  /\ cable \in Seq({Tunnel!Forward(x) : x \in InPackets})
  /\ \A j \in DOMAIN cable : cable[j] = Tunnel!Forward(sent[cable[j].id])
  /\ delivered \in Seq({Out(x) : x \in InPackets})
  /\ \A j \in DOMAIN delivered : delivered[j] = Out(sent[delivered[j].id])

TunnelIds ==
  /\ \A j \in Onward : OnwardId(j) \in 1 .. Handled /\ OnwardId(j) \notin lost
  /\ \A j, k \in Onward : j < k => OnwardId(j) < OnwardId(k)
  /\ lost \subseteq 1 .. Handled
  /\ Len(delivered) + Len(cable) + Cardinality(lost) = Handled

TunnelInv == TunnelPackets /\ TunnelIds

\* A packet is its four fields.
Mbuf(k, l, sz, h) == [id |-> k, layers |-> l, size |-> sz, headroom |-> h]
Fields == {"id", "layers", "size", "headroom"}

LEMMA MbufFields ==
  ASSUME NEW f, DOMAIN f = Fields, f = [x \in Fields |-> f[x]]
  PROVE  f = Mbuf(f.id, f.layers, f.size, f.headroom)
<1> DEFINE g == Mbuf(f.id, f.layers, f.size, f.headroom)
<1>1. g = [x \in Fields |-> g[x]] /\ \A x \in Fields : g[x] = f[x]
  BY DEF Mbuf, Fields
<1> HIDE DEF g
<1>2. f = g
  BY <1>1
<1> QED
  BY <1>2 DEF g

LEMMA OfMbuf ==
  ASSUME NEW k, NEW l, NEW sz, NEW h
  PROVE  /\ Mbuf(k, l, sz, h).id = k /\ Mbuf(k, l, sz, h).layers = l
         /\ Mbuf(k, l, sz, h).size = sz /\ Mbuf(k, l, sz, h).headroom = h
         /\ DOMAIN Mbuf(k, l, sz, h) = Fields
         /\ AtB(Mbuf(k, l, sz, h)) = Mbuf(k, l, sz, Headroom)
BY DEF Mbuf, Fields, AtB

Outer(sz) == Tunnel!Layer(Tunnel!VXLAN_VNI, sz)

\* The two conversions, field by field.
LEMMA Encapsulated ==
  ASSUME NEW k, NEW l, NEW sz, NEW h
  PROVE  Tunnel!vxlan_encap(Mbuf(k, l, sz, h))
           = Mbuf(k, <<Outer(sz)>> \o l, sz + Tunnel!Headers, h - Tunnel!Headers)
<1> DEFINE q == Mbuf(k, l, sz, h)
           f == Tunnel!vxlan_encap(q)
<1>1. q.id = k /\ q.layers = l /\ q.size = sz /\ q.headroom = h /\ DOMAIN q = Fields
  BY OfMbuf
<1> HIDE DEF q
<1>2. DOMAIN f = Fields /\ f = [x \in DOMAIN f |-> f[x]]
  BY <1>1 DEF Tunnel!vxlan_encap
<1>3. /\ f.id = k /\ f.layers = <<Outer(sz)>> \o l /\ f.size = sz + Tunnel!Headers
      /\ f.headroom = h - Tunnel!Headers
  BY <1>1 DEF Tunnel!vxlan_encap, Fields, Outer
<1> HIDE DEF f
<1>4. f = Mbuf(f.id, f.layers, f.size, f.headroom)
  BY <1>2, MbufFields
<1> QED
  BY <1>3, <1>4, Zenon DEF f, q

LEMMA Decapsulated ==
  ASSUME NEW k, NEW l, NEW sz, NEW h
  PROVE  Tunnel!vxlan_decap(Mbuf(k, l, sz, h))
           = IF sz < Tunnel!Headers THEN Mbuf(k, l, sz, h)
             ELSE Mbuf(k, Tail(l), sz - Tunnel!Headers, h + Tunnel!Headers)
<1> DEFINE q == Mbuf(k, l, sz, h)
           f == [q EXCEPT !.layers = Tail(@), !.size = @ - Tunnel!Headers,
                          !.headroom = @ + Tunnel!Headers]
<1>1. q.id = k /\ q.layers = l /\ q.size = sz /\ q.headroom = h /\ DOMAIN q = Fields
  BY OfMbuf
<1> HIDE DEF q
<1>2. DOMAIN f = Fields /\ f = [x \in DOMAIN f |-> f[x]]
  BY <1>1
<1>3. /\ f.id = k /\ f.layers = Tail(l) /\ f.size = sz - Tunnel!Headers
      /\ f.headroom = h + Tunnel!Headers
  BY <1>1 DEF Fields
<1>4. Tunnel!vxlan_decap(q) = IF sz < Tunnel!Headers THEN q ELSE f
  BY <1>1 DEF Tunnel!vxlan_decap
<1> HIDE DEF f
<1>5. f = Mbuf(f.id, f.layers, f.size, f.headroom)
  BY <1>2, MbufFields
<1> QED
  BY <1>3, <1>4, <1>5, Zenon DEF q

\* The test looks at the layers only; what a forwarder puts around passes it.
LEMMA Recognised ==
  ASSUME NEW k, NEW l, NEW sz, NEW h, NEW sz2, NEW h2
  PROVE  /\ Tunnel!IsVxlan(Mbuf(k, l, sz, h)) <=> Tunnel!IsVxlan(Mbuf(k, l, sz2, h2))
         /\ l[1] = Outer(sz2) => Tunnel!IsVxlan(Mbuf(k, l, sz, h))
<1>1. Mbuf(k, l, sz, h).layers = l /\ Mbuf(k, l, sz2, h2).layers = l
  BY OfMbuf
<1>2. Outer(sz2).eth_type = "IPV4" /\ Outer(sz2).proto = "UDP" /\ Outer(sz2).dst_port = Tunnel!VXLAN_PORT
  BY DEF Outer, Tunnel!Layer
<1> QED
  BY <1>1, <1>2, Zenon DEF Tunnel!IsVxlan

\* One packet through one forwarder, and through both.
LEMMA TunnelFate ==
  ASSUME NEW x \in InPackets
  PROVE  /\ x.id \in Nat /\ Tunnel!Forward(x).id = x.id /\ Out(x).id = x.id
         /\ Tunnel!Forward(x).headroom >= 0 /\ Out(x).headroom >= 0
         /\ Tunnel!Comes(x, Out(x))
         /\ ~Tunnel!IsVxlan(x) =>
              Tunnel!Forward(x).layers[1].total_length = Tunnel!Forward(x).size - Tunnel!ETHER
<1>1. PICK k \in Nat, m \in Incoming : x = InMbuf(k, m)
  BY DEF InPackets
<1>2. PICK l : l = m.layers
  OBVIOUS
<1>3. PICK sz \in Nat : sz = m.size
  BY ForwarderAssumption
<1>4. PICK A : l \in Seq(A)
  BY <1>2, ForwarderAssumption
<1>5. PICK H \in Nat : H = Tunnel!Headers /\ H = 50
  BY DEF Tunnel!Headers
<1>6. Headroom \in Nat /\ Headroom >= H
  BY <1>5, ForwarderAssumption
<1>7. x = Mbuf(k, l, sz, Headroom)
  BY <1>1, <1>2, <1>3 DEF InMbuf, Mbuf
<1>8. \A y : (<<y>> \o l)[1] = y /\ Tail(<<y>> \o l) = l
  <2> TAKE y
  <2>1. PICK B : y \in B /\ l \in Seq(B)
    <3>1. y \in A \cup {y} /\ l \in Seq(A \cup {y})
      BY <1>4
    <3> QED
      BY <3>1
  <2> QED
    BY <2>1
<1>9. Outer(sz).total_length = (H - Tunnel!ETHER) + sz /\ Tunnel!ETHER = 14
  BY <1>5 DEF Outer, Tunnel!Layer, Tunnel!ETHER
<1>10. CASE ~Tunnel!IsVxlan(x)
  <2>1. Tunnel!Forward(x) = Mbuf(k, <<Outer(sz)>> \o l, sz + H, Headroom - H)
    BY <1>5, <1>7, <1>10, Encapsulated DEF Tunnel!Forward
  <2>2. PICK w : w = <<Outer(sz)>> \o l
    OBVIOUS
  <2>3. PICK s2 \in Nat : s2 = sz + H
    OBVIOUS
  <2>4. w[1] = Outer(sz) /\ Tail(w) = l /\ s2 - H = sz /\ ~(s2 < H)
    BY <1>8, <2>2, <2>3
  <2>5. AtB(Tunnel!Forward(x)) = Mbuf(k, w, s2, Headroom)
    BY <2>1, <2>2, <2>3, OfMbuf
  <2>6. Tunnel!IsVxlan(Mbuf(k, w, s2, Headroom))
    BY <2>4, Recognised
  <2>7. Out(x) = Tunnel!vxlan_decap(Mbuf(k, w, s2, Headroom))
    BY <2>5, <2>6 DEF Out, Tunnel!Forward
  <2>8. Out(x) = Mbuf(k, l, sz, Headroom + H)
    <3>1. Out(x) = IF s2 < H THEN Mbuf(k, w, s2, Headroom)
                   ELSE Mbuf(k, Tail(w), s2 - H, Headroom + H)
      BY <1>5, <2>7, Decapsulated
    <3> QED
      BY <2>4, <3>1, Zenon
  <2>9. Tunnel!Comes(x, Out(x))
    BY <1>7, <1>10, <2>8, OfMbuf DEF Tunnel!Comes, Tunnel!Packed
  <2>10. /\ Tunnel!Forward(x).layers = w /\ Tunnel!Forward(x).size = s2
         /\ Tunnel!Forward(x).headroom = Headroom - H /\ Out(x).headroom = Headroom + H
         /\ x.id = k /\ Tunnel!Forward(x).id = k /\ Out(x).id = k
    <3>1. PICK h1, h2 : h1 = Headroom - H /\ h2 = Headroom + H
      OBVIOUS
    <3>2. Tunnel!Forward(x) = Mbuf(k, w, s2, h1) /\ Out(x) = Mbuf(k, l, sz, h2)
      BY <2>1, <2>2, <2>3, <2>8, <3>1
    <3>3. Tunnel!Forward(x).layers = w /\ Tunnel!Forward(x).size = s2
          /\ Tunnel!Forward(x).headroom = h1 /\ Tunnel!Forward(x).id = k
      BY <3>2, OfMbuf
    <3>4. Out(x).headroom = h2 /\ Out(x).id = k
      BY <3>2, OfMbuf
    <3>5. x.id = k
      BY <1>7, OfMbuf
    <3> QED
      BY <3>1, <3>3, <3>4, <3>5
  <2>11. Tunnel!Forward(x).layers[1].total_length = Tunnel!Forward(x).size - Tunnel!ETHER
    BY <1>5, <1>9, <2>3, <2>4, <2>10
  <2> QED
    BY <1>6, <2>9, <2>10, <2>11
<1>11. CASE Tunnel!IsVxlan(x) /\ sz < H
  <2>1. Tunnel!Forward(x) = x
    BY <1>5, <1>7, <1>11, Decapsulated DEF Tunnel!Forward
  <2>2. Out(x) = x
    BY <1>7, <2>1, OfMbuf DEF Out
  <2>3. x.size = sz /\ x.id = k /\ x.headroom = Headroom
    BY <1>7, OfMbuf
  <2>4. Tunnel!Comes(x, Out(x))
    BY <1>5, <1>11, <2>2, <2>3 DEF Tunnel!Comes, Tunnel!Packed
  <2> QED
    BY <1>6, <1>11, <2>1, <2>2, <2>3, <2>4
<1>12. CASE Tunnel!IsVxlan(x) /\ ~(sz < H)
  <2>1. PICK s2 \in Nat : s2 = sz - H
    BY <1>12
  <2>2. PICK inner : inner = Mbuf(k, Tail(l), s2, Headroom + H) /\ inner = Tunnel!vxlan_decap(x)
    BY <1>5, <1>7, <1>12, <2>1, Decapsulated
  <2>3. Tunnel!Forward(x) = inner /\ AtB(inner) = Mbuf(k, Tail(l), s2, Headroom)
    BY <1>12, <2>2, OfMbuf DEF Tunnel!Forward
  <2>4. Tunnel!IsVxlan(inner) <=> Tunnel!IsVxlan(AtB(inner))
    BY <2>2, <2>3, Recognised
  <2>5. /\ x.size = sz /\ x.id = k /\ inner.id = k /\ inner.size = s2 /\ inner.layers = Tail(l)
        /\ inner.headroom = Headroom + H
    <3>1. PICK h2, t : h2 = Headroom + H /\ t = Tail(l)
      OBVIOUS
    <3>2. inner = Mbuf(k, t, s2, h2)
      BY <2>2, <3>1
    <3>3. inner.id = k /\ inner.size = s2 /\ inner.layers = t /\ inner.headroom = h2
      BY <3>2, OfMbuf
    <3>4. x.size = sz /\ x.id = k
      BY <1>7, OfMbuf
    <3> QED
      BY <3>1, <3>3, <3>4
  <2>6. Tunnel!Packed(x)
    BY <1>5, <1>12, <2>5 DEF Tunnel!Packed
  <2>7. CASE Tunnel!IsVxlan(inner)
    <3>1. Out(x) = Tunnel!vxlan_decap(AtB(inner))
      BY <2>3, <2>4, <2>7 DEF Out, Tunnel!Forward
    <3>2. Out(x) = IF s2 < H THEN Mbuf(k, Tail(l), s2, Headroom)
                   ELSE Mbuf(k, Tail(Tail(l)), s2 - H, Headroom + H)
      BY <1>5, <2>3, <3>1, Decapsulated
    <3>3. Tunnel!vxlan_decap(inner)
            = IF s2 < H THEN Mbuf(k, Tail(l), s2, Headroom + H)
              ELSE Mbuf(k, Tail(Tail(l)), s2 - H, (Headroom + H) + H)
      BY <1>5, <2>2, Decapsulated
    <3>4. Out(x).layers = Tunnel!vxlan_decap(inner).layers
      BY <3>2, <3>3, OfMbuf
    <3>5. Out(x).id = k /\ Out(x).headroom \in {Headroom, Headroom + H}
      BY <3>2, OfMbuf
    <3>6. Tunnel!Comes(x, Out(x))
      BY <2>2, <2>6, <2>7, <3>4 DEF Tunnel!Comes
    <3> QED
      BY <1>6, <1>12, <2>3, <2>5, <3>5, <3>6
  <2>8. CASE ~Tunnel!IsVxlan(inner)
    <3>1. Out(x) = Tunnel!vxlan_encap(AtB(inner))
      BY <2>3, <2>4, <2>8 DEF Out, Tunnel!Forward
    <3>2. Out(x) = Mbuf(k, <<Outer(s2)>> \o Tail(l), s2 + H, Headroom - H)
      BY <1>5, <2>3, <3>1, Encapsulated
    <3>3. /\ Out(x).layers = <<Tunnel!Layer(Tunnel!VXLAN_VNI, inner.size)>> \o inner.layers
          /\ Out(x).id = k /\ Out(x).headroom = Headroom - H
      <4>1. PICK h1, z, u : h1 = Headroom - H /\ z = s2 + H /\ u = <<Outer(s2)>> \o Tail(l)
        OBVIOUS
      <4>2. Out(x) = Mbuf(k, u, z, h1)
        BY <3>2, <4>1
      <4>3. Out(x).layers = u /\ Out(x).id = k /\ Out(x).headroom = h1
        BY <4>2, OfMbuf
      <4> QED
        BY <2>5, <4>1, <4>3 DEF Outer
    <3>4. Tunnel!Comes(x, Out(x))
      BY <2>2, <2>6, <2>8, <3>3 DEF Tunnel!Comes
    <3> QED
      BY <1>6, <1>12, <2>3, <2>5, <3>3, <3>4
  <2> QED
    BY <2>7, <2>8
<1> QED
  BY <1>10, <1>11, <1>12

LEMMA TunnelInit == Tunnel!Init => TunnelInv
<1> SUFFICES ASSUME Tunnel!Init PROVE TunnelInv
  OBVIOUS
<1>1. sent = <<>> /\ a_in = <<>> /\ cable = <<>> /\ delivered = <<>> /\ lost = {}
  BY DEF Tunnel!Init
<1>2. DOMAIN <<>> = {} /\ Len(<<>>) = 0 /\ \A S : <<>> \in Seq(S)
  OBVIOUS
<1>3. TunnelPackets
  BY <1>1, <1>2 DEF TunnelPackets
<1>4. Len(sent) = 0 /\ Len(a_in) = 0 /\ Len(cable) = 0 /\ Len(delivered) = 0 /\ Cardinality(lost) = 0
  BY <1>1, <1>2, FS_EmptySet
<1>5. Handled = 0 /\ Onward = {}
  BY <1>4 DEF Handled, Onward
<1> QED
  BY <1>1, <1>3, <1>4, <1>5 DEF TunnelInv, TunnelIds

\* The numbers of the packets on their way, apart.
LEMMA OnwardIds ==
  ASSUME TunnelPackets, TunnelIds
  PROVE  /\ \A j \in DOMAIN delivered : delivered[j].id \in 1 .. Handled /\ delivered[j].id = OnwardId(j)
         /\ \A j \in DOMAIN cable : /\ cable[j].id \in 1 .. Handled
                                    /\ cable[j].id = OnwardId(Len(delivered) + j)
<1>1. PICK d \in Nat : d = Len(delivered) /\ DOMAIN delivered = 1 .. d
  BY DEF TunnelPackets
<1>2. PICK c \in Nat : c = Len(cable) /\ DOMAIN cable = 1 .. c
  BY DEF TunnelPackets
<1>3. \A j \in 1 .. d : j \in 1 .. (d + c) /\ j <= d
  BY <1>1, <1>2
<1>4. \A j \in 1 .. c : d + j \in 1 .. (d + c) /\ ~(d + j <= d) /\ (d + j) - d = j
  BY <1>1, <1>2
<1>5. \A j \in 1 .. d : OnwardId(j) = delivered[j].id
  BY <1>1, <1>3 DEF OnwardId
<1>6. \A j \in 1 .. c : OnwardId(d + j) = cable[j].id
  BY <1>1, <1>4 DEF OnwardId
<1>7. \A j \in 1 .. (d + c) : OnwardId(j) \in 1 .. Handled
  BY <1>1, <1>2 DEF TunnelIds, Onward
<1>8. \A j \in 1 .. d : delivered[j].id \in 1 .. Handled /\ delivered[j].id = OnwardId(j)
  BY <1>3, <1>5, <1>7
<1>9. \A j \in 1 .. c : cable[j].id \in 1 .. Handled /\ cable[j].id = OnwardId(d + j)
  <2> TAKE j \in 1 .. c
  <2>1. PICK e : e = d + j
    OBVIOUS
  <2>2. OnwardId(e) = cable[j].id /\ OnwardId(e) \in 1 .. Handled
    BY <1>4, <1>6, <1>7, <2>1
  <2> QED
    BY <2>1, <2>2
<1> QED
  BY <1>1, <1>2, <1>8, <1>9

\* A driver does not take a packet that a has just handled, or that b has.
LEMMA LostOneMore ==
  ASSUME NEW S, NEW n \in Nat, S \subseteq 1 .. n, NEW e, e \notin S
  PROVE  Cardinality(S \cup {e}) = Cardinality(S) + 1 /\ Cardinality(S) \in Nat
<1>1. IsFiniteSet(1 .. n)
  BY FS_Interval
<1>2. IsFiniteSet(S)
  BY <1>1, FS_Subset
<1> QED
  BY <1>2, FS_AddElement, FS_CardinalityType

LEMMA TunnelRx == ASSUME TunnelInv, Tunnel!RxBurst PROVE TunnelInv'
<1>1. TunnelPackets /\ TunnelIds
  BY DEF TunnelInv
<1>2. PICK N \in Nat : N = Len(sent) /\ DOMAIN sent = 1 .. N
  BY <1>1 DEF TunnelPackets
<1>3. PICK n \in Nat : \E ms \in [1 .. n -> Incoming] :
        a_in' = [k \in 1 .. n |-> InMbuf(N + k, ms[k])]
  <2>1. PICK n \in 1 .. (MaxPackets - Len(sent)) : \E ms \in [1 .. n -> Incoming] :
          a_in' = [k \in 1 .. n |->
                     [id |-> Len(sent) + k, layers |-> ms[k].layers, size |-> ms[k].size,
                      headroom |-> Headroom]]
    BY DEF Tunnel!RxBurst
  <2>2. n \in Nat
    BY <1>2, ForwarderAssumption
  <2>3. PICK ms \in [1 .. n -> Incoming] :
          a_in' = [k \in 1 .. n |->
                     [id |-> Len(sent) + k, layers |-> ms[k].layers, size |-> ms[k].size,
                      headroom |-> Headroom]]
    BY <2>1
  <2>4. a_in' = [k \in 1 .. n |-> InMbuf(N + k, ms[k])]
    BY <1>2, <2>3 DEF InMbuf
  <2> QED
    BY <2>2, <2>4
<1>4. PICK ms \in [1 .. n -> Incoming] : a_in' = [k \in 1 .. n |-> InMbuf(N + k, ms[k])]
  BY <1>3
<1>5. a_in = <<>> /\ sent' = sent \o a_in' /\ UNCHANGED <<cable, delivered, lost>>
  BY DEF Tunnel!RxBurst
<1>6. \A k \in 1 .. n : a_in'[k] = InMbuf(N + k, ms[k]) /\ a_in'[k] \in InPackets /\ a_in'[k].id = N + k
  <2>1. \A k \in 1 .. n : a_in'[k] = InMbuf(N + k, ms[k]) /\ N + k \in Nat /\ ms[k] \in Incoming
    BY <1>2, <1>4
  <2>2. \A k \in Nat, m \in Incoming : InMbuf(k, m) \in InPackets
    BY DEF InPackets
  <2>3. \A k, m : InMbuf(k, m).id = k
    BY DEF InMbuf
  <2> QED
    BY <2>1, <2>2, <2>3
<1>7. a_in' \in Seq(InPackets) /\ Len(a_in') = n /\ DOMAIN a_in' = 1 .. n
  <2>1. a_in' = [k \in 1 .. n |-> a_in'[k]]
    BY <1>4
  <2> QED
    BY <1>6, <2>1
<1>8. /\ sent' \in Seq(InPackets) /\ Len(sent') = N + n /\ DOMAIN sent' = 1 .. (N + n)
      /\ \A k \in 1 .. N : sent'[k] = sent[k]
      /\ \A k \in 1 .. n : sent'[N + k] = a_in'[k]
  <2>1. PICK z \in Seq(InPackets) : z = a_in' /\ Len(z) = n
    BY <1>7
  <2>2. PICK y \in Seq(InPackets) : y = sent /\ Len(y) = N
    BY <1>1, <1>2 DEF TunnelPackets
  <2>3. /\ y \o z \in Seq(InPackets) /\ Len(y \o z) = N + n
        /\ \A k \in 1 .. N + n : (y \o z)[k] = IF k <= N THEN y[k] ELSE z[k - N]
    BY <2>1, <2>2, ConcatProperties, ZenonT(30)
  <2>4. DOMAIN (y \o z) = 1 .. (N + n)
    BY <2>3, LenProperties
  <2>5. \A k \in 1 .. N : k \in 1 .. N + n /\ k <= N
    BY <1>2, <1>3
  <2>6. \A k \in 1 .. n : N + k \in 1 .. N + n /\ ~(N + k <= N) /\ (N + k) - N = k
    BY <1>2, <1>3
  <2>7. \A k \in 1 .. N : (y \o z)[k] = y[k]
    BY <2>3, <2>5
  <2>8. \A k \in 1 .. n : (y \o z)[N + k] = z[k]
    BY <2>3, <2>6
  <2>9. sent' = y \o z
    BY <1>5, <2>1, <2>2
  <2> QED
    BY <2>1, <2>2, <2>3, <2>4, <2>7, <2>8, <2>9
<1>9. Handled = N /\ Handled' = N
  <2>1. Len(a_in) = 0
    BY <1>5
  <2> QED
    BY <1>2, <1>7, <1>8, <2>1 DEF Handled
<1>10. \A k \in 1 .. (N + n) : k \in 1 .. N \/ \E j \in 1 .. n : k = N + j
  <2> TAKE k \in 1 .. (N + n)
  <2>1. CASE k > N
    <3>1. k - N \in 1 .. n /\ k = N + (k - N)
      BY <2>1
    <3> QED
      BY <3>1
  <2> QED
    BY <2>1
<1>11. \A k \in DOMAIN sent' : sent'[k].id = k
  <2>1. \A k \in 1 .. N : sent'[k].id = k
    BY <1>1, <1>2, <1>8 DEF TunnelPackets
  <2>2. \A j \in 1 .. n : sent'[N + j].id = N + j
    BY <1>6, <1>8
  <2>3. ASSUME NEW k \in 1 .. (N + n), NEW j \in 1 .. n, k = N + j PROVE sent'[k].id = k
    BY <2>2, <2>3
  <2> QED
    BY <1>8, <1>10, <2>1, <2>3
<1>12. /\ \A j \in DOMAIN cable : cable[j].id \in 1 .. N
       /\ \A j \in DOMAIN delivered : delivered[j].id \in 1 .. N
  BY <1>1, <1>9, OnwardIds
<1>13. TunnelPackets'
  <2>1. \A j \in DOMAIN cable : cable[j] = Tunnel!Forward(sent'[cable[j].id])
    BY <1>1, <1>8, <1>12 DEF TunnelPackets
  <2>2. \A j \in DOMAIN delivered : delivered[j] = Out(sent'[delivered[j].id])
    BY <1>1, <1>8, <1>12 DEF TunnelPackets
  <2>3. \A k \in DOMAIN a_in' : a_in'[k] = sent'[Handled' + k]
    BY <1>7, <1>8, <1>9
  <2>4. Len(a_in') <= Len(sent')
    BY <1>7, <1>8
  <2> QED
    BY <1>1, <1>5, <1>7, <1>8, <1>11, <2>1, <2>2, <2>3, <2>4 DEF TunnelPackets
<1>14. TunnelIds'
  BY <1>1, <1>5, <1>9 DEF TunnelIds, Onward, OnwardId
<1> QED
  BY <1>13, <1>14 DEF TunnelInv

LEMMA TunnelAtA == ASSUME TunnelInv, Tunnel!ForwardAtA PROVE TunnelInv'
<1>1. TunnelPackets /\ TunnelIds
  BY DEF TunnelInv
<1>2. PICK N \in Nat : N = Len(sent) /\ DOMAIN sent = 1 .. N
  BY <1>1 DEF TunnelPackets
<1>3. PICK d \in Nat : d = Len(delivered) /\ DOMAIN delivered = 1 .. d
  BY <1>1 DEF TunnelPackets
<1>4. PICK c \in Nat : c = Len(cable) /\ DOMAIN cable = 1 .. c
  BY <1>1 DEF TunnelPackets
<1>5. PICK a \in Nat : a = Len(a_in) /\ DOMAIN a_in = 1 .. a /\ a >= 1 /\ a <= N
  BY <1>1, <1>2 DEF TunnelPackets, Tunnel!ForwardAtA
<1>6. PICK H \in Nat : H = Handled /\ H = N - a
  BY <1>2, <1>5 DEF Handled
<1>7. PICK x \in InPackets : x = Head(a_in) /\ x = sent[H + 1] /\ x.id = H + 1
  <2>1. 1 \in 1 .. a /\ H + 1 \in 1 .. N
    BY <1>2, <1>5, <1>6
  <2>2. Head(a_in) = a_in[1] /\ a_in[1] \in InPackets
    BY <1>1, <1>5, <2>1 DEF TunnelPackets
  <2>3. a_in[1] = sent[H + 1] /\ sent[H + 1].id = H + 1
    BY <1>1, <1>2, <1>5, <1>6, <2>1 DEF TunnelPackets
  <2> QED
    BY <2>2, <2>3
<1>8. PICK y : y = Tunnel!Forward(x) /\ y.id = H + 1
  BY <1>7, TunnelFate
<1>9. /\ a_in' = Tail(a_in) /\ UNCHANGED <<sent, delivered>>
      /\ \/ cable' = Append(cable, y) /\ UNCHANGED lost
         \/ lost' = lost \cup {H + 1} /\ UNCHANGED cable
  BY <1>7, <1>8 DEF Tunnel!ForwardAtA, Tunnel!Tx
<1>10. /\ a_in' \in Seq(InPackets) /\ Len(a_in') = a - 1 /\ DOMAIN a_in' = 1 .. (a - 1)
       /\ \A k \in 1 .. (a - 1) : a_in'[k] = a_in[k + 1]
  <2>1. PICK z \in Seq(InPackets) : z = a_in /\ Len(z) = a /\ z # <<>>
    BY <1>1, <1>5 DEF TunnelPackets, Tunnel!ForwardAtA
  <2>2. /\ Tail(z) \in Seq(InPackets) /\ Len(Tail(z)) = a - 1
        /\ \A k \in 1 .. (a - 1) : Tail(z)[k] = z[k + 1]
    BY <1>5, <2>1
  <2> QED
    BY <1>9, <2>1, <2>2
<1>11. Handled' = H + 1 /\ Len(sent') = N /\ Len(a_in') <= N
  BY <1>2, <1>5, <1>6, <1>9, <1>10 DEF Handled
<1>12. \A k \in DOMAIN a_in' : a_in'[k] = sent'[Handled' + k]
  <2> SUFFICES ASSUME NEW k \in 1 .. (a - 1) PROVE a_in'[k] = sent'[Handled' + k]
    BY <1>10
  <2>1. k + 1 \in 1 .. a /\ H + (k + 1) = (H + 1) + k
    BY <1>5, <1>6
  <2>2. a_in[k + 1] = sent[H + (k + 1)]
    BY <1>1, <1>5, <1>6, <2>1 DEF TunnelPackets
  <2> QED
    BY <1>9, <1>10, <1>11, <2>1, <2>2
<1>13. Onward = 1 .. (d + c) /\ d + c \in Nat /\ \A j \in Onward : OnwardId(j) \in 1 .. H
  BY <1>1, <1>3, <1>4, <1>6 DEF TunnelIds, Onward
<1>14. H + 1 \notin lost /\ lost \subseteq 1 .. H /\ d + c + Cardinality(lost) = H
  BY <1>1, <1>3, <1>4, <1>6 DEF TunnelIds
<1>15. lost \subseteq 1 .. (H + 1) /\ 1 .. H \subseteq 1 .. (H + 1)
  BY <1>6, <1>14
<1>16. Cardinality(lost) \in Nat /\ Cardinality(lost \cup {H + 1}) = Cardinality(lost) + 1
  BY <1>6, <1>14, LostOneMore
<1>17. CASE lost' = lost \cup {H + 1} /\ UNCHANGED cable
  <2>1. TunnelPackets'
    BY <1>1, <1>9, <1>10, <1>11, <1>12, <1>17 DEF TunnelPackets
  <2>2. \A j \in Onward : OnwardId(j) \in 1 .. (H + 1) /\ OnwardId(j) \notin lost \cup {H + 1}
    BY <1>1, <1>6, <1>13 DEF TunnelIds
  <2>3. d + c + Cardinality(lost \cup {H + 1}) = H + 1
    BY <1>14, <1>16
  <2>4. Onward' = Onward /\ \A j : OnwardId(j)' = OnwardId(j)
    BY <1>9, <1>17 DEF Onward, OnwardId
  <2>5. lost' \subseteq 1 .. (H + 1)
    BY <1>6, <1>15, <1>17
  <2>6. TunnelIds'
    BY <1>1, <1>3, <1>4, <1>9, <1>11, <1>17, <2>2, <2>3, <2>4, <2>5 DEF TunnelIds
  <2> QED
    BY <2>1, <2>6 DEF TunnelInv
<1>18. CASE cable' = Append(cable, y) /\ UNCHANGED lost
  <2>1. PICK z \in Seq({Tunnel!Forward(u) : u \in InPackets}) : z = cable /\ Len(z) = c
    BY <1>1, <1>4 DEF TunnelPackets
  <2>2. y \in {Tunnel!Forward(u) : u \in InPackets}
    BY <1>7, <1>8
  <2>3. /\ Append(z, y) \in Seq({Tunnel!Forward(u) : u \in InPackets}) /\ Len(Append(z, y)) = c + 1
        /\ \A j \in 1 .. c : Append(z, y)[j] = z[j]
        /\ Append(z, y)[c + 1] = y
    BY <2>1, <2>2, AppendProperties
  <2>4. DOMAIN Append(z, y) = 1 .. (c + 1)
    BY <2>3, LenProperties
  <2>5. /\ cable' \in Seq({Tunnel!Forward(u) : u \in InPackets}) /\ Len(cable') = c + 1
        /\ DOMAIN cable' = 1 .. (c + 1)
        /\ \A j \in 1 .. c : cable'[j] = cable[j]
        /\ cable'[c + 1] = y
    BY <1>18, <2>1, <2>3, <2>4
  <2>6. \A j \in 1 .. (c + 1) : j \in 1 .. c \/ j = c + 1
    BY <1>4
  <2>7. \A j \in DOMAIN cable' : cable'[j] = Tunnel!Forward(sent'[cable'[j].id])
    <3>1. \A j \in 1 .. c : cable'[j] = Tunnel!Forward(sent'[cable'[j].id])
      BY <1>1, <1>4, <1>9, <2>5 DEF TunnelPackets
    <3>2. y = Tunnel!Forward(sent'[y.id])
      BY <1>7, <1>8, <1>9
    <3> QED
      BY <2>5, <2>6, <3>1, <3>2
  <2>8. TunnelPackets'
    BY <1>1, <1>9, <1>10, <1>11, <1>12, <2>5, <2>7 DEF TunnelPackets
  <2>9. Onward' = 1 .. (d + (c + 1)) /\ \A j \in Onward' : j \in 1 .. (d + c) \/ j = (d + c) + 1
    BY <1>3, <1>4, <1>9, <2>5 DEF Onward
  <2>10. \A j \in 1 .. (d + c) : OnwardId(j)' = OnwardId(j)
    <3> TAKE j \in 1 .. (d + c)
    <3>1. CASE j <= d
      BY <1>3, <1>9, <3>1 DEF OnwardId
    <3>2. CASE ~(j <= d)
      <4>1. j - d \in 1 .. c
        BY <3>2
      <4> QED
        BY <1>3, <1>9, <2>5, <3>2, <4>1 DEF OnwardId
    <3> QED
      BY <3>1, <3>2
  <2>11. OnwardId((d + c) + 1)' = H + 1
    <3>1. ~((d + c) + 1 <= d) /\ ((d + c) + 1) - d = c + 1
      BY <1>3, <1>4
    <3> QED
      BY <1>3, <1>8, <1>9, <2>5, <3>1 DEF OnwardId
  <2>12. \A j \in Onward' : OnwardId(j)' \in 1 .. (H + 1) /\ OnwardId(j)' \notin lost
    <3>1. \A j \in 1 .. (d + c) : OnwardId(j) \in 1 .. H /\ OnwardId(j) \notin lost
      BY <1>1, <1>6, <1>13 DEF TunnelIds
    <3>2. H + 1 \in 1 .. (H + 1)
      OBVIOUS
    <3>3. \A j \in 1 .. (d + c) : OnwardId(j)' \in 1 .. (H + 1) /\ OnwardId(j)' \notin lost
      BY <1>15, <2>10, <3>1
    <3> QED
      BY <1>14, <2>9, <2>11, <3>2, <3>3
  <2>13. \A j, k \in Onward' : j < k => OnwardId(j)' < OnwardId(k)'
    <3> SUFFICES ASSUME NEW j \in Onward', NEW k \in Onward', j < k PROVE OnwardId(j)' < OnwardId(k)'
      OBVIOUS
    <3>1. j \in 1 .. (d + c)
      BY <2>9, <1>13
    <3>2. CASE k \in 1 .. (d + c)
      BY <1>1, <1>13, <2>10, <3>1, <3>2 DEF TunnelIds
    <3>3. CASE k = (d + c) + 1
      <4>1. OnwardId(j) \in 1 .. H
        BY <1>13, <3>1
      <4> QED
        BY <2>10, <2>11, <3>1, <3>3, <4>1
    <3> QED
      BY <2>9, <3>2, <3>3
  <2>14. d + (c + 1) + Cardinality(lost) = H + 1
    BY <1>14, <1>16
  <2>15. TunnelIds'
    BY <1>3, <1>9, <1>11, <1>15, <1>18, <2>5, <2>12, <2>13, <2>14 DEF TunnelIds
  <2> QED
    BY <2>8, <2>15 DEF TunnelInv
<1> QED
  BY <1>9, <1>17, <1>18

LEMMA TunnelAtB == ASSUME TunnelInv, Tunnel!ForwardAtB PROVE TunnelInv'
<1>1. TunnelPackets /\ TunnelIds
  BY DEF TunnelInv
<1>2. PICK N \in Nat : N = Len(sent) /\ DOMAIN sent = 1 .. N
  BY <1>1 DEF TunnelPackets
<1>3. PICK d \in Nat : d = Len(delivered) /\ DOMAIN delivered = 1 .. d
  BY <1>1 DEF TunnelPackets
<1>4. PICK c \in Nat : c = Len(cable) /\ DOMAIN cable = 1 .. c /\ c >= 1
  <2>1. PICK S : cable \in Seq(S)
    BY <1>1 DEF TunnelPackets
  <2>2. cable # <<>>
    BY DEF Tunnel!ForwardAtB
  <2> QED
    BY <2>1, <2>2, EmptySeq, LenProperties
<1>5. PICK H \in Nat : H = Handled /\ H <= N
  <2>1. PICK a \in Nat : a = Len(a_in) /\ a <= N
    BY <1>1, <1>2 DEF TunnelPackets
  <2>2. N - a \in Nat /\ N - a <= N /\ N - a = Handled
    BY <1>2, <2>1 DEF Handled
  <2> QED
    BY <2>2
<1>6. PICK y : y = cable[1] /\ y = Head(cable)
  BY <1>1, <1>4 DEF TunnelPackets
<1>7. PICK e \in 1 .. H : e = y.id /\ e = OnwardId(d + 1)
  <2>1. 1 \in DOMAIN cable
    BY <1>4
  <2>2. y.id \in 1 .. H /\ y.id = OnwardId(d + 1)
    BY <1>1, <1>3, <1>5, <1>6, <2>1, OnwardIds
  <2> QED
    BY <2>2
<1>8. PICK x \in InPackets : x = sent[e] /\ y = Tunnel!Forward(x) /\ x.id = e
  <2>1. 1 \in DOMAIN cable /\ e \in 1 .. N
    BY <1>2, <1>4, <1>5
  <2>2. sent[e] \in InPackets /\ sent[e].id = e
    BY <1>1, <1>2, <2>1 DEF TunnelPackets
  <2>3. y = Tunnel!Forward(sent[e])
    BY <1>1, <1>6, <1>7, <2>1 DEF TunnelPackets
  <2> QED
    BY <2>2, <2>3
<1>9. PICK o : o = Out(x) /\ o = Tunnel!Forward(AtB(y)) /\ o.id = e
  BY <1>8, TunnelFate DEF Out
<1>10. /\ cable' = Tail(cable) /\ UNCHANGED <<sent, a_in>>
       /\ \/ delivered' = Append(delivered, o) /\ UNCHANGED lost
          \/ lost' = lost \cup {e} /\ UNCHANGED delivered
  BY <1>6, <1>9 DEF Tunnel!ForwardAtB, Tunnel!Tx, AtB
<1>11. /\ cable' \in Seq({Tunnel!Forward(u) : u \in InPackets}) /\ Len(cable') = c - 1
       /\ DOMAIN cable' = 1 .. (c - 1)
       /\ \A k \in 1 .. (c - 1) : cable'[k] = cable[k + 1]
  <2>1. PICK z \in Seq({Tunnel!Forward(u) : u \in InPackets}) : z = cable /\ Len(z) = c /\ z # <<>>
    BY <1>1, <1>4 DEF TunnelPackets, Tunnel!ForwardAtB
  <2>2. /\ Tail(z) \in Seq({Tunnel!Forward(u) : u \in InPackets}) /\ Len(Tail(z)) = c - 1
        /\ \A k \in 1 .. (c - 1) : Tail(z)[k] = z[k + 1]
    BY <1>4, <2>1
  <2>3. DOMAIN Tail(z) = 1 .. (c - 1)
    BY <2>2, LenProperties
  <2> QED
    BY <1>10, <2>1, <2>2, <2>3
<1>12. Handled' = H
  BY <1>5, <1>10 DEF Handled
<1>13. \A j \in DOMAIN cable' : cable'[j] = Tunnel!Forward(sent'[cable'[j].id])
  <2> SUFFICES ASSUME NEW j \in 1 .. (c - 1) PROVE cable'[j] = Tunnel!Forward(sent'[cable'[j].id])
    BY <1>11
  <2>1. PICK k \in 1 .. c : k = j + 1
    BY <1>4
  <2>2. cable[k] = Tunnel!Forward(sent[cable[k].id])
    BY <1>1, <1>4, <2>1 DEF TunnelPackets
  <2> QED
    BY <1>10, <1>11, <2>1, <2>2
<1>14. Onward = 1 .. (d + c) /\ \A j \in 1 .. (d + c) : OnwardId(j) \in 1 .. H /\ OnwardId(j) \notin lost
  BY <1>1, <1>3, <1>4, <1>5 DEF TunnelIds, Onward
<1>15. lost \subseteq 1 .. H /\ d + c + Cardinality(lost) = H
  BY <1>1, <1>3, <1>4, <1>5 DEF TunnelIds
<1>16. d + 1 \in 1 .. (d + c) /\ e \notin lost
  BY <1>4, <1>7, <1>14
<1>17. Cardinality(lost) \in Nat /\ Cardinality(lost \cup {e}) = Cardinality(lost) + 1
  BY <1>5, <1>15, <1>16, LostOneMore
<1>18. \A j, k \in 1 .. (d + c) : j < k => OnwardId(j) < OnwardId(k)
  BY <1>1, <1>14 DEF TunnelIds
<1>19. \A j \in 1 .. (c - 1) : cable'[j].id = OnwardId((d + 1) + j)
  <2> TAKE j \in 1 .. (c - 1)
  <2>1. PICK k \in 1 .. c : k = j + 1 /\ d + k = (d + 1) + j
    BY <1>4
  <2>2. cable[k].id = OnwardId(d + k)
    BY <1>1, <1>3, <1>4, OnwardIds
  <2> QED
    BY <1>11, <2>1, <2>2
<1>20. CASE lost' = lost \cup {e} /\ UNCHANGED delivered
  <2>1. TunnelPackets'
    BY <1>1, <1>10, <1>11, <1>12, <1>13, <1>20 DEF TunnelPackets, Handled
  <2>2. Onward' = 1 .. (d + (c - 1))
    BY <1>3, <1>11, <1>20 DEF Onward
  <2> DEFINE old(j) == IF j <= d THEN j ELSE j + 1
  <2>3. ASSUME NEW j \in 1 .. (d + (c - 1))
        PROVE  old(j) \in 1 .. (d + c) /\ old(j) # d + 1 /\ OnwardId(j)' = OnwardId(old(j))
    <3>1. CASE j <= d
      <4>1. OnwardId(j)' = OnwardId(j)
        BY <1>3, <1>20, <3>1 DEF OnwardId
      <4> QED
        BY <1>4, <2>3, <3>1, <4>1
    <3>2. CASE ~(j <= d)
      <4>1. PICK k \in 1 .. (c - 1) : k = j - d /\ (d + 1) + k = j + 1
        BY <1>4, <2>3, <3>2
      <4>2. OnwardId(j)' = cable'[k].id
        BY <1>3, <1>20, <3>2, <4>1 DEF OnwardId
      <4>3. OnwardId(j)' = OnwardId(j + 1)
        BY <1>19, <4>1, <4>2
      <4> QED
        BY <1>4, <2>3, <3>2, <4>3
    <3> QED
      BY <3>1, <3>2
  <2>4. \A j, k \in 1 .. (d + (c - 1)) : j < k => old(j) < old(k)
    BY <1>3, <1>4
  <2>5. \A j \in Onward' : OnwardId(j)' \in 1 .. H /\ OnwardId(j)' \notin lost \cup {e}
    <3> SUFFICES ASSUME NEW j \in 1 .. (d + (c - 1))
                 PROVE  OnwardId(j)' \in 1 .. H /\ OnwardId(j)' \notin lost \cup {e}
      BY <2>2
    <3>1. PICK k \in 1 .. (d + c) : k = old(j) /\ k # d + 1 /\ OnwardId(j)' = OnwardId(k)
      BY <2>3
    <3>2. k < d + 1 \/ d + 1 < k
      BY <3>1
    <3>3. OnwardId(k) < e \/ e < OnwardId(k)
      BY <1>7, <1>16, <1>18, <3>2
    <3>4. OnwardId(k) \in 1 .. H /\ OnwardId(k) \notin lost
      BY <1>14
    <3> QED
      BY <3>1, <3>3, <3>4
  <2>6. \A j, k \in Onward' : j < k => OnwardId(j)' < OnwardId(k)'
    <3> SUFFICES ASSUME NEW j \in 1 .. (d + (c - 1)), NEW k \in 1 .. (d + (c - 1)), j < k
                 PROVE  OnwardId(j)' < OnwardId(k)'
      BY <2>2
    <3>1. PICK u \in 1 .. (d + c) : u = old(j) /\ OnwardId(j)' = OnwardId(u)
      BY <2>3
    <3>2. PICK v \in 1 .. (d + c) : v = old(k) /\ OnwardId(k)' = OnwardId(v)
      BY <2>3
    <3>3. u < v
      BY <2>4, <3>1, <3>2
    <3> QED
      BY <1>18, <3>1, <3>2, <3>3
  <2>7. d + (c - 1) + Cardinality(lost \cup {e}) = H /\ lost \cup {e} \subseteq 1 .. H
    BY <1>4, <1>15, <1>17
  <2>8. TunnelIds'
    BY <1>3, <1>11, <1>12, <1>20, <2>5, <2>6, <2>7 DEF TunnelIds
  <2> QED
    BY <2>1, <2>8 DEF TunnelInv
<1>21. CASE delivered' = Append(delivered, o) /\ UNCHANGED lost
  <2>1. PICK z \in Seq({Out(u) : u \in InPackets}) : z = delivered /\ Len(z) = d
    BY <1>1, <1>3 DEF TunnelPackets
  <2>2. o \in {Out(u) : u \in InPackets}
    BY <1>8, <1>9
  <2>3. /\ Append(z, o) \in Seq({Out(u) : u \in InPackets}) /\ Len(Append(z, o)) = d + 1
        /\ \A j \in 1 .. d : Append(z, o)[j] = z[j]
        /\ Append(z, o)[d + 1] = o
    BY <2>1, <2>2, AppendProperties
  <2>4. DOMAIN Append(z, o) = 1 .. (d + 1)
    BY <2>3, LenProperties
  <2>5. /\ delivered' \in Seq({Out(u) : u \in InPackets}) /\ Len(delivered') = d + 1
        /\ DOMAIN delivered' = 1 .. (d + 1)
        /\ \A j \in 1 .. d : delivered'[j] = delivered[j]
        /\ delivered'[d + 1] = o
    BY <1>21, <2>1, <2>3, <2>4
  <2>6. \A j \in 1 .. (d + 1) : j \in 1 .. d \/ j = d + 1
    BY <1>3
  <2>7. \A j \in DOMAIN delivered' : delivered'[j] = Out(sent'[delivered'[j].id])
    <3>1. \A j \in 1 .. d : delivered'[j] = Out(sent'[delivered'[j].id])
      BY <1>1, <1>3, <1>10, <2>5 DEF TunnelPackets
    <3>2. o = Out(sent'[o.id])
      BY <1>8, <1>9, <1>10
    <3> QED
      BY <2>5, <2>6, <3>1, <3>2
  <2>8. TunnelPackets'
    BY <1>1, <1>10, <1>11, <1>12, <1>13, <2>5, <2>7 DEF TunnelPackets, Handled
  <2>9. Onward' = 1 .. (d + c)
    BY <1>3, <1>4, <1>11, <2>5 DEF Onward
  <2>10. \A j \in 1 .. (d + c) : OnwardId(j)' = OnwardId(j)
    <3> TAKE j \in 1 .. (d + c)
    <3>1. CASE j <= d
      BY <1>3, <2>5, <3>1 DEF OnwardId
    <3>2. CASE j = d + 1
      <4>1. OnwardId(j)' = delivered'[j].id
        BY <2>5, <3>2 DEF OnwardId
      <4> QED
        BY <1>7, <1>9, <2>5, <3>2, <4>1
    <3>3. CASE ~(j <= d) /\ j # d + 1
      <4>1. PICK k \in 1 .. (c - 1) : k = j - (d + 1) /\ (d + 1) + k = j /\ ~(j <= d + 1)
        BY <1>4, <3>3
      <4>2. OnwardId(j)' = cable'[k].id
        BY <2>5, <4>1 DEF OnwardId
      <4> QED
        BY <1>19, <4>1, <4>2
    <3> QED
      BY <3>1, <3>2, <3>3
  <2>11. (d + 1) + (c - 1) + Cardinality(lost) = H
    BY <1>4, <1>15, <1>17
  <2>12. TunnelIds'
    <3>1. \A j \in Onward' : OnwardId(j)' \in 1 .. Handled' /\ OnwardId(j)' \notin lost'
      BY <1>12, <1>14, <1>21, <2>9, <2>10
    <3>2. \A j, k \in Onward' : j < k => OnwardId(j)' < OnwardId(k)'
      BY <1>18, <2>9, <2>10
    <3> QED
      BY <1>11, <1>12, <1>15, <1>21, <2>5, <2>11, <3>1, <3>2 DEF TunnelIds
  <2> QED
    BY <2>8, <2>12 DEF TunnelInv
<1> QED
  BY <1>10, <1>20, <1>21

LEMMA TunnelStep == ASSUME TunnelInv, Tunnel!Next PROVE TunnelInv'
BY TunnelRx, TunnelAtA, TunnelAtB DEF Tunnel!Next, Tunnel!main

LEMMA TunnelSafe == TunnelInv => TunnelKeeps
<1> SUFFICES ASSUME TunnelInv PROVE TunnelKeeps
  OBVIOUS
<1>1. TunnelPackets /\ TunnelIds
  BY DEF TunnelInv
<1>2. PICK N \in Nat : N = Len(sent) /\ DOMAIN sent = 1 .. N
  BY <1>1 DEF TunnelPackets
<1>3. PICK d \in Nat : d = Len(delivered) /\ DOMAIN delivered = 1 .. d
  BY <1>1 DEF TunnelPackets
<1>4. PICK c \in Nat : c = Len(cable) /\ DOMAIN cable = 1 .. c
  BY <1>1 DEF TunnelPackets
<1>5. PICK a \in Nat : a = Len(a_in) /\ a <= N
  BY <1>1, <1>2 DEF TunnelPackets
<1>6. \A k \in 1 .. Handled : sent[k] \in InPackets
  BY <1>1, <1>2, <1>5 DEF TunnelPackets, Handled
<1>7. ASSUME NEW j \in 1 .. d
      PROVE  /\ Tunnel!Comes(sent[delivered[j].id], delivered[j])
             /\ delivered[j].id = OnwardId(j) /\ delivered[j].headroom >= 0
  <2>1. PICK x \in InPackets : x = sent[delivered[j].id]
    BY <1>1, <1>3, <1>6, OnwardIds
  <2>2. delivered[j] = Out(x)
    BY <1>1, <1>3, <2>1 DEF TunnelPackets
  <2>3. delivered[j].id = OnwardId(j)
    BY <1>1, <1>3, OnwardIds
  <2> QED
    BY <2>1, <2>2, <2>3, TunnelFate
<1>8. ASSUME NEW j \in 1 .. c
      PROVE  /\ cable[j].id = OnwardId(d + j) /\ cable[j].headroom >= 0
             /\ ~Tunnel!IsVxlan(sent[cable[j].id])
                  => cable[j].layers[1].total_length = cable[j].size - Tunnel!ETHER
  <2>1. PICK x \in InPackets : x = sent[cable[j].id]
    BY <1>1, <1>4, <1>6, OnwardIds
  <2>2. cable[j] = Tunnel!Forward(x)
    BY <1>1, <1>4, <2>1 DEF TunnelPackets
  <2>3. cable[j].id = OnwardId(d + j)
    BY <1>1, <1>3, <1>4, OnwardIds
  <2> QED
    BY <2>1, <2>2, <2>3, TunnelFate
<1> DEFINE onward == delivered \o cable
<1>9. /\ Len(onward) = d + c /\ DOMAIN onward = 1 .. (d + c)
      /\ \A j \in 1 .. (d + c) : onward[j] = IF j <= d THEN delivered[j] ELSE cable[j - d]
  <2> DEFINE T == {Out(u) : u \in InPackets} \cup {Tunnel!Forward(u) : u \in InPackets}
  <2>1. PICK y \in Seq(T) : y = delivered /\ Len(y) = d
    <3>1. \A j \in 1 .. d : delivered[j] \in T
      BY <1>1, <1>3 DEF TunnelPackets
    <3>2. delivered = [j \in 1 .. d |-> delivered[j]]
      BY <1>1, <1>3 DEF TunnelPackets
    <3> HIDE DEF T
    <3>3. delivered \in Seq(T)
      BY <3>1, <3>2
    <3> QED
      BY <1>3, <3>3
  <2>2. PICK z \in Seq(T) : z = cable /\ Len(z) = c
    <3>1. \A j \in 1 .. c : cable[j] \in T
      BY <1>1, <1>4 DEF TunnelPackets
    <3>2. cable = [j \in 1 .. c |-> cable[j]]
      BY <1>1, <1>4 DEF TunnelPackets
    <3> HIDE DEF T
    <3>3. cable \in Seq(T)
      BY <3>1, <3>2
    <3> QED
      BY <1>4, <3>3
  <2> HIDE DEF T
  <2>3. /\ y \o z \in Seq(T) /\ Len(y \o z) = d + c
        /\ \A j \in 1 .. d + c : (y \o z)[j] = IF j <= d THEN y[j] ELSE z[j - d]
    BY <2>1, <2>2, ConcatProperties
  <2>4. DOMAIN (y \o z) = 1 .. (d + c)
    BY <2>3, LenProperties
  <2> QED
    BY <2>1, <2>2, <2>3, <2>4
<1> HIDE DEF onward
<1>10. ASSUME NEW j \in 1 .. (d + c) PROVE onward[j].id = OnwardId(j) /\ onward[j].headroom >= 0
  <2>1. CASE j <= d
    BY <1>7, <1>9, <2>1
  <2>2. CASE ~(j <= d)
    <3>1. PICK k \in 1 .. c : k = j - d /\ j = d + k
      BY <2>2
    <3> QED
      BY <1>8, <1>9, <2>2, <3>1
  <2> QED
    BY <2>1, <2>2
<1>11. \A j, k \in DOMAIN onward : j < k => onward[j].id < onward[k].id
  BY <1>1, <1>3, <1>4, <1>9, <1>10 DEF TunnelIds, Onward
<1>12. Tunnel!Cardinality(lost) = Cardinality(lost)
  BY DEF Cardinality, Tunnel!Cardinality
<1>13. Len(onward) + Len(a_in) + Cardinality(lost) = Len(sent)
  <2>1. d + c + Cardinality(lost) = N - a
    BY <1>1, <1>2, <1>3, <1>4, <1>5 DEF TunnelIds, Handled
  <2>2. lost \subseteq 1 .. (N - a) /\ N - a \in Nat
    BY <1>1, <1>2, <1>5 DEF TunnelIds, Handled
  <2>3. Cardinality(lost) \in Nat
    <3>1. PICK m \in Nat : m = N - a
      BY <2>2
    <3>2. IsFiniteSet(1 .. m) /\ lost \subseteq 1 .. m
      BY <2>2, <3>1, FS_Interval
    <3>3. IsFiniteSet(lost)
      BY <3>2, FS_Subset
    <3> QED
      BY <3>3, FS_CardinalityType
  <2> QED
    BY <1>2, <1>5, <1>9, <2>1, <2>3
<1> QED
  BY <1>3, <1>4, <1>7, <1>8, <1>9, <1>10, <1>11, <1>12, <1>13
  DEF TunnelKeeps, Tunnel!TunnelKeeps, onward

-----------------------------------------------------------------------------
(* ControlData.  A turn of the loop sorts a burst into the two rings, where *)
(* it fits, and drains them.                                               *)

CdPacket == [m : Mix, burst : Nat, place : Nat]

\* A ring, or what is put aside for one: packets of one class and one burst,
\* in the order of their places.
OneClass(x, control, b) ==
  /\ \A j \in 1 .. Len(x) : (Segregate!Control(x[j]) <=> control) /\ x[j].burst = b
  /\ \A j, k \in 1 .. Len(x) : j < k => x[j].place < x[k].place

CdRings ==
  /\ pc1 \in {"rx", "control", "data"} /\ bursts1 \in Nat
  /\ control_ring \in Seq(CdPacket) /\ data_ring \in Seq(CdPacket)
  /\ pc1 = "rx" => control_ring = <<>> /\ data_ring = <<>>
  /\ pc1 = "data" => control_ring = <<>>
  /\ Len(control_ring) <= BURST_SIZE /\ Len(data_ring) <= BURST_SIZE
  /\ OneClass(control_ring, TRUE, bursts1) /\ OneClass(data_ring, FALSE, bursts1)

CdCounts ==
  /\ control_count \in Nat /\ data_count \in Nat /\ received \in Nat
  /\ control_count + data_count = received /\ freed1 = {}

CdWire ==
  /\ wire1 \in Seq(CdPacket)
  /\ \A j \in DOMAIN wire1 :
       /\ wire1[j].burst <= bursts1
       /\ pc1 = "control" => wire1[j].burst < bursts1
       /\ pc1 = "data" /\ wire1[j].burst = bursts1 => Segregate!Control(wire1[j])
  /\ \A j, k \in DOMAIN wire1 : k = j + 1 => Segregate!Before(wire1[j], wire1[k])

CdInv == CdRings /\ CdCounts /\ CdWire

\* Every non-empty set of naturals has a least element: what stands for
\* induction below, applied to the set of counterexamples.
LEMMA LeastNat ==
  ASSUME NEW T, T \subseteq Nat, T # {}
  PROVE  \E m \in T : \A k \in T : ~(k < m)
<1>1. IsWellFoundedOn(OpToRel(<, Nat), Nat)
  BY NatLessThanWellFounded
<1>2. PICK m \in T : \A k \in T : ~(<<k, m>> \in OpToRel(<, Nat))
  BY <1>1, WFMin
<1> QED
  BY <1>2 DEF OpToRel

\* The loop over a burst, round by round.
Sorting(s, c, f, n) ==
  f = [k \in 0 .. n |->
         IF k = 0 THEN <<>>
         ELSE IF Segregate!Control(s[k]) <=> c THEN Append(f[k - 1], s[k]) ELSE f[k - 1]]

\* It can be carried on for as long as there are packets.
LEMMA SortingExists ==
  ASSUME NEW s, NEW c, NEW N \in Nat
  PROVE  \E f : Sorting(s, c, f, N)
<1> DEFINE T == {n \in Nat : ~\E f : Sorting(s, c, f, n)}
<1> SUFFICES ASSUME N \in T PROVE FALSE
  OBVIOUS
<1>1. PICK m \in T : \A k \in T : ~(k < m)
  <2>1. T \subseteq Nat /\ T # {}
    OBVIOUS
  <2> HIDE DEF T
  <2> QED
    BY <2>1, LeastNat
<1>2. m \in Nat
  OBVIOUS
<1>3. CASE m = 0
  <2> DEFINE f == [k \in 0 .. 0 |-> <<>>]
  <2>1. Sorting(s, c, f, 0)
    BY DEF Sorting
  <2> QED
    BY <1>3, <2>1
<1>4. CASE m # 0
  <2>1. m - 1 \in Nat /\ m - 1 < m
    BY <1>2, <1>4
  <2>2. PICK f : Sorting(s, c, f, m - 1)
    BY <1>1, <2>1
  <2> DEFINE last == IF Segregate!Control(s[m]) <=> c THEN Append(f[m - 1], s[m]) ELSE f[m - 1]
             g == [k \in 0 .. m |-> IF k = m THEN last ELSE f[k]]
  <2>3. \A k \in 0 .. m : k # m => k \in 0 .. m - 1 /\ g[k] = f[k]
    BY <1>2
  <2>4. g[m] = last /\ g[m - 1] = f[m - 1]
    BY <1>2, <2>1
  <2>5. ASSUME NEW k \in 0 .. m
        PROVE  g[k] = IF k = 0 THEN <<>>
                      ELSE IF Segregate!Control(s[k]) <=> c THEN Append(g[k - 1], s[k]) ELSE g[k - 1]
    <3>1. CASE k = m
      BY <1>4, <2>4, <3>1
    <3>2. CASE k # m /\ k # 0
      <4>1. k \in 0 .. m - 1 /\ k - 1 \in 0 .. m /\ k - 1 # m
        BY <1>2, <2>5, <3>2
      <4>2. g[k] = f[k] /\ g[k - 1] = f[k - 1]
        BY <2>3, <2>5, <3>2, <4>1
      <4> HIDE DEF g
      <4> QED
        BY <2>2, <3>2, <4>1, <4>2 DEF Sorting
    <3>3. CASE k = 0
      BY <1>2, <1>4, <2>1, <2>2, <2>3, <3>3 DEF Sorting
    <3> QED
      BY <3>1, <3>2, <3>3
  <2>6. Sorting(s, c, g, m)
    <3>1. g = [k \in 0 .. m |-> g[k]]
      OBVIOUS
    <3> HIDE DEF g
    <3> QED
      BY <2>5, <3>1 DEF Sorting
  <2> QED
    BY <2>6
<1> QED
  BY <1>3, <1>4

\* What is put aside after k packets is of one class and in order, and has no
\* place beyond k.
PutAside(x, control, b, k) ==
  /\ x \in Seq(CdPacket) /\ OneClass(x, control, b)
  /\ \A j \in 1 .. Len(x) : x[j].place <= k

\* One more packet.
LEMMA PutOneAside ==
  ASSUME NEW x, NEW control, NEW b, NEW k \in Nat, PutAside(x, control, b, k),
         NEW p \in CdPacket, p.burst = b, p.place = k + 1
  PROVE  /\ (Segregate!Control(p) <=> control) => PutAside(Append(x, p), control, b, k + 1)
         /\ PutAside(x, control, b, k + 1)
         /\ Len(Append(x, p)) = Len(x) + 1 /\ Len(x) \in Nat
<1>1. PICK l \in Nat : l = Len(x)
  BY DEF PutAside
<1>2. x \in Seq(CdPacket) /\ \A j \in 1 .. l : x[j] \in CdPacket
  BY <1>1 DEF PutAside
<1>3. \A j \in 1 .. l : x[j].place \in Nat /\ x[j].place <= k
  BY <1>1, <1>2 DEF PutAside, CdPacket
<1>4. PICK y : y = Append(x, p)
  OBVIOUS
<1>5. /\ y \in Seq(CdPacket) /\ Len(y) = l + 1 /\ y[l + 1] = p
      /\ \A j \in 1 .. l : y[j] = x[j]
  BY <1>1, <1>2, <1>4, AppendProperties
<1>6. \A j \in 1 .. (l + 1) : j \in 1 .. l \/ j = l + 1
  OBVIOUS
<1>7. PutAside(x, control, b, k + 1)
  <2>1. \A j \in 1 .. l : x[j].place <= k + 1
    BY <1>3
  <2> QED
    BY <1>1, <1>2, <2>1 DEF PutAside
<1>8. ASSUME Segregate!Control(p) <=> control PROVE PutAside(y, control, b, k + 1)
  <2>1. \A j \in 1 .. l : (Segregate!Control(y[j]) <=> control) /\ y[j].burst = b
    BY <1>1, <1>5 DEF PutAside, OneClass
  <2>2. \A j \in 1 .. (l + 1) : (Segregate!Control(y[j]) <=> control) /\ y[j].burst = b
    BY <1>5, <1>6, <1>8, <2>1
  <2>3. \A j \in 1 .. (l + 1) : y[j].place <= k + 1
    BY <1>3, <1>5, <1>6
  <2>4. ASSUME NEW h \in 1 .. (l + 1), NEW j \in 1 .. (l + 1), h < j PROVE y[h].place < y[j].place
    <3>1. CASE j \in 1 .. l
      <4>1. h \in 1 .. l
        BY <2>4, <3>1
      <4> QED
        BY <1>1, <1>5, <2>4, <3>1, <4>1 DEF PutAside, OneClass
    <3>2. CASE j = l + 1
      <4>1. h \in 1 .. l
        BY <2>4, <3>2
      <4>2. y[h].place \in Nat /\ y[h].place <= k /\ y[j].place = k + 1
        BY <1>3, <1>5, <3>2, <4>1
      <4> QED
        BY <4>2
    <3> QED
      BY <1>6, <3>1, <3>2
  <2>5. OneClass(y, control, b)
    BY <1>5, <2>2, <2>4 DEF OneClass
  <2> QED
    BY <1>5, <2>3, <2>5 DEF PutAside
<1> QED
  BY <1>1, <1>4, <1>5, <1>7, <1>8

\* A burst falls into two sequences of one class each, and nothing is left over.
LEMMA SortedBurst ==
  ASSUME NEW s \in Seq(CdPacket), NEW b,
         \A k \in 1 .. Len(s) : s[k].burst = b /\ s[k].place = k
  PROVE  /\ PutAside(Segregate!Sorted(s, TRUE), TRUE, b, Len(s))
         /\ PutAside(Segregate!Sorted(s, FALSE), FALSE, b, Len(s))
         /\ Len(Segregate!Sorted(s, TRUE)) + Len(Segregate!Sorted(s, FALSE)) = Len(s)
<1>1. PICK n \in Nat : n = Len(s)
  BY LenProperties
<1>2. \A k \in 1 .. n : s[k] \in CdPacket /\ s[k].burst = b /\ s[k].place = k
  BY <1>1, ElementOfSeq
<1> DEFINE f == CHOOSE g : Sorting(s, TRUE, g, n)
           h == CHOOSE g : Sorting(s, FALSE, g, n)
<1>3. Sorting(s, TRUE, f, n) /\ Sorting(s, FALSE, h, n)
  BY SortingExists
<1>4. Segregate!Sorted(s, TRUE) = f[n]
  BY <1>1 DEF Segregate!Sorted, Sorting
<1>5. Segregate!Sorted(s, FALSE) = h[n]
  BY <1>1 DEF Segregate!Sorted, Sorting
<1> HIDE DEF f, h
<1> DEFINE Good(k) == /\ PutAside(f[k], TRUE, b, k) /\ PutAside(h[k], FALSE, b, k)
                      /\ Len(f[k]) + Len(h[k]) = k
           T == {k \in 0 .. n : ~Good(k)}
<1> HIDE DEF Good
<1>6. ASSUME T # {} PROVE FALSE
  <2>1. T \subseteq Nat
    OBVIOUS
  <2> HIDE DEF T
  <2>2. PICK m \in T : \A k \in T : ~(k < m)
    BY <1>6, <2>1, LeastNat
  <2> USE DEF T
  <2>3. m \in Nat /\ m \in 0 .. n /\ ~Good(m)
    OBVIOUS
  <2>4. CASE m = 0
    <3>1. f[0] = <<>> /\ h[0] = <<>>
      BY <1>3 DEF Sorting
    <3>2. Len(<<>>) = 0 /\ <<>> \in Seq(CdPacket)
      OBVIOUS
    <3>3. PutAside(<<>>, TRUE, b, 0) /\ PutAside(<<>>, FALSE, b, 0)
      BY <3>2 DEF PutAside, OneClass
    <3> QED
      <4>1. Len(f[0]) + Len(h[0]) = 0
        BY <3>1, <3>2
      <4>2. Good(0)
        BY <3>1, <3>3, <4>1, Zenon DEF Good
      <4> QED
        BY <2>3, <2>4, <4>2
  <2>5. CASE m # 0
    <3>1. PICK k \in Nat : k = m - 1 /\ k + 1 = m /\ k \in 0 .. n /\ k < m /\ m \in 1 .. n
      BY <2>3, <2>5
    <3>2. Good(k)
      BY <2>2, <3>1
    <3>3. PICK p \in CdPacket : p = s[m] /\ p.burst = b /\ p.place = k + 1
      BY <1>2, <3>1
    <3>4. f[m] = IF Segregate!Control(p) THEN Append(f[k], p) ELSE f[k]
      BY <1>3, <2>3, <2>5, <3>1, <3>3 DEF Sorting
    <3>5. h[m] = IF Segregate!Control(p) THEN h[k] ELSE Append(h[k], p)
      BY <1>3, <2>3, <2>5, <3>1, <3>3 DEF Sorting
    <3>6. PICK x : x = f[k] /\ PutAside(x, TRUE, b, k)
      BY <3>2 DEF Good
    <3>7. PICK y : y = h[k] /\ PutAside(y, FALSE, b, k)
      BY <3>2 DEF Good
    <3>8. /\ Segregate!Control(p) => PutAside(Append(x, p), TRUE, b, k + 1)
          /\ PutAside(x, TRUE, b, k + 1)
          /\ Len(Append(x, p)) = Len(x) + 1 /\ Len(x) \in Nat
      <4>1. /\ (Segregate!Control(p) <=> TRUE) => PutAside(Append(x, p), TRUE, b, k + 1)
            /\ PutAside(x, TRUE, b, k + 1)
            /\ Len(Append(x, p)) = Len(x) + 1 /\ Len(x) \in Nat
        <5>1. ASSUME NEW c, PutAside(x, c, b, k)
              PROVE  /\ (Segregate!Control(p) <=> c) => PutAside(Append(x, p), c, b, k + 1)
                     /\ PutAside(x, c, b, k + 1)
                     /\ Len(Append(x, p)) = Len(x) + 1 /\ Len(x) \in Nat
          BY <3>3, <5>1, PutOneAside
        <5> QED
          BY <3>6, <5>1
      <4> QED
        BY <4>1
    <3>9. /\ ~Segregate!Control(p) => PutAside(Append(y, p), FALSE, b, k + 1)
          /\ PutAside(y, FALSE, b, k + 1)
          /\ Len(Append(y, p)) = Len(y) + 1 /\ Len(y) \in Nat
      <4>1. /\ (Segregate!Control(p) <=> FALSE) => PutAside(Append(y, p), FALSE, b, k + 1)
            /\ PutAside(y, FALSE, b, k + 1)
            /\ Len(Append(y, p)) = Len(y) + 1 /\ Len(y) \in Nat
        <5>1. ASSUME NEW c, PutAside(y, c, b, k)
              PROVE  /\ (Segregate!Control(p) <=> c) => PutAside(Append(y, p), c, b, k + 1)
                     /\ PutAside(y, c, b, k + 1)
                     /\ Len(Append(y, p)) = Len(y) + 1 /\ Len(y) \in Nat
          BY <3>3, <5>1, PutOneAside
        <5> QED
          BY <3>7, <5>1
      <4> QED
        BY <4>1
    <3>10. Len(x) + Len(y) = k
      BY <3>2, <3>6, <3>7 DEF Good
    <3>11. CASE Segregate!Control(p)
      <4>1. f[m] = Append(x, p) /\ h[m] = y
        BY <3>4, <3>5, <3>6, <3>7, <3>11
      <4>2. Len(Append(x, p)) + Len(y) = k + 1
        BY <3>8, <3>9, <3>10
      <4>3. Good(m)
        BY <3>1, <3>8, <3>9, <3>11, <4>1, <4>2 DEF Good
      <4> QED
        BY <2>3, <4>3
    <3>12. CASE ~Segregate!Control(p)
      <4>1. f[m] = x /\ h[m] = Append(y, p)
        BY <3>4, <3>5, <3>6, <3>7, <3>12
      <4>2. Len(x) + Len(Append(y, p)) = k + 1
        BY <3>8, <3>9, <3>10
      <4>3. Good(m)
        BY <3>1, <3>8, <3>9, <3>12, <4>1, <4>2 DEF Good
      <4> QED
        BY <2>3, <4>3
    <3> QED
      BY <3>11, <3>12
  <2> QED
    BY <2>4, <2>5
<1>7. Good(n)
  BY <1>6
<1> QED
  BY <1>1, <1>4, <1>5, <1>7 DEF Good

\* With an empty ring a burst fits, and nothing is in excess.
LEMMA AllFits ==
  ASSUME NEW ps \in Seq(CdPacket), Len(ps) <= BURST_SIZE
  PROVE  /\ Segregate!Fitting(<<>>, ps) = ps
         /\ Segregate!Elements(Segregate!Excess(<<>>, ps)) = {}
<1>1. PICK n \in Nat : n = Len(ps)
  BY LenProperties
<1>2. RING_SIZE \in Nat /\ BURST_SIZE \in Nat /\ n < RING_SIZE /\ n <= RING_SIZE - 1
  BY <1>1, ForwarderAssumption, LoadBalancerAssumption
<1>3. Len(<<>>) = 0
  OBVIOUS
<1>4. Segregate!Room(<<>>) = RING_SIZE - 1
  BY <1>2, <1>3 DEF Segregate!Room
<1>5. Segregate!Lesser(n, RING_SIZE - 1) = n
  BY <1>1, <1>2 DEF Segregate!Lesser
<1>6. Segregate!Fitting(<<>>, ps) = SubSeq(ps, 1, n) /\ Segregate!Excess(<<>>, ps) = SubSeq(ps, n + 1, n)
  BY <1>1, <1>4, <1>5 DEF Segregate!Fitting, Segregate!Excess
<1>7. SubSeq(ps, 1, n) = ps
  BY <1>1
<1>8. SubSeq(ps, n + 1, n) = <<>>
  BY <1>1
<1>9. Segregate!Elements(<<>>) = {}
  BY DEF Segregate!Elements
<1> QED
  BY <1>6, <1>7, <1>8, <1>9

\* Packets in the order in which they may leave; those of w come before burst
\* b, or are its control packets and the others no control; u is put together
\* from w and a ring.
InLine(w) == \A j, k \in DOMAIN w : k = j + 1 => Segregate!Before(w[j], w[k])
Earlier(w, c, b) ==
  \A j \in DOMAIN w : w[j].burst < b \/ (w[j].burst = b /\ Segregate!Control(w[j]) /\ ~c)
FromBoth(u, w, ring) ==
  \A j \in DOMAIN u : (\E k \in DOMAIN w : u[j] = w[k]) \/ (\E k \in 1 .. Len(ring) : u[j] = ring[k])

\* Sending the first v packets of a ring of burst b after w keeps the order.
LEMMA SendBurst ==
  ASSUME NEW w \in Seq(CdPacket), NEW ring \in Seq(CdPacket), NEW v \in 0 .. Len(ring),
         NEW c, NEW b \in Nat, OneClass(ring, c, b), InLine(w), Earlier(w, c, b)
  PROVE  /\ w \o SubSeq(ring, 1, v) \in Seq(CdPacket)
         /\ FromBoth(w \o SubSeq(ring, 1, v), w, ring)
         /\ InLine(w \o SubSeq(ring, 1, v))
<1>1. PICK l \in Nat : l = Len(w) /\ DOMAIN w = 1 .. l
  BY LenProperties
<1>2. PICK r \in Nat : r = Len(ring) /\ DOMAIN ring = 1 .. r
  BY LenProperties
<1>3. v \in Nat /\ v <= r
  BY <1>2
<1>4. PICK x : x = SubSeq(ring, 1, v)
  OBVIOUS
<1>5. x \in Seq(CdPacket) /\ Len(x) = v /\ \A j \in 1 .. v : x[j] = ring[j]
  BY <1>2, <1>3, <1>4
<1>6. PICK u : u = w \o x
  OBVIOUS
<1>7. /\ u \in Seq(CdPacket) /\ Len(u) = l + v
      /\ \A j \in 1 .. l + v : u[j] = IF j <= l THEN w[j] ELSE x[j - l]
  BY <1>1, <1>5, <1>6, ConcatProperties
<1>8. DOMAIN u = 1 .. (l + v)
  BY <1>7, LenProperties
<1>9. \A j \in 1 .. l : u[j] = w[j]
  <2>1. \A j \in 1 .. l : j \in 1 .. l + v /\ j <= l
    BY <1>3
  <2> QED
    BY <1>7, <2>1
<1>10. ASSUME NEW j \in 1 .. (l + v), ~(j <= l)
       PROVE  j - l \in 1 .. v /\ j - l \in 1 .. r /\ u[j] = ring[j - l]
  <2>1. j - l \in 1 .. v /\ j - l \in 1 .. r
    BY <1>3, <1>10
  <2> QED
    BY <1>5, <1>7, <1>10, <2>1
<1>11. ASSUME NEW j \in 1 .. (l + v)
       PROVE  (\E k \in DOMAIN w : u[j] = w[k]) \/ (\E k \in 1 .. r : u[j] = ring[k])
  <2>1. CASE j <= l
    BY <1>1, <1>9, <2>1
  <2>2. CASE ~(j <= l)
    BY <1>10, <2>2
  <2> QED
    BY <2>1, <2>2
<1>12. ASSUME NEW j \in 1 .. (l + v), NEW k \in 1 .. (l + v), k = j + 1
       PROVE  Segregate!Before(u[j], u[k])
  <2>1. CASE k <= l
    <3>1. j \in 1 .. l /\ k \in 1 .. l
      BY <1>12, <2>1
    <3> QED
      BY <1>1, <1>9, <1>12, <3>1 DEF InLine
  <2>2. CASE ~(k <= l)
    <3>1. PICK e \in 1 .. r : e = k - l /\ u[k] = ring[e]
      BY <1>10, <2>2
    <3>2. /\ u[k].burst = b /\ (Segregate!Control(u[k]) <=> c)
      BY <1>2, <3>1 DEF OneClass
    <3>3. CASE j <= l
      <4>1. j \in DOMAIN w /\ u[j] = w[j]
        BY <1>1, <1>9, <3>3
      <4> QED
        BY <3>2, <4>1 DEF Segregate!Before, Earlier
    <3>4. CASE ~(j <= l)
      <4>1. PICK d \in 1 .. r : d = j - l /\ u[j] = ring[d]
        BY <1>10, <3>4
      <4>2. d < e
        BY <1>12, <3>1, <4>1
      <4>3. u[j].burst = b /\ (Segregate!Control(u[j]) <=> c) /\ u[j].place < u[k].place
        BY <1>2, <3>1, <4>1, <4>2 DEF OneClass
      <4> QED
        BY <3>2, <4>3 DEF Segregate!Before
    <3> QED
      BY <3>3, <3>4
  <2> QED
    BY <2>1, <2>2
<1>13. FromBoth(u, w, ring) /\ InLine(u)
  BY <1>2, <1>8, <1>11, <1>12 DEF FromBoth, InLine
<1> QED
  BY <1>4, <1>6, <1>7, <1>13

\* One drain takes all that a turn has put into a ring.
LEMMA DrainsAll ==
  ASSUME NEW ring \in Seq(CdPacket), Len(ring) <= BURST_SIZE
  PROVE  /\ Segregate!Drained(ring) = <<>>
         /\ Segregate!Drain(ring) => \E v \in 0 .. Len(ring) : wire1' = wire1 \o SubSeq(ring, 1, v)
<1>1. PICK r \in Nat : r = Len(ring)
  BY LenProperties
<1>2. Segregate!Lesser(Len(ring), BURST_SIZE) = r
  BY <1>1, LoadBalancerAssumption DEF Segregate!Lesser
<1>3. Segregate!Drained(ring) = SubSeq(ring, r + 1, r)
  BY <1>1, <1>2 DEF Segregate!Drained
<1>4. SubSeq(ring, r + 1, r) = <<>> /\ SubSeq(ring, 1, r) = ring
  BY <1>1
<1>5. ASSUME Segregate!Drain(ring) PROVE \E v \in 0 .. r : wire1' = wire1 \o SubSeq(ring, 1, v)
  BY <1>2, <1>4, <1>5 DEF Segregate!Drain
<1> QED
  BY <1>1, <1>3, <1>4, <1>5

LEMMA CdInit == Segregate!Init => CdInv
<1> SUFFICES ASSUME Segregate!Init PROVE CdInv
  OBVIOUS
<1>1. DOMAIN <<>> = {} /\ Len(<<>>) = 0 /\ \A S : <<>> \in Seq(S)
  OBVIOUS
<1>2. BURST_SIZE \in Nat
  BY LoadBalancerAssumption
<1>3. OneClass(<<>>, TRUE, 0) /\ OneClass(<<>>, FALSE, 0)
  BY <1>1 DEF OneClass
<1>4. CdRings
  <2>1. pc1 = "rx" /\ bursts1 = 0 /\ control_ring = <<>> /\ data_ring = <<>>
    BY DEF Segregate!Init
  <2>2. Len(<<>>) <= BURST_SIZE /\ 0 \in Nat
    BY <1>1, <1>2
  <2> QED
    BY <1>1, <1>3, <2>1, <2>2, Zenon DEF CdRings
<1>5. CdCounts
  BY DEF Segregate!Init, CdCounts
<1>6. CdWire
  BY <1>1 DEF Segregate!Init, CdWire
<1> QED
  BY <1>4, <1>5, <1>6 DEF CdInv

\* What RxBurst makes of a burst s of n packets.
Enqueued(n, s) ==
  LET cs == Segregate!Sorted(s, TRUE)
      ds == Segregate!Sorted(s, FALSE)
  IN  /\ control_ring' = control_ring \o Segregate!Fitting(control_ring, cs)
      /\ data_ring' = data_ring \o Segregate!Fitting(data_ring, ds)
      /\ control_count' = control_count + Len(Segregate!Fitting(control_ring, cs))
      /\ data_count' = data_count + Len(Segregate!Fitting(data_ring, ds))
      /\ freed1' = freed1 \cup Segregate!Elements(Segregate!Excess(control_ring, cs))
                          \cup Segregate!Elements(Segregate!Excess(data_ring, ds))
      /\ received' = received + n

LEMMA CdRx == ASSUME CdInv, Segregate!RxBurst PROVE CdInv'
<1>1. CdRings /\ CdCounts /\ CdWire
  BY DEF CdInv
<1>2. pc1 = "rx" /\ control_ring = <<>> /\ data_ring = <<>> /\ bursts1 \in Nat
  BY <1>1 DEF Segregate!RxBurst, CdRings
<1>3. pc1' = "control" /\ bursts1' = bursts1 + 1 /\ UNCHANGED <<wire1, leaked1>>
  BY DEF Segregate!RxBurst
<1>4. PICK n \in 0 .. BURST_SIZE : \E ms \in [1 .. n -> Mix] :
        Enqueued(n, [k \in 1 .. n |-> [m |-> ms[k], burst |-> bursts1 + 1, place |-> k]])
  BY DEF Segregate!RxBurst, Enqueued
<1>5. n \in Nat /\ n <= BURST_SIZE /\ BURST_SIZE \in Nat
  BY LoadBalancerAssumption
<1>6. PICK B \in Nat : B = bursts1 + 1
  BY <1>2
<1>7. PICK ms \in [1 .. n -> Mix] :
        Enqueued(n, [k \in 1 .. n |-> [m |-> ms[k], burst |-> B, place |-> k]])
  BY <1>4, <1>6
<1>8. PICK s : /\ s = [k \in 1 .. n |-> [m |-> ms[k], burst |-> B, place |-> k]]
                /\ Enqueued(n, s)
  BY <1>7
<1>9. \A k \in 1 .. n : s[k] \in CdPacket /\ s[k].burst = B /\ s[k].place = k
  BY <1>5, <1>8 DEF CdPacket
<1>10. s \in Seq(CdPacket) /\ Len(s) = n
  <2>1. s = [k \in 1 .. n |-> s[k]]
    BY <1>8
  <2> QED
    BY <1>5, <1>9, <2>1
<1>11. PICK cs, ds : cs = Segregate!Sorted(s, TRUE) /\ ds = Segregate!Sorted(s, FALSE)
  OBVIOUS
<1>12. PutAside(cs, TRUE, B, n) /\ PutAside(ds, FALSE, B, n) /\ Len(cs) + Len(ds) = n
  <2>1. /\ PutAside(Segregate!Sorted(s, TRUE), TRUE, B, Len(s))
        /\ PutAside(Segregate!Sorted(s, FALSE), FALSE, B, Len(s))
        /\ Len(Segregate!Sorted(s, TRUE)) + Len(Segregate!Sorted(s, FALSE)) = Len(s)
    BY <1>9, <1>10, SortedBurst
  <2> QED
    BY <1>10, <1>11, <2>1, Zenon
<1>13. PICK u \in Nat, v \in Nat : u = Len(cs) /\ v = Len(ds) /\ u + v = n /\ u <= n /\ v <= n
  <2>1. Len(cs) \in Nat /\ Len(ds) \in Nat
    BY <1>12, LenProperties DEF PutAside
  <2> QED
    BY <1>12, <2>1
<1>14. /\ cs \in Seq(CdPacket) /\ ds \in Seq(CdPacket) /\ Len(cs) <= BURST_SIZE /\ Len(ds) <= BURST_SIZE
       /\ OneClass(cs, TRUE, B) /\ OneClass(ds, FALSE, B)
  <2>1. cs \in Seq(CdPacket) /\ ds \in Seq(CdPacket) /\ OneClass(cs, TRUE, B) /\ OneClass(ds, FALSE, B)
    BY <1>12, Zenon DEF PutAside
  <2>2. Len(cs) <= BURST_SIZE /\ Len(ds) <= BURST_SIZE
    BY <1>5, <1>13
  <2> QED
    BY <2>1, <2>2, Zenon
<1>15. /\ Segregate!Fitting(<<>>, cs) = cs /\ Segregate!Elements(Segregate!Excess(<<>>, cs)) = {}
       /\ Segregate!Fitting(<<>>, ds) = ds /\ Segregate!Elements(Segregate!Excess(<<>>, ds)) = {}
  <2>1. cs \in Seq(CdPacket) /\ ds \in Seq(CdPacket) /\ Len(cs) <= BURST_SIZE /\ Len(ds) <= BURST_SIZE
    BY <1>14, Zenon
  <2> QED
    BY <2>1, AllFits
<1>16. /\ control_ring' = <<>> \o Segregate!Fitting(<<>>, cs)
       /\ data_ring' = <<>> \o Segregate!Fitting(<<>>, ds)
       /\ control_count' = control_count + Len(Segregate!Fitting(<<>>, cs))
       /\ data_count' = data_count + Len(Segregate!Fitting(<<>>, ds))
       /\ freed1' = freed1 \cup Segregate!Elements(Segregate!Excess(<<>>, cs))
                           \cup Segregate!Elements(Segregate!Excess(<<>>, ds))
       /\ received' = received + n
  BY <1>2, <1>11, <1>8, Zenon DEF Enqueued
<1>17. <<>> \o cs = cs /\ <<>> \o ds = ds
  <2>1. cs \in Seq(CdPacket) /\ ds \in Seq(CdPacket)
    BY <1>14, Zenon
  <2> QED
    BY <2>1
<1>18. /\ control_ring' = cs /\ data_ring' = ds
       /\ control_count' = control_count + u /\ data_count' = data_count + v
       /\ freed1' = freed1 /\ received' = received + n
  <2>1. control_ring' = cs /\ data_ring' = ds /\ received' = received + n
    BY <1>15, <1>16, <1>17, Zenon
  <2>2. control_count' = control_count + u /\ data_count' = data_count + v
    BY <1>13, <1>15, <1>16, Zenon
  <2>3. freed1' = freed1
    BY <1>15, <1>16
  <2> QED
    BY <2>1, <2>2, <2>3
<1>19. CdRings'
  BY <1>3, <1>6, <1>14, <1>18, Zenon DEF CdRings
<1>20. CdCounts'
  BY <1>1, <1>5, <1>13, <1>18 DEF CdCounts
<1>21. CdWire'
  <2>1. \A j \in DOMAIN wire1 : wire1[j].burst <= bursts1' /\ wire1[j].burst < bursts1'
    <3>1. \A j \in DOMAIN wire1 : wire1[j] \in CdPacket /\ wire1[j].burst <= bursts1
      BY <1>1 DEF CdWire
    <3>2. \A j \in DOMAIN wire1 : wire1[j].burst \in Nat
      BY <3>1 DEF CdPacket
    <3> QED
      BY <1>2, <1>3, <3>1, <3>2
  <2> QED
    BY <1>1, <1>3, <2>1 DEF CdWire
<1> QED
  BY <1>19, <1>20, <1>21 DEF CdInv

LEMMA CdDrainControl == ASSUME CdInv, Segregate!DrainControl PROVE CdInv'
<1>1. CdRings /\ CdCounts /\ CdWire
  BY DEF CdInv
<1>2. PICK r \in Seq(CdPacket) : r = control_ring /\ Len(r) <= BURST_SIZE
  BY <1>1 DEF CdRings
<1>3. /\ pc1 = "control" /\ pc1' = "data" /\ control_ring' = Segregate!Drained(r)
      /\ UNCHANGED <<data_ring, control_count, data_count, bursts1, received, freed1>>
  BY <1>2 DEF Segregate!DrainControl, Segregate!countVars
<1>4. Segregate!Drain(r)
  BY <1>2 DEF Segregate!DrainControl, Segregate!Drain
<1>5. control_ring' = <<>> /\ \E v \in 0 .. Len(r) : wire1' = wire1 \o SubSeq(r, 1, v)
  BY <1>2, <1>3, <1>4, DrainsAll
<1>6. PICK v \in 0 .. Len(r) : wire1' = wire1 \o SubSeq(r, 1, v)
  BY <1>5
<1>7. PICK w \in Seq(CdPacket) : w = wire1
  BY <1>1 DEF CdWire
<1>8. PICK b \in Nat : b = bursts1
  BY <1>1 DEF CdRings
<1>9. OneClass(r, TRUE, b)
  BY <1>1, <1>2, <1>8, Zenon DEF CdRings
<1>10. InLine(w)
  BY <1>1, <1>7 DEF CdWire, InLine
<1>11. \A j \in DOMAIN w : w[j].burst < b
  BY <1>1, <1>3, <1>7, <1>8 DEF CdWire
<1>12. PICK u : u = w \o SubSeq(r, 1, v) /\ u = wire1'
  BY <1>6, <1>7
<1>13. u \in Seq(CdPacket) /\ FromBoth(u, w, r) /\ InLine(u)
  <2>1. ASSUME NEW c, OneClass(r, c, b)
        PROVE  u \in Seq(CdPacket) /\ FromBoth(u, w, r) /\ InLine(u)
    <3>1. Earlier(w, c, b)
      BY <1>11, <2>1 DEF Earlier
    <3> QED
      BY <1>10, <1>12, <2>1, <3>1, SendBurst
  <2> QED
    BY <1>9, <2>1
<1>14. \A k \in 1 .. Len(r) : r[k].burst = b /\ Segregate!Control(r[k])
  BY <1>9 DEF OneClass
<1>15. \A j \in DOMAIN u : u[j].burst <= b /\ (u[j].burst = b => Segregate!Control(u[j]))
  <2> TAKE j \in DOMAIN u
  <2>1. CASE \E k \in DOMAIN w : u[j] = w[k]
    <3>1. PICK k \in DOMAIN w : u[j] = w[k]
      BY <2>1
    <3>2. w[k] \in CdPacket
      OBVIOUS
    <3>3. w[k].burst \in Nat /\ w[k].burst < b
      BY <1>11, <3>2 DEF CdPacket
    <3> QED
      BY <3>1, <3>3
  <2>2. CASE \E k \in 1 .. Len(r) : u[j] = r[k]
    BY <1>14, <2>2
  <2> QED
    BY <1>13, <2>1, <2>2 DEF FromBoth
<1>16. CdWire'
  BY <1>3, <1>8, <1>12, <1>13, <1>15 DEF CdWire, InLine
<1>17. CdRings'
  <2>1. Len(<<>>) = 0 /\ <<>> \in Seq(CdPacket) /\ 0 <= BURST_SIZE
    BY LoadBalancerAssumption
  <2>2. OneClass(<<>>, TRUE, bursts1)
    BY <2>1 DEF OneClass
  <2> QED
    BY <1>1, <1>3, <1>5, <2>1, <2>2, Zenon DEF CdRings
<1>18. CdCounts'
  BY <1>1, <1>3 DEF CdCounts
<1> QED
  BY <1>16, <1>17, <1>18 DEF CdInv

LEMMA CdDrainData == ASSUME CdInv, Segregate!DrainData PROVE CdInv'
<1>1. CdRings /\ CdCounts /\ CdWire
  BY DEF CdInv
<1>2. PICK r \in Seq(CdPacket) : r = data_ring /\ Len(r) <= BURST_SIZE
  BY <1>1 DEF CdRings
<1>3. /\ pc1 = "data" /\ pc1' = "rx" /\ data_ring' = Segregate!Drained(r)
      /\ UNCHANGED <<control_ring, control_count, data_count, bursts1, received, freed1>>
  BY <1>2 DEF Segregate!DrainData, Segregate!countVars
<1>4. Segregate!Drain(r)
  BY <1>2 DEF Segregate!DrainData, Segregate!Drain
<1>5. data_ring' = <<>> /\ \E v \in 0 .. Len(r) : wire1' = wire1 \o SubSeq(r, 1, v)
  BY <1>2, <1>3, <1>4, DrainsAll
<1>6. PICK v \in 0 .. Len(r) : wire1' = wire1 \o SubSeq(r, 1, v)
  BY <1>5
<1>7. PICK w \in Seq(CdPacket) : w = wire1
  BY <1>1 DEF CdWire
<1>8. PICK b \in Nat : b = bursts1
  BY <1>1 DEF CdRings
<1>9. OneClass(r, FALSE, b)
  BY <1>1, <1>2, <1>8, Zenon DEF CdRings
<1>10. InLine(w)
  BY <1>1, <1>7 DEF CdWire, InLine
<1>11. \A j \in DOMAIN w : w[j].burst < b \/ (w[j].burst = b /\ Segregate!Control(w[j]))
  <2>1. \A j \in DOMAIN w : w[j].burst \in Nat
    <3>1. \A j \in DOMAIN w : w[j] \in CdPacket
      OBVIOUS
    <3> QED
      BY <3>1 DEF CdPacket
  <2>2. \A j \in DOMAIN w : w[j].burst <= b /\ (w[j].burst = b => Segregate!Control(w[j]))
    BY <1>1, <1>3, <1>7, <1>8 DEF CdWire
  <2> QED
    BY <2>1, <2>2
<1>12. PICK u : u = w \o SubSeq(r, 1, v) /\ u = wire1'
  BY <1>6, <1>7
<1>13. u \in Seq(CdPacket) /\ FromBoth(u, w, r) /\ InLine(u)
  <2>1. ASSUME NEW c, OneClass(r, c, b), ~c
        PROVE  u \in Seq(CdPacket) /\ FromBoth(u, w, r) /\ InLine(u)
    <3>1. Earlier(w, c, b)
      BY <1>11, <2>1 DEF Earlier
    <3> QED
      BY <1>10, <1>12, <2>1, <3>1, SendBurst
  <2> QED
    BY <1>9, <2>1
<1>14. \A k \in 1 .. Len(r) : r[k].burst = b
  BY <1>9 DEF OneClass
<1>15. \A j \in DOMAIN u : u[j].burst <= b
  <2> TAKE j \in DOMAIN u
  <2>1. CASE \E k \in DOMAIN w : u[j] = w[k]
    <3>1. PICK k \in DOMAIN w : u[j] = w[k]
      BY <2>1
    <3>2. w[k] \in CdPacket
      OBVIOUS
    <3>3. w[k].burst \in Nat /\ w[k].burst <= b
      <4>1. w[k].burst \in Nat
        BY <3>2 DEF CdPacket
      <4>2. w[k].burst < b \/ w[k].burst = b
        BY <1>11
      <4> QED
        BY <4>1, <4>2
    <3> QED
      BY <3>1, <3>3
  <2>2. CASE \E k \in 1 .. Len(r) : u[j] = r[k]
    BY <1>14, <2>2
  <2> QED
    BY <1>13, <2>1, <2>2 DEF FromBoth
<1>16. CdWire'
  BY <1>3, <1>8, <1>12, <1>13, <1>15 DEF CdWire, InLine
<1>17. CdRings'
  <2>1. Len(<<>>) = 0 /\ <<>> \in Seq(CdPacket) /\ 0 <= BURST_SIZE
    BY LoadBalancerAssumption
  <2>2. OneClass(<<>>, FALSE, bursts1)
    BY <2>1 DEF OneClass
  <2> QED
    BY <1>1, <1>3, <1>5, <2>1, <2>2, Zenon DEF CdRings
<1>18. CdCounts'
  BY <1>1, <1>3 DEF CdCounts
<1> QED
  BY <1>16, <1>17, <1>18 DEF CdInv

LEMMA CdStep == ASSUME CdInv, Segregate!Next PROVE CdInv'
BY CdRx, CdDrainControl, CdDrainData DEF Segregate!Next

\* A complete packet of the documented list is control for classify_packet.
LEMMA DocumentedIsControl ==
  ASSUME NEW m \in Mix, Segregate!DocumentedControl(m), Segregate!Complete(m)
  PROVE  Segregate!classify_packet(m)
<1>1. PICK len \in Nat, ihl \in Nat : len = m.len /\ ihl = m.ihl
  BY ForwarderAssumption
<1>2. PICK l3 \in Nat : l3 = Segregate!L3(m) /\ l3 = IF m.vlan THEN 18 ELSE 14
  BY DEF Segregate!L3, Segregate!ETHER, Segregate!VLAN
<1>3. /\ ihl >= 20 /\ len >= l3 + ihl
      /\ m.proto = "UDP" => len >= l3 + ihl + 8
      /\ m.proto = "TCP" => len >= l3 + ihl + 20
  BY <1>1, <1>2 DEF Segregate!Complete, Segregate!IPV4, Segregate!UDP, Segregate!TCP
<1>4. len >= 14 /\ (m.vlan => len >= 18) /\ len >= l3 + 20
  BY <1>2, <1>3
<1> QED
  BY <1>1, <1>2, <1>3, <1>4
  DEF Segregate!DocumentedControl, Segregate!classify_packet, Segregate!ETHER, Segregate!VLAN,
      Segregate!IPV4, Segregate!UDP, Segregate!TCP, Segregate!is_control_tcp_port,
      Segregate!is_control_udp_port

LEMMA CdSafe == CdInv => RingsDrained /\ ControlFirst
<1> SUFFICES ASSUME CdInv PROVE RingsDrained /\ ControlFirst
  OBVIOUS
<1>1. CdRings /\ CdCounts /\ CdWire
  BY DEF CdInv
<1>2. RingsDrained
  BY <1>1 DEF RingsDrained, Segregate!RingsDrained, CdRings, CdCounts
<1>3. PICK l \in Nat : l = Len(wire1) /\ DOMAIN wire1 = 1 .. l
  BY <1>1 DEF CdWire
<1>4. ASSUME NEW j \in 1 .. (l - 1) PROVE Segregate!Before(wire1[j], wire1[j + 1])
  <2>1. PICK k \in 1 .. l : k = j + 1
    BY <1>3
  <2>2. j \in 1 .. l
    BY <1>3
  <2> QED
    BY <1>1, <1>3, <2>1, <2>2 DEF CdWire
<1>5. ASSUME NEW j \in DOMAIN data_ring
      PROVE  ~(Segregate!DocumentedControl(data_ring[j].m) /\ Segregate!Complete(data_ring[j].m))
  <2>1. PICK p \in CdPacket : p = data_ring[j]
    BY <1>1 DEF CdRings
  <2>2. j \in 1 .. Len(data_ring)
    BY <1>1 DEF CdRings
  <2>3. ~Segregate!Control(p)
    BY <1>1, <2>1, <2>2 DEF CdRings, OneClass
  <2>4. p.m \in Mix
    BY DEF CdPacket
  <2> QED
    BY <2>1, <2>3, <2>4, DocumentedIsControl DEF Segregate!Control
<1> QED
  BY <1>2, <1>3, <1>4, <1>5 DEF ControlFirst, Segregate!ControlFirst

-----------------------------------------------------------------------------
(* The programs together, as MCForwarders runs them.                       *)

AllInv == IInv /\ TypeOK /\ InHand /\ CdInv /\ AclInv /\ TablesInv /\ TunnelInv

\* A program that does not run keeps its state.
LEMMA OthersStay ==
  /\ CdInv /\ UNCHANGED cdVars => CdInv'
  /\ AclInv /\ UNCHANGED aclVars => AclInv'
  /\ TablesInv /\ UNCHANGED tableVars => TablesInv'
  /\ TunnelInv /\ UNCHANGED vxlanVars => TunnelInv'
<1>1. CdInv /\ UNCHANGED cdVars => CdInv'
  BY DEF CdInv, CdRings, CdCounts, CdWire, cdVars, OneClass
<1>2. AclInv /\ UNCHANGED aclVars => AclInv'
  BY DEF AclInv, AclLoop, AclFates, Fated, aclVars
<1>3. TablesInv /\ UNCHANGED tableVars => TablesInv'
  BY DEF TablesInv, tableVars
<1>4. TunnelInv /\ UNCHANGED vxlanVars => TunnelInv'
  BY DEF TunnelInv, TunnelPackets, TunnelIds, Handled, Onward, OnwardId, vxlanVars
<1> QED
  BY <1>1, <1>2, <1>3, <1>4

LEMMA AllStep == AllInv /\ [NextAll]_allVars => AllInv'
<1> SUFFICES ASSUME AllInv, [NextAll]_allVars PROVE AllInv'
  OBVIOUS
<1> USE DEF AllInv
<1>1. CASE Next /\ UNCHANGED <<cdVars, aclVars, tableVars, vxlanVars>>
  <2>1. [Next]_vars
    BY <1>1
  <2> QED
    BY <1>1, <2>1, StepHolds, TotalsStep, OthersStay
<1>2. ASSUME UNCHANGED vars PROVE IInv' /\ TypeOK' /\ InHand'
  BY <1>2, StepHolds, TotalsStep
<1>3. CASE Segregate!Next /\ UNCHANGED <<vars, aclVars, tableVars, vxlanVars>>
  BY <1>2, <1>3, CdStep, OthersStay
<1>4. CASE Acl!Next /\ UNCHANGED <<vars, cdVars, tableVars, vxlanVars>>
  BY <1>2, <1>4, AclStep, OthersStay
<1>5. CASE Tables!Next /\ UNCHANGED <<vars, cdVars, aclVars, vxlanVars>>
  BY <1>2, <1>5, TablesStep, OthersStay
<1>6. CASE Tunnel!Next /\ UNCHANGED <<vars, cdVars, aclVars, tableVars>>
  BY <1>2, <1>6, TunnelStep, OthersStay
<1>7. CASE UNCHANGED allVars
  <2>1. UNCHANGED <<vars, cdVars, aclVars, tableVars, vxlanVars>>
    BY <1>7 DEF allVars
  <2> QED
    BY <1>2, <2>1, OthersStay
<1> QED
  BY <1>1, <1>3, <1>4, <1>5, <1>6, <1>7 DEF NextAll

\* Whichever program runs, its invariant holds, and the others keep theirs.
THEOREM AllInvariance == SpecAll => []AllInv
<1>1. InitAll => AllInv
  BY InitHolds, TotalsInit, CdInit, AclInit, TablesInit, TunnelInit DEF InitAll, AllInv
<1> QED
  BY <1>1, AllStep, PTL DEF SpecAll

\* control_data_segregation: for any traffic and any sizes with a burst smaller
\* than a ring, each turn of the loop in main leaves both rings empty, no
\* rte_ring_enqueue fails, and the two counts cover every packet received.
THEOREM NoRingOverflow == SpecAll => []RingsDrained
<1>1. AllInv => RingsDrained
  BY CdSafe DEF AllInv
<1> QED
  BY <1>1, AllInvariance, PTL

\* control_data_segregation: bursts leave in order, each with its control
\* packets first and in the order of arrival within a class, and classify_packet
\* makes no complete packet of the documented list data.
THEOREM ControlLeavesFirst == SpecAll => []ControlFirst
<1>1. AllInv => ControlFirst
  BY CdSafe DEF AllInv
<1> QED
  BY <1>1, AllInvariance, PTL

\* l2fwd_acl: on a host of either byte order the rule of init_acl and the key of
\* main select TCP from the allowed host, the ports send what they have received
\* in order, and each packet meets one fate before the loop is left.
THEOREM AclCorrect == SpecAll => []AclDecides
<1>1. AllInv => AclDecides
  BY AclSafe DEF AllInv
<1> QED
  BY <1>1, AllInvariance, PTL

\* The other access lists: for every key with 16-bit ports, rte_acl_classify
\* over the rules of dual, muti and real gives what the comments there promise,
\* also where no rule matches; exp and real free every packet of a burst once.
THEOREM TablesCorrect == SpecAll => []TablesDecide
<1>1. AllInv => TablesDecide
  BY TablesSafe DEF AllInv
<1> QED
  BY <1>1, AllInvariance, PTL

\* vxlan: what vxlan_encap has packed in one forwarder is unpacked by
\* vxlan_decap in the next, for packets of any size and any number of layers, in
\* order and with every packet delivered, on its way or refused by a driver.
THEOREM TunnelCorrect == SpecAll => []TunnelKeeps
<1>1. AllInv => TunnelKeeps
  BY TunnelSafe DEF AllInv
<1> QED
  BY <1>1, AllInvariance, PTL

=============================================================================
