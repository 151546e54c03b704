----------------------------- MODULE AclTables -----------------------------
(***************************************************************************)
(* The other programs with an access list.  A behaviour runs one of        *)
(*   dual    ACL/dual_rule_implementation: a flow that is allowed and a    *)
(*           default rule, asked again and again about one packet          *)
(*   muti    ACL/muti_rule: three rules are built                          *)
(*   exp     ACL/exp, and                                                  *)
(*   real    ACL/real_packet_acl: one rule, asked about packets received   *)
(*                                                                         *)
(* An address is a name, and a field with a mask of all bits holds one.    *)
(* Keys are in network order and rules in host order, as the library wants *)
(* them.  A packet is its type, behind a VLAN tag if it has one, and the    *)
(* fields at the places where the code finds them; sport and dport stand   *)
(* behind the IPv4 header, whatever the protocol.                          *)
(***************************************************************************)
EXTENDS Integers, Sequences

CONSTANTS
  Frames,      \* packets that may arrive: [eth_type, proto, src, dst, sport, dport]
  Keys,        \* keys that a table may be asked about
  Burst, MaxBursts

VARIABLES
  program,
  bufs, nb,         \* packets of the burst that are still to be handled, and its size
  shown,            \* what was found of the others: [m, res]; in dual, of its packet
  freed, bursts,    \* packets of the burst freed; bursts received
  built

vars == <<program, bufs, nb, shown, freed, bursts, built>>

Programs == {"dual", "muti", "exp", "real"}

-----------------------------------------------------------------------------
(* The tables                                                              *)

Any == "any"             \* a mask of no bits
AllPorts == 0 .. 65535
Only(port) == port .. port
Rule(proto, src, dst, sport, dport, priority, userdata) ==
  [proto |-> proto, src |-> src, dst |-> dst, sport |-> sport, dport |-> dport,
   priority |-> priority, userdata |-> userdata]

ACTION_ALLOW == 777
ACTION_DROP == 0

\* Faulty variant of dual_rules: the default allows.
dual_rules_DefaultAllows ==
  {Rule("TCP", "140.82.112.21", "172.17.166.200", Only(443), Only(42960), 100, ACTION_ALLOW),
   Rule(Any, Any, Any, Only(0), Only(0), 1, ACTION_ALLOW)}

\* The default rule is all zeros: any address, but the ports are the range 0 to 0.
dual_rules ==
  {Rule("TCP", "140.82.112.21", "172.17.166.200", Only(443), Only(42960), 100, ACTION_ALLOW),
   Rule(Any, Any, Any, Only(0), Only(0), 1, ACTION_DROP)}

\* add_rule compares all bits of the protocol: the last one is about protocol 0.
muti_rules ==
  {Rule("UDP", Any, Any, AllPorts, Only(53), 100, 1),
   Rule("TCP", Any, Any, AllPorts, Only(80), 90, 2),
   Rule("HOPOPT", Any, Any, AllPorts, AllPorts, 1, 0)}

exp_rules == {Rule("TCP", "172.17.166.200", Any, AllPorts, AllPorts, 10, 1)}
real_rules == {Rule("UDP", Any, "239.255.255.250", AllPorts, Only(1900), 10, 1)}

RulesOf(p) ==
  CASE p = "dual" -> dual_rules
    [] p = "muti" -> muti_rules
    [] p = "exp" -> exp_rules
    [] p = "real" -> real_rules

\* The userdata of the rule with the highest priority, or 0.
Matching(rules, key) ==
  {r \in rules : /\ r.proto \in {Any, key.proto}
                 /\ r.src \in {Any, key.src} /\ r.dst \in {Any, key.dst}
                 /\ key.sport \in r.sport /\ key.dport \in r.dport}
rte_acl_classify(rules, key) ==
  LET found == Matching(rules, key)
  IN  IF found = {} THEN 0
      ELSE (CHOOSE r \in found : \A s \in found : s.priority <= r.priority).userdata

-----------------------------------------------------------------------------
(* The programs                                                            *)

Init ==
  /\ program \in Programs
  /\ bufs = <<>> /\ nb = 0 /\ shown = <<>> /\ freed = 0 /\ bursts = 0 /\ built = FALSE

\* rte_acl_add_rules and rte_acl_build
Build ==
  /\ ~built
  /\ built' = TRUE
  /\ UNCHANGED <<program, bufs, nb, shown, freed, bursts>>
muti_main == program = "muti" /\ Build

\* dual asks about the flow of its first rule.
pkt == [proto |-> "TCP", src |-> "140.82.112.21", dst |-> "172.17.166.200",
        sport |-> 443, dport |-> 42960]
Ask ==
  /\ built
  /\ shown' = <<[m |-> pkt, res |-> rte_acl_classify(dual_rules, pkt)]>>
  /\ UNCHANGED <<program, bufs, nb, freed, bursts, built>>
dual_main == program = "dual" /\ (Build \/ Ask)

Rx ==
  /\ built /\ bufs = <<>> /\ bursts < MaxBursts
  /\ \E n \in 1 .. Burst : bufs' \in [1 .. n -> Frames] /\ nb' = n
  /\ shown' = <<>> /\ freed' = 0 /\ bursts' = bursts + 1
  /\ UNCHANGED <<program, built>>

\* The key: the ports are those of TCP or UDP, and 0 otherwise.
key_of(m) ==
  LET has == m.proto \in {"TCP", "UDP"}
  IN  [proto |-> m.proto, src |-> m.src, dst |-> m.dst,
       sport |-> IF has THEN m.sport ELSE 0, dport |-> IF has THEN m.dport ELSE 0]

\* A packet other than IPv4 is not looked up; every packet is freed.
Handle ==
  /\ built /\ bufs # <<>>
  /\ LET m == Head(bufs)
     IN  shown' = IF m.eth_type # "IPV4" THEN shown
                  ELSE Append(shown, [m |-> m, res |-> rte_acl_classify(RulesOf(program), key_of(m))])
  /\ bufs' = Tail(bufs) /\ freed' = freed + 1
  /\ UNCHANGED <<program, nb, bursts, built>>
exp_main == program = "exp" /\ (Build \/ Rx \/ Handle)
real_main == program = "real" /\ (Build \/ Rx \/ Handle)

Next == dual_main \/ muti_main \/ exp_main \/ real_main

-----------------------------------------------------------------------------
\* What the comments promise of every key, matched by a rule or not.  "allow
\* specific TCP flow", "default DROP" (dual_rule_implementation/main.c, 102 and
\* 122).  "Allow DNS UDP port 53", "Allow HTTP TCP port 80", "Default catch-all"
\* (muti_rule/main.c, 125 to 145).  "match SSDP multicast traffic", in
\* real_packet_acl/main2.c, 153, and in exp/main.c, 154.
IsSsdp(key) == key.proto = "UDP" /\ key.dst = "239.255.255.250" /\ key.dport = 1900
Promised(p, key) ==
  CASE p = "dual" -> IF [f \in DOMAIN pkt |-> key[f]] = pkt THEN ACTION_ALLOW ELSE ACTION_DROP
    [] p = "muti" -> IF key.proto = "UDP" /\ key.dport = 53 THEN 1
                     ELSE IF key.proto = "TCP" /\ key.dport = 80 THEN 2 ELSE 0
    [] p \in {"exp", "real"} -> IF IsSsdp(key) THEN 1 ELSE 0

\* All lists but that of exp give what is promised, although the default rules of
\* dual and muti are no wildcards: the library gives 0 for a key that no rule
\* matches.  At the end of a burst each packet of it has been freed once, whatever
\* was found, in exp too.
TablesDecide ==
  /\ program # "exp" =>
       /\ \A key \in Keys : rte_acl_classify(RulesOf(program), key) = Promised(program, key)
       /\ \A j \in DOMAIN shown : shown[j].res = Promised(program, shown[j].m)
  /\ bufs = <<>> => freed = nb

\* What the comment of exp says of the packets received: "ACL MATCH" is SSDP.
ExpMatchesSsdp ==
  program = "exp" => \A j \in DOMAIN shown : shown[j].res = Promised("exp", shown[j].m)

=============================================================================
