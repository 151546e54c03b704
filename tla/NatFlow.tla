------------------------------ MODULE NatFlow ------------------------------
(***************************************************************************)
(* The flow-based NAPT of nat_project/version6/static_nat.c: two hash      *)
(* tables over one heap of nat_entry objects, a sequential public-port     *)
(* allocator and one expiry timer per entry.  Everything here runs on one  *)
(* lcore; the RX/TX loop around it is in NatMain.                          *)
(*                                                                         *)
(* An endpoint stands for the triple (IP address, L4 port, protocol).      *)
(* A fwd_key is the flow [src, dst]; a rev_key is [src, port]: the remote  *)
(* endpoint and the public port (the public address is the constant        *)
(* PUBLIC_IP and the protocol is the remote endpoint's).                   *)
(* Time is counted in ticks; a timer holds the ticks left to its expiry.   *)
(***************************************************************************)
EXTENDS Integers, FiniteSets

CONSTANTS
  Endpoints,     \* (ip, port, proto) triples other than the NAT's own
  EntryIds,      \* the addresses rte_malloc can return for a nat_entry
  NoEntry,       \* NULL, and "key absent" in a hash table
  MIN_PORT,      \* first port of the range the allocator wraps to
  MAX_PORT,      \* first port beyond the range, the largest port number
  NAT_TIMEOUT,   \* lifetime of an idle entry, in ticks
  HashEntries,   \* capacity of each hash table
  MaxAllocs      \* bound of the model: number of ports ever allocated

ASSUME NatFlowAssumption ==
  /\ MIN_PORT \in Nat /\ MAX_PORT \in Nat /\ MIN_PORT < MAX_PORT
  /\ MAX_PORT < 2^16                  \* current_port is a uint16_t
  /\ NAT_TIMEOUT \in Nat \ {0}
  /\ HashEntries \in Nat \ {0}
  /\ MaxAllocs \in Nat
  /\ NoEntry \notin EntryIds

VARIABLES
  entries,       \* the heap: EntryIds -> nat_entry or NoEntry (free memory)
  fwd_hash,      \* flow -> entry id or NoEntry
  rev_hash,      \* rev_key -> entry id or NoEntry
  current_port,  \* last public port handed out
  allocs,        \* history: number of ports handed out so far
  quiet,         \* history: ticks since the last packet an entry translated
  clean          \* history: no port clash and no failed insertion so far

natVars == <<entries, fwd_hash, rev_hash, current_port, allocs, quiet, clean>>

L4Ports == 0 .. MAX_PORT              \* every port number a packet can carry
Ports == MIN_PORT .. (MAX_PORT - 1)   \* those allocate_port hands out
NPorts == MAX_PORT - MIN_PORT
Flows == {f \in [src : Endpoints, dst : Endpoints] : f.src # f.dst}
RevKeys == [src : Endpoints, port : L4Ports]

\* struct nat_entry: the forward key is the flow; born is a history field,
\* the value of allocs when the entry was created.
NatEntry == [flow : Flows, public_port : Ports, timer : 0 .. NAT_TIMEOUT, born : Nat]

\* NULL is no object.
ASSUME NoEntryAssumption == NoEntry \notin NatEntry

Live == {e \in EntryIds : entries[e] # NoEntry}

\* Faulty variant of RevKey: built from the private side.
RevKey_Private(entry) == [src |-> entry.flow.src, port |-> entry.public_port]

\* e->rev_key: the remote endpoint and the public port given to the flow.
RevKey(entry) == [src |-> entry.flow.dst, port |-> entry.public_port]

-----------------------------------------------------------------------------
(* The rte_hash and rte_timer libraries, as static_nat.c uses them.        *)

Keys(hash) == {k \in DOMAIN hash : hash[k] # NoEntry}

\* rte_hash_add_key_data: an existing key gets the new data, a new key needs
\* a free slot; the caller ignores the error when there is none.
HashAdd(hash, key, e) ==
  IF hash[key] # NoEntry \/ Cardinality(Keys(hash)) < HashEntries
  THEN [hash EXCEPT ![key] = e]
  ELSE hash

\* rte_hash_del_key for a set of keys; an absent key is no error.
HashDel(hash, keys) ==
  [k \in DOMAIN hash |-> IF k \in keys THEN NoEntry ELSE hash[k]]

\* Timers whose expiry time has come, which rte_timer_manage would run.
Due == {e \in Live : entries[e].timer = 0}

-----------------------------------------------------------------------------
\* nat_init: empty tables, allocator at MIN_PORT.
Init ==
  /\ entries = [e \in EntryIds |-> NoEntry]
  /\ fwd_hash = [f \in Flows |-> NoEntry]
  /\ rev_hash = [k \in RevKeys |-> NoEntry]
  /\ current_port = MIN_PORT
  /\ allocs = 0
  /\ quiet = [e \in EntryIds |-> 0]
  /\ clean = TRUE

\* Faulty variants of allocate_port: no return to MIN_PORT, return one early.
allocate_port_NoWrap == current_port + 1
allocate_port_Early ==
  IF current_port + 1 >= MAX_PORT - 1 THEN MIN_PORT ELSE current_port + 1

\* allocate_port: the next port of the range, with no look at its users.
allocate_port ==
  IF current_port + 1 >= MAX_PORT THEN MIN_PORT ELSE current_port + 1

\* Faulty variant of refresh: the timer runs on.
refresh_NoRearm(e) == UNCHANGED entries

\* refresh: rte_timer_stop and rte_timer_reset on the entry found.
refresh(e) ==
  entries' = [entries EXCEPT ![e].timer = NAT_TIMEOUT]

\* create_entry on memory e: fill it in, arm its timer, insert it into both
\* tables without looking at the results.
create_entry(f, e) ==
  LET entry == [flow |-> f, public_port |-> allocate_port,
                timer |-> NAT_TIMEOUT, born |-> allocs]
      key == RevKey(entry)
  IN  /\ entries' = [entries EXCEPT ![e] = entry]
      /\ current_port' = allocate_port
      /\ fwd_hash' = HashAdd(fwd_hash, f, e)
      /\ rev_hash' = HashAdd(rev_hash, key, e)
      /\ allocs' = allocs + 1
      /\ quiet' = [quiet EXCEPT ![e] = 0]
      /\ clean' = /\ clean
                  /\ \A d \in Live : RevKey(entries[d]) # key
                  /\ fwd_hash'[f] = e
                  /\ rev_hash'[key] = e

-----------------------------------------------------------------------------
(* nat_process_packet, one action per path through it.                     *)

\* Outgoing packet of a flow in the forward table.
OutboundHit(f) ==
  /\ fwd_hash[f] # NoEntry
  /\ refresh(fwd_hash[f])
  /\ quiet' = [quiet EXCEPT ![fwd_hash[f]] = 0]
  /\ UNCHANGED <<fwd_hash, rev_hash, current_port, allocs, clean>>

\* Outgoing packet of an unknown flow, memory available.
OutboundNew(f, e) ==
  /\ allocs < MaxAllocs
  /\ fwd_hash[f] = NoEntry
  /\ entries[e] = NoEntry
  /\ create_entry(f, e)

\* Outgoing packet of an unknown flow, rte_malloc fails: drop.
OutboundNoMemory(f) ==
  /\ fwd_hash[f] = NoEntry
  /\ Live = EntryIds
  /\ UNCHANGED natVars

\* Packet for PUBLIC_IP that matches a reverse mapping.
InboundHit(k) ==
  /\ rev_hash[k] # NoEntry
  /\ refresh(rev_hash[k])
  /\ quiet' = [quiet EXCEPT ![rev_hash[k]] = 0]
  /\ UNCHANGED <<fwd_hash, rev_hash, current_port, allocs, clean>>

\* Packet for PUBLIC_IP without a reverse mapping: drop.
InboundMiss(k) ==
  /\ rev_hash[k] = NoEntry
  /\ UNCHANGED natVars

\* What the two rewrites put on the wire.
rewrite_out(entry) == [port |-> entry.public_port, dst |-> entry.flow.dst]
rewrite_in(entry) == [src |-> entry.flow.dst, dst |-> entry.flow.src]

\* Packets parse accepts, and the others (not IPv4, neither TCP nor UDP).
Packets == [kind : {"out"}, flow : Flows] \cup [kind : {"in"}, key : RevKeys]
             \cup {[kind |-> "other"]}

\* nat_process_packet(p) = 0 (forward) and = -1 (drop).
Forward(p) ==
  \/ /\ p.kind = "in"
     /\ InboundHit(p.key)
  \/ /\ p.kind = "out"
     /\ \/ OutboundHit(p.flow)
        \/ \E e \in EntryIds : OutboundNew(p.flow, e)

Drop(p) ==
  \/ /\ p.kind = "other"
     /\ UNCHANGED natVars
  \/ /\ p.kind = "in"
     /\ InboundMiss(p.key)
  \/ /\ p.kind = "out"
     /\ OutboundNoMemory(p.flow)

-----------------------------------------------------------------------------
\* Faulty variant of nat_entry_expire: the reverse key stays behind.
nat_entry_expire_KeepRev ==
  /\ fwd_hash' = HashDel(fwd_hash, {entries[e].flow : e \in Due})
  /\ entries' = [e \in EntryIds |-> IF e \in Due THEN NoEntry ELSE entries[e]]
  /\ UNCHANGED <<rev_hash, current_port, allocs, quiet, clean>>

\* nat_timer_manage: nat_entry_expire for every due entry.  It deletes both
\* keys whoever they lead to now, then frees the entry.
nat_entry_expire ==
  /\ fwd_hash' = HashDel(fwd_hash, {entries[e].flow : e \in Due})
  /\ rev_hash' = HashDel(rev_hash, {RevKey(entries[e]) : e \in Due})
  /\ entries' = [e \in EntryIds |-> IF e \in Due THEN NoEntry ELSE entries[e]]
  /\ UNCHANGED <<current_port, allocs, quiet, clean>>

\* One tick of the TSC: every armed timer comes closer, and stays due at 0.
Tick ==
  /\ Live \ Due # {}
  /\ entries' = [e \in EntryIds |->
                   IF e \in Live \ Due
                   THEN [entries[e] EXCEPT !.timer = @ - 1]
                   ELSE entries[e]]
  /\ quiet' = [e \in EntryIds |->
                 IF e \in Live /\ quiet[e] < NAT_TIMEOUT THEN quiet[e] + 1 ELSE quiet[e]]
  /\ UNCHANGED <<fwd_hash, rev_hash, current_port, allocs, clean>>

Next ==
  \/ \E p \in Packets : Forward(p)
  \/ \E p \in Packets : Drop(p)
  \/ nat_entry_expire
  \/ Tick

Spec == Init /\ [][Next]_natVars

-----------------------------------------------------------------------------
\* The heap holds nat_entry objects, both tables lead into the heap or to
\* nothing, and current_port stays in the range, so that incrementing the
\* uint16_t in allocate_port never wraps.
TypeOK ==
  /\ entries \in [EntryIds -> NatEntry \cup {NoEntry}]
  /\ fwd_hash \in [Flows -> EntryIds \cup {NoEntry}]
  /\ rev_hash \in [RevKeys -> EntryIds \cup {NoEntry}]
  /\ current_port \in Ports
  /\ allocs \in Nat
  /\ quiet \in [EntryIds -> 0 .. NAT_TIMEOUT]
  /\ clean \in BOOLEAN

\* No lookup of nat_process_packet ever yields freed memory or another flow's
\* entry: a key of either table leads to a live entry that holds this key,
\* however many entries shared a key, overwrote each other or expired before.
TablesSound ==
  /\ \A f \in Flows : fwd_hash[f] # NoEntry =>
       fwd_hash[f] \in Live /\ entries[fwd_hash[f]].flow = f
  /\ \A k \in RevKeys : rev_hash[k] # NoEntry =>
       rev_hash[k] \in Live /\ RevKey(entries[rev_hash[k]]) = k

\* Until the allocator hands out a port some live mapping to the same remote
\* holds, or a table is full, every live entry is reachable in both
\* directions: the reply to what rewrite_out sent comes back, through
\* rewrite_in, to the endpoint that opened the flow.
RoundTrip ==
  clean => \A e \in Live :
    LET sent == rewrite_out(entries[e])
        back == rev_hash[[src |-> sent.dst, port |-> sent.port]]
    IN  /\ fwd_hash[entries[e].flow] = e
        /\ back = e
        /\ rewrite_in(entries[back]).dst = entries[e].flow.src

\* A port clash needs a mapping that outlives a whole round of the range: a
\* live entry whose reverse key create_entry gives to a new one, taking its
\* replies away, is itself NPorts allocations old or more. Both entries are
\* compared by key, so the state of the tables does not matter.
ClashNeedsWrap ==
  [][ \A e \in EntryIds, d \in Live :
        /\ entries[e] = NoEntry /\ entries'[e] # NoEntry
        /\ RevKey(entries'[e]) = RevKey(entries[d])
        => allocs - entries[d].born >= NPorts ]_natVars

\* A mapping that translates packets is never taken away: while clean, a
\* flow leaves the forward table only after NAT_TIMEOUT ticks without any
\* packet of it in either direction, whatever the other entries did.
OnlyIdleExpires ==
  [][ \A f \in Flows :
        clean /\ fwd_hash[f] # NoEntry /\ fwd_hash'[f] = NoEntry
          => quiet[fwd_hash[f]] = NAT_TIMEOUT ]_natVars

=============================================================================
