# DPDK_For_Beginners: TLA+ models, runs and proofs

The repository is a collection of about ninety small DPDK programs, most of them a
single lcore that polls a port, some with several lcores, processes or threads. There
are no tests. This directory models the programs that have state worth arguing about,
model-checks them with TLC and proves the most important invariants with TLAPS.
`PROJECT.json` maps every definition to the lines it models.

Run `tlc -config X.cfg M` for a run of the table below, `tlapm M.tla` for a module of
proofs.

## 1. Inventory

| Part (source) | State | Operations | Interaction | What is hard |
|---|---|---|---|---|
| NAPT engine (`nat_project/version6/static_nat.c`) | `fwd_hash`, `rev_hash`, heap of `nat_entry`, `current_port`, a timer per entry | `nat_process_packet`, `create_entry`, `refresh`, `nat_entry_expire` | called by the packet loop; timers run in it | two tables over one heap, ports that come round, full tables with unchecked inserts, a packet racing its entry's timer |
| NAPT loop (`version6/main.c`) | `bufs` compacted in place, `force_quit`, mbufs | start-up, RX, NAT, TX, timers, clean-up, signal | engine, driver, signal handler | partial transmission, signals at any point, timers on an idle link |
| Timed pool NAT (`version5`) | slots, `outbound_map`, `inbound_map`, two timers, `started` | `nat_pool_apply`, `expiry_timer_cb`, `table_timer_cb`, arming | loop and timers on one lcore | table and map updated in three places, two timers that race with traffic, exhaustion |
| Lazy pool NAT (`version4`) | slots, hash, main's timer | `nat_pool_apply`, `find_free_slot`, reset | one loop | a scan for one host releases the addresses of others |
| Threaded pipeline (`thread_parsing/threaded_project`, the same stages in `nic_stats/sample`) | two rings, three counters, `force_quit` | `rx_loop`, `parser_loop`, `tx_loop` | three lcores over two rings | unchecked enqueue, stop with packets in flight |
| RCU sample (`rcu/sample`) | `gdata`, QSBR counters and token, `stop` | `reader`, `writer`, end of `main` | pointer shared by two lcores | use after free, a grace period that never ends |
| Earlier NAT (`nat_project/sample`, `version2`, `version3`, `NAT/static_nat`) | table of addresses heard, static table, two clocks | `hash_ips`, `nat_add_mapping`, `nat_apply`, `simulate_nat`, reset | one loop | which clock empties the table |
| Duplex IPC (`inter_process_comm/ring_full_duplex`, `single_ring_full_duplex`) | rings in shared memory, the message in hand | request, reply, stop | two processes | each takes the other's messages from a shared ring, unchecked put-back, start order |
| Messaging (`Multi_Process_Messaging`, `sample_rte_mp`, `through_rte_ring`, `rings/sample`) | ready flag, ring, callbacks | check, reply, send, receive | two processes and their callback threads, or two lcores | lost, late and repeated messages, start order, unchecked enqueues |
| Load balancer (`Load_Balancer`) | `next_backend`, `backend_hits`, totals | `rewrite_l4_packet`, `lcore_main`, signal | driver, signal handler | fairness of the turn over mixed traffic, partial sends, byte order |
| Control/data segregation (`control_data_segregation`) | two rings, counts | `classify_packet`, loop | one lcore | ring limits, order, truncated packets |
| L2 forwarding with ACL (`ACL/l2fwd_acl`) | rule, burst, `force_quit` | `init_acl`, loop, signal | ACL library | two byte-order conversions that have to cancel |
| Other access lists (`ACL/dual_rule_implementation`, `muti_rule`, `exp`, `real_packet_acl`) | rules, burst | table, key, classification | ACL library | default rules that are no wildcards |
| VXLAN forwarder (`vxlan`) | headers of each packet | `vxlan_encap`, `vxlan_decap`, loop | another forwarder at the end of the tunnel | direction is guessed from the packet |
| Graph firewall (`dpdk-graph-fw`) | `firewall_enabled`, `app_running`, four counters | four nodes, `run_cli` | walk and CLI thread share plain variables | flags flipped and counters read in the middle of a walk |
| Graph pipeline (`graph/pipeline`) | packets enqueued to nodes, `quit` | six nodes, walk, signal | graph library | split and join of a burst |
| Small graph programs (six of `graph/`, `feature_arc/graph_arc`) | objects enqueued to nodes, counts | nodes, walk, signal, helper lcore | graph library, another lcore | sources in either order, failed allocations, a helper that enqueues late |
| Feature arc (`feature_arc/sample`) | enabled flags, `next` pointers | enable, disable, rebuild | | pointers of an earlier chain |
| Web CLI (`cli/websocket`, `cli/socket_cli`) | sockets per tab, retry timers, accept queue | connect, retry, command, close | browser, bridge, server | reconnection after the tab is gone, one client at a time, death of the server |
| Event devices (`eventdev/*`, `inter_process_comm/eventdev`) | queues, ports, flows, mbufs | send, schedule, consume, forward | scheduler, two processes | refused events, atomic flows, ports that never dequeue |
| Reordering (`reordering/*`) | sequence numbers, window | number, insert, drain | library | packets outside the window, numbers that wrap |
| Others | see the components of `PROJECT.json` | | | |

What makes them correct: no lookup yields freed or foreign data; every mbuf is sent or
freed once; nothing in use is taken away by a timer or by somebody else's request; idle
resources come back; order within a flow, class or family is kept; whoever waits is
answered; a stop request stops every actor with nothing in flight unaccounted for.

## 2. Modules

Conventions: a call on an `rte_ring` is one atomic step, a hash insert fails only when the
table is full, and `rte_eth_tx_burst` takes any prefix of its argument: these are the external
parts, modelled from how the code uses them. Packets are reduced to what the code tells
apart. Time is an action (`Tick`) that may happen between any two steps; clocks are kept
as ages or countdowns and saturate at the value they are compared with. Operators with a
suffix such as `_NoFree`, introduced as faulty variants, are what a plausible mistake in
the code would give; each property is shown to fail with one of them.

| Module | Models | Correspondence |
|---|---|---|
| `NatFlow` | v6 engine | `entries` is the heap, `fwd_hash` and `rev_hash` map keys to entries or `NoEntry`; one action per path of `nat_process_packet`, one for the timer callback. `quiet` and `clean` are history: ticks since the last packet of an entry; no clash or failed insert so far |
| `NatMain` | v6 `main.c`, over `NatFlow` | `owner` tells for each mbuf whether pool, loop or driver has it; `pc` is the place in `main`; `signal_handler` and `Clock` interleave with every step |
| `NatPool` | v5 | `entries`, `outbound_map`, `inbound_map`, timers as countdowns, loop with RX, apply, TX; `silence` and `unheard` are history |
| `NatLazyPool` | v4 | as above without timers: `Release`, `Unmapped` and `find_free_slot` are the one pass of `find_free_slot` |
| `NatEarly` | the versions without a pool | one behaviour per program; `heard` is history: when each key was last received |
| `ThreadedPipeline` | three lcores | a `pc` per lcore, the statements of each loop as actions, rings as sequences of packet numbers |
| `RcuQsbr` | writer, readers, main | library calls without debug code: a report is two steps (read the token, store it), `synchronize` is start, bitmap, scan |
| `RequestReply` | what the duplex programs promise | abstract specification: requests answered one by one with ten times their value, then stop |
| `RingDuplex`, `SingleRing` | the two programs | one action per ring operation; `Sent`, `Served`, `PrimaryDone`, `SecondaryDone` are the refinement mapping |
| `Messaging` | one-way programs | main of either process, and the callbacks as actions of their own; a message to a handler that is not registered is lost |
| `LoadBalancer` | `load_balancer.c` | byte sequences for addresses, so that a store in host order is visible on the wire |
| `ControlData` | `main.c` | `classify_packet` as an operator on the fields read; the loop in three steps |
| `AclForward` | `l2fwd_acl/main.c` | rule and key as bytes in memory; loop over ports and packets |
| `AclTables` | the other access lists | rules as records, ports as sets; the classifier takes the match of the highest priority, or 0 |
| `Vxlan` | two forwarders in a row | a packet is its stack of headers; lengths and headroom are counted |
| `GraphFw` | graph and CLI | a node per action; every read of a counter by `show stats` a step of its own |
| `GraphPipeline` | `pipeline.c` | `pending` and `stream` are what the graph library keeps; a node per action |
| `GraphSamples` | seven small programs | the same library part, with all sources of a walk called in either order and a helper of its own |
| `FeatureArc` | `feature_arc/sample` | `next` by node, `enabled` by feature; calls in any order |
| `Selection` | loops that take some of a burst, or the enabled features of an arc | `Selected(s, S)`, used by `GraphFw`, `GraphPipeline`, `GraphSamples` and `FeatureArc` |
| `EventDev` | five programs and the device | `queue`, `cq` and `held` are the device: a flow stays with a port as long as that has or holds one of its events |
| `Reorder` | four programs and the buffer | `min_seqn`, `order`, `ready` are the library's buffer, numbers are compared modulo `SeqLimit` |
| `WebCli` | tabs, bridge, server | a socket of the bridge per tab and the calls of `connectDPDK` still to come; connections in the backlog and the one served |
| `MCNatFlow`, `MCNatMain` | | instances for TLC |
| `MCChains` | `ThreadedPipeline`, `WebCli` | a behaviour runs one of them, chosen in the initial state |
| `MCNatPools` | `NatPool`, `NatLazyPool`, `NatEarly` | the same |
| `MCExchanges` | `RcuQsbr`, `RingDuplex`, `SingleRing`, `Messaging` | the same; the duplex programs are shown to implement `RequestReply` |
| `MCForwarders` | `LoadBalancer`, `ControlData`, `AclForward`, `AclTables`, `Vxlan` | the same |
| `MCGraphs` | `GraphFw`, `GraphPipeline`, `GraphSamples`, `FeatureArc` | the same |
| `MCEvents` | `EventDev`, `Reorder` | the same |
| `NatProofs`, `NatPoolProofs`, `PipelineProofs`, `ExchangeProofs`, `ForwarderProofs`, `GraphProofs`, `EventProofs`, `WebCliProofs` | | proofs about `NatFlow` and `NatMain`, `MCNatPools`, `ThreadedPipeline`, `MCExchanges`, `MCForwarders`, `MCGraphs`, `MCEvents` and `WebCli` |

## 3. Runs

| Run | Shows | Bounds, and why they are enough |
|---|---|---|
| `nat_flow` (107,069 states) | Port and tables stay in their types; no lookup yields a freed or foreign entry (`TablesSound`); replies return until the first clash or full table (`RoundTrip`); a mapping that loses its reverse key to a new one has outlived a round of the range (`ClashNeedsWrap`); busy flows never expire (`OnlyIdleExpires`) | Three endpoints, two ports, tables of three keys, a heap of four, five allocations: ports wrap twice over live mappings, tables fill, entries are overwritten, orphaned and their memory reused |
| `nat_main` (85,353) | Every mbuf is sent or freed once and none drops out of the compacted array (`MbufsAccounted`), due entries are handled on idle and busy links (`DueHandled`), a signal ends the program (`SignalStops`) | Bursts of two from three mbufs: a drop before a kept packet, and every partial send |
| `nat_pools` (216,124) | v5: map and slots agree (`MapMatchesSlots`), a mapping in use is kept (`MappingKept`), idle slots are reclaimed (`IdleReclaimed`). v4: the same of table and hash (`LazyPoolConsistent`), and only idle mappings are released, all of them before a packet is dropped. Earlier versions: what was heard lately is in the table, no private address leaves, and answers come back (`EarlyVersionsHold`) | Three hosts for two addresses, so that the pool is exhausted and addresses change hands; timeouts of 2 and 3 ticks let both timers be early, late or due together; v4 bursts of three; tables of three keys and two mappings that fill |
| `nat_pool_unmapped_inbound` (violation) | v5 sends on a packet to a public address without a static mapping, where a comment and the configuration file say it is dropped | as above |
| `chains` (160,993) | What is handed on arrives once and in order. Pipeline: no enqueue of RX fails, order is kept, the totals differ by what is still in the rings and by drops, the limit stops all lcores. Web CLI: a tab keeps exactly one attempt to connect (`OneAttempt`), sees its own answers only (`OwnAnswers`), and the server goes on to the next connection (`GoesOn`) | Rings of 7 and 3 packets, bursts of three, limit five: the second ring overflows, the limit is passed in mid-burst. Two tabs with two commands each and a backlog of one, so that one is served, one waits, and a further connection is refused |
| `exchanges` (3,514) | RCU: no use after free, every grace period ends, the program ends clean. Both duplex programs implement the exchange; no message is lost, leaked or received twice (`MessagesAccounted`); with two rings the exchange ends, with one the exit message arrives, and one-way messages arrive once the receiver runs (`ExchangeEnds`) | RCU with the program's own numbers: one reader, five updates. Twenty requests (the code has ten), rings that hold one message, the tightest case. One-way: the code's counts, with rings of three where the program retries or gives up, and three messages under way |
| `load_balancer_address` (violation) | The address on the wire is not that of the backend on a little-endian host | as above |
| `forwarders` (240,640) | Backends are never more than one packet apart, mbufs and totals agree. Rings are drained in each turn, control first and in order, no documented control packet is data. The access list of `l2fwd_acl` selects what is documented, and every packet meets one fate; the other lists but that of `exp` give what their comments promise (`TablesDecide`). A VXLAN tunnel gives back what was put in (`TunnelKeeps`) | Three backends, five packets: the turn wraps, in bursts cut anywhere. Two bursts of two from nine kinds of packets, one per way out of `classify_packet`. Three ports, two enabled, and the allowed host's address in both byte orders. Eighty keys, on both sides of every rule. Three packets through the tunnel, of five kinds: plain, cut, VXLAN, and VXLAN in VXLAN |
| `control_data_readme` (violation) | TCP port 53 is treated as control, which the README does not list | as above |
| `acl_exp_comment` (violation) | `exp` matches TCP from one host, where its comment speaks of SSDP | as above |
| `graphs` (112,707) | Firewall: counters agree between walks and printed ones are in step (`CountersAgree`), short packets do not pass (`FirewallHolds`). Pipeline and small programs: a walk delivers everything to the node meant for it, and loops end at their counts; `graph_arc` can crash on its late helper only with both features enabled (`WalkDelivers`). The arc follows the enabled features after each rebuild. All stop when told to (`WalkStops`) | Two walks of up to two packets: the CLI acts before, between and in the middle of walks. The limit of ten is the code's |
| `events` (13,507) | Events of a flow stay in order at one port at a time, mbufs are freed once and none is lost but those of events that the device refused (`EventsKept`), what is sent is received (`EventsArrive`); each burst leaves the reorder buffer empty and in order (`DrainedInOrder`) | The code's ten events; three mbufs, so that the pool runs dry; ports of depth two; windows of 8 and 16; a counter that wraps at 64 for 2^32 |

**Fairness.** Every lcore, process and thread of the programs runs a polling loop on a core
of its own, so weak fairness is assumed of each loop as a whole, of callbacks for messages
that were delivered, and of the passage of time where a property needs it. It is never
assumed that a packet arrives, a command is typed, a signal is sent or the driver takes a packet.
Strong fairness is assumed in two places, both outside the programs: the event scheduler
serves each queue from which it can again and again move an event, and the kernel
completes an attempt to connect that finds room in the backlog again and again. With one
shared ring the exchange need not end: the primary may take its own request back each
time before the secondary looks. TLC confirms this; the code has nothing that prevents it,
and `ExchangeEnds` therefore claims only the exit for that program.

**Deadlock** is checked for the engines that run for ever (`nat_flow`, `nat_pools`), and not where
the program ends or the bound on packets stops the model.

## 4. Findings

- `version5/static_nat.c:271`: "else drop" (and `nat_inbound.txt`: "all others are dropped"), but
  the packet goes through the outbound path, takes a slot and is sent.
- `Load_Balancer/load_balancer.c:66`: host-order addresses are stored in the header, so that on
  x86 packets go to 101.0.168.192 rather than 192.168.0.101.
- `control_data_segregation/main.c:46`: TCP 53 is control; the README lists TCP 22, 179 and 389.
- `ACL/exp/main.c:162`: the rule matches TCP from 172.17.166.200; the comment on it (line 154) says
  "match SSDP multicast traffic".

Observed, and not stated by a run:

- `ACL/dual_rule_implementation/main.c:122` calls its second rule a wildcard; its ports are 0 to 0.
  `ACL/muti_rule/main.c:145` calls the third a catch-all; it is about protocol 0. The outcome is
  the promised one, because the library gives 0 without a match (`TablesDecide`).
- `nat_project/version3/static_nat.c:35` speaks of 1:1 mappings; nothing enforces it, and `nat_config.txt`
  maps two hosts to one address.
- `inter_process_comm/eventdev/primary.c:61` links port 0, which never dequeues, to the queue: one event
  scheduled there keeps the flow, and the secondary gets nothing any more.
- `inter_process_comm/eventdev/primary.c:81` ignores the result of the enqueue: the mbuf of a refused event
  is leaked (`leaked` in `EventDev`).
- `feature_arc/graph_arc/main.c:62` starts a helper that nobody waits for: it may enqueue into a graph that
  `main` has destroyed (`main.c:175`), with the address of a variable that is gone (`crashed` in `GraphSamples`).
- `inter_process_comm/single_ring_full_duplex/secondary.c:53` prints a field of the response after handing it
  over, when the primary may have freed it (`PrintSent`); only the output depends on it.
- `practice/ring.c` frees its ring without waiting for lcore 2.
- `version6/static_nat.c:39` calls its allocator's ports unique, which they
  are until it has gone round (`ClashNeedsWrap` says exactly when); the v6 README knows
  that there is no collision handling.

## 5. Proofs

All theorems hold for every value of the constants that satisfies the named assumptions of the
modules. Each follows the same argument: an inductive invariant, a lemma per action or actor that
the step preserves it, and the temporal conclusion. The theorems about an `MC` module speak of its
`SpecAll` or `SpecMain`, the specification that TLC checks; where it runs one of several programs, the
invariant (`AllInv`) is the conjunction of theirs, and a program that does not run keeps its state.

| Theorem | Says | Inductive invariant, and why it is needed |
|---|---|---|
| `NatProofs!TypeCorrect`, `LookupsSound` | port and tables; no freed or foreign entry | `TypeOK /\ TablesSound` is inductive: `nat_entry_expire` deletes both keys of its entry, whoever they lead to |
| `NatProofs!RepliesReturn`, `BusyFlowsStay` | `RoundTrip`, `OnlyIdleExpires` | adds `Mirror` (while clean, both keys of a live entry lead to it) and `Timed` (timer plus quiet time is `NAT_TIMEOUT`), which ties the timer to the history |
| `NatProofs!ClashesNeedARound` | `ClashNeedsWrap` | `Spaced`: the port of an entry is as many behind `current_port` as ports were handed out since, once around the range or not. Equal ports are then a whole round apart |
| `NatProofs!MbufsReturned`, `EngineInLoop` | `MbufsAccounted`; `TablesSound` when the loop drives the engine | `LoopInv`: the two parts of `bufs` that the loop will look at hold different mbufs, so that compacting overwrites none that is still owned; the engine's `IInv`, since every step of the loop is one of the engine's or leaves it alone |
| `NatPoolProofs!TypeCorrect`, `MapCorrect`, `MappingsStay` | types, `MapMatchesSlots`, `MappingKept` | adds `Ages` and `Countdown`: a slot's age and the table timer measure what the history variables do |
| `NatPoolProofs!LazyPoolCorrect`, `LazyReleasesIdleOnly` | `LazyPoolConsistent` of v4, and its two action properties | `LazyInv`: slots in use and hash are inverse to each other. The pass of `find_free_slot` removes slot and key together, so that it holds after any number of releases |
| `NatPoolProofs!EarlyCorrect` | `EarlyVersionsHold` | `EarlyTable` (below its limit the table has what was heard recently), which a reset keeps because of `EarlyTimes` (while main polls, nothing was heard later than the last reception); `EarlyNat` (what maps are lines that were entered); `EarlyBurst` (packets before the loop counter are translated, the others as received) |
| `PipelineProofs!TypeCorrect`, `EnqueueNeverFails` | `NoneLost` | adds `Room`: what RX holds and what is in the first ring is at most `rx_count`, which stays below the limit plus a burst |
| `PipelineProofs!TotalsAdd`, `KeepsOrder` | `TotalsExplained`, `InOrder` | the places between reception and the wire, read from the wire backwards, are one rising sequence of numbers; each action of a lcore moves packets from the head of one place to the end of the next |
| `ExchangeProofs!TypeCorrect`, `GracePeriod` | `NoUseAfterFree`, any number of readers and updates | adds `Held`: what a reader follows is the current version, or the old one while the reader has yet to report the current token and is still pending in the scan |
| `ExchangeProofs!NothingLost` | `MessagesAccounted` | for the duplex programs, where the one message is at each pair of places of the two processes; for one-way programs, that what was received, is in the ring and is to come are in sequence |
| `ExchangeProofs!Refinement` | `ImplementsExchange`: both duplex programs implement `RequestReply` | the same invariants; each action is shown to be a step of the exchange or to leave `Sent`, `Served`, `Got` and the two ends unchanged |
| `ForwarderProofs!RoundRobin` | `Balanced` | `InRound(q)`: backends below `next_backend` have had `q + 1` packets, the others `q` |
| `ForwarderProofs!TypeCorrect`, `MbufsReturned` | `MbufsAccounted` of the load balancer | `InHand`: the burst in hand is the difference between the totals |
| `ForwarderProofs!NoRingOverflow`, `ControlLeavesFirst` | `RingsDrained`, `ControlFirst` | `CdRings` (a ring holds one class of one burst, in order, and no more than a burst) and `CdWire` (what is on the wire comes before what is in the rings); `SortedBurst` says that the loop over a burst loses nothing |
| `ForwarderProofs!AclCorrect` | `AclDecides`, either byte order | `AclFates`: the packets that have met their fate are exactly those numbered up to the loop counter; `AcceptsMatching`: the conversions cancel |
| `ForwarderProofs!TablesCorrect` | `TablesDecide` for every key with 16-bit ports (`exp`: only that packets are freed) | each list of rules is worked out rule by rule (`RealDecides` and the like); the rest of the state only collects decisions |
| `ForwarderProofs!TunnelCorrect` | `TunnelKeeps` for any size and stack of headers | `TunnelPackets`: what is on the cable or delivered is what one or two forwarders make of the packet with its number; `TunnelIds`: these numbers rise, and with the lost ones they are all that a has handled |
| `GraphProofs!StatsAgree`, `ShortOnlyWhenOff` | `CountersAgree`, `FirewallHolds` | what the walk has in hand explains the differences between the counters at each place in it, also at the moments when `show stats` read the numbers printed so far |
| `GraphProofs!ArcInOrder` | `ArcFollowsFeatures`, any arc | `ArcInv`: after a rebuild the pointers of the enabled features form the chain that the flags describe, whatever those of disabled ones still point to |
| `GraphProofs!WalksDeliver` | `WalkDelivers` of `graph/pipeline` and the small graph programs | `PipeInv`: what each node was given and what it has yet to process are the packets of the burst that belong to it, in order. `SampleInv` the same for the small programs: `Had(n)`, what node `n` was given with what waits for it, is what the sources made so far (`RxInv`, `TestInv`, `TwoInv`, `WorkInv`, `SchedInv`, `SampInv`, `GraphArcInv`) |
| `EventProofs!EventsStay` | `EventsKept`, any number of events and mbufs | `EventInv`: the events of a flow rise from what was received through the port that has the flow to the queue; `OnePort` is needed so that one port cannot overtake another. Mbufs are in one place each |
| `EventProofs!DrainsInOrder` | `DrainedInOrder`, any window, burst and counter width | `ReorderInv`: which numbers of the burst are in the buffer, so that the drain finds no gap before the last; `BetweenBursts` says that the next burst starts where the buffer expects it, also across the wrap |
| `WebCliProofs!SingleAttempt`, `AnswersAreOwn` | `OneAttempt`, `OwnAnswers` | `Sockets` (state of a tab's socket, its timers and its connections fit together), `Lines` and `Orders` (answers shown, under way and to come, and commands in the connection, form one rising sequence per tab) |

**Assumptions.** They are what the code's own numbers satisfy, and no more than the proofs use.
`Limit - 1 + BURST_SIZE <= RX_RING_SIZE - 1` is the pipeline's 9 + 32 <= 1023; a burst of
`control_data_segregation` is smaller than a ring (32 and 2048); an mbuf has headroom for the VXLAN
headers (128 and 50 bytes); ports have 16 bits, addresses are bytes, header lengths are no less than
zero (`ForwarderAssumption`); the rings of the two-process programs
hold something and there is at least one request (`ExchangeAssumption`); the numbers that
`mp_messaging` enqueues without looking at the result fit its ring, 5 into 31 (`MessagingAssumption`);
a frame of the earlier NAT versions has the shape the code parses, and no address is entered both as
private and as public (`EarlyAssumption`); a burst fits into the reorder window and the window into a
round of the counter (8 and 8, 32 and 128, and 2^32), and `reordering/sample` fills in a permutation of
consecutive numbers (`ReorderAssumption`); the nodes of an arc are different nodes (`ArcAssumption`);
`count` of `graph/sample` is raised twice in a walk, so that it ends at its limit of ten and not past it
because ten is even (`SampleAssumption`). TLC evaluates all of them on the runs.

**Inductions.** The loops that sort a burst or build a chain (`Selection.Selected`, `ControlData.Sorted`, the
rebuild and the traversal of `FeatureArc`, `GivenIn` of `GraphSamples`) are recursive functions.
What they compute is proved from the set of rounds at which it fails: its least element would be
0, which it is not, or follow a round at which it holds.

**What the proofs have shown about the models.** `NothingPrivate` of `NatEarly` did not hold of a packet from the
private address to itself, which TLC's traffic did not include; it now says so.

Only model-checked: liveness under fairness, which is outside the reach of the prover (`DueHandled`,
`SignalStops`, `IdleReclaimed`, `QuitStopsAll`, `RcuEndsClean`, `ExchangeEnds`, `WalkStops`, `EventsArrive`, `GoesOn`). Every
other property of a passing run is proved.

## 6. Not modelled

`PROJECT.json` lists each part with its reason. Checksums, printing and header parsing without
effect on state are left out everywhere; programs that run once through fixed
calls (`hashing`, `l2_forwarding`, `mempool_membuff`, `zero_copy_cloning`) have one behaviour and
nothing to explore; `meter_dpdk`, `rss_dpdk` and the telemetry samples configure state that lives in drivers
and libraries. Refused transmissions leak mbufs in several programs
(`version4`, `version5`, `static_nat`, `control_data_segregation`, `dpdk-graph-fw`, `l2fwd_acl`, `vxlan`); the models keep
count of them or let the pool shrink, and no property claims otherwise.

`power_aware_polling`, `longest_prefix_match_lpm` and the parsing and packet samples handle each packet on its
own and keep nothing; `graph_private_context` calls the library with arguments that it does not take.

## 7. Plan

Done: the NAT programs, the pipeline, RCU, exchanges and messaging, forwarders and access lists, graph
programs and feature arcs, event devices and reordering, the web CLI; proofs of all their safety
properties. Left: an abstract address pool that both pools implement, and the programs of section 6.
