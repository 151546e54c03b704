---------------------------- MODULE GraphSamples ----------------------------
(***************************************************************************)
(* The small programs on the graph library.  A behaviour runs one of       *)
(*   rx_drop_sample         rx -> ipv4 -> (tx | drop)                      *)
(*   testing                start -> parse -> classify -> forward          *)
(*   two_start_node         start1, start2 -> worker                       *)
(*   two_start_with_worker  start1 -> work1, start2 -> work2               *)
(*   node_sched, sample     hello -> dummy (, dummy2)                      *)
(*   graph_arc              the same, chosen by features, and a helper on  *)
(*                          a second lcore                                 *)
(* A walk calls the sources, in any order, and then the nodes that were    *)
(* given something, in the order in which they got it.                     *)
(***************************************************************************)
EXTENDS Integers, Sequences, SequencesExt, Selection

CONSTANTS
  BurstSize,       \* objects per burst: BURST_SIZE, BURST
  MaxWalks,        \* bound: bursts received by rx_drop_sample
  NumPkts,         \* NUM_PKTS of testing, a multiple of its BURST
  CountLimit       \* 10, at which the loops over count or total_prints end

VARIABLES
  program,
  pc,                   \* "test", "walk", "hello" (in its node), "done", "crashed"
  left,                 \* sources still to be called in this walk
  pending, stream,      \* the graph: nodes to be called, and what each is given
  calls,                \* the calls of this walk: [node, objs]
  made,                 \* the objects that came into the graph in this walk
  count, quit,          \* count, total_prints or i; force_quit
  data,                 \* testing: packet -> the stages that have flipped a bit of it
  leaked,               \* rx_drop_sample: packets the driver did not take
  feature, helper       \* graph_arc: the two features; "none", "launched", "done"

graphVars == <<pending, stream>>
walkVars == <<calls, made>>
arcVars == <<feature, helper>>
vars == <<program, pc, left, graphVars, walkVars, count, quit, data, leaked, arcVars>>

Sources ==
  [rx_drop_sample |-> {"rx_node"}, testing |-> {"start_node"},
   two_start_node |-> {"start1", "start2"}, two_start_with_worker |-> {"start1", "start2"},
   node_sched |-> {"hello_node"}, sample |-> {"hello_node"}, graph_arc |-> {"hello_node"}]
Nodes == {"ipv4_node", "tx_node", "drop_node", "parse_node", "classify_node", "forward_node",
          "worker", "work1", "work2", "dummy_node", "dummy_node2"}
Stages == {"parse", "classify", "forward"}

\* Up to the loop of each main.  testing has run its normal pipeline over all
\* packets; the features of graph_arc come from the command line.
Init ==
  /\ program \in DOMAIN Sources
  /\ pc = "test" /\ left = {}
  /\ pending = <<>> /\ stream = [n \in Nodes |-> <<>>]
  /\ calls = <<>> /\ made = <<>> /\ count = 0 /\ quit = FALSE /\ leaked = 0
  /\ data = [p \in 1 .. NumPkts |-> IF program = "testing" THEN Stages ELSE {}]
  /\ feature \in IF program = "graph_arc" THEN [{0, 1} -> 0 .. 2] ELSE {[f \in {0, 1} |-> 0]}
  /\ helper = "none"

-----------------------------------------------------------------------------
(* The graph library                                                       *)

Graph == [pending |-> pending, stream |-> stream]
Becomes(g) == pending' = g.pending /\ stream' = g.stream

\* rte_node_enqueue: a node that has nothing yet is to be called, even if it is
\* given nothing.
Enqueue(g, n, objs) ==
  [pending |-> IF g.stream[n] = <<>> THEN Append(g.pending, n) ELSE g.pending,
   stream |-> [g.stream EXCEPT ![n] = @ \o objs]]

\* A source is called; a pending node is called, with its objects, and leaves
\* the graph as Rest.
CallSource(p, n) ==
  /\ program = p /\ pc = "walk" /\ n \in left
  /\ left' = left \ {n}
Call(p, n) ==
  /\ program = p /\ pc = "walk" /\ left = {} /\ pending # <<>> /\ Head(pending) = n
  /\ calls' = Append(calls, [node |-> n, objs |-> stream[n]])
  /\ UNCHANGED left
Rest == [pending |-> Tail(pending), stream |-> [stream EXCEPT ![Head(pending)] = <<>>]]

\* A last node: what it is given is freed or printed.
Receive(p, n) ==
  /\ Call(p, n)
  /\ Becomes(Rest)
  /\ UNCHANGED <<program, pc, made, count, quit, data, leaked, arcVars>>

-----------------------------------------------------------------------------
(* rx_drop_sample                                                          *)

rx_node_process ==
  /\ CallSource("rx_drop_sample", "rx_node")
  /\ \E n \in 0 .. BurstSize : \E types \in [1 .. n -> {"IPV4", "other"}] :
       LET pkts == [k \in 1 .. n |-> [type |-> types[k], number |-> k]]
       IN  /\ n > 0 => count < MaxWalks
           /\ count' = IF n > 0 THEN count + 1 ELSE count
           /\ made' = pkts
           /\ Becomes(IF n > 0 THEN Enqueue(Graph, "ipv4_node", pkts) ELSE Graph)
  /\ UNCHANGED <<program, pc, calls, quit, data, leaked, arcVars>>

\* Faulty variant of NextOf: everything is sent.
NextOf_All(m) == "tx_node"

\* The edge that ipv4_node takes for a packet.
NextOf(m) == IF m.type = "IPV4" THEN "tx_node" ELSE "drop_node"

\* One enqueue per packet.
ipv4_node_process ==
  LET pkts == stream["ipv4_node"]
      sorted[k \in 0 .. Len(pkts)] ==
        IF k = 0 THEN Rest ELSE Enqueue(sorted[k - 1], NextOf(pkts[k]), <<pkts[k]>>)
  IN  /\ Call("rx_drop_sample", "ipv4_node")
      /\ Becomes(sorted[Len(pkts)])
      /\ UNCHANGED <<program, pc, made, count, quit, data, leaked, arcVars>>

\* The result of rte_eth_tx_burst is ignored.
tx_node_process ==
  /\ Call("rx_drop_sample", "tx_node")
  /\ Becomes(Rest)
  /\ \E n \in 0 .. Len(stream["tx_node"]) : leaked' = leaked + n
  /\ UNCHANGED <<program, pc, made, count, quit, data, arcVars>>

drop_node_process == Receive("rx_drop_sample", "drop_node")

-----------------------------------------------------------------------------
(* testing                                                                 *)

\* The source has nothing to pass on: main has put the burst behind it.
start_node_process ==
  /\ CallSource("testing", "start_node")
  /\ Becomes(Enqueue(Graph, "parse_node", <<>>))
  /\ UNCHANGED <<program, pc, walkVars, count, quit, data, leaked, arcVars>>

\* parse, classify and forward flip one bit each of every packet they are given.
Flip(stage, pkts) ==
  [p \in DOMAIN data |->
     IF p \notin ToSet(pkts) THEN data[p]
     ELSE IF stage \in data[p] THEN data[p] \ {stage} ELSE data[p] \cup {stage}]

Stage(n, stage, g) ==
  /\ Call("testing", n)
  /\ Becomes(g)
  /\ data' = Flip(stage, stream[n])
  /\ UNCHANGED <<program, pc, made, count, quit, leaked, arcVars>>

parse_node_process ==
  Stage("parse_node", "parse", Enqueue(Rest, "classify_node", stream["parse_node"]))
classify_node_process ==
  Stage("classify_node", "classify", Enqueue(Rest, "forward_node", stream["classify_node"]))
forward_node_process == Stage("forward_node", "forward", Rest)

-----------------------------------------------------------------------------
(* two_start_node and two_start_with_worker                                *)

\* A start node of two_start_node produces until ten have been produced.
Produces == count < CountLimit

\* A packet for the worker, unless the limit has been reached or there is no mbuf.
produce(n) ==
  /\ CallSource("two_start_node", n)
  /\ \/ /\ Produces
        /\ made' = Append(made, n)
        /\ count' = count + 1
        /\ Becomes(Enqueue(Graph, "worker", <<n>>))
     \/ UNCHANGED <<made, count, graphVars>>
  /\ UNCHANGED <<program, pc, calls, quit, data, leaked, arcVars>>

two_start1_process == produce("start1")
two_start2_process == produce("start2")

worker_process == Receive("two_start_node", "worker")

\* The start nodes of two_start_with_worker: a burst of numbers each.
Numbers(base) == [k \in 1 .. BurstSize |-> base + k - 1]
start_process(n, base, next) ==
  /\ CallSource("two_start_with_worker", n)
  /\ made' = made \o Numbers(base)
  /\ Becomes(Enqueue(Graph, next, Numbers(base)))
  /\ UNCHANGED <<program, pc, calls, count, quit, data, leaked, arcVars>>
start1_process == start_process("start1", 0, "work1")
start2_process == start_process("start2", 100, "work2")

work1_process == Receive("two_start_with_worker", "work1")
work2_process == Receive("two_start_with_worker", "work2")

-----------------------------------------------------------------------------
(* node_sched, sample and graph_arc                                        *)

\* node_sched: one object, to the two nodes in turn.
sched_hello_process ==
  /\ CallSource("node_sched", "hello_node")
  /\ count' = count + 1
  /\ made' = <<count'>>
  /\ Becomes(Enqueue(Graph, IF count' % 2 = 0 THEN "dummy_node" ELSE "dummy_node2", made'))
  /\ UNCHANGED <<program, pc, calls, quit, data, leaked, arcVars>>

sched_dummy_process(n) == Receive("node_sched", n)

\* sample: no object, but dummy_node is called; both count.
sample_hello_process ==
  /\ CallSource("sample", "hello_node")
  /\ count' = count + 1
  /\ Becomes(Enqueue(Graph, "dummy_node", <<>>))
  /\ UNCHANGED <<program, pc, walkVars, quit, data, leaked, arcVars>>

sample_dummy_process ==
  /\ Call("sample", "dummy_node")
  /\ count' = count + 1
  /\ Becomes(Rest)
  /\ UNCHANGED <<program, pc, made, quit, data, leaked, arcVars>>

\* graph_arc: the features select the node, and any other setting quits.  With
\* both, node 1 is left to the helper, launched with the address of a local.
On(f) == feature[f] = 1
Off(f) == feature[f] = 0
arc_hello_process ==
  /\ CallSource("graph_arc", "hello_node")
  /\ count' = count + 1
  /\ \/ /\ On(0) /\ (On(1) \/ Off(1))
        /\ Becomes(Enqueue(Graph, "dummy_node", <<>>))
        /\ IF On(1) THEN helper' = "launched" /\ pc' = "hello"
           ELSE UNCHANGED <<helper, pc>>
        /\ UNCHANGED quit
     \/ /\ On(1) /\ Off(0)
        /\ Becomes(Enqueue(Graph, "dummy_node2", <<>>))
        /\ UNCHANGED <<quit, helper, pc>>
     \/ /\ \A f \in {0, 1} : ~(On(f) /\ (On(1 - f) \/ Off(1 - f)))
        /\ quit' = TRUE
        /\ UNCHANGED <<graphVars, helper, pc>>
  /\ UNCHANGED <<program, walkVars, data, leaked, feature>>

\* hello_node_process returns, and its local variables are gone.
HelloReturns ==
  /\ pc = "hello" /\ pc' = "walk"
  /\ UNCHANGED <<program, left, graphVars, walkVars, count, quit, data, leaked, arcVars>>

arc_dummy_process(n) ==
  /\ Call("graph_arc", n)
  /\ count' = count + 1
  /\ Becomes(Rest)
  /\ UNCHANGED <<program, pc, made, quit, data, leaked, arcVars>>

\* The helper, on lcore 1: in the middle of the walk, after it, or after main has
\* destroyed the graph.  What it enqueues has no effect when the walk, which has
\* seen the end of the list, resets the list just then, or when the graph is gone.
\* Once the node has returned its argument may have been overwritten.
HelperEnqueues ==
  /\ helper = "launched" /\ pc \in {"hello", "walk", "test", "done"}
  /\ helper' = "done"
  /\ \/ /\ pc # "done"
        /\ Becomes(Enqueue(Graph, "dummy_node2", <<>>))
        /\ UNCHANGED pc
     \/ /\ pc = "done" \/ (pc = "walk" /\ left = {} /\ pending = <<>>)
        /\ UNCHANGED <<graphVars, pc>>
     \/ /\ pc # "hello" /\ pc' = "crashed"
        /\ UNCHANGED graphVars
  /\ UNCHANGED <<program, left, walkVars, count, quit, data, leaked, feature>>

-----------------------------------------------------------------------------
(* The loops                                                               *)

\* What each main does once its graph has been created: it walks while
rx_drop_main == ~quit
testing_main == count < NumPkts
two_start_main == count < CountLimit
two_worker_main == ~quit /\ count < CountLimit
sched_main == ~quit /\ count < CountLimit
sample_main == ~quit /\ count < CountLimit
arc_main == ~quit /\ count < 1

GoesOn ==
  CASE program = "rx_drop_sample" -> rx_drop_main
    [] program = "testing" -> testing_main
    [] program = "two_start_node" -> two_start_main
    [] program = "two_start_with_worker" -> two_worker_main
    [] program = "node_sched" -> sched_main
    [] program = "sample" -> sample_main
    [] program = "graph_arc" -> arc_main

\* testing puts the next burst into the graph before it walks.
BurstOf(i) == [k \in 1 .. BurstSize |-> i + k]

BeginWalk ==
  /\ pc = "test" /\ GoesOn
  /\ pc' = "walk" /\ left' = Sources[program] /\ calls' = <<>>
  /\ IF program = "testing"
     THEN made' = BurstOf(count) /\ Becomes(Enqueue(Graph, "parse_node", BurstOf(count)))
     ELSE made' = <<>> /\ UNCHANGED graphVars
  /\ UNCHANGED <<program, count, quit, data, leaked, arcVars>>

\* testing and two_start_with_worker count walks.
EndWalk ==
  /\ pc = "walk" /\ left = {} /\ pending = <<>>
  /\ pc' = "test"
  /\ count' = CASE program = "testing" -> count + BurstSize
                [] program = "two_start_with_worker" -> count + 1
                [] OTHER -> count
  /\ UNCHANGED <<program, left, graphVars, walkVars, quit, data, leaked, arcVars>>

Exit ==
  /\ pc = "test" /\ ~GoesOn
  /\ pc' = "done"
  /\ UNCHANGED <<program, left, graphVars, walkVars, count, quit, data, leaked, arcVars>>

\* SIGINT, in the programs that handle it.
signal_handler ==
  /\ program \in {"rx_drop_sample", "two_start_with_worker", "node_sched", "sample"}
  /\ pc # "done"
  /\ quit' = TRUE
  /\ UNCHANGED <<program, pc, left, graphVars, walkVars, count, data, leaked, arcVars>>

main ==
  \/ BeginWalk \/ EndWalk \/ Exit
  \/ rx_node_process \/ ipv4_node_process \/ tx_node_process \/ drop_node_process
  \/ start_node_process \/ parse_node_process \/ classify_node_process \/ forward_node_process
  \/ two_start1_process \/ two_start2_process \/ worker_process
  \/ start1_process \/ start2_process \/ work1_process \/ work2_process
  \/ sched_hello_process \/ (\E n \in {"dummy_node", "dummy_node2"} : sched_dummy_process(n))
  \/ sample_hello_process \/ sample_dummy_process
  \/ arc_hello_process \/ HelloReturns
  \/ (\E n \in {"dummy_node", "dummy_node2"} : arc_dummy_process(n))

-----------------------------------------------------------------------------
\* What a node was given in the calls cs.
GivenIn(cs, n) ==
  LET given[k \in 0 .. Len(cs)] ==
        IF k = 0 THEN <<>>
        ELSE IF cs[k].node = n THEN given[k - 1] \o cs[k].objs ELSE given[k - 1]
  IN  given[Len(cs)]

\* What it was given in this walk.
Given(n) == GivenIn(calls, n)
Called(n) == \E j \in DOMAIN calls : calls[j].node = n

WalkOver == pc \in {"test", "done"}

\* A walk leaves nothing in the graph, and what came in has reached its own last
\* node, once and in order: IPv4 packets are sent and the others freed, no start
\* node's numbers reach the other's worker, everything produced is freed.  Only
\* the helper of graph_arc may come too late for the walk.
WalkDelivers ==
  WalkOver =>
    /\ \A n \in Nodes : stream[n] = <<>>
    /\ pending # <<>> => helper = "done"
    /\ CASE program = "rx_drop_sample" ->
              LET IPv4 == {m \in ToSet(made) : m.type = "IPV4"}
              IN  /\ Given("tx_node") = Selected(made, IPv4)
                  /\ Given("drop_node") = Selected(made, ToSet(made) \ IPv4)
         [] program = "testing" -> Given("forward_node") = made
         [] program = "two_start_node" -> Given("worker") = made
         [] program = "two_start_with_worker" /\ made # <<>> ->
              Given("work1") = Numbers(0) /\ Given("work2") = Numbers(100)
         [] OTHER -> TRUE

\* The loops end where they should, whichever source ran first and whatever
\* failed: ten packets and never one more; a graph pipeline that has treated
\* every packet exactly once, so that it has undone the normal pipeline; the two
\* dummy nodes in turn; and of two features the ones that are enabled, unless
\* the helper was late.  graph_arc reaches its end unless both are enabled: only
\* then is there a helper, which may crash it.
CountsRight ==
  CASE program = "two_start_node" -> count <= CountLimit
    [] program = "testing" -> pc = "done" => \A p \in DOMAIN data : data[p] = {}
    [] program = "node_sched" -> WalkOver /\ calls # <<>> =>
         /\ Len(calls) = 1
         /\ Called("dummy_node") <=> count % 2 = 0
    [] program = "sample" -> WalkOver => count % 2 = 0 /\ count <= CountLimit
    [] program = "graph_arc" ->
         /\ pc = "done" => /\ Called("dummy_node") <=> On(0) /\ (On(1) \/ Off(1))
                           /\ Called("dummy_node2") => On(1)
                           /\ On(1) /\ Off(0) => Called("dummy_node2")
         /\ pc = "crashed" => On(0) /\ On(1)
    [] program = "two_start_with_worker" -> count <= CountLimit
    [] OTHER -> TRUE

\* After a signal the program ends its walk and stops.
SamplesStop == quit ~> pc \in {"done", "crashed"}

=============================================================================
