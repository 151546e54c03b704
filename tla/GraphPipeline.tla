---------------------------- MODULE GraphPipeline ----------------------------
(***************************************************************************)
(* graph/pipeline: a graph of six nodes, rx -> l2 -> (ipv4 | ipv6 | drop)  *)
(* and ipv4, ipv6 -> tx, walked until a signal comes.                      *)
(*                                                                         *)
(* The graph library keeps the packets enqueued to each node (stream) and  *)
(* the nodes that have some, in the order in which they got their first    *)
(* (pending); a walk calls the source and then empties pending.            *)
(* A packet is its Ethernet type and its number in the order of reception. *)
(***************************************************************************)
EXTENDS Integers, Sequences, FiniteSets, Selection

CONSTANTS
  Burst,       \* BURST
  MaxWalks     \* bound: walks that receive packets

VARIABLES
  quit,
  pc,                  \* "test", "walk" or "done"
  pending, stream,     \* the graph
  received, walks,     \* packets and bursts received
  wire, freed          \* packets taken by the driver, in order; freed

graphVars == <<pending, stream>>
vars == <<quit, pc, graphVars, received, walks, wire, freed>>

Nodes == {"l2", "ipv4", "ipv6", "tx", "drop"}
EtherTypes == {"IPV4", "IPV6", "other"}

Elements(s) == {s[j] : j \in DOMAIN s}

\* EAL, mempool, port and graph are set up; any failure ends the program.
Init ==
  /\ quit = FALSE /\ pc = "test"
  /\ pending = <<>> /\ stream = [n \in Nodes |-> <<>>]
  /\ received = 0 /\ walks = 0
  /\ wire = <<>> /\ freed = {}

-----------------------------------------------------------------------------
(* The graph library                                                       *)

\* The graph after rte_node_enqueue of objs to node n.
Enqueue(g, n, objs) ==
  [pending |-> IF objs = <<>> \/ g.stream[n] # <<>> THEN g.pending ELSE Append(g.pending, n),
   stream |-> [g.stream EXCEPT ![n] = @ \o objs]]

\* The graph after the first pending node has been called.
Rest == [pending |-> Tail(pending), stream |-> [stream EXCEPT ![Head(pending)] = <<>>]]

Becomes(g) == pending' = g.pending /\ stream' = g.stream

\* Node n is called, with the objects enqueued to it.
Calls(n) == pc = "walk" /\ pending # <<>> /\ Head(pending) = n

-----------------------------------------------------------------------------
(* The nodes                                                               *)

\* A burst goes to l2.
rx_node_process ==
  \E n \in 0 .. Burst : \E types \in [1 .. n -> EtherTypes] :
    LET objs == [k \in 1 .. n |-> [type |-> types[k], number |-> received + k]]
    IN  /\ n > 0 => walks < MaxWalks
        /\ Becomes(Enqueue([pending |-> pending, stream |-> stream], "l2", objs))
        /\ received' = received + n
        /\ walks' = IF n > 0 THEN walks + 1 ELSE walks

IsIPv4(m) == m.type = "IPV4"
IsIPv6(m) == m.type = "IPV6"
IsOther(m) == ~IsIPv4(m) /\ ~IsIPv6(m)

\* The burst is sorted into three.
l2_node_process ==
  LET objs == stream["l2"]
      v4 == Selected(objs, {m \in Elements(objs) : IsIPv4(m)})
      v6 == Selected(objs, {m \in Elements(objs) : IsIPv6(m)})
      d == Selected(objs, {m \in Elements(objs) : IsOther(m)})
  IN  /\ Calls("l2")
      /\ Becomes(Enqueue(Enqueue(Enqueue(Rest, "ipv4", v4), "ipv6", v6), "drop", d))
      /\ UNCHANGED <<quit, pc, received, walks, wire, freed>>

ipv4_node_process ==
  /\ Calls("ipv4")
  /\ Becomes(Enqueue(Rest, "tx", stream["ipv4"]))
  /\ UNCHANGED <<quit, pc, received, walks, wire, freed>>

ipv6_node_process ==
  /\ Calls("ipv6")
  /\ Becomes(Enqueue(Rest, "tx", stream["ipv6"]))
  /\ UNCHANGED <<quit, pc, received, walks, wire, freed>>

\* The driver takes the first n; the others are freed.
tx_node_process ==
  LET objs == stream["tx"]
  IN  /\ Calls("tx")
      /\ Becomes(Rest)
      /\ \E n \in 0 .. Len(objs) :
           /\ wire' = wire \o SubSeq(objs, 1, n)
           /\ freed' = freed \cup Elements(SubSeq(objs, n + 1, Len(objs)))
      /\ UNCHANGED <<quit, pc, received, walks>>

drop_node_process ==
  /\ Calls("drop")
  /\ Becomes(Rest)
  /\ freed' = freed \cup Elements(stream["drop"])
  /\ UNCHANGED <<quit, pc, received, walks, wire>>

-----------------------------------------------------------------------------
(* main                                                                    *)

\* while (!quit): a walk begins with the source node, or the loop is left.
BeginWalk ==
  /\ pc = "test"
  /\ \/ quit /\ pc' = "done" /\ UNCHANGED <<graphVars, received, walks>>
     \/ ~quit /\ pc' = "walk" /\ rx_node_process
  /\ UNCHANGED <<quit, wire, freed>>

EndWalk ==
  /\ pc = "walk" /\ pending = <<>>
  /\ pc' = "test"
  /\ UNCHANGED <<quit, graphVars, received, walks, wire, freed>>

main ==
  \/ BeginWalk \/ EndWalk \/ l2_node_process \/ ipv4_node_process
  \/ ipv6_node_process \/ tx_node_process \/ drop_node_process

\* SIGINT.
handler ==
  /\ quit' = TRUE
  /\ UNCHANGED <<pc, graphVars, received, walks, wire, freed>>

Next == main \/ handler

-----------------------------------------------------------------------------
\* A walk leaves nothing in the graph: when it is over every packet received
\* has been sent once or freed, those of unknown type freed; and within an
\* address family packets leave in the order of reception, although the two
\* families take different ways to tx.
WalkConserves ==
  /\ pc \in {"test", "done"} =>
       /\ pending = <<>> /\ \A n \in Nodes : stream[n] = <<>>
       /\ Len(wire) + Cardinality(freed) = received
       /\ Elements(wire) \cap freed = {}
  /\ \A j, k \in DOMAIN wire :
       /\ ~IsOther(wire[j])
       /\ j < k /\ wire[j].type = wire[k].type => wire[j].number < wire[k].number

=============================================================================
