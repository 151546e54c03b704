------------------------------- MODULE GraphFw -------------------------------
(***************************************************************************)
(* dpdk-graph-fw: the main thread walks a graph of four nodes,             *)
(* rx -> parser -> (firewall ->) tx, while a second thread reads commands  *)
(* that turn the firewall on and off, show the counters, and stop the      *)
(* program.                                                                *)
(*                                                                         *)
(* A packet is its length class.  The graph library calls a node once per  *)
(* walk with what was enqueued to it, in the order rx, parser, firewall,   *)
(* tx.  Each read or write of a shared variable is atomic.                 *)
(***************************************************************************)
EXTENDS Integers, Sequences, Selection

CONSTANTS
  Burst,       \* packets of one rte_eth_rx_burst (32)
  MaxWalks     \* bound: walks that receive packets

ASSUME GraphFwAssumption == Burst \in Nat \ {0} /\ MaxWalks \in Nat

Lengths == {"short", "long"}     \* pkt_len < 60, or not
Commands == {"enable firewall", "disable firewall", "show stats", "quit", "other"}

\* The order in which show stats prints the counters.
Counters == <<"rx", "parser", "firewall", "tx">>

VARIABLES
  app_running, firewall_enabled,
  count,                \* rx_count, parser_count, firewall_count, tx_count
  walk_pc, objs,        \* next node of the walk, and what it will be given
  cli_pc, cmd, shown,   \* CLI: its place, the buffer (not initialised), counters printed
  eof,                  \* standard input is at its end
  dropped, leaked,      \* packets freed by the firewall; not taken by the driver
  walks,
  was_off               \* the firewall has been off since the last reception

graphVars == <<walk_pc, objs, dropped, leaked, walks>>
cliVars == <<cli_pc, cmd, shown, eof>>
vars == <<app_running, firewall_enabled, count, graphVars, cliVars, was_off>>

Init ==
  /\ app_running = TRUE /\ firewall_enabled = FALSE
  /\ count = [c \in {"rx", "parser", "firewall", "tx"} |-> 0]
  /\ walk_pc = "test" /\ objs = <<>>
  /\ cli_pc = "read" /\ cmd \in Commands /\ shown = <<>> /\ eof = FALSE
  /\ dropped = 0 /\ leaked = 0 /\ walks = 0
  /\ was_off = TRUE

Add(c, n) == count' = [count EXCEPT ![c] = @ + n]

-----------------------------------------------------------------------------
(* The graph                                                               *)

\* while (app_running)
WalkTest ==
  /\ walk_pc = "test"
  /\ walk_pc' = IF app_running THEN "rx" ELSE "done"
  /\ UNCHANGED <<app_running, firewall_enabled, count, objs, dropped, leaked, walks, cliVars,
                 was_off>>

\* A burst goes to the parser; without packets the walk is over.
rx_node_process ==
  /\ walk_pc = "rx"
  /\ \E nb_rx \in 0 .. Burst : \E ls \in [1 .. nb_rx -> Lengths] :
       /\ nb_rx > 0 => walks < MaxWalks
       /\ Add("rx", nb_rx)
       /\ objs' = ls
       /\ walk_pc' = IF nb_rx > 0 THEN "parser" ELSE "test"
       /\ walks' = IF nb_rx > 0 THEN walks + 1 ELSE walks
  /\ was_off' = ~firewall_enabled
  /\ UNCHANGED <<app_running, firewall_enabled, dropped, leaked, cliVars>>

\* Faulty variant of parser_node_process: the branches are swapped.
parser_node_process_Swapped ==
  /\ walk_pc = "parser"
  /\ Add("parser", Len(objs))
  /\ walk_pc' = IF firewall_enabled THEN "tx" ELSE "firewall"
  /\ UNCHANGED <<app_running, firewall_enabled, objs, dropped, leaked, walks, cliVars, was_off>>

\* The flag decides where the whole burst goes.
parser_node_process ==
  /\ walk_pc = "parser"
  /\ Add("parser", Len(objs))
  /\ walk_pc' = IF firewall_enabled THEN "firewall" ELSE "tx"
  /\ UNCHANGED <<app_running, firewall_enabled, objs, dropped, leaked, walks, cliVars, was_off>>

IsLong(l) == l = "long"

\* The loop over objs closes up what goes on.
Kept(s) == Selected(s, {l \in Lengths : IsLong(l)})

\* Faulty variant of firewall_node_process: the number of packets that go on
\* is what came in.
firewall_node_process_NoOut ==
  /\ walk_pc = "firewall"
  /\ Add("firewall", Len(objs))
  /\ dropped' = dropped + (Len(objs) - Len(Kept(objs)))
  /\ objs' = objs
  /\ walk_pc' = "tx"
  /\ UNCHANGED <<app_running, firewall_enabled, leaked, walks, cliVars, was_off>>

\* Short packets are freed, the others closed up in place and enqueued.
firewall_node_process ==
  /\ walk_pc = "firewall"
  /\ Add("firewall", Len(objs))
  /\ objs' = Kept(objs)
  /\ dropped' = dropped + (Len(objs) - Len(objs'))
  /\ walk_pc' = IF Len(objs') > 0 THEN "tx" ELSE "test"
  /\ UNCHANGED <<app_running, firewall_enabled, leaked, walks, cliVars, was_off>>

\* The result of rte_eth_tx_burst is ignored: what the driver does not take
\* is counted as sent and never freed.
tx_node_process ==
  /\ walk_pc = "tx"
  /\ Add("tx", Len(objs))
  /\ \E sent \in 0 .. Len(objs) : leaked' = leaked + (Len(objs) - sent)
  /\ objs' = <<>>
  /\ walk_pc' = "test"
  /\ UNCHANGED <<app_running, firewall_enabled, dropped, walks, cliVars, was_off>>

main ==
  \/ WalkTest \/ rx_node_process \/ parser_node_process
  \/ firewall_node_process \/ tx_node_process

-----------------------------------------------------------------------------
(* run_cli                                                                 *)

\* fgets: a line, or the end of the input, which leaves the buffer alone and
\* is not tested for.
ReadCommand ==
  /\ cli_pc = "read"
  /\ \/ ~eof /\ cmd' \in Commands /\ eof' = eof
     \/ eof' = TRUE /\ cmd' = cmd
  /\ shown' = <<>>
  /\ cli_pc' = "execute"
  /\ UNCHANGED <<app_running, firewall_enabled, count, graphVars, was_off>>

EnableFirewall ==
  /\ cli_pc = "execute" /\ cmd = "enable firewall"
  /\ firewall_enabled' = TRUE
  /\ cli_pc' = "test"
  /\ UNCHANGED <<app_running, count, graphVars, cmd, shown, eof, was_off>>

DisableFirewall ==
  /\ cli_pc = "execute" /\ cmd = "disable firewall"
  /\ firewall_enabled' = FALSE
  /\ was_off' = TRUE
  /\ cli_pc' = "test"
  /\ UNCHANGED <<app_running, count, graphVars, cmd, shown, eof>>

\* show stats reads the four counters one after the other.
ShowStats ==
  /\ cli_pc = "execute" /\ cmd = "show stats"
  /\ shown' = Append(shown, count[Counters[Len(shown) + 1]])
  /\ cli_pc' = IF Len(shown') = 4 THEN "test" ELSE "execute"
  /\ UNCHANGED <<app_running, firewall_enabled, count, graphVars, cmd, eof, was_off>>

\* Faulty variant of Quit: only the CLI stops.
Quit_CliOnly ==
  /\ cli_pc = "execute" /\ cmd = "quit"
  /\ cli_pc' = "done"
  /\ UNCHANGED <<app_running, firewall_enabled, count, graphVars, cmd, shown, eof, was_off>>

Quit ==
  /\ cli_pc = "execute" /\ cmd = "quit"
  /\ app_running' = FALSE
  /\ cli_pc' = "done"
  /\ UNCHANGED <<firewall_enabled, count, graphVars, cmd, shown, eof, was_off>>

\* Anything else prints the commands.
Help ==
  /\ cli_pc = "execute" /\ cmd = "other"
  /\ cli_pc' = "test"
  /\ UNCHANGED <<app_running, firewall_enabled, count, graphVars, cmd, shown, eof, was_off>>

CliTest ==
  /\ cli_pc = "test"
  /\ cli_pc' = IF app_running THEN "read" ELSE "done"
  /\ UNCHANGED <<app_running, firewall_enabled, count, graphVars, cmd, shown, eof, was_off>>

run_cli ==
  \/ ReadCommand \/ EnableFirewall \/ DisableFirewall \/ ShowStats
  \/ Quit \/ Help \/ CliTest

Next == main \/ run_cli

-----------------------------------------------------------------------------
\* Between walks the counters agree: every packet received was parsed, and
\* handed to the driver or dropped by the firewall.  However the walk interferes
\* with show stats, the parser's number lags the receiver's by one burst at most,
\* and the sender's, with what was dropped, lags the parser's and the firewall's by
\* one burst at most.  The firewall counts only while it is enabled, so its
\* number has no lower bound.
CountersAgree ==
  /\ walk_pc \in {"test", "rx", "done"} =>
       /\ count["rx"] = count["parser"]
       /\ count["parser"] = count["tx"] + dropped
       /\ count["firewall"] <= count["parser"]
  /\ Len(shown) = 4 => /\ shown[1] <= shown[2] + Burst
                       /\ shown[2] <= shown[4] + dropped + Burst
                       /\ shown[3] <= shown[4] + dropped + Burst

\* A short packet leaves only if the firewall was off at some moment while
\* the packet was in the graph; a command takes effect from the next burst.
FirewallHolds ==
  walk_pc = "tx" /\ ~was_off => \A j \in DOMAIN objs : IsLong(objs[j])

=============================================================================
