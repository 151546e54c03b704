------------------------------ MODULE NatMain ------------------------------
(***************************************************************************)
(* nat_project/version6/main.c: the startup sequence and the RX / NAT / TX *)
(* / timer loop of the one lcore, around the NAPT engine of NatFlow.  The  *)
(* mbufs of the pool are tracked by owner, and the array bufs by its       *)
(* contents, because the loop compacts it in place.                        *)
(***************************************************************************)
EXTENDS NatFlow

CONSTANTS
  Mbufs,        \* the mbufs of the mempool
  BURST_SIZE    \* length of bufs

ASSUME NatMainAssumption == BURST_SIZE \in Nat \ {0} /\ BURST_SIZE <= Cardinality(Mbufs)

VARIABLES
  pc,           \* where the lcore is
  force_quit,   \* set by signal_handler
  bufs,         \* the array: index -> mbuf
  nb_rx, i, tx_count,
  owner,        \* mbuf -> "pool", "app" or "nic" (queued for transmission)
  misuse        \* history: an mbuf was freed or sent that was not the loop's

loopVars == <<pc, force_quit, bufs, nb_rx, i, tx_count, owner, misuse>>
vars == <<natVars, loopVars>>

Indices == 0 .. (BURST_SIZE - 1)
StartUp == {"eal", "mempool", "port", "nat"}
Loop == {"rx", "process", "free_unsent", "timers"}

-----------------------------------------------------------------------------
\* rte_pktmbuf_free and rte_eth_tx_burst give up ownership of the mbufs S,
\* which must be the loop's.
GiveUp(S, to) ==
  /\ owner' = [m \in Mbufs |-> IF m \in S THEN to ELSE owner[m]]
  /\ misuse' = (misuse \/ \E m \in S : owner[m] # "app")

InitMain ==
  /\ Init
  /\ pc = "eal" /\ force_quit = FALSE
  /\ bufs \in [Indices -> {CHOOSE m \in Mbufs : TRUE}]   \* not yet written
  /\ nb_rx = 0 /\ i = 0 /\ tx_count = 0
  /\ owner = [m \in Mbufs |-> "pool"]
  /\ misuse = FALSE

\* Faulty variant of LoopTest: while (1).
LoopTest_Forever == "rx"

\* The loop test.
LoopTest == IF force_quit THEN "cleanup" ELSE "rx"

\* A startup call goes on to the next one or ends the program.
Start(call, next) ==
  /\ pc = call
  /\ pc' \in {next, "failed"}
  /\ UNCHANGED <<natVars, force_quit, bufs, nb_rx, i, tx_count, owner, misuse>>

\* main up to the loop, in order: rte_eal_init; create_mempool and init_port,
\* which call rte_exit on any error; nat_init, with the port already started.
rte_eal_init == Start("eal", "mempool")
create_mempool == Start("mempool", "port")
init_port == Start("port", "nat")
nat_init == Start("nat", LoopTest)

\* rte_eth_rx_burst with nb_rx > 0: the driver fills bufs from the pool.
RxBurst ==
  /\ pc = "rx"
  /\ \E n \in 1 .. BURST_SIZE, b \in [Indices -> Mbufs] :
       LET got == {b[j] : j \in 0 .. (n - 1)}
       IN  /\ Cardinality(got) = n
           /\ \A m \in got : owner[m] = "pool"
           /\ \A j \in n .. (BURST_SIZE - 1) : b[j] = bufs[j]
           /\ bufs' = b
           /\ nb_rx' = n
           /\ owner' = [m \in Mbufs |-> IF m \in got THEN "app" ELSE owner[m]]
  /\ pc' = "process"
  /\ UNCHANGED <<natVars, force_quit, i, tx_count, misuse>>

\* Faulty variant of RxNothing: no timers in an idle iteration.
RxNothing_NoTimers ==
  /\ pc = "rx"
  /\ pc' = LoopTest
  /\ UNCHANGED <<natVars, force_quit, bufs, nb_rx, i, tx_count, owner, misuse>>

\* rte_eth_rx_burst with nb_rx = 0: the timers run, then the loop test.
RxNothing ==
  /\ pc = "rx"
  /\ nat_entry_expire
  /\ pc' = LoopTest
  /\ UNCHANGED <<force_quit, bufs, nb_rx, i, tx_count, owner, misuse>>

\* nat_process_packet returned 0: the mbuf moves to the front part of bufs.
Keep ==
  /\ pc = "process" /\ i < nb_rx
  /\ \E p \in Packets : Forward(p)
  /\ bufs' = [bufs EXCEPT ![tx_count] = bufs[i]]
  /\ tx_count' = tx_count + 1
  /\ i' = i + 1
  /\ UNCHANGED <<pc, force_quit, nb_rx, owner, misuse>>

\* nat_process_packet returned -1: the mbuf is freed.
DropPacket ==
  /\ pc = "process" /\ i < nb_rx
  /\ \E p \in Packets : Drop(p)
  /\ GiveUp({bufs[i]}, "pool")
  /\ i' = i + 1
  /\ UNCHANGED <<pc, force_quit, bufs, nb_rx, tx_count>>

\* rte_eth_tx_burst takes the first sent mbufs; i goes on from there.
TxBurst ==
  /\ pc = "process" /\ i = nb_rx
  /\ \E sent \in 0 .. tx_count :
       /\ GiveUp({bufs[j] : j \in 0 .. (sent - 1)}, "nic")
       /\ i' = sent
  /\ pc' = "free_unsent"
  /\ UNCHANGED <<natVars, force_quit, bufs, nb_rx, tx_count>>

\* Faulty variant of FreeUnsent: one mbuf is forgotten.
FreeUnsent_OffByOne ==
  /\ pc = "free_unsent"
  /\ GiveUp({bufs[j] : j \in (i + 1) .. (tx_count - 1)}, "pool")
  /\ pc' = "timers"
  /\ UNCHANGED <<natVars, force_quit, bufs, nb_rx, i, tx_count>>

\* The mbufs the driver did not take are freed.
FreeUnsent ==
  /\ pc = "free_unsent"
  /\ GiveUp({bufs[j] : j \in i .. (tx_count - 1)}, "pool")
  /\ pc' = "timers"
  /\ UNCHANGED <<natVars, force_quit, bufs, nb_rx, i, tx_count>>

\* nat_timer_manage at the end of a busy iteration; the variables of the
\* iteration go out of scope (they rest at 0).
Timers ==
  /\ pc = "timers"
  /\ nat_entry_expire
  /\ pc' = LoopTest
  /\ nb_rx' = 0 /\ i' = 0 /\ tx_count' = 0
  /\ UNCHANGED <<force_quit, bufs, owner, misuse>>

\* rte_eth_dev_stop and rte_eth_dev_close.
Cleanup ==
  /\ pc = "cleanup"
  /\ pc' = "done"
  /\ UNCHANGED <<natVars, force_quit, bufs, nb_rx, i, tx_count, owner, misuse>>

\* The environment: the driver completes a transmission, SIGINT or SIGTERM
\* arrives (the handler is installed before create_mempool), time passes.
TxDone ==
  /\ \E m \in Mbufs : /\ owner[m] = "nic"
                      /\ owner' = [owner EXCEPT ![m] = "pool"]
  /\ UNCHANGED <<natVars, pc, force_quit, bufs, nb_rx, i, tx_count, misuse>>

signal_handler ==
  /\ pc \notin {"eal", "done", "failed"} /\ ~force_quit
  /\ force_quit' = TRUE
  /\ UNCHANGED <<natVars, pc, bufs, nb_rx, i, tx_count, owner, misuse>>

Clock == pc \in Loop /\ Tick /\ UNCHANGED loopVars

Lcore ==
  \/ rte_eal_init \/ create_mempool \/ init_port \/ nat_init
  \/ RxBurst \/ RxNothing \/ Keep \/ DropPacket
  \/ TxBurst \/ FreeUnsent \/ Timers \/ Cleanup

NextMain == Lcore \/ TxDone \/ signal_handler \/ Clock

\* The lcore never sleeps.
SpecMain == InitMain /\ [][NextMain]_vars /\ WF_vars(Lcore) /\ WF_vars(Clock)

-----------------------------------------------------------------------------
\* Every mbuf received is sent or freed, exactly once, although bufs is compacted
\* while it is read: none is freed or sent twice, those the loop still owns are
\* in the part of bufs that it will look at, and it owns none when it comes back
\* to rte_eth_rx_burst.
MbufsAccounted ==
  /\ ~misuse
  /\ pc = "process" =>
       {m \in Mbufs : owner[m] = "app"}
         = {bufs[j] : j \in (0 .. (tx_count - 1)) \cup (i .. (nb_rx - 1))}
  /\ pc \in {"rx", "timers", "cleanup", "done"} => \A m \in Mbufs : owner[m] # "app"

\* Expiry does not depend on traffic: in an idle loop as in a busy one, a due
\* entry is freed or refreshed, unless the program is told to stop.
DueHandled ==
  \A e \in EntryIds : (pc \in Loop /\ e \in Due) ~> (force_quit \/ e \notin Due)

\* A signal ends the program, whatever the loop was doing.
SignalStops == force_quit ~> (pc \in {"done", "failed"})

=============================================================================
