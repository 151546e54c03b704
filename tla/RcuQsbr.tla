------------------------------- MODULE RcuQsbr -------------------------------
(***************************************************************************)
(* rcu/sample: a writer on the main lcore replaces gdata Updates times and *)
(* frees each old version after rte_rcu_qsbr_synchronize, while a reader   *)
(* follows the pointer.                                                    *)
(*                                                                         *)
(* A version of the data is the value stored in it; an address that        *)
(* rte_malloc hands out again is a new version.  The QSBR library is       *)
(* modelled as its calls work without RTE_LIBRTE_RCU_DEBUG: lock and       *)
(* unlock do nothing, a reader's counter is the last token it reported     *)
(* (0 while offline), and synchronize scans the registered readers, and    *)
(* reads their bitmap again whenever it has to wait for one.  Reading the  *)
(* token and storing the counter are two steps of a reader.                *)
(***************************************************************************)
EXTENDS Integers

CONSTANTS
  Readers,    \* the lcores reader is launched on (one in main)
  Updates     \* iterations of the writer (5 in writer)

ASSUME RcuAssumption == Updates \in Nat

VARIABLES
  gdata, stop,             \* shared
  token, cnt, registered,  \* *qsbr
  live,                    \* versions allocated and not freed
  writer_pc, i, old,       \* main lcore: writer, then the end of main
  t, pending,              \*   and its call of synchronize
  reader_pc, tok, d        \* per reader

qsbrVars == <<token, cnt, registered>>
writerVars == <<writer_pc, i, old, t, pending>>
readerVars == <<reader_pc, tok, d>>
vars == <<gdata, stop, qsbrVars, live, writerVars, readerVars>>

OFFLINE == 0

Init ==
  /\ gdata = 0 /\ stop = FALSE /\ live = {0}
  /\ token = 1 /\ cnt = [r \in Readers |-> OFFLINE] /\ registered = {}
  /\ writer_pc = "test" /\ i = 0 /\ old = 0 /\ t = 0 /\ pending = {}
  /\ reader_pc = [r \in Readers |-> "register"]
  /\ tok = [r \in Readers |-> 0] /\ d = [r \in Readers |-> 0]

-----------------------------------------------------------------------------
(* The reader                                                              *)

Goto(r, l) == reader_pc' = [reader_pc EXCEPT ![r] = l]

\* rte_rcu_qsbr_thread_register
Register(r) ==
  /\ reader_pc[r] = "register"
  /\ registered' = registered \cup {r}
  /\ Goto(r, "online")
  /\ UNCHANGED <<gdata, stop, token, cnt, live, writerVars, tok, d>>

\* The first half of thread_online and of quiescent: read the token.
ReadToken(r) ==
  /\ reader_pc[r] \in {"online", "quiescent"}
  /\ tok' = [tok EXCEPT ![r] = token]
  /\ Goto(r, "report")
  /\ UNCHANGED <<gdata, stop, qsbrVars, live, writerVars, d>>

\* The second half: store it in the reader's counter.
Report(r) ==
  /\ reader_pc[r] = "report"
  /\ cnt' = [cnt EXCEPT ![r] = tok[r]]
  /\ Goto(r, "test")
  /\ UNCHANGED <<gdata, stop, token, registered, live, writerVars, tok, d>>

\* while (!stop)
ReaderTest(r) ==
  /\ reader_pc[r] = "test"
  /\ Goto(r, IF stop THEN "offline" ELSE "load")
  /\ UNCHANGED <<gdata, stop, qsbrVars, live, writerVars, tok, d>>

Load(r) ==
  /\ reader_pc[r] = "load"
  /\ d' = [d EXCEPT ![r] = gdata]
  /\ Goto(r, "use")
  /\ UNCHANGED <<gdata, stop, qsbrVars, live, writerVars, tok>>

\* d->value is read for the last time; then the lock is released.
Use(r) ==
  /\ reader_pc[r] = "use"
  /\ Goto(r, "quiescent")
  /\ UNCHANGED <<gdata, stop, qsbrVars, live, writerVars, tok, d>>

\* rte_rcu_qsbr_thread_offline
Offline(r) ==
  /\ reader_pc[r] = "offline"
  /\ cnt' = [cnt EXCEPT ![r] = OFFLINE]
  /\ Goto(r, "unregister")
  /\ UNCHANGED <<gdata, stop, token, registered, live, writerVars, tok, d>>

\* rte_rcu_qsbr_thread_unregister
Unregister(r) ==
  /\ reader_pc[r] = "unregister"
  /\ registered' = registered \ {r}
  /\ Goto(r, "done")
  /\ UNCHANGED <<gdata, stop, token, cnt, live, writerVars, tok, d>>

reader(r) ==
  \/ Register(r) \/ ReadToken(r) \/ Report(r) \/ ReaderTest(r)
  \/ Load(r) \/ Use(r) \/ Offline(r) \/ Unregister(r)

-----------------------------------------------------------------------------
(* The writer                                                              *)

\* for (i = 0; i < 5; i++)
WriterTest ==
  /\ writer_pc = "test"
  /\ writer_pc' = IF i < Updates THEN "exchange" ELSE "stop"
  /\ UNCHANGED <<gdata, stop, qsbrVars, live, i, old, t, pending, readerVars>>

\* Faulty variant of Exchange: no synchronize before the free.
Exchange_NoSync ==
  /\ writer_pc = "exchange"
  /\ gdata' = i + 1
  /\ live' = live \cup {i + 1}
  /\ old' = gdata
  /\ writer_pc' = "free"
  /\ UNCHANGED <<stop, qsbrVars, i, t, pending, readerVars>>

\* The new version is allocated and swapped in.
Exchange ==
  /\ writer_pc = "exchange"
  /\ gdata' = i + 1
  /\ live' = live \cup {i + 1}
  /\ old' = gdata
  /\ writer_pc' = "start"
  /\ UNCHANGED <<stop, qsbrVars, i, t, pending, readerVars>>

\* synchronize: take a new token ...
SyncStart ==
  /\ writer_pc = "start"
  /\ token' = token + 1 /\ t' = token + 1
  /\ writer_pc' = "bitmap"
  /\ UNCHANGED <<gdata, stop, cnt, registered, live, i, old, pending, readerVars>>

\* ... read the bitmap of registered readers ...
SyncBitmap ==
  /\ writer_pc = "bitmap"
  /\ pending' = registered
  /\ writer_pc' = "scan"
  /\ UNCHANGED <<gdata, stop, qsbrVars, live, i, old, t, readerVars>>

\* ... and tick off each reader that is offline or has reported the token.
SyncScan ==
  /\ writer_pc = "scan"
  /\ \/ /\ pending = {}
        /\ writer_pc' = "free" /\ pending' = pending
     \/ \E r \in pending :
          IF cnt[r] # OFFLINE /\ cnt[r] < t
          THEN writer_pc' = "bitmap" /\ pending' = pending
          ELSE writer_pc' = "scan" /\ pending' = pending \ {r}
  /\ UNCHANGED <<gdata, stop, qsbrVars, live, i, old, t, readerVars>>

\* rte_free(old)
Free ==
  /\ writer_pc = "free"
  /\ live' = live \ {old}
  /\ i' = i + 1
  /\ writer_pc' = "test"
  /\ UNCHANGED <<gdata, stop, qsbrVars, old, t, pending, readerVars>>

\* Faulty variant of Stop: the flag is not set.
Stop_NoFlag ==
  /\ writer_pc = "stop"
  /\ writer_pc' = "wait"
  /\ UNCHANGED <<gdata, stop, qsbrVars, live, i, old, t, pending, readerVars>>

\* stop = 1, and rte_eal_mp_wait_lcore is called.
Stop ==
  /\ writer_pc = "stop"
  /\ stop' = TRUE
  /\ writer_pc' = "wait"
  /\ UNCHANGED <<gdata, qsbrVars, live, i, old, t, pending, readerVars>>

\* Every lcore has returned.
Wait ==
  /\ writer_pc = "wait"
  /\ \A r \in Readers : reader_pc[r] = "done"
  /\ writer_pc' = "cleanup"
  /\ UNCHANGED <<gdata, stop, qsbrVars, live, i, old, t, pending, readerVars>>

\* rte_free(gdata)
Cleanup ==
  /\ writer_pc = "cleanup"
  /\ live' = live \ {gdata}
  /\ writer_pc' = "done"
  /\ UNCHANGED <<gdata, stop, qsbrVars, i, old, t, pending, readerVars>>

writer ==
  \/ WriterTest \/ Exchange \/ SyncStart \/ SyncBitmap \/ SyncScan
  \/ Free \/ Stop \/ Wait \/ Cleanup

Next == writer \/ \E r \in Readers : reader(r)

\* The writer and each reader have an lcore of their own.
Spec == /\ Init /\ [][Next]_vars
        /\ WF_vars(writer) /\ \A r \in Readers : WF_vars(reader(r))

-----------------------------------------------------------------------------
Versions == 0 .. Updates
Syncing == {"start", "bitmap", "scan", "free"}

\* Types; the writer makes at most Updates versions.
TypeOK ==
  /\ gdata \in Versions /\ stop \in BOOLEAN /\ live \subseteq Versions
  /\ token \in Nat \ {0} /\ cnt \in [Readers -> Nat] /\ registered \subseteq Readers
  /\ writer_pc \in Syncing \cup {"test", "exchange", "stop", "wait", "cleanup", "done"}
  /\ i \in Versions /\ old \in Versions /\ t \in Nat /\ pending \subseteq Readers
  /\ reader_pc \in [Readers -> {"register", "online", "quiescent", "report", "test",
                                "load", "use", "offline", "unregister", "done"}]
  /\ tok \in [Readers -> Nat] /\ d \in [Readers -> Versions]

\* The pointer a reader follows is to memory that has not been freed, by the
\* writer after its grace period or by main at the end.
NoUseAfterFree == \A r \in Readers : reader_pc[r] = "use" => d[r] \in live

\* Each synchronize returns, whatever the reader is doing when it starts.
SyncReturns == (writer_pc = "start") ~> (writer_pc = "free")

\* The program ends, with every version freed.
EndsClean == <>[](writer_pc = "done" /\ live = {})

=============================================================================
