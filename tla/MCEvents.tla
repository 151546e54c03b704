------------------------------ MODULE MCEvents ------------------------------
(***************************************************************************)
(* The event device programs (EventDev) and the reordering programs        *)
(* (Reorder): packets or events go through a buffer of the library that    *)
(* decides in which order they come out.  A behaviour runs one program.    *)
(***************************************************************************)
EXTENDS EventDev

CONSTANTS Window, Burst, Window2, Burst2, SeqLimit, SeqList, Stamped

\* A burst fits the window, 8 into 8 and 32 into 128; the list of sample has each
\* of the numbers from its first on, once.
ASSUME ReorderAssumption ==
  /\ Window \in Nat /\ Window2 \in Nat /\ SeqLimit \in Nat /\ Stamped \in Nat
  /\ Burst \in 1 .. Window /\ Burst2 \in 1 .. Window2
  /\ Window < SeqLimit /\ Window2 < SeqLimit
  /\ SeqList \in Seq(0 .. (SeqLimit - 1)) /\ Len(SeqList) \in 1 .. Burst
  /\ \A k \in 1 .. Len(SeqList) : SeqList[k] \in SeqList[1] .. (SeqList[1] + Len(SeqList) - 1)
  /\ \A j \in SeqList[1] .. (SeqList[1] + Len(SeqList) - 1) :
       \E k \in 1 .. Len(SeqList) : SeqList[k] = j
  /\ \A k, l \in 1 .. Len(SeqList) : SeqList[k] = SeqList[l] => k = l

VARIABLES
  reordering,        \* whether the program is one of Reorder's
  program2, pc2, seq_counter, batch, initialized, min_seqn, order, ready, sent, out, refused

reorderVars == <<program2, pc2, seq_counter, batch, initialized, min_seqn, order, ready,
                 sent, out, refused>>
allVars == <<vars, reorderVars, reordering>>

R == INSTANCE Reorder WITH program <- program2, pc <- pc2

InitAll ==
  /\ Init /\ R!Init
  /\ reordering \in BOOLEAN
  /\ ~reordering => program2 = "sample"
  /\ reordering => program = "ipc"

RunEvents == ~reordering /\ Next /\ UNCHANGED <<reorderVars, reordering>>
RunReorder == reordering /\ R!Next /\ UNCHANGED <<vars, reordering>>

\* The fairness of EventDev asks for nothing while a reordering program runs, as
\* nothing has been sent then; the reordering programs may stop.
SpecAll == InitAll /\ [][RunEvents \/ RunReorder]_allVars /\ Fairness

-----------------------------------------------------------------------------
\* The order in which sample inserts its packets.
Shuffled == <<0, 2, 1, 4, 3, 6, 5, 7>>

\* What a burst brought is drained in the order of its numbers, and freed.
DrainedInOrder == R!DrainedInOrder

=============================================================================
