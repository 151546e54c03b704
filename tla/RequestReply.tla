---------------------------- MODULE RequestReply ----------------------------
(***************************************************************************)
(* What the two full-duplex programs of inter_process_comm promise: the    *)
(* primary sends Count requests, one at a time, the secondary answers each *)
(* one once with ten times its value, and then the primary tells the       *)
(* secondary to stop.                                                      *)
(***************************************************************************)
EXTENDS Integers, Sequences

CONSTANT Count

VARIABLES
  sent,      \* requests sent by the primary
  served,    \* requests answered by the secondary
  got,       \* values the primary has received
  stopped,   \* the primary has sent its last message
  exited     \* the secondary has left its loop

vars == <<sent, served, got, stopped, exited>>

Init == sent = 0 /\ served = 0 /\ got = <<>> /\ stopped = FALSE /\ exited = FALSE

\* The next request, only when the last one has been answered.
Send ==
  /\ sent < Count /\ sent = Len(got)
  /\ sent' = sent + 1
  /\ UNCHANGED <<served, got, stopped, exited>>

Serve ==
  /\ served < sent
  /\ served' = served + 1
  /\ UNCHANGED <<sent, got, stopped, exited>>

\* The answer to request number n (counted from 0) is 10 * n.
Receive ==
  /\ Len(got) < served
  /\ got' = Append(got, 10 * Len(got))
  /\ UNCHANGED <<sent, served, stopped, exited>>

Stop ==
  /\ Len(got) = Count /\ ~stopped
  /\ stopped' = TRUE
  /\ UNCHANGED <<sent, served, got, exited>>

Exit ==
  /\ stopped /\ ~exited
  /\ exited' = TRUE
  /\ UNCHANGED <<sent, served, got, stopped>>

Next == Send \/ Serve \/ Receive \/ Stop \/ Exit

Spec == Init /\ [][Next]_vars

=============================================================================
