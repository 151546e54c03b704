----------------------------- MODULE MCNatPools -----------------------------
(***************************************************************************)
(* The address pools of nat_project and what came before them: version 5   *)
(* with its timers (NatPool), version 4, which releases addresses only     *)
(* when one is wanted (NatLazyPool), and the versions without a pool       *)
(* (NatEarly).  A behaviour runs one of them, chosen at the start.         *)
(***************************************************************************)
EXTENDS NatPool

CONSTANTS
  NotIPv4, LazyBurst,
  RESET,            \* silence after which version 4 resets its statistics
  Frames, Lines, MAX_IPS, MAX_NAT_ENTRIES, PRIVATE_IP, PUBLIC_IP

\* What a frame looks like; no address is entered both as a private and as a
\* public one.
ASSUME EarlyAssumption ==
  /\ \A m \in Frames :
       m = [kind |-> m.kind, src |-> <<m.src[1], m.src[2]>>, dst |-> <<m.dst[1], m.dst[2]>>]
  /\ \A k, l \in Lines : k[1] # l[2]
  /\ PRIVATE_IP # PUBLIC_IP
  /\ MAX_IPS \in Nat

VARIABLES
  version,          \* 3 for NatEarly, 4 or 5
  in_use4, private_ip4, age4, map4, pc4, bufs4, i4, started4, rx_age4,
  program, pc3, bufs3, i3, table3, nat3, started3, start_age, rx_age3, leaked3, heard

lazyVars == <<in_use4, private_ip4, age4, map4, pc4, bufs4, i4, started4, rx_age4>>
earlyVars == <<program, pc3, bufs3, i3, table3, nat3, started3, start_age, rx_age3, leaked3,
               heard>>
allVars == <<version, vars, lazyVars, earlyVars>>

Lazy == INSTANCE NatLazyPool WITH
  Hosts <- Sources, IDLE <- IDLE_TIMEOUT, BURST_SIZE <- LazyBurst,
  in_use <- in_use4, private_ip <- private_ip4, age <- age4, map <- map4, pc <- pc4,
  bufs <- bufs4, i <- i4, started <- started4, rx_age <- rx_age4

Early == INSTANCE NatEarly WITH
  IDLE <- IDLE_TIMEOUT, pc <- pc3, bufs <- bufs3, i <- i3, table <- table3, nat <- nat3,
  started <- started3, rx_age <- rx_age3, leaked <- leaked3

InitAll ==
  /\ version \in 3 .. 5 /\ Init /\ Lazy!Init /\ Early!Init
  /\ version # 3 => program = "sample"

Run3 == version = 3 /\ Early!Next /\ UNCHANGED <<version, vars, lazyVars>>
Run4 == version = 4 /\ Lazy!Next /\ UNCHANGED <<version, vars, earlyVars>>
RunLoop5 == version = 5 /\ Loop /\ UNCHANGED <<version, lazyVars, earlyVars>>
RunTick5 == version = 5 /\ Tick /\ UNCHANGED <<version, lazyVars, earlyVars>>

\* Version 5 keeps polling and time passes; nothing is assumed of the others.
SpecAll ==
  /\ InitAll /\ [][Run3 \/ Run4 \/ RunLoop5 \/ RunTick5]_allVars
  /\ WF_allVars(RunLoop5) /\ WF_allVars(RunTick5)

-----------------------------------------------------------------------------
\* Frames between the private address, the public one and two others.
Frame(k, s, d) == [kind |-> k, src |-> <<s, 1>>, dst |-> <<d, 2>>]
EarlyFrames ==
  {Frame("none", "arp", "arp"), Frame("other", "priv", "pub"), Frame("TCP", "priv", "web"),
   Frame("UDP", "web", "pub"), Frame("TCP", "host", "web")}
EarlyLines == {<<"priv", "pub">>, <<"priv", "pub2">>, <<"host", "pub">>,
               <<"third", "pub">>}

\* Version 4: table and hash say the same, through all releases during a scan
\* and all reassignments, so that no two hosts share a public address.
LazyPoolConsistent == Lazy!PoolConsistent

\* Idle mappings are released, and no others.  Version 5: a slot whose source is
\* silent comes back, as long as the program polls.  Version 4: a mapping used
\* within the idle time stays with its host, and a packet is dropped only when
\* there is no idle one ("-1 only if all slots active and none expired",
\* static_nat.c, 95).
IdleReclaimed == IdleSlotReclaimed /\ Lazy!BusyMappingsStay /\ Lazy!DropOnlyWhenBusy

\* The versions without a pool: what was heard lately is in the table, whatever
\* was reset, and no private address leaves.
EarlyVersionsHold == Early!RecentKnown /\ Early!NothingPrivate

=============================================================================
