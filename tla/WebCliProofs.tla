---------------------------- MODULE WebCliProofs ----------------------------
(***************************************************************************)
(* Proofs about WebCli, for any number of tabs and commands and any        *)
(* backlog.  OneAttempt is inductive once it is said how many connections  *)
(* of a tab there may be where (Lines).  For OwnAnswers the commands of a  *)
(* tab are followed through the four places where they wait: shown, on     *)
(* their way back, in a connection, on their way to the bridge (Ordered).  *)
(***************************************************************************)
EXTENDS WebCli, FiniteSetTheorems, SequenceTheorems, TLAPS

Of(t) == [name : {"hello", "exit"}, tab : {t}, number : Nat]
Command == [name : {"hello", "exit"}, tab : Tabs, number : Nat]
Connection == [tab : Tabs, alive : BOOLEAN, input : Seq(Command)]

TypeInv ==
  /\ ws \in [Tabs -> {"new", "open", "closed"}]
  /\ typed \in [Tabs -> Nat]
  /\ wsq \in [Tabs -> Seq(Command)] /\ output \in [Tabs -> Seq(Command)]
  /\ incoming \in [Tabs -> Seq(Command)]
  /\ client \in [Tabs -> {"none", "connecting", "open", "closing", "closed"}]
  /\ timers \in [Tabs -> Nat]
  /\ backlog \in Seq(Connection) /\ session \in Seq(Connection)
  /\ session = <<>> \/ Len(session) = 1

\* The bridge's sockets and timers: one attempt from the first connection on.
Sockets ==
  \A t \in Tabs :
    /\ ws[t] = "new" => client[t] = "none" /\ timers[t] = 0
    /\ ws[t] # "new" =>
         /\ client[t] # "none"
         /\ timers[t] + (IF client[t] \in {"connecting", "open", "closing"} THEN 1 ELSE 0) = 1

\* The connections at the server.
Held == {backlog[j] : j \in DOMAIN backlog} \cup {session[j] : j \in DOMAIN session}

Lines ==
  \A t \in Tabs :
    /\ \A j, k \in DOMAIN backlog : IsOf(t, backlog[j]) /\ IsOf(t, backlog[k]) => j = k
    /\ \A j \in DOMAIN backlog, k \in DOMAIN session :
         ~(IsOf(t, backlog[j]) /\ IsOf(t, session[k]))
    /\ client[t] # "open" => \A c \in Held : ~IsOf(t, c)

Numbers(s) == {s[j].number : j \in DOMAIN s}
Below(S, T) == \A a \in S, b \in T : a < b
Rising(s) == \A j, k \in DOMAIN s : j < k => s[j].number < s[k].number

\* The commands of tab t: shown, answered, in the connection and sent, each
\* place holding later ones than the places before it.
Ordered(t, o, n, q, w, last) ==
  /\ o \in Seq(Of(t)) /\ n \in Seq(Of(t)) /\ q \in Seq(Of(t)) /\ w \in Seq(Of(t))
  /\ Rising(o) /\ Rising(n) /\ Rising(q) /\ Rising(w)
  /\ Below(Numbers(o), Numbers(n)) /\ Below(Numbers(o), Numbers(q))
  /\ Below(Numbers(o), Numbers(w)) /\ Below(Numbers(n), Numbers(q))
  /\ Below(Numbers(n), Numbers(w)) /\ Below(Numbers(q), Numbers(w))
  /\ Below(Numbers(o), {last + 1}) /\ Below(Numbers(n), {last + 1})
  /\ Below(Numbers(q), {last + 1}) /\ Below(Numbers(w), {last + 1})

Orders ==
  \A t \in Tabs :
    /\ Ordered(t, output[t], incoming[t], <<>>, wsq[t], typed[t])
    /\ \A c \in Held : IsOf(t, c) =>
         Ordered(t, output[t], incoming[t], c.input, wsq[t], typed[t])

IInv == TypeInv /\ Sockets /\ Lines /\ Orders

-----------------------------------------------------------------------------
(* Sequences of commands                                                   *)

LEMMA NoCommands == Numbers(<<>>) = {} /\ Rising(<<>>) /\ \A S : <<>> \in Seq(S)
<1>1. DOMAIN <<>> = {}
  OBVIOUS
<1> QED
  BY <1>1 DEF Numbers, Rising

LEMMA OneMore ==
  ASSUME NEW t, NEW s \in Seq(Of(t)), NEW c \in Of(t)
  PROVE  /\ Append(s, c) \in Seq(Of(t))
         /\ Numbers(Append(s, c)) = Numbers(s) \cup {c.number}
         /\ Rising(s) /\ Below(Numbers(s), {c.number}) => Rising(Append(s, c))
<1> DEFINE r == Append(s, c)
<1>1. r \in Seq(Of(t)) /\ Len(s) \in Nat /\ Len(r) = Len(s) + 1
  OBVIOUS
<1>2. PICK n \in Nat : n = Len(s)
  BY <1>1
<1>3. DOMAIN s = 1 .. n /\ DOMAIN r = 1 .. (n + 1) /\ r[n + 1] = c /\ \A j \in 1 .. n : r[j] = s[j]
  BY <1>2
<1> HIDE DEF r
<1>4. 1 .. (n + 1) = (1 .. n) \cup {n + 1}
  BY <1>2
<1>5. Numbers(r) = Numbers(s) \cup {c.number}
  BY <1>3, <1>4 DEF Numbers
<1>6. ASSUME Rising(s), Below(Numbers(s), {c.number}) PROVE Rising(r)
  <2> SUFFICES ASSUME NEW j \in DOMAIN r, NEW k \in DOMAIN r, j < k
               PROVE  r[j].number < r[k].number
    BY DEF Rising
  <2>1. j \in 1 .. n /\ (k \in 1 .. n \/ k = n + 1)
    BY <1>2, <1>3
  <2>2. s[j].number < c.number
    BY <1>3, <1>6, <2>1 DEF Below, Numbers
  <2> QED
    BY <1>3, <1>6, <2>1, <2>2 DEF Rising
<1> QED
  BY <1>1, <1>5, <1>6 DEF r

LEMMA OneLess ==
  ASSUME NEW t, NEW s \in Seq(Of(t)), s # <<>>
  PROVE  /\ Tail(s) \in Seq(Of(t)) /\ Head(s) \in Of(t)
         /\ Numbers(s) = {Head(s).number} \cup Numbers(Tail(s))
         /\ Rising(s) => Rising(Tail(s)) /\ Below({Head(s).number}, Numbers(Tail(s)))
<1> DEFINE r == Tail(s)
<1>1. r \in Seq(Of(t)) /\ Head(s) \in Of(t) /\ Head(s) = s[1] /\ Len(r) = Len(s) - 1 /\ Len(s) \in Nat
      /\ Len(s) > 0
  OBVIOUS
<1>2. PICK n \in Nat : Len(s) = n + 1
  <2>1. PICK m \in Nat : m = Len(s)
    BY <1>1
  <2>2. m - 1 \in Nat /\ m = (m - 1) + 1
    BY <1>1, <2>1
  <2> QED
    BY <2>1, <2>2
<1>3. /\ DOMAIN s = 1 .. (n + 1) /\ DOMAIN r = 1 .. n /\ \A j \in 1 .. n : r[j] = s[j + 1]
  BY <1>1, <1>2
<1> HIDE DEF r
<1>4. \A j \in 1 .. (n + 1) : j = 1 \/ (j - 1 \in 1 .. n /\ j = (j - 1) + 1)
  BY <1>2
<1>5. \A j \in 1 .. n : j + 1 \in 1 .. (n + 1) /\ 1 < j + 1 /\ 1 \in 1 .. (n + 1)
  BY <1>2
<1>6. 1 \in 1 .. (n + 1)
  BY <1>2
<1>7. Numbers(s) \subseteq {Head(s).number} \cup Numbers(r)
  <2> SUFFICES ASSUME NEW j \in 1 .. (n + 1) PROVE s[j].number \in {Head(s).number} \cup Numbers(r)
    BY <1>3 DEF Numbers
  <2>1. CASE j = 1
    BY <1>1, <2>1
  <2>2. CASE j # 1
    <3>1. j - 1 \in 1 .. n /\ r[j - 1] = s[j]
      BY <1>3, <1>4, <2>2
    <3> QED
      BY <1>3, <3>1 DEF Numbers
  <2> QED
    BY <2>1, <2>2
<1>8. {Head(s).number} \cup Numbers(r) \subseteq Numbers(s)
  <2>1. s[1].number \in Numbers(s)
    BY <1>3, <1>6 DEF Numbers
  <2>2. \A j \in 1 .. n : s[j + 1].number \in Numbers(s)
    BY <1>3, <1>5 DEF Numbers
  <2>3. \A x \in Numbers(r) : \E j \in 1 .. n : x = s[j + 1].number
    BY <1>3 DEF Numbers
  <2> QED
    BY <1>1, <2>1, <2>2, <2>3
<1>9. ASSUME Rising(s) PROVE Rising(r) /\ Below({Head(s).number}, Numbers(r))
  <2>1. Rising(r)
    <3> SUFFICES ASSUME NEW j \in 1 .. n, NEW k \in 1 .. n, j < k PROVE r[j].number < r[k].number
      BY <1>3 DEF Rising
    <3>1. j + 1 < k + 1 /\ j + 1 \in DOMAIN s /\ k + 1 \in DOMAIN s
      BY <1>3, <1>5
    <3> QED
      BY <1>3, <1>9, <3>1 DEF Rising
  <2>2. Below({Head(s).number}, Numbers(r))
    <3> SUFFICES ASSUME NEW j \in 1 .. n PROVE s[1].number < r[j].number
      BY <1>1, <1>3 DEF Below, Numbers
    <3> QED
      BY <1>3, <1>5, <1>9 DEF Rising
  <2> QED
    BY <2>1, <2>2
<1> QED
  BY <1>1, <1>7, <1>8, <1>9 DEF r

\* A tab sends its next command.
LEMMA Sends ==
  ASSUME NEW t, NEW o, NEW n, NEW q, NEW w, NEW last \in Nat, Ordered(t, o, n, q, w, last),
         NEW c \in Of(t), c.number = last + 1
  PROVE  Ordered(t, o, n, q, Append(w, c), last + 1)
<1>1. /\ Append(w, c) \in Seq(Of(t))
      /\ Numbers(Append(w, c)) = Numbers(w) \cup {last + 1}
      /\ Rising(Append(w, c))
  BY OneMore DEF Ordered
<1>2. /\ Numbers(o) \subseteq Nat /\ Numbers(n) \subseteq Nat
      /\ Numbers(q) \subseteq Nat /\ Numbers(w) \subseteq Nat
  <2>1. ASSUME NEW s \in Seq(Of(t)) PROVE Numbers(s) \subseteq Nat
    <3>1. \A j \in DOMAIN s : s[j] \in Of(t)
      OBVIOUS
    <3>2. \A d \in Of(t) : d.number \in Nat
      BY DEF Of
    <3> QED
      BY <3>1, <3>2 DEF Numbers
  <2> QED
    BY <2>1 DEF Ordered
<1>3. /\ Below(Numbers(o), {last + 1 + 1}) /\ Below(Numbers(n), {last + 1 + 1})
      /\ Below(Numbers(q), {last + 1 + 1}) /\ Below(Numbers(w), {last + 1 + 1})
  <2>1. ASSUME NEW S \in SUBSET Nat, Below(S, {last + 1}) PROVE Below(S, {last + 1 + 1})
    BY <2>1 DEF Below
  <2> QED
    BY <1>2, <2>1 DEF Ordered
<1>4. Below({last + 1}, {last + 1 + 1})
  BY DEF Below
<1>5. /\ Below(Numbers(o), Numbers(Append(w, c))) /\ Below(Numbers(n), Numbers(Append(w, c)))
      /\ Below(Numbers(q), Numbers(Append(w, c))) /\ Below(Numbers(Append(w, c)), {last + 1 + 1})
  BY <1>1, <1>3, <1>4 DEF Ordered, Below
<1> QED
  BY <1>1, <1>3, <1>5 DEF Ordered

\* The bridge writes the next command to the connection, or drops it.
LEMMA Passes ==
  ASSUME NEW t, NEW o, NEW n, NEW q, NEW w, NEW last, Ordered(t, o, n, q, w, last), w # <<>>
  PROVE  /\ Ordered(t, o, n, Append(q, Head(w)), Tail(w), last)
         /\ Ordered(t, o, n, q, Tail(w), last)
<1> DEFINE h == Head(w)  r == Tail(w)  q2 == Append(q, h)
<1>1. /\ r \in Seq(Of(t)) /\ h \in Of(t) /\ Numbers(w) = {h.number} \cup Numbers(r)
      /\ Rising(r) /\ Below({h.number}, Numbers(r))
  BY OneLess DEF Ordered
<1> HIDE DEF h, r
<1>2. /\ q2 \in Seq(Of(t)) /\ Numbers(q2) = Numbers(q) \cup {h.number} /\ Rising(q2)
  BY <1>1, OneMore DEF Ordered, Below
<1> HIDE DEF q2
<1>3. Ordered(t, o, n, q, r, last)
  BY <1>1 DEF Ordered, Below
<1>4. /\ Below(Numbers(o), Numbers(q2)) /\ Below(Numbers(n), Numbers(q2))
      /\ Below(Numbers(q2), Numbers(r)) /\ Below(Numbers(q2), {last + 1})
  BY <1>1, <1>2 DEF Ordered, Below
<1> QED
  BY <1>2, <1>3, <1>4 DEF Ordered, h, r, q2

\* The server answers the next command of the connection.
LEMMA Answers ==
  ASSUME NEW t, NEW o, NEW n, NEW q, NEW w, NEW last, Ordered(t, o, n, q, w, last), q # <<>>
  PROVE  /\ Ordered(t, o, Append(n, Head(q)), Tail(q), w, last)
         /\ Ordered(t, o, Append(n, Head(q)), <<>>, w, last)
<1> DEFINE h == Head(q)  r == Tail(q)  n2 == Append(n, h)
<1>1. /\ r \in Seq(Of(t)) /\ h \in Of(t) /\ Numbers(q) = {h.number} \cup Numbers(r)
      /\ Rising(r) /\ Below({h.number}, Numbers(r))
  BY OneLess DEF Ordered
<1> HIDE DEF h, r
<1>2. /\ n2 \in Seq(Of(t)) /\ Numbers(n2) = Numbers(n) \cup {h.number} /\ Rising(n2)
  BY <1>1, OneMore DEF Ordered, Below
<1> HIDE DEF n2
<1>3. /\ Below(Numbers(o), Numbers(n2)) /\ Below(Numbers(n2), Numbers(r))
      /\ Below(Numbers(n2), Numbers(w)) /\ Below(Numbers(n2), {last + 1})
      /\ Below(Numbers(o), Numbers(r)) /\ Below(Numbers(r), Numbers(w)) /\ Below(Numbers(r), {last + 1})
  BY <1>1, <1>2 DEF Ordered, Below
<1>4. Ordered(t, o, n2, r, w, last)
  BY <1>1, <1>2, <1>3 DEF Ordered
<1>5. Ordered(t, o, n2, <<>>, w, last)
  BY <1>4, NoCommands DEF Ordered, Below
<1> QED
  BY <1>4, <1>5 DEF h, r, n2

\* The bridge passes an answer to the tab, or drops it.
LEMMA Shows ==
  ASSUME NEW t, NEW o, NEW n, NEW q, NEW w, NEW last, Ordered(t, o, n, q, w, last), n # <<>>
  PROVE  /\ Ordered(t, Append(o, Head(n)), Tail(n), q, w, last)
         /\ Ordered(t, o, Tail(n), q, w, last)
<1> DEFINE h == Head(n)  r == Tail(n)  o2 == Append(o, h)
<1>1. /\ r \in Seq(Of(t)) /\ h \in Of(t) /\ Numbers(n) = {h.number} \cup Numbers(r)
      /\ Rising(r) /\ Below({h.number}, Numbers(r))
  BY OneLess DEF Ordered
<1> HIDE DEF h, r
<1>2. /\ o2 \in Seq(Of(t)) /\ Numbers(o2) = Numbers(o) \cup {h.number} /\ Rising(o2)
  BY <1>1, OneMore DEF Ordered, Below
<1> HIDE DEF o2
<1>3. Ordered(t, o, r, q, w, last)
  BY <1>1 DEF Ordered, Below
<1>4. /\ Below(Numbers(o2), Numbers(r)) /\ Below(Numbers(o2), Numbers(q))
      /\ Below(Numbers(o2), Numbers(w)) /\ Below(Numbers(o2), {last + 1})
  BY <1>1, <1>2 DEF Ordered, Below
<1> QED
  BY <1>2, <1>3, <1>4 DEF Ordered, h, r, o2

\* What is dropped leaves the rest in order.
LEMMA Drops ==
  ASSUME NEW t, NEW o, NEW n, NEW q, NEW w, NEW last, Ordered(t, o, n, q, w, last)
  PROVE  Ordered(t, o, n, <<>>, w, last) /\ Ordered(t, o, <<>>, q, <<>>, last)
         /\ Ordered(t, o, <<>>, <<>>, <<>>, last)
BY NoCommands DEF Ordered, Below

-----------------------------------------------------------------------------
(* The connections at the server                                           *)

LEMMA InitHolds == CliInit => IInv
<1> SUFFICES ASSUME CliInit PROVE IInv
  OBVIOUS
<1>1. TypeInv /\ Sockets
  BY NoCommands DEF CliInit, TypeInv, Sockets
<1>2. Held = {} /\ DOMAIN backlog = {} /\ DOMAIN session = {}
  BY DEF CliInit, Held
<1>3. Lines
  BY <1>2 DEF Lines
<1>4. Orders
  BY <1>2, NoCommands DEF CliInit, Orders, Ordered, Below
<1> QED
  BY <1>1, <1>3, <1>4 DEF IInv

\* Hangup and Write change a list of connections place by place.
LEMMA HangupIs ==
  ASSUME NEW t \in Tabs, NEW conns \in Seq(Connection)
  PROVE  /\ Hangup(t, conns) \in Seq(Connection) /\ DOMAIN Hangup(t, conns) = DOMAIN conns
         /\ Len(Hangup(t, conns)) = Len(conns)
         /\ \A j \in DOMAIN conns :
              /\ Hangup(t, conns)[j].tab = conns[j].tab /\ Hangup(t, conns)[j].input = conns[j].input
              /\ Hangup(t, conns)[j].alive <=> conns[j].alive /\ conns[j].tab # t
<1> DEFINE r == Hangup(t, conns)
<1>1. PICK n \in Nat : n = Len(conns) /\ DOMAIN conns = 1 .. n
  OBVIOUS
<1>2. \A j \in 1 .. n : conns[j] \in Connection
  BY <1>1
<1>3. r = [k \in 1 .. n |-> IF IsOf(t, conns[k]) THEN [conns[k] EXCEPT !.alive = FALSE] ELSE conns[k]]
  BY <1>1 DEF Hangup
<1>4. ASSUME NEW c \in Connection
      PROVE  /\ [c EXCEPT !.alive = FALSE] \in Connection
             /\ [c EXCEPT !.alive = FALSE].tab = c.tab /\ [c EXCEPT !.alive = FALSE].input = c.input
             /\ [c EXCEPT !.alive = FALSE].alive = FALSE
             /\ c.alive \in BOOLEAN
  BY DEF Connection
<1> HIDE DEF r
<1>5. \A j \in 1 .. n : r[j] = IF IsOf(t, conns[j]) THEN [conns[j] EXCEPT !.alive = FALSE] ELSE conns[j]
  BY <1>3
<1>6. DOMAIN r = 1 .. n /\ Len(r) = n /\ r \in Seq(Connection)
  <2>1. r = [k \in 1 .. n |-> r[k]]
    BY <1>3
  <2>2. \A k \in 1 .. n : r[k] \in Connection
    BY <1>2, <1>4, <1>5
  <2> QED
    BY <2>1, <2>2
<1>7. ASSUME NEW j \in 1 .. n
      PROVE  /\ r[j].tab = conns[j].tab /\ r[j].input = conns[j].input
             /\ r[j].alive <=> conns[j].alive /\ conns[j].tab # t
  <2>1. CASE IsOf(t, conns[j])
    BY <1>2, <1>4, <1>5, <2>1 DEF IsOf
  <2>2. CASE ~IsOf(t, conns[j])
    BY <1>2, <1>4, <1>5, <2>2 DEF IsOf
  <2> QED
    BY <2>1, <2>2
<1> QED
  BY <1>1, <1>6, <1>7 DEF r

LEMMA WriteIs ==
  ASSUME NEW t \in Tabs, NEW cmd \in Command, NEW conns \in Seq(Connection)
  PROVE  /\ Write(t, cmd, conns) \in Seq(Connection) /\ DOMAIN Write(t, cmd, conns) = DOMAIN conns
         /\ Len(Write(t, cmd, conns)) = Len(conns)
         /\ \A j \in DOMAIN conns :
              /\ Write(t, cmd, conns)[j].tab = conns[j].tab
              /\ Write(t, cmd, conns)[j].alive = conns[j].alive
              /\ Write(t, cmd, conns)[j].input
                   = IF IsOf(t, conns[j]) THEN Append(conns[j].input, cmd) ELSE conns[j].input
<1> DEFINE r == Write(t, cmd, conns)
<1>1. PICK n \in Nat : n = Len(conns) /\ DOMAIN conns = 1 .. n
  OBVIOUS
<1>2. \A j \in 1 .. n : conns[j] \in Connection
  BY <1>1
<1>3. r = [k \in 1 .. n |-> IF IsOf(t, conns[k]) THEN [conns[k] EXCEPT !.input = Append(@, cmd)]
                            ELSE conns[k]]
  BY <1>1 DEF Write
<1>4. ASSUME NEW c \in Connection
      PROVE  /\ [c EXCEPT !.input = Append(@, cmd)] \in Connection
             /\ [c EXCEPT !.input = Append(@, cmd)].tab = c.tab
             /\ [c EXCEPT !.input = Append(@, cmd)].alive = c.alive
             /\ [c EXCEPT !.input = Append(@, cmd)].input = Append(c.input, cmd)
  <2>1. Append(c.input, cmd) \in Seq(Command)
    BY DEF Connection
  <2> QED
    BY <2>1 DEF Connection
<1> HIDE DEF r
<1>5. \A j \in 1 .. n : r[j] = IF IsOf(t, conns[j]) THEN [conns[j] EXCEPT !.input = Append(@, cmd)]
                               ELSE conns[j]
  BY <1>3
<1>6. DOMAIN r = 1 .. n /\ Len(r) = n /\ r \in Seq(Connection)
  <2>1. r = [k \in 1 .. n |-> r[k]]
    BY <1>3
  <2>2. \A k \in 1 .. n : r[k] \in Connection
    BY <1>2, <1>4, <1>5
  <2> QED
    BY <2>1, <2>2
<1>7. ASSUME NEW j \in 1 .. n
      PROVE  /\ r[j].tab = conns[j].tab /\ r[j].alive = conns[j].alive
             /\ r[j].input = IF IsOf(t, conns[j]) THEN Append(conns[j].input, cmd) ELSE conns[j].input
  BY <1>2, <1>4, <1>5
<1> QED
  BY <1>1, <1>6, <1>7 DEF r

\* A step that leaves the connections alone.
LEMMA SameLines ==
  ASSUME Lines, UNCHANGED <<backlog, session>>,
         \A t \in Tabs : client[t] = "open" /\ client'[t] # "open" => \A c \in Held : ~IsOf(t, c)
  PROVE  Lines' /\ Held' = Held
<1>1. Held' = Held
  BY DEF Held
<1>2. \A t, c : IsOf(t, c)' <=> IsOf(t, c)
  BY DEF IsOf
<1> QED
  BY <1>1, <1>2 DEF Lines, IsOf

\* A step that leaves the commands alone; a new connection has none.
LEMMA SameOrders ==
  ASSUME Orders, UNCHANGED <<typed, wsq, output, incoming>>,
         \A c \in Held' : c.alive =>
           c.input = <<>> \/ \E d \in Held : d.alive /\ d.tab = c.tab /\ d.input = c.input
  PROVE  Orders'
<1> SUFFICES ASSUME NEW t \in Tabs, NEW c \in Held', IsOf(t, c)
             PROVE  Ordered(t, output[t], incoming[t], c.input, wsq[t], typed[t])
  BY DEF Orders
<1>1. CASE c.input = <<>>
  BY <1>1 DEF Orders
<1>2. CASE \E d \in Held : d.alive /\ d.tab = c.tab /\ d.input = c.input
  <2>1. PICK d \in Held : d.alive /\ d.tab = c.tab /\ d.input = c.input
    BY <1>2
  <2>2. IsOf(t, d)
    BY <2>1 DEF IsOf
  <2> QED
    BY <2>1, <2>2 DEF Orders
<1> QED
  BY <1>1, <1>2 DEF IsOf

\* The bridge's steps between connections, a tab that opens, the server's start.
LEMMA QuietStep ==
  ASSUME IInv, NEW t \in Tabs,
         OpenTab(t) \/ ConnectFails(t) \/ PeerCloses(t) \/ OnClose(t) \/ connectDPDK(t) \/ Start
  PROVE  IInv'
<1>1. TypeInv /\ Sockets /\ Lines /\ Orders
  BY DEF IInv
<1>2. UNCHANGED <<typed, wsq, output, incoming, backlog, session>>
  BY DEF OpenTab, ConnectFails, PeerCloses, OnClose, connectDPDK, Start, tabVars, serverVars, bridgeVars
<1>3. TypeInv' /\ Sockets'
  <2>1. CASE OpenTab(t)
    BY <1>1, <2>1 DEF TypeInv, Sockets, OpenTab, serverVars
  <2>2. CASE ConnectFails(t)
    BY <1>1, <2>2 DEF TypeInv, Sockets, ConnectFails, serverVars, tabVars
  <2>3. CASE PeerCloses(t)
    BY <1>1, <2>3 DEF TypeInv, Sockets, PeerCloses, serverVars, tabVars
  <2>4. CASE OnClose(t)
    BY <1>1, <2>4 DEF TypeInv, Sockets, OnClose, serverVars, tabVars
  <2>5. CASE connectDPDK(t)
    BY <1>1, <2>5, SMTT(30) DEF TypeInv, Sockets, connectDPDK, serverVars, tabVars
  <2>6. CASE Start
    BY <1>1, <2>6 DEF TypeInv, Sockets, Start, bridgeVars, tabVars
  <2> QED
    BY <2>1, <2>2, <2>3, <2>4, <2>5, <2>6
<1>4. \A s \in Tabs : client[s] = "open" /\ client'[s] # "open" => \A c \in Held : ~IsOf(s, c)
  <2>1. CASE PeerCloses(t)
    <3>1. client' = [client EXCEPT ![t] = "closing"] /\ Connections(t) = {}
      BY <2>1 DEF PeerCloses
    <3>2. \A c \in Held : ~IsOf(t, c)
      <4>1. \A j \in DOMAIN backlog : IsOf(t, backlog[j]) => <<"backlog", j>> \in Connections(t)
        BY DEF Connections
      <4>2. \A j \in DOMAIN session : IsOf(t, session[j]) => <<"session", j>> \in Connections(t)
        BY DEF Connections
      <4> QED
        BY <3>1, <4>1, <4>2 DEF Held
    <3> QED
      BY <1>1, <3>1, <3>2 DEF TypeInv
  <2>2. CASE ~PeerCloses(t)
    <3>1. \A s \in Tabs : client[s] = "open" => client'[s] = "open"
      <4>1. client' = client \/ (client[t] # "open" /\ \E x : client' = [client EXCEPT ![t] = x])
        BY <1>1, <2>2 DEF TypeInv, Sockets, OpenTab, ConnectFails, OnClose, connectDPDK, Start, bridgeVars
      <4> QED
        BY <1>1, <4>1 DEF TypeInv
    <3> QED
      BY <3>1
  <2> QED
    BY <2>1, <2>2
<1>5. Lines' /\ Held' = Held
  BY <1>1, <1>2, <1>4, SameLines
<1>6. Orders'
  BY <1>1, <1>2, <1>5, SameOrders
<1> QED
  BY <1>3, <1>5, <1>6 DEF IInv

\* Commands and answers of one tab move on.
LEMMA TabOrders ==
  ASSUME TypeInv, Orders, NEW t \in Tabs, Held' = Held,
         NEW o, NEW n, NEW w, NEW last,
         output' = [output EXCEPT ![t] = o], incoming' = [incoming EXCEPT ![t] = n],
         wsq' = [wsq EXCEPT ![t] = w], typed' = [typed EXCEPT ![t] = last],
         \A q : Ordered(t, output[t], incoming[t], q, wsq[t], typed[t]) => Ordered(t, o, n, q, w, last)
  PROVE  Orders'
<1>1. /\ output'[t] = o /\ incoming'[t] = n /\ wsq'[t] = w /\ typed'[t] = last
      /\ \A s \in Tabs : s # t => /\ output'[s] = output[s] /\ incoming'[s] = incoming[s]
                                  /\ wsq'[s] = wsq[s] /\ typed'[s] = typed[s]
  BY DEF TypeInv
<1>2. \A s \in Tabs : \A q : Ordered(s, output[s], incoming[s], q, wsq[s], typed[s])
                              => Ordered(s, output'[s], incoming'[s], q, wsq'[s], typed'[s])
  BY <1>1
<1>3. \A s \in Tabs : /\ Ordered(s, output'[s], incoming'[s], <<>>, wsq'[s], typed'[s])
                      /\ \A c \in Held : IsOf(s, c) =>
                           Ordered(s, output'[s], incoming'[s], c.input, wsq'[s], typed'[s])
  BY <1>2 DEF Orders
<1> QED
  BY <1>3 DEF Orders

LEMMA QueueStep ==
  ASSUME IInv, NEW t \in Tabs, sendCommand(t) \/ OnData(t)
  PROVE  IInv'
<1>1. TypeInv /\ Sockets /\ Lines /\ Orders
  BY DEF IInv
<1>2. UNCHANGED <<ws, client, timers, backlog, session>>
  BY DEF sendCommand, OnData, bridgeVars, serverVars
<1>3. Sockets'
  BY <1>1, <1>2 DEF Sockets
<1>4. Lines' /\ Held' = Held
  BY <1>1, <1>2, SameLines
<1>5. CASE sendCommand(t)
  <2>1. PICK name \in {"hello", "exit"} :
          wsq' = [wsq EXCEPT ![t] = Append(@, [name |-> name, tab |-> t, number |-> typed'[t]])]
    BY <1>5 DEF sendCommand
  <2>2. /\ typed' = [typed EXCEPT ![t] = typed[t] + 1] /\ typed[t] \in Nat /\ typed'[t] = typed[t] + 1
        /\ UNCHANGED <<output, incoming>>
    BY <1>1, <1>5 DEF sendCommand, TypeInv
  <2> DEFINE c == [name |-> name, tab |-> t, number |-> typed[t] + 1]
  <2>3. c \in Of(t) /\ c \in Command /\ c.number = typed[t] + 1
    BY <2>2 DEF Of, Command
  <2>4. wsq' = [wsq EXCEPT ![t] = Append(wsq[t], c)]
    BY <2>1, <2>2
  <2> HIDE DEF c
  <2>5. Append(wsq[t], c) \in Seq(Command)
    BY <1>1, <2>3 DEF TypeInv
  <2>6. TypeInv'
    BY <1>1, <1>2, <2>2, <2>4, <2>5 DEF TypeInv
  <2>7. \A q : Ordered(t, output[t], incoming[t], q, wsq[t], typed[t])
               => Ordered(t, output[t], incoming[t], q, Append(wsq[t], c), typed[t] + 1)
    BY <2>2, <2>3, Sends
  <2>8. output' = [output EXCEPT ![t] = output[t]] /\ incoming' = [incoming EXCEPT ![t] = incoming[t]]
    BY <1>1, <2>2 DEF TypeInv
  <2>9. Orders'
    BY <1>1, <1>4, <2>2, <2>4, <2>7, <2>8, TabOrders
  <2> QED
    BY <1>3, <1>4, <2>6, <2>9 DEF IInv
<1>6. CASE OnData(t)
  <2>1. PICK o, n, w, last :
                    /\ w = wsq[t] /\ last = typed[t]
                    /\ o = IF ws[t] = "open" THEN Append(output[t], Head(incoming[t])) ELSE output[t]
                    /\ n = Tail(incoming[t])
    OBVIOUS
  <2>2. /\ incoming[t] # <<>> /\ output' = [output EXCEPT ![t] = o]
        /\ incoming' = [incoming EXCEPT ![t] = n] /\ UNCHANGED <<typed, wsq>>
    BY <1>6, <2>1 DEF OnData
  <2>3. incoming[t] \in Seq(Command) /\ output[t] \in Seq(Command)
    BY <1>1 DEF TypeInv
  <2>4. o \in Seq(Command) /\ n \in Seq(Command)
    BY <2>1, <2>2, <2>3
  <2>5. \A q : Ordered(t, output[t], incoming[t], q, wsq[t], typed[t])
               => Ordered(t, o, n, q, w, last)
    BY <2>1, <2>2, Shows
  <2>6. wsq' = [wsq EXCEPT ![t] = w] /\ typed' = [typed EXCEPT ![t] = last]
    BY <1>1, <2>1, <2>2 DEF TypeInv
  <2>7. TypeInv'
    BY <1>1, <1>2, <2>2, <2>4 DEF TypeInv
  <2>8. Orders'
    BY <1>1, <1>4, <2>2, <2>5, <2>6, TabOrders
  <2> QED
    BY <1>3, <1>4, <2>7, <2>8 DEF IInv
<1> QED
  BY <1>5, <1>6

LEMMA ConnectedStep == ASSUME IInv, NEW t \in Tabs, Connected(t) PROVE IInv'
<1>1. TypeInv /\ Sockets /\ Lines /\ Orders
  BY DEF IInv
<1> DEFINE c == [tab |-> t, alive |-> TRUE, input |-> <<>>]
<1>2. /\ client[t] = "connecting" /\ client' = [client EXCEPT ![t] = "open"]
      /\ backlog' = Append(backlog, c)
      /\ UNCHANGED <<ws, typed, wsq, output, timers, incoming, session>>
  BY DEF Connected, tabVars
<1>3. c \in Connection
  BY NoCommands DEF Connection
<1>4. c.tab = t /\ c.alive /\ c.input = <<>>
  OBVIOUS
<1> HIDE DEF c
<1>5. PICK n \in Nat : n = Len(backlog) /\ DOMAIN backlog = 1 .. n
  BY <1>1 DEF TypeInv
<1>6. /\ backlog' \in Seq(Connection) /\ DOMAIN backlog' = 1 .. (n + 1) /\ backlog'[n + 1] = c
      /\ \A j \in 1 .. n : backlog'[j] = backlog[j]
  BY <1>1, <1>2, <1>3, <1>5 DEF TypeInv
<1>7. TypeInv' /\ Sockets'
  BY <1>1, <1>2, <1>6 DEF TypeInv, Sockets
<1>8. \A j \in 1 .. (n + 1) : j = n + 1 \/ j \in 1 .. n
  BY <1>5
<1>9. Held' \subseteq Held \cup {c}
  BY <1>2, <1>5, <1>6, <1>8 DEF Held
<1>10. \A d \in Held : ~IsOf(t, d)
  BY <1>1, <1>2 DEF Lines
<1>11. ASSUME NEW s \in Tabs
       PROVE  /\ \A j, k \in DOMAIN backlog' : IsOf(s, backlog'[j]) /\ IsOf(s, backlog'[k]) => j = k
              /\ \A j \in DOMAIN backlog', k \in DOMAIN session' :
                   ~(IsOf(s, backlog'[j]) /\ IsOf(s, session'[k]))
              /\ client'[s] # "open" => \A d \in Held' : ~IsOf(s, d)
  <2>1. CASE s = t
    <3>1. \A j \in 1 .. n : ~IsOf(s, backlog'[j])
      BY <1>5, <1>6, <1>10, <2>1 DEF Held
    <3>2. \A k \in DOMAIN session' : ~IsOf(s, session'[k])
      BY <1>2, <1>10, <2>1 DEF Held
    <3>3. client'[s] = "open"
      BY <1>1, <1>2, <2>1 DEF TypeInv
    <3> QED
      BY <1>6, <1>8, <3>1, <3>2, <3>3
  <2>2. CASE s # t
    <3>1. ~IsOf(s, c) /\ client'[s] = client[s]
      BY <1>1, <1>2, <1>4, <2>2 DEF IsOf, TypeInv
    <3> QED
      BY <1>1, <1>2, <1>5, <1>6, <1>8, <1>9, <3>1 DEF Lines
  <2> QED
    BY <2>1, <2>2
<1>12. Lines'
  BY <1>11 DEF Lines
<1>13. Orders'
  BY <1>1, <1>2, <1>4, <1>9, SameOrders
<1> QED
  BY <1>7, <1>12, <1>13 DEF IInv

\* The tab's end goes: none of its connections is left.
LEMMA CloseTabStep == ASSUME IInv, NEW t \in Tabs, CloseTab(t) PROVE IInv'
<1>1. TypeInv /\ Sockets /\ Lines /\ Orders
  BY DEF IInv
<1>2. /\ ws[t] = "open" /\ ws' = [ws EXCEPT ![t] = "closed"] /\ wsq' = [wsq EXCEPT ![t] = <<>>]
      /\ client' = [client EXCEPT ![t] = IF client[t] = "closed" THEN client[t] ELSE "closing"]
      /\ incoming' = [incoming EXCEPT ![t] = <<>>]
      /\ backlog' = Hangup(t, backlog) /\ session' = Hangup(t, session)
      /\ UNCHANGED <<typed, output, timers>>
  BY DEF CloseTab
<1>3. backlog \in Seq(Connection) /\ session \in Seq(Connection)
  BY <1>1 DEF TypeInv
<1>4. /\ backlog' \in Seq(Connection) /\ DOMAIN backlog' = DOMAIN backlog
      /\ \A j \in DOMAIN backlog :
           /\ backlog'[j].tab = backlog[j].tab /\ backlog'[j].input = backlog[j].input
           /\ backlog'[j].alive <=> backlog[j].alive /\ backlog[j].tab # t
  BY <1>2, <1>3, HangupIs
<1>5. /\ session' \in Seq(Connection) /\ DOMAIN session' = DOMAIN session
      /\ Len(session') = Len(session)
      /\ \A j \in DOMAIN session :
           /\ session'[j].tab = session[j].tab /\ session'[j].input = session[j].input
           /\ session'[j].alive <=> session[j].alive /\ session[j].tab # t
  BY <1>2, <1>3, HangupIs
<1>6. session' = <<>> \/ Len(session') = 1
  <2>1. CASE session = <<>>
    BY <1>3, <1>5, <2>1
  <2>2. CASE Len(session) = 1
    BY <1>5, <2>2
  <2> QED
    BY <1>1, <2>1, <2>2 DEF TypeInv
<1>7. TypeInv'
  BY <1>1, <1>2, <1>4, <1>5, <1>6, NoCommands DEF TypeInv
<1>8. Sockets'
  BY <1>1, <1>2 DEF TypeInv, Sockets
<1>9. \A d \in Held' : d.tab # t \/ ~d.alive
  BY <1>4, <1>5 DEF Held
<1>10. \A d \in Held' : d.alive => \E c \in Held : c.alive /\ c.tab = d.tab /\ c.input = d.input
  BY <1>4, <1>5 DEF Held
<1>11. Lines'
  <2> SUFFICES ASSUME NEW s \in Tabs
       PROVE  /\ \A j, k \in DOMAIN backlog' : IsOf(s, backlog'[j]) /\ IsOf(s, backlog'[k]) => j = k
              /\ \A j \in DOMAIN backlog', k \in DOMAIN session' :
                   ~(IsOf(s, backlog'[j]) /\ IsOf(s, session'[k]))
              /\ client'[s] # "open" => \A d \in Held' : ~IsOf(s, d)
    BY DEF Lines
  <2>1. \A j \in DOMAIN backlog : IsOf(s, backlog'[j]) => IsOf(s, backlog[j])
    BY <1>4 DEF IsOf
  <2>2. \A j \in DOMAIN session : IsOf(s, session'[j]) => IsOf(s, session[j])
    BY <1>5 DEF IsOf
  <2>3. client'[s] # "open" => \A d \in Held' : ~IsOf(s, d)
    <3>1. CASE s = t
      BY <1>9, <3>1 DEF IsOf
    <3>2. CASE s # t
      <4>1. client'[s] = client[s]
        BY <1>1, <1>2, <3>2 DEF TypeInv
      <4> QED
        BY <1>1, <1>10, <4>1 DEF Lines, IsOf
    <3> QED
      BY <3>1, <3>2
  <2> QED
    BY <1>1, <1>4, <1>5, <2>1, <2>2, <2>3 DEF Lines
<1>12. Orders'
  <2> SUFFICES ASSUME NEW s \in Tabs
       PROVE  /\ Ordered(s, output'[s], incoming'[s], <<>>, wsq'[s], typed'[s])
              /\ \A c \in Held' : IsOf(s, c) =>
                   Ordered(s, output'[s], incoming'[s], c.input, wsq'[s], typed'[s])
    BY DEF Orders
  <2>1. CASE s = t
    <3>1. incoming'[s] = <<>> /\ wsq'[s] = <<>> /\ output'[s] = output[s] /\ typed'[s] = typed[s]
      BY <1>1, <1>2, <2>1 DEF TypeInv
    <3>2. Ordered(s, output[s], <<>>, <<>>, <<>>, typed[s])
      BY <1>1, Drops DEF Orders
    <3> QED
      BY <1>9, <2>1, <3>1, <3>2 DEF IsOf
  <2>2. CASE s # t
    <3>1. incoming'[s] = incoming[s] /\ wsq'[s] = wsq[s] /\ output'[s] = output[s] /\ typed'[s] = typed[s]
      BY <1>1, <1>2, <2>2 DEF TypeInv
    <3>2. \A d \in Held' : IsOf(s, d) => \E c \in Held : IsOf(s, c) /\ c.input = d.input
      BY <1>10 DEF IsOf
    <3> QED
      BY <1>1, <3>1, <3>2 DEF Orders
  <2> QED
    BY <2>1, <2>2
<1> QED
  BY <1>7, <1>8, <1>11, <1>12 DEF IInv

LEMMA OnMessageStep == ASSUME IInv, NEW t \in Tabs, OnMessage(t) PROVE IInv'
<1>1. TypeInv /\ Sockets /\ Lines /\ Orders
  BY DEF IInv
<1>2. PICK cmd, w : cmd = Head(wsq[t]) /\ w = Tail(wsq[t])
  OBVIOUS
<1>3. /\ wsq[t] # <<>> /\ wsq' = [wsq EXCEPT ![t] = w]
      /\ UNCHANGED <<ws, typed, output, client, timers, incoming>>
  BY <1>2 DEF OnMessage, bridgeVars
<1>4. wsq[t] \in Seq(Command) /\ cmd \in Command /\ w \in Seq(Command)
  BY <1>1, <1>2, <1>3 DEF TypeInv
<1>5. backlog \in Seq(Connection) /\ session \in Seq(Connection)
  BY <1>1 DEF TypeInv
<1>6. Sockets'
  BY <1>1, <1>3 DEF Sockets
<1>7. ASSUME NEW s \in Tabs
      PROVE  /\ s = t => wsq'[s] = w
             /\ s # t => wsq'[s] = wsq[s]
             /\ output'[s] = output[s] /\ incoming'[s] = incoming[s] /\ typed'[s] = typed[s]
  BY <1>1, <1>3 DEF TypeInv
<1>8. ASSUME NEW q, Ordered(t, output[t], incoming[t], q, wsq[t], typed[t])
      PROVE  /\ Ordered(t, output[t], incoming[t], Append(q, cmd), w, typed[t])
             /\ Ordered(t, output[t], incoming[t], q, w, typed[t])
  BY <1>2, <1>3, <1>8, Passes
<1>9. \A s \in Tabs : Ordered(s, output'[s], incoming'[s], <<>>, wsq'[s], typed'[s])
  BY <1>1, <1>7, <1>8 DEF Orders
<1>10. CASE client[t] = "open"
  <2>1. backlog' = Write(t, cmd, backlog) /\ session' = Write(t, cmd, session)
    BY <1>2, <1>10 DEF OnMessage
  <2>2. /\ backlog' \in Seq(Connection) /\ DOMAIN backlog' = DOMAIN backlog
        /\ \A j \in DOMAIN backlog :
             /\ backlog'[j].tab = backlog[j].tab /\ backlog'[j].alive = backlog[j].alive
             /\ backlog'[j].input = IF IsOf(t, backlog[j]) THEN Append(backlog[j].input, cmd)
                                    ELSE backlog[j].input
    BY <1>4, <1>5, <2>1, WriteIs
  <2>3. /\ session' \in Seq(Connection) /\ DOMAIN session' = DOMAIN session
        /\ Len(session') = Len(session)
        /\ \A j \in DOMAIN session :
             /\ session'[j].tab = session[j].tab /\ session'[j].alive = session[j].alive
             /\ session'[j].input = IF IsOf(t, session[j]) THEN Append(session[j].input, cmd)
                                    ELSE session[j].input
    BY <1>4, <1>5, <2>1, WriteIs
  <2>4. session' = <<>> \/ Len(session') = 1
    <3>1. CASE session = <<>>
      BY <1>5, <2>3, <3>1
    <3>2. CASE Len(session) = 1
      BY <2>3, <3>2
    <3> QED
      BY <1>1, <3>1, <3>2 DEF TypeInv
  <2>5. TypeInv'
    BY <1>1, <1>3, <1>4, <2>2, <2>3, <2>4 DEF TypeInv
  <2>6. \A d \in Held' : \E c \in Held :
          /\ d.tab = c.tab /\ d.alive = c.alive
          /\ d.input = IF IsOf(t, c) THEN Append(c.input, cmd) ELSE c.input
    BY <2>2, <2>3 DEF Held
  <2>7. /\ \A s : \A j \in DOMAIN backlog : IsOf(s, backlog'[j]) <=> IsOf(s, backlog[j])
        /\ \A s : \A j \in DOMAIN session : IsOf(s, session'[j]) <=> IsOf(s, session[j])
    BY <2>2, <2>3 DEF IsOf
  <2>8. \A s \in Tabs : client'[s] # "open" => \A d \in Held' : ~IsOf(s, d)
    BY <1>1, <1>3, <2>6 DEF Lines, IsOf
  <2>9. Lines'
    <3> SUFFICES ASSUME NEW s \in Tabs
         PROVE  /\ \A j, k \in DOMAIN backlog' : IsOf(s, backlog'[j]) /\ IsOf(s, backlog'[k]) => j = k
                /\ \A j \in DOMAIN backlog', k \in DOMAIN session' :
                     ~(IsOf(s, backlog'[j]) /\ IsOf(s, session'[k]))
      BY <2>8 DEF Lines
    <3> QED
      BY <1>1, <2>2, <2>3, <2>7 DEF Lines
  <2>10. ASSUME NEW s \in Tabs, NEW d \in Held', IsOf(s, d)
         PROVE  Ordered(s, output'[s], incoming'[s], d.input, wsq'[s], typed'[s])
    <3>1. PICK c \in Held : /\ d.tab = c.tab /\ d.alive = c.alive
                            /\ d.input = IF IsOf(t, c) THEN Append(c.input, cmd) ELSE c.input
      BY <2>6
    <3>2. IsOf(s, c) /\ Ordered(s, output[s], incoming[s], c.input, wsq[s], typed[s])
      BY <1>1, <2>10, <3>1 DEF IsOf, Orders
    <3>3. CASE s = t
      BY <1>7, <1>8, <3>1, <3>2, <3>3
    <3>4. CASE s # t
      <4>1. ~IsOf(t, c)
        BY <3>2, <3>4 DEF IsOf
      <4> QED
        BY <1>7, <3>1, <3>2, <3>4, <4>1
    <3> QED
      BY <3>3, <3>4
  <2>11. Orders'
    BY <1>9, <2>10 DEF Orders
  <2> QED
    BY <1>6, <2>5, <2>9, <2>11 DEF IInv
<1>11. CASE client[t] # "open"
  <2>1. UNCHANGED <<backlog, session>>
    BY <1>11 DEF OnMessage
  <2>2. TypeInv'
    BY <1>1, <1>3, <1>4, <2>1 DEF TypeInv
  <2>3. Lines' /\ Held' = Held
    BY <1>1, <1>3, <2>1, SameLines
  <2>4. ASSUME NEW s \in Tabs, NEW d \in Held', IsOf(s, d)
        PROVE  Ordered(s, output'[s], incoming'[s], d.input, wsq'[s], typed'[s])
    <3>1. s # t
      BY <1>1, <1>11, <2>3, <2>4 DEF Lines
    <3> QED
      BY <1>1, <1>7, <2>3, <2>4, <3>1 DEF Orders
  <2>5. Orders'
    BY <1>9, <2>4 DEF Orders
  <2> QED
    BY <1>6, <2>2, <2>3, <2>5 DEF IInv
<1> QED
  BY <1>10, <1>11

\* A session that begins, ends with the input, or goes with the process.
LEMMA SessionStep == ASSUME IInv, Accept \/ EndOfInput \/ Dies PROVE IInv'
<1>1. TypeInv /\ Sockets /\ Lines /\ Orders
  BY DEF IInv
<1>2. UNCHANGED <<ws, typed, wsq, output, client, timers, incoming>>
  BY DEF Accept, EndOfInput, Dies, tabVars, bridgeVars
<1>3. Sockets'
  BY <1>1, <1>2 DEF Sockets
<1>4. \A d \in Held' : d \in Held
  <2>1. CASE Accept
    <3>1. /\ backlog \in Seq(Connection) /\ backlog # <<>> /\ backlog' = Tail(backlog)
          /\ session' = <<Head(backlog)>>
      BY <1>1, <2>1 DEF Accept, TypeInv
    <3>2. /\ \A j \in DOMAIN backlog' : j + 1 \in DOMAIN backlog /\ backlog'[j] = backlog[j + 1]
          /\ \A j \in DOMAIN session' : session'[j] = backlog[1]
          /\ 1 \in DOMAIN backlog
      BY <3>1
    <3> QED
      BY <3>2 DEF Held
  <2>2. CASE EndOfInput
    <3>1. backlog' = backlog /\ DOMAIN session' = {}
      BY <2>2 DEF EndOfInput
    <3> QED
      BY <3>1 DEF Held
  <2>3. CASE Dies
    <3>1. DOMAIN backlog' = {} /\ DOMAIN session' = {}
      BY <2>3 DEF Dies
    <3> QED
      BY <3>1 DEF Held
  <2> QED
    BY <2>1, <2>2, <2>3
<1>5. TypeInv'
  <2>1. backlog' \in Seq(Connection) /\ session' \in Seq(Connection)
    <3>1. backlog \in Seq(Connection) /\ session \in Seq(Connection) /\ <<>> \in Seq(Connection)
      BY <1>1, NoCommands DEF TypeInv
    <3>2. CASE Accept
      <4>1. backlog # <<>> /\ backlog' = Tail(backlog) /\ session' = <<Head(backlog)>>
        BY <3>2 DEF Accept
      <4>2. Head(backlog) \in Connection
        BY <3>1, <4>1
      <4> QED
        BY <3>1, <4>1, <4>2
    <3>3. CASE EndOfInput \/ Dies
      BY <3>1, <3>3 DEF EndOfInput, Dies
    <3> QED
      BY <3>2, <3>3
  <2>2. session' = <<>> \/ Len(session') = 1
    BY DEF Accept, EndOfInput, Dies
  <2> QED
    BY <1>1, <1>2, <2>1, <2>2 DEF TypeInv
<1>6. ASSUME NEW s \in Tabs
      PROVE  /\ \A j, k \in DOMAIN backlog' : IsOf(s, backlog'[j]) /\ IsOf(s, backlog'[k]) => j = k
             /\ \A j \in DOMAIN backlog', k \in DOMAIN session' :
                  ~(IsOf(s, backlog'[j]) /\ IsOf(s, session'[k]))
  <2>1. CASE Accept
    <3>1. /\ backlog \in Seq(Connection) /\ backlog # <<>> /\ backlog' = Tail(backlog)
          /\ session' = <<Head(backlog)>>
      BY <1>1, <2>1 DEF Accept, TypeInv
    <3>2. PICK n \in Nat : n = Len(backlog) /\ DOMAIN backlog = 1 .. n /\ n > 0
      BY <3>1
    <3>3. /\ DOMAIN backlog' = 1 .. (n - 1)
          /\ \A j \in 1 .. (n - 1) : backlog'[j] = backlog[j + 1]
          /\ \A j \in DOMAIN session' : session'[j] = backlog[1]
      BY <3>1, <3>2
    <3>4. \A j, k \in 1 .. n : IsOf(s, backlog[j]) /\ IsOf(s, backlog[k]) => j = k
      BY <1>1, <3>2 DEF Lines
    <3>5. \A j \in 1 .. (n - 1) : j + 1 \in 1 .. n /\ 1 \in 1 .. n /\ j + 1 # 1
      BY <3>2
    <3>6. ASSUME NEW j \in 1 .. (n - 1), NEW k \in 1 .. (n - 1),
                 IsOf(s, backlog[j + 1]), IsOf(s, backlog[k + 1])
          PROVE  j = k
      <4>1. j + 1 = k + 1
        BY <3>4, <3>5, <3>6
      <4> QED
        BY <4>1
    <3> QED
      BY <3>3, <3>4, <3>5, <3>6
  <2>2. CASE EndOfInput
    <3>1. backlog' = backlog /\ DOMAIN session' = {}
      BY <2>2 DEF EndOfInput
    <3> QED
      BY <1>1, <3>1 DEF Lines
  <2>3. CASE Dies
    <3>1. DOMAIN backlog' = {} /\ DOMAIN session' = {}
      BY <2>3 DEF Dies
    <3> QED
      BY <3>1
  <2> QED
    BY <2>1, <2>2, <2>3
<1>7. \A s \in Tabs : client'[s] # "open" => \A d \in Held' : ~IsOf(s, d)
  BY <1>1, <1>2, <1>4 DEF Lines
<1>8. Lines'
  BY <1>6, <1>7 DEF Lines
<1>9. Orders'
  BY <1>1, <1>2, <1>4, SameOrders
<1> QED
  BY <1>3, <1>5, <1>8, <1>9 DEF IInv

\* A command is read; the answer goes to the tab whose connection is served.
LEMMA InteractStep == ASSUME IInv, cmdline_interact PROVE IInv'
<1>1. TypeInv /\ Sockets /\ Lines /\ Orders
  BY DEF IInv
<1>2. PICK c : c = session[1]
  OBVIOUS
<1>3. /\ session \in Seq(Connection) /\ session # <<>> /\ Len(session) = 1 /\ DOMAIN session = {1}
      /\ c \in Connection /\ c.input # <<>>
  BY <1>1, <1>2 DEF cmdline_interact, TypeInv
<1>4. c.tab \in Tabs /\ c.alive \in BOOLEAN /\ c.input \in Seq(Command)
  BY <1>3 DEF Connection
<1>5. PICK t, cmd, q, e : /\ t = c.tab /\ cmd = Head(c.input) /\ q = Tail(c.input)
                          /\ e = [c EXCEPT !.input = q]
  OBVIOUS
<1>6. /\ incoming' = IF c.alive THEN [incoming EXCEPT ![t] = Append(@, cmd)] ELSE incoming
      /\ session' = IF cmd.name = "exit" THEN <<>> ELSE [session EXCEPT ![1].input = Tail(@)]
      /\ UNCHANGED <<ws, typed, wsq, output, client, timers, backlog>>
  BY <1>2, <1>5 DEF cmdline_interact, tabVars, bridgeVars
<1>7. t \in Tabs /\ cmd \in Command /\ q \in Seq(Command)
  BY <1>3, <1>4, <1>5
<1>8. e \in Connection /\ e.tab = t /\ e.alive = c.alive /\ e.input = q
  BY <1>3, <1>5, <1>7 DEF Connection
<1>9. session' = <<>> \/ session' = <<e>>
  <2>1. session = <<c>>
    BY <1>2, <1>3
  <2>2. [session EXCEPT ![1].input = Tail(@)] = [session EXCEPT ![1] = [session[1] EXCEPT !.input = Tail(session[1].input)]]
    OBVIOUS
  <2>3. [session EXCEPT ![1].input = Tail(@)] = [session EXCEPT ![1] = e]
    BY <1>2, <1>5, <2>2
  <2>4. [session EXCEPT ![1] = e] = <<e>>
    BY <2>1
  <2> QED
    BY <1>6, <2>3, <2>4
<1>10. session' \in Seq(Connection) /\ (session' = <<>> \/ Len(session') = 1)
  <2>1. <<>> \in Seq(Connection) /\ <<e>> \in Seq(Connection) /\ Len(<<e>>) = 1
    BY <1>8
  <2> QED
    BY <1>9, <2>1
<1>11. incoming[t] \in Seq(Command) /\ Append(incoming[t], cmd) \in Seq(Command)
  BY <1>1, <1>7 DEF TypeInv
<1>12. TypeInv'
  BY <1>1, <1>6, <1>10, <1>11 DEF TypeInv
<1>13. Sockets'
  BY <1>1, <1>6 DEF Sockets
<1>14. \A j \in DOMAIN session' : session'[j] = e
  BY <1>9
<1>15. /\ \A d \in Held' : d = e \/ \E j \in DOMAIN backlog : d = backlog[j]
       /\ c \in Held /\ \A j \in DOMAIN backlog : backlog[j] \in Held
  BY <1>2, <1>3, <1>6, <1>14 DEF Held
<1>16. \A s : IsOf(s, e) <=> IsOf(s, c)
  BY <1>5, <1>8 DEF IsOf
<1>17. Lines'
  <2> SUFFICES ASSUME NEW s \in Tabs
       PROVE  /\ \A j, k \in DOMAIN backlog' : IsOf(s, backlog'[j]) /\ IsOf(s, backlog'[k]) => j = k
              /\ \A j \in DOMAIN backlog', k \in DOMAIN session' :
                   ~(IsOf(s, backlog'[j]) /\ IsOf(s, session'[k]))
              /\ client'[s] # "open" => \A d \in Held' : ~IsOf(s, d)
    BY DEF Lines
  <2>1. \A j \in DOMAIN backlog : ~(IsOf(s, backlog[j]) /\ IsOf(s, c))
    BY <1>1, <1>2, <1>3 DEF Lines
  <2>2. \A j \in DOMAIN backlog', k \in DOMAIN session' :
          ~(IsOf(s, backlog'[j]) /\ IsOf(s, session'[k]))
    BY <1>6, <1>14, <1>16, <2>1
  <2>3. client'[s] # "open" => \A d \in Held' : ~IsOf(s, d)
    BY <1>1, <1>6, <1>15, <1>16 DEF Lines
  <2> QED
    BY <1>1, <1>6, <2>2, <2>3 DEF Lines
<1>18. ASSUME NEW s \in Tabs, s # t \/ ~c.alive
       PROVE  /\ Ordered(s, output'[s], incoming'[s], <<>>, wsq'[s], typed'[s])
              /\ \A d \in Held' : IsOf(s, d) =>
                   Ordered(s, output'[s], incoming'[s], d.input, wsq'[s], typed'[s])
  <2>1. incoming'[s] = incoming[s]
    BY <1>1, <1>6, <1>18 DEF TypeInv
  <2>2. \A d \in Held' : IsOf(s, d) => d \in Held
    BY <1>5, <1>8, <1>15, <1>18 DEF IsOf
  <2> QED
    BY <1>1, <1>6, <2>1, <2>2 DEF Orders
<1>19. ASSUME c.alive
       PROVE  /\ Ordered(t, output'[t], incoming'[t], <<>>, wsq'[t], typed'[t])
              /\ \A d \in Held' : IsOf(t, d) =>
                   Ordered(t, output'[t], incoming'[t], d.input, wsq'[t], typed'[t])
  <2>1. incoming'[t] = Append(incoming[t], cmd)
    BY <1>1, <1>6, <1>7, <1>19 DEF TypeInv
  <2>2. IsOf(t, c) /\ Ordered(t, output[t], incoming[t], c.input, wsq[t], typed[t])
    BY <1>1, <1>5, <1>7, <1>15, <1>19 DEF IsOf, Orders
  <2>3. /\ Ordered(t, output[t], Append(incoming[t], cmd), q, wsq[t], typed[t])
        /\ Ordered(t, output[t], Append(incoming[t], cmd), <<>>, wsq[t], typed[t])
    BY <1>3, <1>5, <2>2, Answers
  <2>4. \A d \in Held' : IsOf(t, d) => d = e
    <3>1. \A j \in DOMAIN backlog : ~IsOf(t, backlog[j])
      BY <1>1, <1>2, <1>3, <1>7, <2>2 DEF Lines
    <3> QED
      BY <1>15, <3>1
  <2> QED
    BY <1>6, <1>8, <2>1, <2>3, <2>4
<1>20. Orders'
  <2>1. ASSUME NEW s \in Tabs
        PROVE  /\ Ordered(s, output'[s], incoming'[s], <<>>, wsq'[s], typed'[s])
               /\ \A d \in Held' : IsOf(s, d) =>
                    Ordered(s, output'[s], incoming'[s], d.input, wsq'[s], typed'[s])
    <3>1. CASE s # t \/ ~c.alive
      BY <1>18, <3>1
    <3>2. CASE s = t /\ c.alive
      BY <1>19, <3>2
    <3> QED
      BY <3>1, <3>2
  <2> QED
    BY <2>1 DEF Orders
<1> QED
  BY <1>12, <1>13, <1>17, <1>20 DEF IInv

LEMMA StepHolds == IInv /\ [CliNext]_cliVars => IInv'
<1> SUFFICES ASSUME IInv, [CliNext]_cliVars PROVE IInv'
  OBVIOUS
<1>1. CASE UNCHANGED cliVars
  <2>1. UNCHANGED <<ws, typed, wsq, output, client, timers, incoming, up, backlog, session>>
    BY <1>1 DEF cliVars, tabVars, bridgeVars, serverVars
  <2>2. TypeInv' /\ Sockets'
    BY <2>1 DEF IInv, TypeInv, Sockets
  <2>3. Lines' /\ Held' = Held
    BY <2>1, SameLines DEF IInv
  <2>4. Orders'
    BY <2>1, <2>3, SameOrders DEF IInv
  <2> QED
    BY <2>2, <2>3, <2>4 DEF IInv
<1>2. ASSUME NEW t \in Tabs, OpenTab(t) \/ sendCommand(t) \/ CloseTab(t) \/ Bridge(t) PROVE IInv'
  BY <1>2, QuietStep, QueueStep, ConnectedStep, CloseTabStep, OnMessageStep DEF Bridge
<1>3. CASE Server \/ Dies
  BY <1>3, SessionStep, InteractStep DEF Server
<1>4. CASE Start
  <2>1. CASE \E t : t \in Tabs
    BY <1>4, <2>1, QuietStep
  <2>2. CASE ~\E t : t \in Tabs
    <3>1. UNCHANGED <<ws, typed, wsq, output, client, timers, incoming, backlog, session>>
      BY <1>4 DEF Start, tabVars, bridgeVars
    <3>2. TypeInv'
      BY <3>1 DEF IInv, TypeInv
    <3> QED
      BY <2>2, <3>2 DEF IInv, Sockets, Lines, Orders
  <2> QED
    BY <2>1, <2>2
<1> QED
  BY <1>1, <1>2, <1>3, <1>4 DEF CliNext

THEOREM Invariance == CliSpec => []IInv
BY InitHolds, StepHolds, PTL DEF CliSpec

-----------------------------------------------------------------------------
\* server.js: a tab has one attempt to connect under way and never two, and at
\* most one connection that is alive, for any number of tabs, any backlog and any
\* sequence of refusals, losses and restarts.
THEOREM SingleAttempt == CliSpec => []OneAttempt
<1>1. IInv => OneAttempt
  <2> SUFFICES ASSUME IInv, NEW t \in Tabs
               PROVE  /\ ws[t] # "new" =>
                           timers[t] + (IF client[t] \in {"connecting", "open", "closing"}
                                        THEN 1 ELSE 0) = 1
                      /\ Cardinality(Connections(t)) <= (IF client[t] = "open" THEN 1 ELSE 0)
    BY DEF OneAttempt
  <2>1. TypeInv /\ Sockets /\ Lines
    BY DEF IInv
  <2>2. ASSUME NEW p \in Connections(t) PROVE client[t] = "open"
    <3>1. \E c \in Held : IsOf(t, c)
      BY <2>2 DEF Connections, Held
    <3> QED
      BY <2>1, <3>1 DEF Lines
  <2>3. ASSUME NEW p \in Connections(t), NEW r \in Connections(t) PROVE p = r
    <3>1. /\ session \in Seq(Connection) /\ (session = <<>> \/ Len(session) = 1)
      BY <2>1 DEF TypeInv
    <3>2. \A j, k \in DOMAIN session : j = k
      BY <3>1
    <3>3. /\ \A j, k \in DOMAIN backlog : IsOf(t, backlog[j]) /\ IsOf(t, backlog[k]) => j = k
          /\ \A j \in DOMAIN backlog, k \in DOMAIN session :
               ~(IsOf(t, backlog[j]) /\ IsOf(t, session[k]))
      BY <2>1 DEF Lines
    <3>4. ASSUME NEW x \in Connections(t)
          PROVE  \/ \E j \in DOMAIN backlog : x = <<"backlog", j>> /\ IsOf(t, backlog[j])
                 \/ \E j \in DOMAIN session : x = <<"session", j>> /\ IsOf(t, session[j])
      BY <3>4 DEF Connections
    <3> QED
      BY <3>2, <3>3, <3>4
  <2>4. Cardinality({}) = 0 /\ \A p : Cardinality({p}) = 1
    BY FS_EmptySet, FS_Singleton
  <2>5. CASE Connections(t) = {}
    BY <2>1, <2>4, <2>5 DEF Sockets
  <2>6. CASE Connections(t) # {}
    <3>1. PICK p : p \in Connections(t)
      BY <2>6
    <3>2. Connections(t) = {p}
      BY <2>3, <3>1
    <3>3. client[t] = "open"
      BY <2>2, <3>1
    <3>4. Cardinality(Connections(t)) <= (IF client[t] = "open" THEN 1 ELSE 0)
      <4>1. Cardinality(Connections(t)) = 1
        BY <2>4, <3>2
      <4> QED
        BY <3>3, <4>1
    <3>5. ws[t] # "new" =>
            timers[t] + (IF client[t] \in {"connecting", "open", "closing"} THEN 1 ELSE 0) = 1
      BY <2>1 DEF Sockets
    <3> QED
      BY <3>4, <3>5
  <2> QED
    BY <2>5, <2>6
<1> QED
  BY <1>1, Invariance, PTL

\* A tab is shown answers to its own commands, each once and in the order of the
\* commands, across all its connections.
THEOREM AnswersAreOwn == CliSpec => []OwnAnswers
<1>1. IInv => OwnAnswers
  <2> SUFFICES ASSUME IInv, NEW t \in Tabs
               PROVE  /\ \A j \in DOMAIN output[t] : output[t][j].tab = t
                      /\ \A j \in 2 .. Len(output[t]) : output[t][j - 1].number < output[t][j].number
    BY DEF OwnAnswers
  <2>1. output[t] \in Seq(Of(t)) /\ Rising(output[t])
    BY DEF IInv, Orders, Ordered
  <2>2. \A j \in DOMAIN output[t] : output[t][j] \in Of(t)
    BY <2>1
  <2>3. \A d \in Of(t) : d.tab = t
    BY DEF Of
  <2>4. PICK n \in Nat : n = Len(output[t]) /\ DOMAIN output[t] = 1 .. n
    BY <2>1
  <2>5. \A j \in 2 .. n : j - 1 \in 1 .. n /\ j \in 1 .. n /\ j - 1 < j
    BY <2>4
  <2> QED
    BY <2>1, <2>2, <2>3, <2>4, <2>5 DEF Rising
<1> QED
  BY <1>1, Invariance, PTL

=============================================================================
