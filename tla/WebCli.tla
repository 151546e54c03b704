------------------------------- MODULE WebCli -------------------------------
(***************************************************************************)
(* The web CLI: browser tabs (App.jsx) talk over WebSockets to a bridge    *)
(* (server.js), which has a TCP socket for each of them to the command     *)
(* line of a DPDK process (socket_cli), and connects it again whenever it  *)
(* is closed.  The process serves one connection at a time; it dies of     *)
(* SIGPIPE when it writes to a connection that is gone, and may be started *)
(* again.                                                                  *)
(*                                                                         *)
(* A connection is a record of its tab, whether the bridge's end is open,  *)
(* and the commands that have not been read.                               *)
(***************************************************************************)
EXTENDS Integers, Sequences, FiniteSets

CONSTANTS
  Tabs,
  MaxCommands,    \* bound: commands that a tab sends
  Backlog         \* connections that wait to be accepted (listen)

VARIABLES
  ws,             \* tab -> "new", "open" or "closed"
  typed, wsq,     \* tab -> commands sent; those on their way to the bridge
  output,         \* tab -> the commands whose answers it has shown
  client,         \* tab -> "none", "connecting", "open", "closing" (close to come), "closed"
  timers,         \* tab -> calls of connectDPDK to come
  incoming,       \* tab -> answers on their way to the bridge
  up,             \* the process runs
  backlog,        \* connections not yet accepted
  session         \* the connection served, as a sequence of at most one

tabVars == <<ws, typed, wsq, output>>
bridgeVars == <<client, timers>>
serverVars == <<up, backlog, session>>
cliVars == <<tabVars, bridgeVars, incoming, serverVars>>

CliInit ==
  /\ ws = [t \in Tabs |-> "new"]
  /\ typed = [t \in Tabs |-> 0] /\ wsq = [t \in Tabs |-> <<>>]
  /\ output = [t \in Tabs |-> <<>>]
  /\ client = [t \in Tabs |-> "none"] /\ timers = [t \in Tabs |-> 0]
  /\ incoming = [t \in Tabs |-> <<>>]
  /\ up \in BOOLEAN /\ backlog = <<>> /\ session = <<>>

-----------------------------------------------------------------------------
(* The tabs                                                                *)

\* The component is mounted; the bridge calls connectDPDK for the connection.
OpenTab(t) ==
  /\ ws[t] = "new"
  /\ ws' = [ws EXCEPT ![t] = "open"]
  /\ client' = [client EXCEPT ![t] = "connecting"]
  /\ UNCHANGED <<typed, wsq, output, timers, incoming, serverVars>>

sendCommand(t) ==
  /\ ws[t] = "open" /\ typed[t] < MaxCommands
  /\ typed' = [typed EXCEPT ![t] = @ + 1]
  /\ \E name \in {"hello", "exit"} :
       wsq' = [wsq EXCEPT ![t] = Append(@, [name |-> name, tab |-> t, number |-> typed'[t]])]
  /\ UNCHANGED <<ws, output, bridgeVars, incoming, serverVars>>

-----------------------------------------------------------------------------
(* The network                                                             *)

\* The bridge's end of a tab's connection, in the backlog or in the session.
IsOf(t, c) == c.tab = t /\ c.alive
Connections(t) ==
  {<<"backlog", k>> : k \in {j \in DOMAIN backlog : IsOf(t, backlog[j])}}
    \cup {<<"session", k>> : k \in {j \in DOMAIN session : IsOf(t, session[j])}}

\* The bridge's end is closed, or written to.
Hangup(t, conns) == [k \in DOMAIN conns |-> IF IsOf(t, conns[k]) THEN [conns[k] EXCEPT !.alive = FALSE] ELSE conns[k]]
Write(t, cmd, conns) == [k \in DOMAIN conns |-> IF IsOf(t, conns[k]) THEN [conns[k] EXCEPT !.input = Append(@, cmd)] ELSE conns[k]]

-----------------------------------------------------------------------------
(* The bridge                                                              *)

\* The connection is made, at the latest when there is room in the backlog.
Connected(t) ==
  /\ client[t] = "connecting" /\ up /\ Len(backlog) < Backlog
  /\ client' = [client EXCEPT ![t] = "open"]
  /\ backlog' = Append(backlog, [tab |-> t, alive |-> TRUE, input |-> <<>>])
  /\ UNCHANGED <<tabVars, timers, incoming, up, session>>

\* Faulty variant of ConnectFails: the handler of the error connects again too.
ConnectFails_Retry(t) ==
  /\ client[t] = "connecting" /\ (~up \/ Len(backlog) = Backlog)
  /\ client' = [client EXCEPT ![t] = "closing"]
  /\ timers' = [timers EXCEPT ![t] = @ + 1]
  /\ UNCHANGED <<tabVars, incoming, serverVars>>

\* Nobody listens, or the attempt times out; the error is only reported.
ConnectFails(t) ==
  /\ client[t] = "connecting" /\ (~up \/ Len(backlog) = Backlog)
  /\ client' = [client EXCEPT ![t] = "closing"]
  /\ UNCHANGED <<tabVars, timers, incoming, serverVars>>

\* The other end has closed the connection, and all it wrote has been read.
PeerCloses(t) ==
  /\ client[t] = "open" /\ Connections(t) = {} /\ incoming[t] = <<>>
  /\ client' = [client EXCEPT ![t] = "closing"]
  /\ UNCHANGED <<tabVars, timers, incoming, serverVars>>

\* client.on('close'): whether or not the tab is still there.
OnClose(t) ==
  /\ client[t] = "closing"
  /\ client' = [client EXCEPT ![t] = "closed"]
  /\ timers' = [timers EXCEPT ![t] = @ + 1]
  /\ UNCHANGED <<tabVars, incoming, serverVars>>

\* setTimeout(connectDPDK, 1000)
connectDPDK(t) ==
  /\ timers[t] > 0
  /\ timers' = [timers EXCEPT ![t] = @ - 1]
  /\ client' = [client EXCEPT ![t] = "connecting"]
  /\ UNCHANGED <<tabVars, incoming, serverVars>>

\* Faulty variant of OnData: answers go to every tab.
OnData_Broadcast(t) ==
  /\ client[t] = "open" /\ incoming[t] # <<>>
  /\ output' = [s \in Tabs |-> IF ws[s] = "open" THEN Append(output[s], Head(incoming[t])) ELSE output[s]]
  /\ incoming' = [incoming EXCEPT ![t] = Tail(@)]
  /\ UNCHANGED <<ws, typed, wsq, bridgeVars, serverVars>>

\* client.on('data'); what is sent to a tab that is gone is dropped.
OnData(t) ==
  /\ client[t] = "open" /\ incoming[t] # <<>>
  /\ output' = [output EXCEPT ![t] = IF ws[t] = "open" THEN Append(@, Head(incoming[t])) ELSE @]
  /\ incoming' = [incoming EXCEPT ![t] = Tail(@)]
  /\ UNCHANGED <<ws, typed, wsq, bridgeVars, serverVars>>

\* ws.on('message'): a command is written to an open socket, or the tab is told
\* that there is none.
OnMessage(t) ==
  /\ wsq[t] # <<>>
  /\ wsq' = [wsq EXCEPT ![t] = Tail(@)]
  /\ IF client[t] = "open"
     THEN /\ backlog' = Write(t, Head(wsq[t]), backlog)
          /\ session' = Write(t, Head(wsq[t]), session)
     ELSE UNCHANGED <<backlog, session>>
  /\ UNCHANGED <<ws, typed, output, bridgeVars, incoming, up>>

\* The tab goes away, and ws.on('close') destroys the socket: a closed one stays
\* as it is, for any other the close is to come.
CloseTab(t) ==
  /\ ws[t] = "open"
  /\ ws' = [ws EXCEPT ![t] = "closed"]
  /\ wsq' = [wsq EXCEPT ![t] = <<>>]
  /\ client' = [client EXCEPT ![t] = IF @ = "closed" THEN @ ELSE "closing"]
  /\ incoming' = [incoming EXCEPT ![t] = <<>>]
  /\ backlog' = Hangup(t, backlog) /\ session' = Hangup(t, session)
  /\ UNCHANGED <<typed, output, timers, up>>

-----------------------------------------------------------------------------
(* The command line of the DPDK process                                    *)

Accept ==
  /\ up /\ session = <<>> /\ backlog # <<>>
  /\ session' = <<Head(backlog)>> /\ backlog' = Tail(backlog)
  /\ UNCHANGED <<tabVars, bridgeVars, incoming, up>>

\* A command is read and answered; exit ends the session and closes the socket,
\* with whatever is left in it.
cmdline_interact ==
  /\ up /\ session # <<>> /\ session[1].input # <<>>
  /\ LET t == session[1].tab
         cmd == Head(session[1].input)
     IN  /\ incoming' = IF session[1].alive THEN [incoming EXCEPT ![t] = Append(@, cmd)]
                        ELSE incoming
         /\ session' = IF cmd.name = "exit" THEN <<>>
                       ELSE [session EXCEPT ![1].input = Tail(@)]
  /\ UNCHANGED <<tabVars, bridgeVars, up, backlog>>

\* Faulty variant of EndOfInput: the end of the input is not noticed.
EndOfInput_Ignored ==
  /\ up /\ session # <<>> /\ ~session[1].alive /\ session[1].input # <<>>
  /\ session' = <<>>
  /\ UNCHANGED <<tabVars, bridgeVars, incoming, up, backlog>>

\* The other end has gone and everything has been read.
EndOfInput ==
  /\ up /\ session # <<>> /\ ~session[1].alive /\ session[1].input = <<>>
  /\ session' = <<>>
  /\ UNCHANGED <<tabVars, bridgeVars, incoming, up, backlog>>

\* SIGPIPE, in a write to a connection whose other end has gone.
Dies ==
  /\ up /\ session # <<>> /\ ~session[1].alive
  /\ up' = FALSE /\ backlog' = <<>> /\ session' = <<>>
  /\ UNCHANGED <<tabVars, bridgeVars, incoming>>

Start ==
  /\ ~up /\ up' = TRUE
  /\ UNCHANGED <<tabVars, bridgeVars, incoming, backlog, session>>

-----------------------------------------------------------------------------
Bridge(t) ==
  \/ Connected(t) \/ ConnectFails(t) \/ PeerCloses(t) \/ OnClose(t) \/ connectDPDK(t)
  \/ OnData(t) \/ OnMessage(t)
Server == Accept \/ cmdline_interact \/ EndOfInput
CliNext == (\E t \in Tabs : OpenTab(t) \/ sendCommand(t) \/ CloseTab(t) \/ Bridge(t))
        \/ Server \/ Dies \/ Start

\* The bridge and the server run; an attempt to connect succeeds if it can again
\* and again.  Nobody has to type, to close a tab or to start the server.
CliSpec ==
  /\ CliInit /\ [][CliNext]_cliVars
  /\ \A t \in Tabs : WF_cliVars(Bridge(t)) /\ SF_cliVars(Connected(t))
  /\ WF_cliVars(Server)

-----------------------------------------------------------------------------
\* However connections are refused, lost and closed from either side, a tab has
\* one attempt under way and never two: a socket that is in use, one whose close
\* is to come, or a timer; and at most one connection at the server that is not
\* dead.  This goes on for a tab that is gone.
OneAttempt ==
  \A t \in Tabs :
    /\ ws[t] # "new" =>
         timers[t] + (IF client[t] \in {"connecting", "open", "closing"} THEN 1 ELSE 0) = 1
    /\ Cardinality(Connections(t)) <= (IF client[t] = "open" THEN 1 ELSE 0)

\* A tab sees answers to its own commands only, in the order in which it sent
\* them and none twice, across any number of connections.
OwnAnswers ==
  \A t \in Tabs :
    /\ \A j \in DOMAIN output[t] : output[t][j].tab = t
    /\ \A j \in 2 .. Len(output[t]) : output[t][j - 1].number < output[t][j].number

\* A socket that was lost is opened again, unless the server is down or its
\* backlog full; and the server takes the next connection when one ends: a tab
\* that has gone does not occupy it, until its ghost has connected again.
GoesOn ==
  /\ \A t \in Tabs : client[t] = "closing" ~> (client[t] = "open" \/ ~up \/ Len(backlog) = Backlog)
  /\ \A t \in Tabs : (session # <<>> /\ session[1].tab = t /\ ~session[1].alive)
                       ~> (session = <<>> \/ session[1].alive)
  /\ (session = <<>> /\ backlog # <<>>) ~> (session # <<>> \/ ~up)

=============================================================================
