------------------------------ MODULE MCChains ------------------------------
(***************************************************************************)
(* The programs that hand things on along a chain of actors which run and  *)
(* stop on their own: the three lcores of the packet pipeline              *)
(* (ThreadedPipeline), and browser, bridge and server of the web CLI       *)
(* (WebCli).  A behaviour runs one of them, chosen at the start.           *)
(***************************************************************************)
EXTENDS ThreadedPipeline, WebCli

VARIABLE program      \* "pipeline" or "cli"

allVars == <<vars, cliVars, program>>

Pipeline == program = "pipeline" /\ UNCHANGED <<cliVars, program>>
Cli == program = "cli" /\ UNCHANGED <<vars, program>>

InitAll ==
  /\ Init /\ CliInit
  /\ program \in {"pipeline", "cli"}
  /\ program = "pipeline" => ~up

RunRx == Pipeline /\ rx_loop
RunParser == Pipeline /\ parser_loop
RunTx == Pipeline /\ tx_loop
RunTab(t) == Cli /\ (OpenTab(t) \/ sendCommand(t) \/ CloseTab(t))
RunBridge(t) == Cli /\ Bridge(t)
RunConnected(t) == Cli /\ Connected(t)
RunServer == Cli /\ Server
Environment == Cli /\ (Dies \/ Start)

\* The fairness of both components: each loop has an lcore of its own, the
\* bridge and the server run, and an attempt to connect succeeds if it can again
\* and again.
SpecAll ==
  /\ InitAll
  /\ [][\/ RunRx \/ RunParser \/ RunTx \/ RunServer \/ Environment
        \/ \E t \in Tabs : RunTab(t) \/ RunBridge(t)]_allVars
  /\ WF_allVars(RunRx) /\ WF_allVars(RunParser) /\ WF_allVars(RunTx)
  /\ \A t \in Tabs : WF_allVars(RunBridge(t)) /\ SF_allVars(RunConnected(t))
  /\ WF_allVars(RunServer)

=============================================================================
