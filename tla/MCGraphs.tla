------------------------------ MODULE MCGraphs ------------------------------
(***************************************************************************)
(* The programs built on the graph library: dpdk-graph-fw (GraphFw),       *)
(* graph/pipeline (GraphPipeline), the seven small ones (GraphSamples),    *)
(* and the arc of feature_arc/sample (FeatureArc).  A behaviour runs one   *)
(* of them, chosen at the start, with the same burst size.                 *)
(***************************************************************************)
EXTENDS GraphFw

CONSTANTS NumPkts, CountLimit, Features, Start, End, NULL

\* The nodes of the arc have names of their own.
ASSUME ArcAssumption ==
  /\ Features \in Seq({Features[k] : k \in DOMAIN Features})
  /\ \A j, k \in DOMAIN Features : Features[j] = Features[k] => j = k
  /\ Start # End /\ Start # NULL /\ End # NULL
  /\ \A k \in DOMAIN Features : Features[k] \notin {Start, End, NULL}

\* count of graph/sample is raised twice in a walk, and never past its limit of 10.
ASSUME SampleAssumption == NumPkts \in Nat /\ CountLimit \in Nat /\ CountLimit % 2 = 0

VARIABLES
  program,      \* "dpdk-graph-fw", "pipeline", "samples" or "arc"
  quit1, pc1, pending1, stream1, received1, walks1, wire1, freed1,
  sample, pc2, left, pending2, stream2, calls, made, count2, quit2, data, leaked2,
  feature, helper,
  next, enabled, rebuilt

pipeVars == <<quit1, pc1, pending1, stream1, received1, walks1, wire1, freed1>>
sampleVars == <<sample, pc2, left, pending2, stream2, calls, made, count2, quit2, data,
                leaked2, feature, helper>>
arcVars == <<next, enabled, rebuilt>>
allVars == <<vars, pipeVars, sampleVars, arcVars, program>>

Pipe == INSTANCE GraphPipeline WITH
  quit <- quit1, pc <- pc1, pending <- pending1, stream <- stream1,
  received <- received1, walks <- walks1, wire <- wire1, freed <- freed1

Sample == INSTANCE GraphSamples WITH
  BurstSize <- Burst, program <- sample, pc <- pc2, pending <- pending2, stream <- stream2,
  count <- count2, quit <- quit2, leaked <- leaked2

Arc == INSTANCE FeatureArc

Firewall == program = "dpdk-graph-fw"
Pipeline == program = "pipeline"
Samples == program = "samples"
FeatureSample == program = "arc"

InitAll ==
  /\ Init /\ Pipe!Init /\ Sample!Init /\ Arc!Init
  /\ (Firewall \/ Pipeline \/ Samples \/ FeatureSample)
  /\ ~Firewall => cmd = "other"
  /\ ~Samples => sample = "sample"

RunMain ==
  /\ UNCHANGED program
  /\ \/ Firewall /\ main /\ UNCHANGED <<pipeVars, sampleVars, arcVars>>
     \/ Pipeline /\ Pipe!main /\ UNCHANGED <<vars, sampleVars, arcVars>>
     \/ Samples /\ Sample!main /\ UNCHANGED <<vars, pipeVars, arcVars>>

RunCli == Firewall /\ run_cli /\ UNCHANGED <<pipeVars, sampleVars, arcVars, program>>
RunHelper == Samples /\ Sample!HelperEnqueues /\ UNCHANGED <<vars, pipeVars, arcVars, program>>
CallArc == FeatureSample /\ Arc!Next /\ UNCHANGED <<vars, pipeVars, sampleVars, program>>
Signal ==
  /\ \/ Pipeline /\ Pipe!handler /\ UNCHANGED sampleVars
     \/ Samples /\ Sample!signal_handler /\ UNCHANGED pipeVars
  /\ UNCHANGED <<vars, arcVars, program>>

\* The threads run; nobody has to type or to send a signal, but a command that
\* was read is carried out.
SpecAll ==
  /\ InitAll /\ [][RunMain \/ RunCli \/ RunHelper \/ CallArc \/ Signal]_allVars
  /\ WF_allVars(RunMain) /\ WF_allVars(RunCli /\ ~ReadCommand)

-----------------------------------------------------------------------------
\* The features of feature_arc/sample.
SampleFeatures == <<"Firewall", "NAT", "QoS">>

\* A walk delivers to each last node what is meant for it.  graph/pipeline: no
\* packet is left behind, and those of an address family are not reordered.  The
\* small programs: the packets are those that the counts select, the loops end
\* at their counts, and the nodes ran that the features select.
WalkDelivers ==
  /\ Pipeline => Pipe!WalkConserves
  /\ Samples => Sample!WalkDelivers /\ Sample!CountsRight

\* After a rebuild the arc is the enabled features in their order.
ArcFollowsFeatures == Arc!ArcFollowsFeatures

\* quit and SIGINT stop the walk of each program, and only when there is no
\* packet in the graph.
WalkStops ==
  /\ (Firewall /\ cli_pc = "execute" /\ cmd = "quit") ~> (walk_pc = "done" /\ objs = <<>>)
  /\ quit1 ~> (pc1 = "done" /\ pending1 = <<>>)
  /\ Sample!SamplesStop

=============================================================================
