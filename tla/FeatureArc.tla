----------------------------- MODULE FeatureArc -----------------------------
(***************************************************************************)
(* feature_arc/sample: an arc of features between two nodes.  Features are *)
(* enabled and disabled one by one; feature_arc_rebuild then links the     *)
(* enabled ones into the next pointers of the nodes, over whatever links   *)
(* earlier rebuilds have left there.  main calls the operations in one     *)
(* order; here they come in any.                                           *)
(***************************************************************************)
EXTENDS Integers, Sequences, SequencesExt, Selection

CONSTANTS
  Features,      \* the names registered with the arc, in order
  Start, End,    \* the nodes at its ends
  NULL

VARIABLES
  next,          \* node -> the node after it, or NULL
  enabled,       \* feature -> enabled
  rebuilt        \* nothing has been enabled or disabled since the last rebuild

vars == <<next, enabled, rebuilt>>

Nodes == ToSet(Features) \cup {Start, End}

\* add_node, feature_arc_init and feature_register of main.
Init ==
  /\ next = [n \in Nodes |-> NULL]
  /\ enabled = [f \in ToSet(Features) |-> FALSE]
  /\ rebuilt = FALSE

feature_enable(f) ==
  /\ enabled' = [enabled EXCEPT ![f] = TRUE]
  /\ rebuilt' = FALSE
  /\ UNCHANGED next

feature_disable(f) ==
  /\ enabled' = [enabled EXCEPT ![f] = FALSE]
  /\ rebuilt' = FALSE
  /\ UNCHANGED next

set_next(nodes, from, to) == [nodes EXCEPT ![from] = to]

\* A round of the loop over the features: acc is the links, and the node from
\* which the next link goes.
link(acc, f) ==
  IF enabled[f] THEN [nodes |-> set_next(acc.nodes, acc.prev, f), prev |-> f] ELSE acc

\* The links as far as the last enabled feature.
Linked ==
  LET linked[k \in 0 .. Len(Features)] ==
        IF k = 0 THEN [nodes |-> next, prev |-> Start] ELSE link(linked[k - 1], Features[k])
  IN  linked[Len(Features)]

\* Faulty variant of feature_arc_rebuild: the link to the end, which stands there
\* since the first rebuild, is not renewed.
feature_arc_rebuild_NoEnd ==
  /\ next' = IF Linked.prev = Start THEN set_next(next, Start, End) ELSE Linked.nodes
  /\ rebuilt' = TRUE
  /\ UNCHANGED enabled

feature_arc_rebuild ==
  /\ next' = set_next(Linked.nodes, Linked.prev, End)
  /\ rebuilt' = TRUE
  /\ UNCHANGED enabled

Next ==
  \/ \E f \in ToSet(Features) : feature_enable(f) \/ feature_disable(f)
  \/ feature_arc_rebuild

-----------------------------------------------------------------------------
\* The nodes that dump_pipeline prints, in order, the first n + 1 of them.
dump_pipeline(n) ==
  LET printed[k \in 0 .. n] ==
        IF k = 0 THEN <<Start>>
        ELSE LET cur == Last(printed[k - 1])
             IN  IF next[cur] = NULL THEN printed[k - 1] ELSE Append(printed[k - 1], next[cur])
  IN  printed[n]

Enabled == {f \in ToSet(Features) : enabled[f]}

\* After a rebuild a packet meets the enabled features, each once, in the order
\* of their registration, and then the end, although disabled features keep the
\* pointers they had.  Between rebuilds the walk still ends.
ArcFollowsFeatures ==
  /\ rebuilt => dump_pipeline(Len(Features) + 2)
                  = <<Start>> \o Selected(Features, Enabled) \o <<End>>
  /\ next[Last(dump_pipeline(Len(Features) + 2))] = NULL

=============================================================================
