----------------------------- MODULE MCNatFlow -----------------------------
(* Model of NatFlow for TLC: endpoints and heap addresses are symmetric.   *)
EXTENDS NatFlow, TLC

Perms == Permutations(Endpoints) \cup Permutations(EntryIds)
=============================================================================
