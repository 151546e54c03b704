----------------------------- MODULE MCNatMain -----------------------------
(* Model of NatMain for TLC: a burst of two from a pool of three mbufs.    *)
EXTENDS NatMain
=============================================================================
