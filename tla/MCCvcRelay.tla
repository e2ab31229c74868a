----------------------------- MODULE MCCvcRelay -----------------------------
(* CvcRelay for TLC: fairness rules symmetry out, so the instance is small. *)
EXTENDS CvcRelay, TLC
=============================================================================
