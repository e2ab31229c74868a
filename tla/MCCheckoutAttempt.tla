-------------------------- MODULE MCCheckoutAttempt --------------------------
(* Instance of CheckoutAttempt for TLC: one checkout, on each of the rails. *)
EXTENDS CheckoutAttempt, TLC

OneCard      == [e \in Executions |-> "c1"]
OneReference == [e \in Executions |-> 1]

Symmetry == Permutations(Workers) \cup Permutations(Requests) \cup Permutations(FormMaps)
=============================================================================
