-------------------------- MODULE MCCheckoutWorker --------------------------
(* Instances of CheckoutWorker for TLC. *)
EXTENDS CheckoutWorker, TLC

\* All checkouts on one card: the card lock and the quarantine are contended.
OneCard == [e \in Executions |-> "c1"]

\* Two checkouts of one hosted session are reported under one reference.
SharedReference == [e \in Executions |-> 1]

WorkerSymmetry == Permutations(Workers)
=============================================================================
