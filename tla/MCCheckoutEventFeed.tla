------------------------ MODULE MCCheckoutEventFeed ------------------------
(* Symmetry of CheckoutEventFeed for TLC. *)
EXTENDS CheckoutEventFeed, TLC

FeedSymmetry == Permutations(Sessions) \cup Permutations(Executions)
=============================================================================
