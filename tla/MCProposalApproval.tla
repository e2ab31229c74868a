------------------------- MODULE MCProposalApproval -------------------------
(* Symmetry of ProposalApproval for TLC. *)
EXTENDS ProposalApproval, TLC

SessionSymmetry == Permutations(Sessions)
=============================================================================
