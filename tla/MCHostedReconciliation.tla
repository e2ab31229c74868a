------------------------ MODULE MCHostedReconciliation ------------------------
(* Instance of HostedReconciliation for TLC: one card, one agent. *)
EXTENDS HostedReconciliation, TLC

CONSTANTS r1, r2, v1, a1

OneCard  == [e \in Executions |-> "c1"]
OneAgent == [e \in Executions |-> "agent"]

\* Two checkouts of one hosted session, and one to be approved.
Sessions == [e \in Executions |-> IF e = 3 THEN 2 ELSE 1]

\* Two requests for the abandoned checkout, a worker at the other of its session.
SubjectOf == (r1 :> 1) @@ (r2 :> 1) @@ (v1 :> 2) @@ (a1 :> 3)
=============================================================================
