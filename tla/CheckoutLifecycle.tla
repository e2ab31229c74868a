-------------------------- MODULE CheckoutLifecycle --------------------------
(***************************************************************************)
(* What managed checkout promises for each approved purchase, whatever     *)
(* workers, leases and retries do underneath:                              *)
(*                                                                         *)
(*   - the merchant is asked to pay at most once, and only after the       *)
(*     decision to submit is durable;                                      *)
(*   - before that decision the purchase may be given up; after it, it is  *)
(*     called failed only if the payment was declined;                     *)
(*   - it is called succeeded only if the payment was made, and a final    *)
(*     answer changes only from unknown to succeeded.                      *)
(***************************************************************************)
CONSTANT Executions

VARIABLES
    phase,      \* what the owner and the agent see of a purchase
    committed,  \* the decision to submit is durable
    asked,      \* the merchant has been asked for the payment
    paid        \* what became of the payment

vars == <<phase, committed, asked, paid>>

Phases == {"absent", "pending", "paying", "succeeded", "failed",
           "action_required", "outcome_unknown"}

Init ==
    /\ phase = [e \in Executions |-> "absent"]
    /\ committed = [e \in Executions |-> FALSE]
    /\ asked = [e \in Executions |-> FALSE]
    /\ paid = [e \in Executions |-> "none"]

Move(e, next) == phase' = [phase EXCEPT ![e] = next]

Accept(e) ==
    /\ phase[e] = "absent"
    /\ Move(e, "pending")
    /\ UNCHANGED <<committed, asked, paid>>

\* Nothing was submitted: the checkout failed, or its state is in doubt.
GiveUp(e) ==
    /\ phase[e] = "pending"
    /\ \E next \in {"failed", "outcome_unknown"} : Move(e, next)
    /\ UNCHANGED <<committed, asked, paid>>

Commit(e) ==
    /\ phase[e] = "pending"
    /\ Move(e, "paying")
    /\ committed' = [committed EXCEPT ![e] = TRUE]
    /\ UNCHANGED <<asked, paid>>

Ask(e) ==
    /\ committed[e] /\ ~asked[e]
    /\ asked' = [asked EXCEPT ![e] = TRUE]
    /\ UNCHANGED <<phase, committed, paid>>

Decide(e) ==
    /\ asked[e] /\ paid[e] = "none"
    /\ \E decision \in {"charged", "declined"} : paid' = [paid EXCEPT ![e] = decision]
    /\ UNCHANGED <<phase, committed, asked>>

Conclude(e) ==
    /\ phase[e] = "paying"
    /\ \/ paid[e] = "charged" /\ Move(e, "succeeded")
       \/ paid[e] = "declined" /\ Move(e, "failed")
       \/ asked[e] /\ Move(e, "action_required")
       \/ Move(e, "outcome_unknown")
    /\ UNCHANGED <<committed, asked, paid>>

Amend(e) ==
    /\ phase[e] = "outcome_unknown" /\ paid[e] = "charged"
    /\ Move(e, "succeeded")
    /\ UNCHANGED <<committed, asked, paid>>

Next == \E e \in Executions : \/ Accept(e) \/ GiveUp(e) \/ Commit(e) \/ Ask(e)
                              \/ Decide(e) \/ Conclude(e) \/ Amend(e)

Spec == Init /\ [][Next]_vars
=============================================================================
