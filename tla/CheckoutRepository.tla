------------------------- MODULE CheckoutRepository -------------------------
(***************************************************************************)
(* The durable checkout execution: the rows of checkout_executions and     *)
(* what hangs off them (cart item, purchase, event feed, status timeline), *)
(* and the transactions of SqlAlchemyCheckoutRepository that move them.    *)
(*                                                                         *)
(* Every repository method opens one transaction, locks the execution row  *)
(* with SELECT ... FOR UPDATE before it reads it and commits on exit, so   *)
(* each method is one action here.  The actions carry no worker: like the  *)
(* code, none of them knows which attempt is calling.                      *)
(***************************************************************************)
EXTENDS Naturals, Sequences

CONSTANTS
    Executions,    \* managed checkouts, numbered in order of (created_at, id)
    Cards,         \* payment methods
    CardOf,        \* the payment method each checkout was approved for
    References,    \* provider references a purchase can carry
    ReferenceOf,   \* the reference the provider reports for each checkout
    HostedCards,   \* methods of the hosted sandbox, the reconcilable ones
    MaxAttempts    \* settings.checkout_max_attempts

ASSUME ExecutionsAssumption == Executions \subseteq Nat
ASSUME CardsAssumption == CardOf \in [Executions -> Cards] /\ HostedCards \subseteq Cards
ASSUME ReferencesAssumption == ReferenceOf \in [Executions -> References]
ASSUME MaxAttemptsAssumption == MaxAttempts \in Nat \ {0}

VARIABLES
    exec,       \* the row of each execution
    cart,       \* status of the cart item each execution was approved from
    usable,     \* is the card active, unexpired and assigned to an active agent
    purchases,  \* rows of purchases
    events,     \* per execution, the terminal events of the agent's feed
    timeline    \* per execution, the rows of checkout_status_transitions

dbVars == <<exec, cart, usable, purchases, events, timeline>>

Unresolved == {"action_required", "outcome_unknown"}
Terminal   == {"succeeded", "failed"} \cup Unresolved
Status     == {"absent", "queued", "running"} \cup Terminal
Leases     == {"none", "live", "expired"}
ErrorCodes == {"none", "checkout_failed", "rejected", "payment_declined",
               "checkout_action_required", "payment_outcome_unknown"}

Row == [status : Status, attempts : 0..MaxAttempts, lease : Leases,
        submitted : BOOLEAN, error : ErrorCodes]

Purchases == [execution : Executions, reference : References]

NoRow == [status |-> "absent", attempts |-> 0, lease |-> "none",
          submitted |-> FALSE, error |-> "none"]

DbTypeOK ==
    /\ exec \in [Executions -> Row]
    /\ cart \in [Executions -> {"proposed", "approved", "purchased"}]
    /\ usable \in [Cards -> BOOLEAN]
    /\ purchases \subseteq Purchases
    /\ events \in [Executions -> Seq(Terminal)]
    /\ timeline \in [Executions -> Seq(Status \ {"absent"})]

DbInit ==
    /\ exec = [e \in Executions |-> NoRow]
    /\ cart = [e \in Executions |-> "proposed"]
    /\ usable = [c \in Cards |-> TRUE]
    /\ purchases = {}
    /\ events = [e \in Executions |-> <<>>]
    /\ timeline = [e \in Executions |-> <<>>]

-----------------------------------------------------------------------------
(* Predicates on the rows. *)

Siblings(e) == {d \in Executions \ {e} : CardOf[d] = CardOf[e]}

\* An unresolved execution quarantines its card for every other execution.
Quarantined(e) == \E d \in Siblings(e) : exec[d].status \in Unresolved

\* _load_and_validate_locked: what prepare, mark_submitted and succeed require.
Valid(e) ==
    /\ exec[e].status = "running"
    /\ cart[e] = "approved"
    /\ usable[CardOf[e]]
    /\ ~Quarantined(e)

Claimable(e) ==
    \/ exec[e].status = "queued"
    \/ exec[e].status = "running" /\ exec[e].lease # "live"

-----------------------------------------------------------------------------
(* Writes shared by the transactions. *)

WriteRow(e, row) ==
    /\ exec' = [exec EXCEPT ![e] = row]
    /\ timeline' = [timeline EXCEPT ![e] = Append(@, row.status)]

\* _set_terminal: the row, its event and its transition commit together.
SetTerminal(e, status, code) ==
    /\ WriteRow(e, [exec[e] EXCEPT !.status = status, !.lease = "none", !.error = code])
    /\ events' = [events EXCEPT ![e] = Append(@, status)]
    /\ UNCHANGED <<cart, usable, purchases>>

\* Both ways to success insert the purchase, its event and its transition.
RecordPurchase(e) ==
    /\ WriteRow(e, [exec[e] EXCEPT !.status = "succeeded", !.lease = "none", !.error = "none"])
    /\ purchases' = purchases \cup {[execution |-> e, reference |-> ReferenceOf[e]]}
    /\ cart' = [cart EXCEPT ![e] = "purchased"]
    /\ events' = [events EXCEPT ![e] = Append(@, "succeeded")]
    /\ UNCHANGED usable

\* Mutant of PurchaseIsNew: no unique key on the provider reference.
PurchaseIsNewByItem(e) == \A p \in purchases : p.execution # e

\* The unique keys of purchases: the cart item, and reference within a card.
PurchaseIsNew(e) ==
    \A p \in purchases : /\ p.execution # e
                         /\ ~ /\ CardOf[p.execution] = CardOf[e]
                              /\ p.reference = ReferenceOf[e]

-----------------------------------------------------------------------------
(* The transactions. *)

\* queue_checkout_execution inside the approval's transaction.
QueueCheckoutExecution(e) ==
    /\ exec[e].status = "absent"
    /\ \A d \in Executions : d < e => exec[d].status # "absent"
    /\ usable[CardOf[e]]
    /\ ~Quarantined(e)
    /\ WriteRow(e, [NoRow EXCEPT !.status = "queued"])
    /\ cart' = [cart EXCEPT ![e] = "approved"]
    /\ UNCHANGED <<usable, purchases, events>>

\* Mutant of ClaimSubmitted: the abandoned submission is taken for a failure.
ClaimSubmittedAsFailed(e) ==
    /\ Claimable(e)
    /\ exec[e].submitted
    /\ SetTerminal(e, "failed", "checkout_failed")

\* Another: the abandoned submission keeps the code of its last error.
ClaimSubmittedUncoded(e) ==
    /\ Claimable(e)
    /\ exec[e].submitted
    /\ SetTerminal(e, "outcome_unknown", exec[e].error)

\* claim_next on a row whose worker died after submitting: never run again.
ClaimSubmitted(e) ==
    /\ Claimable(e)
    /\ exec[e].submitted
    /\ SetTerminal(e, "outcome_unknown", "payment_outcome_unknown")

\* Mutant of ClaimExhausted: off by one.
ClaimExhaustedLate(e) ==
    /\ Claimable(e)
    /\ ~exec[e].submitted
    /\ exec[e].attempts > MaxAttempts
    /\ SetTerminal(e, "failed", "checkout_failed")

\* claim_next on a row that has used its attempts.
ClaimExhausted(e) ==
    /\ Claimable(e)
    /\ ~exec[e].submitted
    /\ exec[e].attempts >= MaxAttempts
    /\ SetTerminal(e, "failed", "checkout_failed")

\* Mutants of ClaimAttempt: one attempt too many; an attempt not counted.
ClaimAttemptTooMany(e) ==
    /\ Claimable(e)
    /\ ~exec[e].submitted
    /\ exec[e].attempts <= MaxAttempts
    /\ WriteRow(e, [exec[e] EXCEPT !.status = "running", !.attempts = @ + 1,
                                   !.lease = "live", !.error = "none"])
    /\ UNCHANGED <<cart, usable, purchases, events>>

ClaimAttemptUncounted(e) ==
    /\ Claimable(e)
    /\ ~exec[e].submitted
    /\ exec[e].attempts < MaxAttempts
    /\ WriteRow(e, [exec[e] EXCEPT !.status = "running", !.lease = "live", !.error = "none"])
    /\ UNCHANGED <<cart, usable, purchases, events>>

\* claim_next that starts an attempt.
ClaimAttempt(e) ==
    /\ Claimable(e)
    /\ ~exec[e].submitted
    /\ exec[e].attempts < MaxAttempts
    /\ WriteRow(e, [exec[e] EXCEPT !.status = "running", !.attempts = @ + 1,
                                   !.lease = "live", !.error = "none"])
    /\ UNCHANGED <<cart, usable, purchases, events>>

\* renew_lease: any caller may renew the lease of any running row.
RenewLease(e) ==
    /\ exec[e].status = "running"
    /\ exec' = [exec EXCEPT ![e].lease = "live"]
    /\ UNCHANGED <<cart, usable, purchases, events, timeline>>

\* Mutant of MarkSubmitted: a second submission.
MarkSubmittedAgain(e) ==
    /\ Valid(e)
    /\ exec' = [exec EXCEPT ![e].submitted = TRUE]
    /\ UNCHANGED <<cart, usable, purchases, events, timeline>>

\* mark_submitted: the durable point of no return.
MarkSubmitted(e) ==
    /\ Valid(e)
    /\ ~exec[e].submitted
    /\ exec' = [exec EXCEPT ![e].submitted = TRUE]
    /\ UNCHANGED <<cart, usable, purchases, events, timeline>>

Requeue(e, code) ==
    /\ WriteRow(e, [exec[e] EXCEPT !.status = "queued", !.lease = "none", !.error = code])
    /\ UNCHANGED <<cart, usable, purchases, events>>

\* Mutants of RetryOrFail: the submission is forgotten; a terminal row is
\* failed again; the last attempt is not used.
RetryOrFailSubmitted(e, retryable) ==
    IF exec[e].status \in Terminal THEN UNCHANGED dbVars
    ELSE IF retryable /\ exec[e].attempts < MaxAttempts
         THEN Requeue(e, "checkout_failed")
         ELSE SetTerminal(e, "failed", "checkout_failed")

RetryOrFailTerminal(e, retryable) ==
    IF exec[e].submitted THEN SetTerminal(e, "outcome_unknown", "payment_outcome_unknown")
    ELSE IF retryable /\ exec[e].attempts < MaxAttempts
         THEN Requeue(e, "checkout_failed")
         ELSE SetTerminal(e, "failed", "checkout_failed")

RetryOrFailEarly(e, retryable) ==
    IF exec[e].status \in Terminal THEN UNCHANGED dbVars
    ELSE IF exec[e].submitted
         THEN SetTerminal(e, "outcome_unknown", "payment_outcome_unknown")
         ELSE IF retryable /\ exec[e].attempts + 1 < MaxAttempts
              THEN Requeue(e, "checkout_failed")
              ELSE SetTerminal(e, "failed", IF retryable THEN "checkout_failed" ELSE "rejected")

\* retry_or_fail.  "checkout_failed" stands for the codes of transient errors,
\* "rejected" for those of errors no attempt can mend.
RetryOrFail(e, retryable) ==
    LET again == retryable /\ exec[e].attempts < MaxAttempts
        code  == IF retryable THEN "checkout_failed" ELSE "rejected"
    IN  \/ /\ exec[e].status \in Terminal
           /\ UNCHANGED dbVars
        \/ /\ exec[e].status \notin Terminal
           /\ exec[e].submitted
           /\ SetTerminal(e, "outcome_unknown", "payment_outcome_unknown")
        \/ /\ exec[e].status \notin Terminal
           /\ ~exec[e].submitted
           /\ again
           /\ Requeue(e, code)
        \/ /\ exec[e].status \notin Terminal
           /\ ~exec[e].submitted
           /\ ~again
           /\ SetTerminal(e, "failed", code)

\* Mutant of FinishTerminal: a terminal row is finished again.
FinishTerminalAgain(e, status, code) == SetTerminal(e, status, code)

\* finish_terminal: a terminal row stays as it is.
FinishTerminal(e, status, code) ==
    \/ /\ exec[e].status \in Terminal
       /\ UNCHANGED dbVars
    \/ /\ exec[e].status \notin Terminal
       /\ SetTerminal(e, status, code)

\* succeed, when it does not raise.
Succeed(e) ==
    \/ /\ exec[e].status \in Terminal
       /\ UNCHANGED dbVars
    \/ /\ Valid(e)
       /\ exec[e].submitted
       /\ PurchaseIsNew(e)
       /\ RecordPurchase(e)

\* succeed, when validation or a unique key makes it raise and roll back.
SucceedRaises(e) ==
    /\ exec[e].status \notin Terminal
    /\ ~(Valid(e) /\ exec[e].submitted /\ PurchaseIsNew(e))
    /\ UNCHANGED dbVars

\* reconcile_hosted_succeeded, given the landing server's proof of payment.
ReconcileHostedSucceeded(e) ==
    /\ CardOf[e] \in HostedCards
    /\ exec[e].status = "outcome_unknown"
    /\ exec[e].error = "payment_outcome_unknown"
    /\ exec[e].submitted
    /\ cart[e] = "approved"
    /\ events[e] = <<"outcome_unknown">>
    /\ PurchaseIsNew(e)
    /\ RecordPurchase(e)

=============================================================================
