------------------------ MODULE HostedReconciliation ------------------------
(***************************************************************************)
(* CheckoutReconciliationService and the row locks around it.              *)
(*                                                                         *)
(* The owner asks to reconcile a checkout of unknown outcome: its rows are *)
(* read without locks, the landing server is asked for proof of payment,   *)
(* and the rows are locked, read again and moved to success.  Meanwhile    *)
(* workers validate executions of the same card, approvals queue new ones, *)
(* and other requests reconcile.  Each transaction locks its rows one by   *)
(* one and keeps them to its end; PostgreSQL aborts one of a cycle.        *)
(***************************************************************************)
EXTENDS CheckoutRepository, FiniteSets

CONSTANTS
    Requests,      \* calls of the reconcile endpoint
    Validations,   \* mark_submitted and succeed of a worker, with their error
    Approvals,     \* approvals of a proposed item
    Subject,       \* the checkout each of them is about
    AgentOf        \* the agent that proposed each checkout

Txns == Requests \cup Validations \cup Approvals

ASSUME SubjectAssumption == Subject \in [Txns -> Executions]
ASSUME TxnsAssumption ==
    /\ Requests \cap Validations = {}
    /\ Requests \cap Approvals = {}
    /\ Validations \cap Approvals = {}

VARIABLES
    stage,    \* where each call is
    locked,   \* how many rows of its plan its transaction has locked
    saw,      \* status of the execution in each request's snapshot
    answer,   \* what each call came to
    paid      \* references of the payments that were made

callVars == <<stage, locked, saw, answer>>
vars == <<dbVars, callVars, paid>>

Calls   == {"idle", "read", "verify", "lock", "commit", "handle", "again", "ended"}
Answers == {"none", "recorded", "already", "invalid", "not_found", "not_verified",
            "unavailable", "committed", "raised", "refused", "aborted"}

TypeOK ==
    /\ DbTypeOK
    /\ stage \in [Txns -> Calls]
    /\ locked \in [Txns -> 0..4]
    /\ saw \in [Requests -> Status]
    /\ answer \in [Txns -> Answers]
    /\ paid \subseteq References
    /\ \A t \in Txns : locked[t] > 0 => stage[t] \in {"lock", "commit", "handle", "again"}

-----------------------------------------------------------------------------
(* The rows at the start: a checkout to be approved, one a worker is at, and *)
(* else one whose outcome is unknown or whose worker died after submitting.  *)

UnknownRow == [status |-> "outcome_unknown", attempts |-> 1, lease |-> "none",
               submitted |-> TRUE, error |-> "payment_outcome_unknown"]
RunningRows == [status : {"running"}, attempts : {1}, lease : {"expired"},
                submitted : BOOLEAN, error : {"none"}]

Subjects(calls) == {Subject[t] : t \in calls}

StartRows(e) ==
    IF e \in Subjects(Approvals) THEN {NoRow}
    ELSE IF e \in Subjects(Validations) THEN RunningRows
    ELSE {UnknownRow} \cup {row \in RunningRows : row.submitted}

Init ==
    /\ exec \in [Executions -> {NoRow, UnknownRow} \cup RunningRows]
    /\ \A e \in Executions : exec[e] \in StartRows(e)
    /\ cart = [e \in Executions |-> IF exec[e] = NoRow THEN "proposed" ELSE "approved"]
    /\ usable \in [Cards -> BOOLEAN]
    /\ purchases = {}
    /\ events = [e \in Executions |-> IF exec[e] = UnknownRow THEN <<"outcome_unknown">> ELSE <<>>]
    /\ timeline = [e \in Executions |->
                      IF exec[e] = NoRow THEN <<>>
                      ELSE IF exec[e] = UnknownRow THEN <<"queued", "running", "outcome_unknown">>
                      ELSE <<"queued", "running">>]
    /\ stage = [t \in Txns |-> "idle"]
    /\ locked = [t \in Txns |-> 0]
    /\ saw = [r \in Requests |-> "absent"]
    /\ answer = [t \in Txns |-> "none"]
    /\ paid = {}

-----------------------------------------------------------------------------
(* Row locks. *)

TheCart(e)      == <<"cart", e>>
TheExecution(e) == <<"execution", e>>
TheMethod(e)    == <<"method", CardOf[e]>>
TheAgent(e)     == <<"agent", AgentOf[e]>>

\* Mutant of ReconcilePlan: the execution first, as the worker does.
ReconcilePlanWorker(e) == <<TheExecution(e), TheCart(e), TheAgent(e), TheMethod(e)>>

\* reconcile_hosted_succeeded and the locking load inside it.
ReconcilePlan(e) == <<TheMethod(e), TheExecution(e), TheCart(e), TheAgent(e)>>

\* Mutant of ValidatePlan: the agent's row is read without its lock.
ValidatePlanUnowned(e) == <<TheExecution(e), TheCart(e), TheMethod(e)>>

\* _load_and_validate_locked.
ValidatePlan(e) == <<TheExecution(e), TheCart(e), TheAgent(e), TheMethod(e)>>

\* approve_cart_item; the new row's foreign key locks the agent.
ApprovePlan(e) == <<TheCart(e), TheMethod(e), TheAgent(e)>>

\* retry_or_fail; the new event's foreign key locks the agent.
HandlePlan(e) == <<TheExecution(e), TheAgent(e)>>

Plan(t) ==
    IF t \in Requests THEN ReconcilePlan(Subject[t])
    ELSE IF t \in Approvals THEN ApprovePlan(Subject[t])
    ELSE IF stage[t] \in {"handle", "again"} THEN HandlePlan(Subject[t])
    ELSE ValidatePlan(Subject[t])

Locking(t) == stage[t] \in {"lock", "handle", "again"}
AllLocked(t) == Locking(t) /\ locked[t] = Len(Plan(t))

Holds(t, row) == locked[t] > 0 /\ \E i \in 1..locked[t] : Plan(t)[i] = row

\* The checks that end a transaction before its last lock.  A quarantined
\* card is found with its method locked, which whoever changes it locks first.
MustStop(t) ==
    \/ t \in Approvals /\ locked[t] = 1 /\ cart[Subject[t]] # "proposed"
    \/ t \in Approvals /\ locked[t] = 2
         /\ (~usable[CardOf[Subject[t]]] \/ Quarantined(Subject[t]))
    \/ t \in Validations /\ stage[t] = "lock" /\ locked[t] = 1
         /\ exec[Subject[t]].status # "running"

Wanting(t) == Locking(t) /\ locked[t] < Len(Plan(t)) /\ ~MustStop(t)

WaitsFor(t, u) == t # u /\ Wanting(t) /\ Holds(u, Plan(t)[locked[t] + 1])

Waiting == {t \in Txns : \E u \in Txns : WaitsFor(t, u)}

\* A transaction waits for one other, so that such a set is made of cycles.
Cycle(set) ==
    /\ set # {}
    /\ \A t \in set : \E u \in set : WaitsFor(t, u)
    /\ \A t \in set : \E u \in set : WaitsFor(u, t)

Lock(t) ==
    /\ Wanting(t)
    /\ \A u \in Txns : ~WaitsFor(t, u)
    /\ locked' = [locked EXCEPT ![t] = @ + 1]
    /\ UNCHANGED <<dbVars, stage, saw, answer, paid>>

\* Mutant of End: the session is not closed.
EndHolding(t, result) ==
    /\ stage' = [stage EXCEPT ![t] = "ended"]
    /\ answer' = [answer EXCEPT ![t] = result]
    /\ UNCHANGED <<locked, saw>>

\* The transaction is over and gives back its locks.
End(t, result) ==
    /\ stage' = [stage EXCEPT ![t] = "ended"]
    /\ locked' = [locked EXCEPT ![t] = 0]
    /\ answer' = [answer EXCEPT ![t] = result]
    /\ UNCHANGED saw

\* It is rolled back, or its acknowledgement is lost, and the call goes on elsewhere.
Leave(t, where) ==
    /\ stage' = [stage EXCEPT ![t] = where]
    /\ locked' = [locked EXCEPT ![t] = 0]
    /\ UNCHANGED <<saw, answer>>

-----------------------------------------------------------------------------
(* CheckoutReconciliationService.reconcile. *)

Goto(t, where) ==
    /\ stage' = [stage EXCEPT ![t] = where]
    /\ UNCHANGED <<dbVars, locked, answer, paid>>

\* Mutant of Loaded: a withdrawn card is not reconciled.
LoadedUsable(e, status) ==
    IF status = "succeeded" THEN "already"
    ELSE IF status = "outcome_unknown" /\ cart[e] = "approved" /\ usable[CardOf[e]]
         THEN "candidate" ELSE "invalid"

\* _load_hosted_reconciliation_candidate, the execution's row with the status
\* given and the others as they are now: do they agree about the checkout?
Loaded(e, status) ==
    CASE status = "outcome_unknown" ->
            IF /\ CardOf[e] \in HostedCards
               /\ exec[e].submitted
               /\ cart[e] = "approved"
               /\ \A p \in purchases : p.execution # e
               /\ timeline[e][Len(timeline[e])] = "outcome_unknown"
               /\ events[e] = <<"outcome_unknown">>
            THEN "candidate" ELSE "invalid"
      [] status = "succeeded" ->
            IF /\ CardOf[e] \in HostedCards
               /\ cart[e] = "purchased"
               /\ \E p \in purchases : p.execution = e /\ p.reference = ReferenceOf[e]
               /\ timeline[e][Len(timeline[e])] = "succeeded"
               /\ events[e] \in {<<"succeeded">>, <<"outcome_unknown", "succeeded">>}
            THEN "already" ELSE "invalid"
      [] OTHER -> "invalid"

\* hosted_reconciliation_candidate, first statement: the execution's row.
ReadExecution(r) ==
    /\ stage[r] = "idle"
    /\ Goto(r, "read")
    /\ saw' = [saw EXCEPT ![r] = exec[Subject[r]].status]

\* Its other statements, each of which sees what is committed by then.
ReadRest(r) ==
    /\ stage[r] = "read"
    /\ LET e == Subject[r]
       IN  \/ saw[r] = "absent" /\ End(r, "not_found")
           \/ /\ saw[r] # "absent" /\ Loaded(e, saw[r]) = "candidate"
              /\ stage' = [stage EXCEPT ![r] = "verify"]
              /\ UNCHANGED <<locked, saw, answer>>
           \/ /\ saw[r] # "absent" /\ Loaded(e, saw[r]) # "candidate"
              /\ End(r, Loaded(e, saw[r]))
    /\ UNCHANGED <<dbVars, paid>>

\* The landing server proves a payment that was made, refuses, or is away.
Verify(r) ==
    /\ stage[r] = "verify"
    /\ \/ /\ ReferenceOf[Subject[r]] \in paid
          /\ stage' = [stage EXCEPT ![r] = "lock"]
          /\ UNCHANGED <<locked, saw, answer>>
       \/ ReferenceOf[Subject[r]] \notin paid /\ End(r, "not_verified")
       \/ End(r, "unavailable")
    /\ UNCHANGED <<dbVars, paid>>

\* reconcile_hosted_succeeded, its rows locked and read again.
Apply(r) ==
    /\ r \in Requests /\ AllLocked(r)
    /\ LET e == Subject[r]
           current == Loaded(e, exec[e].status)
       IN  \/ current = "already" /\ End(r, "already") /\ UNCHANGED dbVars
           \/ current = "candidate" /\ PurchaseIsNew(e) /\ RecordPurchase(e) /\ End(r, "recorded")
           \/ current = "candidate" /\ ~PurchaseIsNew(e) /\ End(r, "invalid") /\ UNCHANGED dbVars
           \/ current = "invalid" /\ End(r, "invalid") /\ UNCHANGED dbVars
    /\ UNCHANGED paid

-----------------------------------------------------------------------------
(* The transactions that lock the same rows. *)

\* What mark_submitted writes.
WriteSubmission(e) ==
    /\ exec' = [exec EXCEPT ![e].submitted = TRUE]
    /\ UNCHANGED <<cart, usable, purchases, events, timeline>>

\* A worker comes to mark_submitted, or to succeed once it saw the payment.
\* Another attempt at its execution is over, or is in the handler outside of
\* card_lock, which waits for nobody.
Validate(v) ==
    /\ stage[v] = "idle"
    /\ exec[Subject[v]].status # "absent"
    /\ \A u \in Validations \ {v} :
          Subject[u] = Subject[v] => stage[u] \in {"idle", "again", "ended"}
    /\ exec[Subject[v]].submitted => ReferenceOf[Subject[v]] \in paid
    /\ Goto(v, "lock")
    /\ UNCHANGED saw

\* It looks at its rows, and at the card's other checkouts without a lock on those
\* it finds resolved; succeed leaves a terminal row as it is.
Check(v) ==
    /\ v \in Validations /\ stage[v] = "lock" /\ (AllLocked(v) \/ MustStop(v))
    /\ LET e == Subject[v]
           over == exec[e].status \in Terminal /\ exec[e].submitted
       IN  \/ Valid(e) /\ Goto(v, "commit") /\ UNCHANGED saw
           \/ over /\ End(v, "committed") /\ UNCHANGED <<dbVars, paid>>
           \/ ~Valid(e) /\ ~over /\ Leave(v, "handle") /\ UNCHANGED <<dbVars, paid>>

\* It writes on what it saw and commits, and may never hear of it; a unique key can
\* make succeed raise.
Commit(v) ==
    /\ v \in Validations /\ stage[v] = "commit"
    /\ LET e == Subject[v]
       IN  \/ /\ \/ ~exec[e].submitted /\ WriteSubmission(e)
                 \/ exec[e].submitted /\ PurchaseIsNew(e) /\ RecordPurchase(e)
              /\ End(v, "committed") \/ Leave(v, "handle")
           \/ /\ exec[e].submitted /\ ~PurchaseIsNew(e)
              /\ Leave(v, "handle")
              /\ UNCHANGED dbVars
    /\ UNCHANGED paid

\* retry_or_fail, on an error that may or may not pass by itself; an error of the
\* handler inside card_lock, be it a lost acknowledgement, is handled outside
\* once more, as one that may pass.
Handle(v) ==
    /\ v \in Validations /\ stage[v] \in {"handle", "again"} /\ AllLocked(v)
    /\ \E retryable \in BOOLEAN :
          /\ stage[v] = "again" => retryable
          /\ RetryOrFail(Subject[v], retryable)
    /\ \/ End(v, "raised")
       \/ stage[v] = "handle" /\ Leave(v, "again")
    /\ UNCHANGED paid

\* The insert of an approved execution.  Unresolved siblings were looked for
\* before: one that claim_next closes since then does not lock the method.
Insert(e) ==
    /\ WriteRow(e, [NoRow EXCEPT !.status = "queued"])
    /\ cart' = [cart EXCEPT ![e] = "approved"]
    /\ UNCHANGED <<usable, purchases, events>>

\* The owner approves; the insert is the last statement.
Ask(a) ==
    /\ a \in Approvals /\ stage[a] = "idle"
    /\ Goto(a, "lock")
    /\ UNCHANGED saw

Approve(a) ==
    /\ a \in Approvals
    /\ \/ MustStop(a) /\ End(a, "refused") /\ UNCHANGED dbVars
       \/ /\ AllLocked(a) /\ ~MustStop(a)
          /\ Insert(Subject[a])
          /\ End(a, "committed")
    /\ UNCHANGED paid

\* The agent's row is locked for update; an insert only locks it against that.
OwnsAgent(t, e) ==
    /\ Holds(t, TheAgent(e))
    /\ t \in Requests \/ (t \in Validations /\ stage[t] \in {"lock", "commit"})

\* Another worker's claim_next closes an abandoned submission, if no transaction
\* holds its row (skip_locked); the insert of its event waits for the agent.
CloseAbandoned(e) ==
    /\ \A t \in Txns : ~Holds(t, TheExecution(e)) /\ ~OwnsAgent(t, e)
    /\ ClaimSubmitted(e)
    /\ UNCHANGED <<callVars, paid>>

\* A payment is made, or comes through late.
PaymentMade(e) ==
    /\ exec[e].submitted
    /\ paid' = paid \cup {ReferenceOf[e]}
    /\ UNCHANGED <<dbVars, callVars>>

\* The deadlock detector aborts one transaction of a cycle.  A request answers
\* with an error; a worker handles one, inside card_lock and then outside, and
\* leaves the claim if both fail.
Abort(t) ==
    /\ \E u \in Txns : WaitsFor(t, u)
    /\ \E set \in SUBSET Waiting : t \in set /\ Cycle(set)
    /\ IF t \in Validations /\ stage[t] # "again"
       THEN Leave(t, IF stage[t] = "lock" THEN "handle" ELSE "again")
       ELSE End(t, "aborted")
    /\ UNCHANGED <<dbVars, paid>>

-----------------------------------------------------------------------------

RequestStep(r) == ReadExecution(r) \/ ReadRest(r) \/ Verify(r) \/ Apply(r)
CallStep(t) ==
    \/ t \in Requests /\ RequestStep(t)
    \/ Check(t) \/ Commit(t) \/ Handle(t) \/ Approve(t)
    \/ Lock(t) \/ Abort(t)

Next ==
    \/ \E t \in Txns : CallStep(t)
    \/ \E v \in Validations : Validate(v)
    \/ \E a \in Approvals : Ask(a)
    \/ \E e \in Executions : CloseAbandoned(e) \/ PaymentMade(e)

Spec == Init /\ [][Next]_vars

\* Statements and HTTP calls have timeouts, and the detector runs: as long as
\* some call can go on, one of them does.
Fairness == WF_vars(\E t \in Txns : CallStep(t))

FairSpec == Spec /\ Fairness

-----------------------------------------------------------------------------
(* Properties. *)

\* One payment is booked once, whoever reports it how often; a request that
\* says it recorded a success did so, and only for a payment that was made.
BookedOnce ==
    /\ \A p, q \in purchases :
          (p.reference = q.reference /\ CardOf[p.execution] = CardOf[q.execution]) => p = q
    /\ \A p \in purchases : p.reference \in paid
    /\ \A q, r \in Requests :
          (answer[q] = "recorded" /\ answer[r] = "recorded" /\ Subject[q] = Subject[r]) => q = r

\* The rows of a checkout agree on its success: status, cart item, purchase,
\* feed and timeline, in whatever order workers and requests came to them.
SuccessWhole ==
    \A e \in Executions :
        LET done == exec[e].status = "succeeded"
        IN  /\ done <=> cart[e] = "purchased"
            /\ done <=> \E p \in purchases : p.execution = e
            /\ done <=> \E i \in 1..Len(events[e]) : events[e][i] = "succeeded"
            /\ done => timeline[e][Len(timeline[e])] = "succeeded"

\* A checkout that was read as unknown is refused only when its payment is
\* booked already: neither a torn snapshot nor a race loses one that is not.
RefusedOnlyIfBooked ==
    \A r \in Requests :
        (answer[r] = "invalid" /\ saw[r] = "outcome_unknown"
           /\ CardOf[Subject[r]] \in HostedCards) =>
            \E p \in purchases : /\ p.reference = ReferenceOf[Subject[r]]
                                 /\ CardOf[p.execution] = CardOf[Subject[r]]

\* Comment at repository.py:478: the order of locks is such that "releasing
\* quarantine cannot deadlock a concurrent proposal approval".  Every cycle
\* takes a worker's validation, the only one that locks the agent early.
OnlyWorkersDeadlock ==
    \A set \in SUBSET Waiting :
        Cycle(set) => \E v \in set : v \in Validations /\ stage[v] = "lock"

\* When every call that was begun waits for a row, some of them wait in a cycle,
\* where the deadlock detector finds them.
Begun(t) == stage[t] \notin {"idle", "ended"}

StuckOnlyInCycles ==
    (Waiting # {} /\ \A t \in Txns : Begun(t) => t \in Waiting) =>
        \E set \in SUBSET Waiting : Cycle(set)

\* All the checkouts of the card are one agent's, whose row every validation locks.
ServesOneAgent(e) == \A d \in Siblings(e) : AgentOf[d] = AgentOf[e]

\* What _load_and_validate_locked found, at the commit that relies on it.  Where
\* agents share a card, a checkout of another one may have become unresolved.
StillValid(e) ==
    /\ exec[e].status = "running"
    /\ cart[e] = "approved"
    /\ usable[CardOf[e]]
    /\ ServesOneAgent(e) => ~Quarantined(e)

\* The transactions of CheckoutRepository as CheckoutWorker takes them, each in one
\* step; an approval's look at the card's other checkouts is left out (see Insert).
Transaction(e) ==
    \/ ReferenceOf[e] \in paid /\ ReconcileHostedSucceeded(e)
    \/ StillValid(e) /\ ~exec[e].submitted /\ WriteSubmission(e)
    \/ /\ StillValid(e) /\ exec[e].submitted /\ ReferenceOf[e] \in paid
       /\ PurchaseIsNew(e) /\ RecordPurchase(e)
    \/ ClaimSubmitted(e)
    \/ \E retryable \in BOOLEAN : RetryOrFail(e, retryable)
    \/ exec[e] = NoRow /\ cart[e] = "proposed" /\ usable[CardOf[e]] /\ Insert(e)

\* Locked row by row in four orders, checked before they are written and on proof
\* that was given before the locks, the rows change by those transactions only: what
\* each asks of the rows is true when it commits.
KeepsRepository == [][\E e \in Executions : Transaction(e)]_dbVars

\* Every call that was begun ends, through waits, cycles and aborts.
EveryCallEnds ==
    []<>(\A t \in Txns : stage[t] \in {"idle", "ended"})

=============================================================================
