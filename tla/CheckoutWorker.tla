--------------------------- MODULE CheckoutWorker ---------------------------
(***************************************************************************)
(* Checkout workers driving executions through a hosted browser to a       *)
(* merchant, over the transactions of CheckoutRepository.                  *)
(*                                                                         *)
(* A worker claims an execution, validates it, waits for the card's        *)
(* advisory lock, validates again, opens the merchant's page, records the  *)
(* submission, fills and clicks, reads the outcome and commits it.  It can *)
(* stop at any point, its lease can run out while it still works, and the  *)
(* owner can withdraw the card at any point.                               *)
(***************************************************************************)
EXTENDS CheckoutRepository, FiniteSets

CONSTANTS
    Workers,       \* worker processes
    None,          \* no worker, no execution
    LockMayDrop    \* may the lock's database connection die under its holder

ASSUME WorkersAssumption == None \notin Workers /\ None \notin Executions
ASSUME LockMayDropAssumption == LockMayDrop \in BOOLEAN

VARIABLES
    pc,       \* where each worker is in _process_claim
    job,      \* the execution it works on
    note,     \* the error or the payment outcome it holds
    lock,     \* who holds the advisory lock of each card
    clicks,   \* times the pay button was pressed for an execution
    charge    \* what the merchant made of it

workerVars == <<pc, job, note, lock>>
merchantVars == <<clicks, charge>>
vars == <<dbVars, workerVars, merchantVars>>

Errors   == {"retryable", "fatal", "unknown"}
Outcomes == {"approved", "declined", "action_required", "unknown"}

\* Stages of an attempt, those inside card_lock and those past mark_submitted.
Critical == {"validate", "browse", "fill", "await", "settle"}
Sent     == {"fill", "await", "settle"}
Stages   == {"idle", "prepare", "lock", "error", "again", "release"} \cup Critical

TypeOK ==
    /\ DbTypeOK
    /\ pc \in [Workers -> Stages]
    /\ job \in [Workers -> Executions \cup {None}]
    /\ note \in [Workers -> Errors \cup Outcomes \cup {"none"}]
    /\ lock \in [Cards -> Workers \cup {None}]
    /\ clicks \in [Executions -> Nat]
    /\ charge \in [Executions -> {"none", "charged", "declined"}]

Init ==
    /\ DbInit
    /\ pc = [w \in Workers |-> "idle"]
    /\ job = [w \in Workers |-> None]
    /\ note = [w \in Workers |-> "none"]
    /\ lock = [c \in Cards |-> None]
    /\ clicks = [e \in Executions |-> 0]
    /\ charge = [e \in Executions |-> "none"]

At(w, stage) == pc[w] = stage
Goto(w, stage) == pc' = [pc EXCEPT ![w] = stage]

GoWith(w, stage, held) ==
    /\ Goto(w, stage)
    /\ note' = [note EXCEPT ![w] = held]

\* Inside card_lock an error is handled with the lock held, outside without.
Raise(w, error)        == GoWith(w, "error", error)
RaiseOutside(w, error) == GoWith(w, "again", error)

\* What is left to do is to leave card_lock and the claim.
Finish(w) == GoWith(w, "release", "none")

Unlock(w) == lock' = [c \in Cards |-> IF lock[c] = w THEN None ELSE lock[c]]

-----------------------------------------------------------------------------
(* Claiming and preparing. *)

\* skip_locked passes over an older row only while another worker's
\* transaction holds it.
NextInLine(w, e) ==
    /\ Claimable(e)
    /\ \A d \in Executions :
          (d < e /\ Claimable(d)) => \E v \in Workers \ {w} : job[v] = d

\* process_once: claim_next, which may only close an abandoned row.
Claim(w) ==
    /\ At(w, "idle")
    /\ \E e \in Executions :
          /\ NextInLine(w, e)
          /\ \/ /\ ClaimSubmitted(e) \/ ClaimExhausted(e)
                /\ UNCHANGED workerVars
             \/ /\ ClaimAttempt(e)
                /\ Goto(w, "prepare")
                /\ job' = [job EXCEPT ![w] = e]
                /\ UNCHANGED <<note, lock>>
    /\ UNCHANGED merchantVars

\* prepare, outside the card lock.
Prepare(w) ==
    /\ At(w, "prepare")
    /\ IF Valid(job[w])
       THEN Goto(w, "lock") /\ UNCHANGED note
       ELSE RaiseOutside(w, "fatal")
    /\ UNCHANGED <<dbVars, merchantVars, job, lock>>

\* Mutant of AcquireCardLock: the lock is not waited for.
AcquireCardLockHeld(w) ==
    /\ At(w, "lock")
    /\ lock' = [lock EXCEPT ![CardOf[job[w]]] = w]
    /\ Goto(w, "validate")
    /\ UNCHANGED <<dbVars, merchantVars, job, note>>

\* card_lock: the advisory lock of the payment method, waited for.
AcquireCardLock(w) ==
    /\ At(w, "lock")
    /\ lock[CardOf[job[w]]] = None
    /\ lock' = [lock EXCEPT ![CardOf[job[w]]] = w]
    /\ Goto(w, "validate")
    /\ UNCHANGED <<dbVars, merchantVars, job, note>>

\* prepare again, under the lock: the first answer may be stale.
PrepareAgain(w) ==
    /\ At(w, "validate")
    /\ IF Valid(job[w])
       THEN Goto(w, "browse") /\ UNCHANGED note
       ELSE Raise(w, "fatal")
    /\ UNCHANGED <<dbVars, merchantVars, job, lock>>

\* Everything that fails before mark_submitted: the database, the browser
\* session, the page checks, the form mapping, the card providers.
FailBeforeSubmission(w) ==
    /\ \/ pc[w] \in {"prepare", "lock"} /\ RaiseOutside(w, "retryable")
       \/ pc[w] = "prepare" /\ RaiseOutside(w, "fatal")
       \/ /\ pc[w] \in {"validate", "browse"}
          /\ \E error \in {"retryable", "fatal"} : Raise(w, error)
       \/ pc[w] = "browse" /\ Raise(w, "unknown")
    /\ UNCHANGED <<dbVars, merchantVars, job, lock>>

-----------------------------------------------------------------------------
(* Submission and its outcome. *)

\* mark_submitted from the browser run, with a commit that may be reported
\* to the worker as a lost connection (final, where the card's code is spent).
Submit(w) ==
    /\ At(w, "browse")
    /\ \/ /\ MarkSubmitted(job[w])
          /\ \/ Goto(w, "fill") /\ UNCHANGED note
             \/ \E error \in {"retryable", "fatal"} : Raise(w, error)
       \/ /\ ~Valid(job[w])
          /\ Raise(w, "fatal")
          /\ UNCHANGED dbVars
       \/ /\ Valid(job[w]) /\ exec[job[w]].submitted
          /\ Raise(w, "unknown")
          /\ UNCHANGED dbVars
    /\ UNCHANGED <<merchantVars, job, lock>>

\* Card fields are filled and the pay button clicked; a click that raises
\* may have reached the merchant all the same.
FillAndClick(w) ==
    /\ At(w, "fill")
    /\ \/ /\ clicks' = [clicks EXCEPT ![job[w]] = @ + 1]
          /\ \/ Goto(w, "await") /\ UNCHANGED note
             \/ Raise(w, "unknown")
       \/ /\ \E error \in Errors : Raise(w, error)
          /\ UNCHANGED clicks
    /\ UNCHANGED <<dbVars, charge, job, lock>>

\* The merchant or the issuer decides on a payment it has received.
MerchantSettles(e) ==
    /\ clicks[e] > 0
    /\ charge[e] = "none"
    /\ \E decision \in {"charged", "declined"} :
          charge' = [charge EXCEPT ![e] = decision]
    /\ UNCHANGED <<dbVars, workerVars, clicks>>

\* Approval and decline are only reported on evidence of the payment; a
\* challenge, a timeout or a broken page can be read in any case.
Observe(w) ==
    /\ At(w, "await")
    /\ \/ \E outcome \in Outcomes :
             /\ outcome = "approved" => charge[job[w]] = "charged"
             /\ outcome = "declined" => charge[job[w]] = "declined"
             /\ Goto(w, "settle")
             /\ note' = [note EXCEPT ![w] = outcome]
       \/ \E error \in Errors : Raise(w, error)
    /\ UNCHANGED <<dbVars, merchantVars, job, lock>>

TerminalFor(outcome) ==
    CASE outcome = "declined"        -> "failed"
      [] outcome = "action_required" -> "action_required"
      [] outcome = "unknown"         -> "outcome_unknown"

CodeFor(outcome) ==
    CASE outcome = "declined"        -> "payment_declined"
      [] outcome = "action_required" -> "checkout_action_required"
      [] outcome = "unknown"         -> "payment_outcome_unknown"

\* The transaction that ends an attempt with an outcome; the database can fail
\* before it commits, or lose the acknowledgement of the commit.
Settle(w) ==
    /\ At(w, "settle")
    /\ \/ /\ \/ note[w] = "approved" /\ Succeed(job[w])
             \/ /\ note[w] # "approved"
                /\ FinishTerminal(job[w], TerminalFor(note[w]), CodeFor(note[w]))
          /\ Finish(w) \/ Raise(w, "retryable")
       \/ /\ note[w] = "approved" /\ SucceedRaises(job[w])
          /\ Raise(w, "fatal")
       \/ /\ UNCHANGED dbVars
          /\ Raise(w, "retryable")
    /\ UNCHANGED <<merchantVars, job, lock>>

\* Mutant of RaiseAgain: the connection that holds the lock is not closed.
RaiseAgainLocked(w) == RaiseOutside(w, "retryable") /\ UNCHANGED lock

\* What the handler inside card_lock raises leaves card_lock, which gives the lock
\* back, and is a transient error to the handler outside.
RaiseAgain(w) ==
    /\ RaiseOutside(w, "retryable")
    /\ Unlock(w)

\* _handle_checkout_error and the handlers for any other exception, inside
\* card_lock and outside of it.  The acknowledgement of the inner one's commit
\* may be lost, and the outer one then handles the claim once more.
HandleError(w) ==
    /\ pc[w] \in {"error", "again"}
    /\ IF note[w] = "unknown"
       THEN FinishTerminal(job[w], "outcome_unknown", "payment_outcome_unknown")
       ELSE RetryOrFail(job[w], note[w] = "retryable")
    /\ \/ Finish(w) /\ UNCHANGED lock
       \/ At(w, "error") /\ RaiseAgain(w)
    /\ UNCHANGED <<merchantVars, job>>

\* The inner handler fails before its commit.
HandlingFails(w) ==
    /\ At(w, "error")
    /\ RaiseAgain(w)
    /\ UNCHANGED <<dbVars, merchantVars, job>>

\* The worker leaves its claim: the lock is given back, the heartbeat ends.
LeaveClaim(w) ==
    /\ GoWith(w, "idle", "none")
    /\ job' = [job EXCEPT ![w] = None]
    /\ Unlock(w)
    /\ UNCHANGED <<dbVars, merchantVars>>

Release(w) == At(w, "release") /\ LeaveClaim(w)

\* The process dies or is cancelled, or the outer handler loses the database; it
\* comes back idle and the row keeps its lease.
Crash(w) == pc[w] \notin {"idle", "release"} /\ LeaveClaim(w)

-----------------------------------------------------------------------------
(* The heartbeat, the clock, the owner and the operator. *)

\* One round of _heartbeat: it names the execution, not the attempt.
Heartbeat(w) ==
    /\ ~At(w, "idle")
    /\ exec[job[w]].lease = "expired"
    /\ RenewLease(job[w])
    /\ UNCHANGED <<workerVars, merchantVars>>

\* No renewal arrived in lease_seconds: the heartbeat died or is late.
LeaseExpires(e) ==
    /\ exec[e].lease = "live"
    /\ exec' = [exec EXCEPT ![e].lease = "expired"]
    /\ UNCHANGED <<cart, usable, purchases, events, timeline, workerVars, merchantVars>>

\* The connection that holds the advisory lock dies; its holder goes on.
LockDrops(c) ==
    /\ LockMayDrop
    /\ lock[c] # None
    /\ lock' = [lock EXCEPT ![c] = None]
    /\ UNCHANGED <<dbVars, merchantVars, pc, job, note>>

\* Human or policy approval of a managed proposal.
Approve(e) == QueueCheckoutExecution(e) /\ UNCHANGED <<workerVars, merchantVars>>

\* The owner unassigns or disables the method, revokes the agent, or assigns again.
ChangeUsable(c) ==
    /\ usable' = [usable EXCEPT ![c] = ~@]
    /\ UNCHANGED <<exec, cart, purchases, events, timeline, workerVars, merchantVars>>

\* The owner reconciles; the landing server proves a real payment only.
Reconcile(e) ==
    /\ charge[e] = "charged"
    /\ ReconcileHostedSucceeded(e)
    /\ UNCHANGED <<workerVars, merchantVars>>

-----------------------------------------------------------------------------

WorkerStep(w) ==
    \/ Claim(w) \/ Prepare(w) \/ AcquireCardLock(w) \/ PrepareAgain(w)
    \/ FailBeforeSubmission(w) \/ Submit(w) \/ FillAndClick(w) \/ Observe(w)
    \/ Settle(w) \/ HandleError(w) \/ HandlingFails(w) \/ Release(w)

Disturbance ==
    \/ \E w \in Workers : Crash(w) \/ Heartbeat(w)
    \/ \E e \in Executions : LeaseExpires(e) \/ Approve(e) \/ Reconcile(e) \/ MerchantSettles(e)
    \/ \E c \in Cards : LockDrops(c) \/ ChangeUsable(c)

Next == Disturbance \/ \E w \in Workers : WorkerStep(w)

Spec == Init /\ [][Next]_vars

-----------------------------------------------------------------------------
(* Properties. *)

\* The pay button is pressed at most once for an approved purchase, however
\* many workers, retries and lost leases an execution goes through.
AtMostOneClick == \A e \in Executions : clicks[e] <= 1

\* A payment that was made is never reported as failed and never queued for
\* another attempt: claim_next, retry_or_fail and finish_terminal agree on it.
ChargeNeverDenied ==
    \A e \in Executions :
        charge[e] = "charged" =>
            exec[e].status \in {"running", "succeeded"} \cup Unresolved

\* An execution has succeeded exactly when its one purchase exists and its cart
\* item is purchased, and then the payment was really made.
PurchaseBacked ==
    \A e \in Executions :
        LET bought == {p \in purchases : p.execution = e}
        IN  /\ (exec[e].status = "succeeded") <=> (cart[e] = "purchased")
            /\ (exec[e].status = "succeeded") <=> (bought # {})
            /\ bought # {} => charge[e] = "charged"

\* No two purchases on one card carry the same provider reference, so one
\* payment is never booked for two approved items.
ReferencesUnique ==
    \A p, q \in purchases :
        (p.reference = q.reference /\ CardOf[p.execution] = CardOf[q.execution]) => p = q

\* The agent's event feed holds one terminal event per finished execution, the
\* one it finished with; only a reconciled one has a second.
FeedMatchesRow ==
    \A e \in Executions :
        IF exec[e].status \in Terminal
        THEN \/ events[e] = <<exec[e].status>>
             \/ exec[e].status = "succeeded" /\ events[e] = <<"outcome_unknown", "succeeded">>
        ELSE events[e] = <<>>

\* The status timeline ends in the row's status, counts the attempts, and has
\* nothing after a terminal entry but a reconciliation.
TimelineMatchesRow ==
    \A e \in Executions :
        LET line == timeline[e]
            last == Len(line)
        IN  /\ line # <<>> => line[last] = exec[e].status
            /\ exec[e].attempts = Cardinality({i \in 1..last : line[i] = "running"})
            /\ \A i \in 1..last - 1 :
                  line[i] \in Terminal =>
                      line[i] = "outcome_unknown" /\ line[i + 1] = "succeeded"

\* A transient error alone never ends an execution that has attempts left,
\* even when workers of lost leases report theirs as well.
TransientErrorsRetried ==
    \A e \in Executions :
        (exec[e].status = "failed" /\ exec[e].error = "checkout_failed")
            => exec[e].attempts = MaxAttempts

\* While the lock's connection lives, one worker at a time is between the
\* second prepare and the end of the attempt on a card.
CardSerialized ==
    \A v, w \in Workers :
        (v # w /\ pc[v] \in Critical /\ pc[w] \in Critical)
            => CardOf[job[v]] # CardOf[job[w]]

\* A terminal row never changes again, except that proof of payment turns an
\* unknown outcome into a success.
TerminalIsFinal ==
    [][\A e \in Executions :
          exec[e].status \in Terminal =>
              \/ exec'[e] = exec[e]
              \/ /\ exec[e].status = "outcome_unknown"
                 /\ charge[e] = "charged"
                 /\ exec'[e].status = "succeeded"]_vars

\* The workers that have still to write what became of their claim of a row, and
\* those that can come to do so twice.
Busy(e)      == {w \in Workers : job[w] = e /\ pc[w] \notin {"idle", "release"}}
Unhandled(e) == {w \in Busy(e) : pc[w] # "again"}

\* A bound on the writes to its status that a row can still see: three for each
\* attempt (its start, and its error inside and outside of card_lock), and for the
\* last attempt its start, its end and a reconciliation.
WritesLeft(e) ==
    CASE exec[e].status = "absent" -> 3 * MaxAttempts + 1
      [] exec[e].status \in {"queued", "running"} ->
            IF exec[e].attempts = MaxAttempts THEN 2
            ELSE 3 * (MaxAttempts - exec[e].attempts)
                   + Cardinality(Busy(e)) + Cardinality(Unhandled(e))
      [] exec[e].status = "outcome_unknown" -> 1
      [] OTHER -> 0

\* Whatever claims, retries, stale workers, lost leases and reconciliations do to
\* a row, each write to its status brings it nearer to its end and nothing takes it
\* further away: the repository never goes round in circles, although workers of
\* lost leases and of lost acknowledgements queue a row that is queued already.
RowsWindDown ==
    [][\A e \in Executions :
          \/ WritesLeft(e)' < WritesLeft(e)
          \/ WritesLeft(e)' = WritesLeft(e) /\ timeline'[e] = timeline[e]]_vars

\* Whoever holds a card's lock is past the wait for it and works on that card, so
\* that no worker waits for one that waits itself, or that has gone.
CardLockServes ==
    \A c \in Cards :
        lock[c] # None =>
            /\ pc[lock[c]] \in Critical \cup {"error", "release"}
            /\ CardOf[job[lock[c]]] = c

\* By whichever way a payment that was made came to be one of unknown outcome (an
\* abandoned submission, an error, a late result, a lost acknowledgement), its rows
\* are as reconcile_hosted_succeeded wants them.
ChargedUnknownReconcilable ==
    \A e \in Executions :
        (exec[e].status = "outcome_unknown" /\ charge[e] = "charged") =>
            /\ exec[e].error = "payment_outcome_unknown"
            /\ exec[e].submitted
            /\ cart[e] = "approved"
            /\ events[e] = <<"outcome_unknown">>
            /\ \A p \in purchases : p.execution # e

\* README: a card "cannot be queued or reused by another execution" while one
\* of its executions is unresolved, so no click lands on a quarantined card.
QuarantineHolds ==
    [][\A e \in Executions : clicks'[e] # clicks[e] => ~Quarantined(e)]_vars

-----------------------------------------------------------------------------
(* The inductive invariant behind the safety properties. *)

\* A worker outside idle has an execution, a worker that raised has an error,
\* and one that is about to settle has an outcome.
WorkersBusy ==
    \A w \in Workers :
        /\ pc[w] # "idle" => job[w] \in Executions
        /\ pc[w] \in {"error", "again"} => note[w] \in Errors
        /\ pc[w] = "settle" => note[w] \in Outcomes

\* Past mark_submitted the row says so, no two workers are there for one
\* execution, and the one that has still to click is the first to do so.
SubmissionOwned ==
    \A w \in Workers : pc[w] \in Sent =>
        /\ exec[job[w]].submitted
        /\ pc[w] = "fill" => clicks[job[w]] = 0
        /\ \A v \in Workers : (pc[v] \in Sent /\ job[v] = job[w]) => v = w

\* A worker works on a row that was inserted.
ClaimsExist == \A w \in Workers : pc[w] # "idle" => exec[job[w]].status # "absent"

\* A submitted row is never waiting for a worker, and calls itself failed only
\* on a decline; money moves only after a click, a click only after submission.
RowsConsistent ==
    \A e \in Executions :
        /\ exec[e].submitted => exec[e].status \notin {"absent", "queued"}
        /\ (exec[e].submitted /\ exec[e].status = "failed") => charge[e] = "declined"
        /\ exec[e].lease # "none" <=> exec[e].status = "running"
        /\ clicks[e] > 0 => exec[e].submitted
        /\ clicks[e] <= 1
        /\ charge[e] # "none" => clicks[e] > 0

\* A worker waits for an outcome only after a click, and what it is about to
\* commit is what happened to the payment.
EvidenceSound ==
    \A w \in Workers :
        /\ pc[w] \in {"await", "settle"} => clicks[job[w]] > 0
        /\ (pc[w] = "settle" /\ note[w] = "approved") => charge[job[w]] = "charged"
        /\ (pc[w] = "settle" /\ note[w] = "declined") => charge[job[w]] = "declined"

IInv ==
    /\ TypeOK
    /\ WorkersBusy
    /\ ClaimsExist
    /\ SubmissionOwned
    /\ RowsConsistent
    /\ EvidenceSound
    /\ PurchaseBacked

-----------------------------------------------------------------------------
(* What the owner and the agent are promised, and progress. *)

PhaseOf(row) ==
    CASE row.status = "running" /\ row.submitted               -> "paying"
      [] row.status \in {"queued", "running"} /\ ~row.submitted -> "pending"
      [] OTHER                                                 -> row.status

Promise == INSTANCE CheckoutLifecycle
           WITH phase     <- [e \in Executions |-> PhaseOf(exec[e])],
                committed <- [e \in Executions |-> exec[e].submitted],
                asked     <- [e \in Executions |-> clicks[e] > 0],
                paid      <- charge

\* The worker, the repository and their failures implement CheckoutLifecycle.
KeepsPromise == Promise!Spec

\* Workers keep stepping (every wait in them has a timeout), a process that
\* dies is started again, and the lease of an abandoned row runs out.
Fairness ==
    /\ \A w \in Workers : WF_vars(WorkerStep(w))
    /\ \A e \in Executions :
          WF_vars(LeaseExpires(e) /\ \A w \in Workers : job[w] # e)

FairSpec == Spec /\ Fairness

\* Every queued execution reaches a terminal status, through any crashes.
EveryCheckoutEnds ==
    \A e \in Executions :
        exec[e].status \in {"queued", "running"} ~> exec[e].status \in Terminal

=============================================================================
