----------------------- MODULE CheckoutWorker_proofs -----------------------
(***************************************************************************)
(* Proofs about CheckoutWorker for any set of executions, cards and        *)
(* workers, any bound on attempts, with and without a droppable card lock. *)
(***************************************************************************)
EXTENDS CheckoutWorker, CheckoutRepository_proofs

USE DEF Errors, Outcomes, Critical, Sent, Stages, Terminal, Unresolved, Status,
        Leases, ErrorCodes, GoWith, RaiseOutside, Finish

-----------------------------------------------------------------------------
(* Type correctness: a worker that is busy has an execution to work on. *)

TypedWorkers == TypeOK /\ WorkersBusy

LEMMA TypedInit == Init => TypedWorkers
  <1>. SUFFICES ASSUME Init PROVE TypedWorkers
    OBVIOUS
  <1>1. NoRow \in Row
    BY MaxAttemptsAssumption DEF NoRow, Row
  <1>2. DbTypeOK
    BY <1>1 DEF Init, DbInit, DbTypeOK
  <1>. QED
    BY <1>2 DEF Init, TypedWorkers, TypeOK, WorkersBusy

LEMMA TypedClaim ==
    ASSUME TypedWorkers, NEW w \in Workers, Claim(w)
    PROVE  TypedWorkers'
  <1>. PICK e \in Executions :
          \/ (ClaimSubmitted(e) \/ ClaimExhausted(e)) /\ UNCHANGED workerVars
          \/ /\ ClaimAttempt(e)
             /\ Goto(w, "prepare")
             /\ job' = [job EXCEPT ![w] = e]
             /\ UNCHANGED <<note, lock>>
    BY DEF Claim
  <1>1. DbTypeOK'
    BY ClaimTyped DEF TypedWorkers, TypeOK
  <1>2. UNCHANGED merchantVars
    BY DEF Claim
  <1>. QED
    BY <1>1, <1>2 DEF TypedWorkers, TypeOK, WorkersBusy, Goto, workerVars, merchantVars

\* Steps of a worker that only move it along.
LEMMA TypedMoves ==
    ASSUME TypedWorkers, NEW w \in Workers,
           \/ Prepare(w) \/ AcquireCardLock(w) \/ PrepareAgain(w)
           \/ FailBeforeSubmission(w) \/ FillAndClick(w) \/ Observe(w) \/ HandlingFails(w)
    PROVE  TypedWorkers'
  <1>1. DbTypeOK'
    BY DEF TypedWorkers, TypeOK, DbTypeOK, dbVars, Prepare, AcquireCardLock, PrepareAgain,
           FailBeforeSubmission, FillAndClick, Observe, HandlingFails, RaiseAgain
  <1>2. job' = job /\ job[w] \in Executions
    BY DEF TypedWorkers, WorkersBusy, At, Prepare, AcquireCardLock, PrepareAgain,
           FailBeforeSubmission, FillAndClick, Observe, HandlingFails, RaiseAgain
  <1>3. /\ pc' \in [Workers -> Stages]
        /\ note' \in [Workers -> Errors \cup Outcomes \cup {"none"}]
        /\ WorkersBusy'
    BY <1>2 DEF TypedWorkers, TypeOK, WorkersBusy, At, Goto, Raise, Prepare,
           AcquireCardLock, PrepareAgain, FailBeforeSubmission, FillAndClick, Observe,
           HandlingFails, RaiseAgain
  <1>4. lock' \in [Cards -> Workers \cup {None}]
    BY DEF TypedWorkers, TypeOK, Prepare, AcquireCardLock, PrepareAgain,
           FailBeforeSubmission, FillAndClick, Observe, HandlingFails, RaiseAgain, Unlock
  <1>5. /\ clicks' \in [Executions -> Nat]
        /\ charge' \in [Executions -> {"none", "charged", "declined"}]
    BY <1>2 DEF TypedWorkers, TypeOK, merchantVars, Prepare, AcquireCardLock,
           PrepareAgain, FailBeforeSubmission, FillAndClick, Observe, HandlingFails, RaiseAgain
  <1>. QED
    BY <1>1, <1>2, <1>3, <1>4, <1>5 DEF TypedWorkers, TypeOK

LEMMA TypedSubmit ==
    ASSUME TypedWorkers, NEW w \in Workers, Submit(w)
    PROVE  TypedWorkers'
  <1>1. job[w] \in Executions
    BY DEF TypedWorkers, WorkersBusy, At, Submit
  <1>2. DbTypeOK'
    <2>1. CASE MarkSubmitted(job[w])
      BY <2>1, <1>1, EditTyped DEF TypedWorkers, TypeOK, DbTypeOK, MarkSubmitted
    <2>2. CASE UNCHANGED dbVars
      BY <2>2 DEF TypedWorkers, TypeOK, DbTypeOK, dbVars
    <2>. QED
      BY <2>1, <2>2 DEF Submit
  <1>. QED
    BY <1>1, <1>2 DEF TypedWorkers, TypeOK, WorkersBusy, Submit, At, Goto, Raise, merchantVars

LEMMA TypedSettle ==
    ASSUME TypedWorkers, NEW w \in Workers, Settle(w)
    PROVE  TypedWorkers'
  <1>1. job[w] \in Executions /\ note[w] \in Outcomes
    BY DEF TypedWorkers, WorkersBusy, At, Settle
  <1>2. DbTypeOK'
    <2>1. CASE Succeed(job[w]) \/ SucceedRaises(job[w])
      BY <2>1, <1>1, RecordPurchaseTyped
      DEF TypedWorkers, TypeOK, DbTypeOK, dbVars, Succeed, SucceedRaises
    <2>2. CASE /\ note[w] # "approved"
               /\ FinishTerminal(job[w], TerminalFor(note[w]), CodeFor(note[w]))
      <3>1. TerminalFor(note[w]) \in Terminal /\ CodeFor(note[w]) \in ErrorCodes
        BY <1>1, <2>2 DEF TerminalFor, CodeFor
      <3>. QED
        BY <1>1, <2>2, <3>1, FinishTerminalTyped DEF TypedWorkers, TypeOK
    <2>3. CASE UNCHANGED dbVars
      BY <2>3 DEF TypedWorkers, TypeOK, DbTypeOK, dbVars
    <2>. QED
      BY <2>1, <2>2, <2>3 DEF Settle
  <1>. QED
    BY <1>1, <1>2 DEF TypedWorkers, TypeOK, WorkersBusy, Settle, At, Goto, Raise, merchantVars

LEMMA TypedHandleError ==
    ASSUME TypedWorkers, NEW w \in Workers, HandleError(w)
    PROVE  TypedWorkers'
  <1>1. job[w] \in Executions
    BY DEF TypedWorkers, WorkersBusy, At, HandleError
  <1>2. DbTypeOK'
    <2>1. CASE FinishTerminal(job[w], "outcome_unknown", "payment_outcome_unknown")
      BY <2>1, <1>1, FinishTerminalTyped DEF TypedWorkers, TypeOK
    <2>2. CASE RetryOrFail(job[w], note[w] = "retryable")
      BY <2>2, <1>1, RetryOrFailTyped DEF TypedWorkers, TypeOK
    <2>. QED
      BY <2>1, <2>2 DEF HandleError
  <1>3. lock' \in [Cards -> Workers \cup {None}]
    BY DEF TypedWorkers, TypeOK, HandleError, RaiseAgain, Unlock
  <1>. QED
    BY <1>1, <1>2, <1>3
    DEF TypedWorkers, TypeOK, WorkersBusy, HandleError, RaiseAgain, At, Goto, merchantVars

LEMMA TypedLeaveClaim ==
    ASSUME TypedWorkers, NEW w \in Workers, LeaveClaim(w)
    PROVE  TypedWorkers'
  BY DEF TypedWorkers, TypeOK, DbTypeOK, dbVars, merchantVars, WorkersBusy, LeaveClaim,
     Unlock, Goto

\* The heartbeat, the clock, the merchant, the owner and the operator.
LEMMA TypedSurroundings ==
    ASSUME TypedWorkers,
           \/ \E w \in Workers : Heartbeat(w)
           \/ \E e \in Executions : LeaseExpires(e) \/ MerchantSettles(e)
           \/ \E c \in Cards : LockDrops(c) \/ ChangeUsable(c)
    PROVE  TypedWorkers'
  <1>1. ASSUME NEW w \in Workers, Heartbeat(w)
        PROVE  TypedWorkers'
    <2>1. job[w] \in Executions
      BY <1>1 DEF TypedWorkers, WorkersBusy, At, Heartbeat
    <2>2. exec' \in [Executions -> Row]
      BY <1>1, <2>1, EditTyped DEF TypedWorkers, TypeOK, DbTypeOK, Heartbeat, RenewLease
    <2>. QED
      BY <1>1, <2>2 DEF TypedWorkers, TypeOK, DbTypeOK, workerVars, merchantVars,
         WorkersBusy, Heartbeat, RenewLease
  <1>2. ASSUME NEW e \in Executions, LeaseExpires(e)
        PROVE  TypedWorkers'
    <2>1. exec' \in [Executions -> Row]
      BY <1>2, EditTyped DEF TypedWorkers, TypeOK, DbTypeOK, LeaseExpires
    <2>. QED
      BY <1>2, <2>1 DEF TypedWorkers, TypeOK, DbTypeOK, workerVars, merchantVars,
         WorkersBusy, LeaseExpires
  <1>3. ASSUME NEW e \in Executions, MerchantSettles(e)
        PROVE  TypedWorkers'
    BY <1>3 DEF TypedWorkers, TypeOK, DbTypeOK, dbVars, workerVars, WorkersBusy,
       MerchantSettles
  <1>4. ASSUME NEW c \in Cards, LockDrops(c)
        PROVE  TypedWorkers'
    BY <1>4 DEF TypedWorkers, TypeOK, DbTypeOK, dbVars, merchantVars, WorkersBusy,
       LockDrops
  <1>5. ASSUME NEW c \in Cards, ChangeUsable(c)
        PROVE  TypedWorkers'
    BY <1>5 DEF TypedWorkers, TypeOK, DbTypeOK, workerVars, merchantVars, WorkersBusy,
       ChangeUsable
  <1>. QED
    BY <1>1, <1>2, <1>3, <1>4, <1>5

LEMMA TypedApproveReconcile ==
    ASSUME TypedWorkers, NEW e \in Executions, Approve(e) \/ Reconcile(e)
    PROVE  TypedWorkers'
  <1>1. DbTypeOK'
    BY QueueTyped, RecordPurchaseTyped
    DEF TypedWorkers, TypeOK, Approve, Reconcile, ReconcileHostedSucceeded
  <1>. QED
    BY <1>1 DEF TypedWorkers, TypeOK, WorkersBusy, workerVars, merchantVars, Approve, Reconcile

LEMMA TypedNext == TypedWorkers /\ [Next]_vars => TypedWorkers'
  <1>. SUFFICES ASSUME TypedWorkers, [Next]_vars PROVE TypedWorkers'
    OBVIOUS
  <1>1. ASSUME NEW w \in Workers, WorkerStep(w) PROVE TypedWorkers'
    BY <1>1, TypedClaim, TypedMoves, TypedSubmit, TypedSettle, TypedHandleError,
       TypedLeaveClaim DEF WorkerStep, Release
  <1>2. CASE Disturbance
    BY <1>2, TypedLeaveClaim, TypedSurroundings, TypedApproveReconcile
    DEF Disturbance, Crash
  <1>3. CASE UNCHANGED vars
    BY <1>3 DEF vars, dbVars, workerVars, merchantVars, TypedWorkers, TypeOK, DbTypeOK,
       WorkersBusy
  <1>. QED
    BY <1>1, <1>2, <1>3 DEF Next

\* Every row, lock, note and counter keeps its type.
THEOREM TypeCorrect == Spec => []TypeOK
  <1>1. TypedWorkers => TypeOK
    BY DEF TypedWorkers
  <1>. QED
    BY <1>1, TypedInit, TypedNext, PTL DEF Spec

-----------------------------------------------------------------------------
(* What keeps each part of the inductive invariant. *)

Facts == SubmissionOwned /\ RowsConsistent /\ EvidenceSound /\ PurchaseBacked

\* No payment is asked for or decided in this step.
MerchantQuiet == clicks' = clicks /\ charge' = charge

SubmittedKept ==
    \A e \in Executions : exec[e].submitted => exec'[e].submitted

\* No worker newly gets past mark_submitted, or to an outcome.
NobodyEnters ==
    \A w \in Workers :
        /\ pc'[w] \in Sent => pc'[w] = pc[w] /\ job'[w] = job[w]
        /\ pc'[w] = "settle" => note'[w] = note[w]

LEMMA WorkerFactsKept ==
    ASSUME TypedWorkers, Facts, MerchantQuiet, SubmittedKept, NobodyEnters
    PROVE  SubmissionOwned' /\ EvidenceSound'
  <1>1. \A w \in Workers : pc'[w] \in Sent => job'[w] \in Executions
    BY DEF TypedWorkers, WorkersBusy, NobodyEnters
  <1>2. SubmissionOwned'
    BY <1>1 DEF Facts, SubmissionOwned, MerchantQuiet, SubmittedKept, NobodyEnters
  <1>3. EvidenceSound'
    BY <1>1 DEF Facts, EvidenceSound, MerchantQuiet, NobodyEnters, Sent
  <1>. QED
    BY <1>2, <1>3

\* A row rewritten by a transaction stays consistent if its new status is right.
LEMMA RowsKept ==
    ASSUME TypedWorkers, Facts, MerchantQuiet, NEW e \in Executions, Others(e),
           exec[e].submitted => exec'[e].submitted,
           exec'[e].submitted => exec'[e].status \notin {"absent", "queued"},
           (exec'[e].submitted /\ exec'[e].status = "failed") => charge[e] = "declined",
           exec'[e].lease # "none" <=> exec'[e].status = "running"
    PROVE  RowsConsistent' /\ SubmittedKept
  BY DEF Facts, RowsConsistent, MerchantQuiet, Others, SubmittedKept

\* No purchase is made: no row becomes or stops being succeeded.
LEMMA PurchasesKept ==
    ASSUME TypedWorkers, Facts, charge' = charge, UNCHANGED purchases,
           \A d \in Executions :
               /\ exec'[d].status = "succeeded" <=> exec[d].status = "succeeded"
               /\ cart'[d] = "purchased" <=> cart[d] = "purchased"
    PROVE  PurchaseBacked'
  BY DEF Facts, PurchaseBacked

\* A terminal status other than succeeded, reached by a row that had none.
LEMMA FactsAfterTerminal ==
    ASSUME TypedWorkers, Facts, MerchantQuiet, NobodyEnters,
           NEW e \in Executions, NEW status \in Terminal \ {"succeeded"}, NEW code,
           exec[e].status \notin Terminal, SetTerminal(e, status, code),
           (exec[e].submitted /\ status = "failed") => charge[e] = "declined"
    PROVE  Facts'
  <1>1. RowBecomes(e, status, "none") /\ UNCHANGED <<cart, purchases>>
    BY SetTerminalRow DEF TypedWorkers, TypeOK
  <1>2. RowsConsistent' /\ SubmittedKept
    BY <1>1, RowsKept DEF RowBecomes
  <1>3. PurchaseBacked'
    BY <1>1, PurchasesKept DEF RowBecomes, Others, MerchantQuiet
  <1>. QED
    BY <1>2, <1>3, WorkerFactsKept DEF Facts

\* Steps that change no row, no purchase and no payment.
LEMMA FactsWithoutWrites ==
    ASSUME TypedWorkers, Facts, MerchantQuiet, NobodyEnters, UNCHANGED <<exec, cart, purchases>>
    PROVE  Facts'
  <1>1. SubmittedKept /\ RowsConsistent'
    BY DEF SubmittedKept, Facts, RowsConsistent, MerchantQuiet
  <1>2. PurchaseBacked'
    BY PurchasesKept DEF MerchantQuiet
  <1>. QED
    BY <1>1, <1>2, WorkerFactsKept DEF Facts

\* A purchase is recorded for a payment that was made.
LEMMA FactsAfterPurchase ==
    ASSUME TypedWorkers, Facts, MerchantQuiet, NobodyEnters, NEW e \in Executions,
           RecordPurchase(e), exec[e].submitted, charge[e] = "charged"
    PROVE  Facts'
  <1>1. RowBecomes(e, "succeeded", "none")
    BY RecordPurchaseRow DEF TypedWorkers, TypeOK
  <1>2. RowsConsistent' /\ SubmittedKept
    BY <1>1, RowsKept DEF RowBecomes
  <1>3. PurchaseBacked'
    <2>1. cart' = [cart EXCEPT ![e] = "purchased"]
      BY DEF RecordPurchase
    <2>2. purchases' = purchases \cup {[execution |-> e, reference |-> ReferenceOf[e]]}
      BY DEF RecordPurchase
    <2>3. ASSUME NEW d \in Executions, d # e
          PROVE  {p \in purchases' : p.execution = d} = {p \in purchases : p.execution = d}
      BY <2>2, <2>3
    <2>4. {p \in purchases' : p.execution = e} # {}
      <3>. DEFINE bought == [execution |-> e, reference |-> ReferenceOf[e]]
      <3>1. bought \in purchases' /\ bought.execution = e
        BY <2>2
      <3>. QED
        BY <3>1
    <2>. QED
      BY <1>1, <2>1, <2>3, <2>4
      DEF Facts, PurchaseBacked, RowBecomes, Others, MerchantQuiet, TypedWorkers, TypeOK, DbTypeOK
  <1>. QED
    BY <1>2, <1>3, WorkerFactsKept DEF Facts

-----------------------------------------------------------------------------
(* Each action keeps the facts. *)

LEMMA FactsInit == Init => Facts
  BY DEF Init, DbInit, NoRow, Facts, SubmissionOwned, RowsConsistent, EvidenceSound,
     PurchaseBacked, Sent, Terminal, Unresolved

LEMMA FactsClaim ==
    ASSUME TypedWorkers, Facts, NEW w \in Workers, Claim(w)
    PROVE  Facts'
  <1>1. PICK e \in Executions :
          \/ (ClaimSubmitted(e) \/ ClaimExhausted(e)) /\ UNCHANGED workerVars
          \/ /\ ClaimAttempt(e)
             /\ pc' = [pc EXCEPT ![w] = "prepare"]
             /\ job' = [job EXCEPT ![w] = e]
             /\ UNCHANGED note
    BY DEF Claim, Goto
  <1>2. MerchantQuiet
    BY DEF Claim, merchantVars, MerchantQuiet
  <1>3. Claimable(e) => exec[e].status \notin Terminal
    BY DEF Claimable, Terminal, Unresolved
  <1>4. CASE (ClaimSubmitted(e) \/ ClaimExhausted(e)) /\ UNCHANGED workerVars
    <2>1. NobodyEnters
      BY <1>4 DEF workerVars, NobodyEnters
    <2>2. {"outcome_unknown", "failed"} \subseteq Terminal \ {"succeeded"}
      BY DEF Terminal, Unresolved
    <2>. QED
      BY <1>2, <1>3, <1>4, <2>1, <2>2, FactsAfterTerminal DEF ClaimSubmitted, ClaimExhausted
  <1>5. CASE /\ ClaimAttempt(e)
             /\ pc' = [pc EXCEPT ![w] = "prepare"]
             /\ job' = [job EXCEPT ![w] = e]
             /\ UNCHANGED note
    <2>1. NobodyEnters
      BY <1>5 DEF NobodyEnters, Sent, TypedWorkers, TypeOK
    <2>2. RowBecomes(e, "running", "live") /\ UNCHANGED <<cart, purchases>>
      BY <1>5, ClaimAttemptRow DEF TypedWorkers, TypeOK
    <2>3. exec[e].status # "succeeded"
      BY <1>3, <1>5 DEF ClaimAttempt, Terminal
    <2>4. RowsConsistent' /\ SubmittedKept
      BY <1>2, <2>2, RowsKept DEF RowBecomes
    <2>5. PurchaseBacked'
      BY <1>2, <2>2, <2>3, PurchasesKept DEF RowBecomes, Others, MerchantQuiet
    <2>. QED
      BY <1>2, <2>1, <2>4, <2>5, WorkerFactsKept DEF Facts
  <1>. QED
    BY <1>1, <1>4, <1>5

\* Steps of a worker that write nothing and do not get past mark_submitted.
LEMMA FactsMoves ==
    ASSUME TypedWorkers, Facts, NEW w \in Workers,
           \/ Prepare(w) \/ AcquireCardLock(w) \/ PrepareAgain(w)
           \/ FailBeforeSubmission(w) \/ HandlingFails(w) \/ LeaveClaim(w)
    PROVE  Facts'
  <1>1. UNCHANGED <<exec, cart, purchases>> /\ MerchantQuiet
    BY DEF Prepare, AcquireCardLock, PrepareAgain, FailBeforeSubmission, LeaveClaim,
       HandlingFails, RaiseAgain,
       dbVars, merchantVars, MerchantQuiet
  <1>2. PICK stage \in Stages \ (Sent \cup {"settle"}) : pc' = [pc EXCEPT ![w] = stage]
    BY DEF Prepare, AcquireCardLock, PrepareAgain, FailBeforeSubmission, LeaveClaim,
       HandlingFails, RaiseAgain,
       Goto, Raise, Stages, Critical, Sent
  <1>3. \A v \in Workers \ {w} : job'[v] = job[v] /\ note'[v] = note[v]
    BY DEF Prepare, AcquireCardLock, PrepareAgain, FailBeforeSubmission, LeaveClaim,
       HandlingFails, RaiseAgain,
       Raise, TypedWorkers, TypeOK
  <1>4. NobodyEnters
    BY <1>2, <1>3 DEF NobodyEnters, TypedWorkers, TypeOK, Sent
  <1>. QED
    BY <1>1, <1>4, FactsWithoutWrites

\* The worker that marks an execution is the first one there.
LEMMA OwnedAfterSubmit ==
    ASSUME TypedWorkers, SubmissionOwned, NEW w \in Workers, Submit(w),
           MarkSubmitted(job[w]), clicks[job[w]] = 0
    PROVE  SubmissionOwned'
  <1>. DEFINE e == job[w]
  <1>1. e \in Executions /\ job' = job /\ clicks' = clicks
    BY DEF Submit, At, TypedWorkers, WorkersBusy, merchantVars
  <1>2. exec'[e].submitted /\ Others(e)
    BY <1>1, MarkSubmittedRow DEF TypedWorkers, TypeOK
  <1>3. \A v \in Workers : pc[v] \in Sent => job[v] # e
    BY DEF MarkSubmitted, SubmissionOwned
  <1>4. \A v \in Workers \ {w} : pc'[v] = pc[v]
    BY DEF Submit, Goto, Raise, TypedWorkers, TypeOK
  <1>. SUFFICES ASSUME NEW v \in Workers, pc'[v] \in Sent
                PROVE  /\ exec'[job[v]].submitted
                       /\ pc'[v] = "fill" => clicks'[job[v]] = 0
                       /\ \A u \in Workers : (pc'[u] \in Sent /\ job[u] = job[v]) => u = v
    BY <1>1 DEF SubmissionOwned
  <1>5. CASE v = w
    BY <1>1, <1>2, <1>3, <1>4, <1>5
  <1>6. CASE v # w
    <2>1. pc[v] \in Sent /\ job[v] # e /\ job[v] \in Executions
      BY <1>3, <1>4, <1>6 DEF TypedWorkers, WorkersBusy, Sent
    <2>. QED
      BY <1>1, <1>2, <1>4, <1>6, <2>1 DEF Others, SubmissionOwned
  <1>. QED
    BY <1>5, <1>6

LEMMA FactsSubmit ==
    ASSUME TypedWorkers, Facts, NEW w \in Workers, Submit(w)
    PROVE  Facts'
  <1>1. job[w] \in Executions /\ MerchantQuiet /\ job' = job
    BY DEF Submit, At, TypedWorkers, WorkersBusy, merchantVars, MerchantQuiet
  <1>2. CASE /\ MarkSubmitted(job[w])
             /\ \/ Goto(w, "fill") /\ UNCHANGED note
                \/ \E error \in {"retryable", "fatal"} : Raise(w, error)
    <2>. DEFINE e == job[w]
    <2>1. /\ exec'[e].status = "running" /\ exec'[e].lease = exec[e].lease
          /\ exec'[e].submitted /\ Others(e)
      BY <1>1, <1>2, MarkSubmittedRow DEF TypedWorkers, TypeOK
    <2>2. exec[e].status = "running" /\ ~exec[e].submitted /\ UNCHANGED <<cart, purchases>>
      BY <1>2 DEF MarkSubmitted, Valid
    <2>3. RowsConsistent' /\ SubmittedKept
      BY <1>1, <2>1, <2>2, RowsKept DEF Facts, RowsConsistent
    <2>4. PurchaseBacked'
      BY <1>1, <2>1, <2>2, PurchasesKept DEF Others, MerchantQuiet
    <2>5. clicks[e] = 0
      BY <1>1, <2>2 DEF Facts, RowsConsistent, TypedWorkers, TypeOK
    <2>7. \A v \in Workers \ {w} : pc'[v] = pc[v] /\ note'[v] = note[v]
      BY <1>2 DEF Goto, Raise, TypedWorkers, TypeOK
    <2>8. pc'[w] = "fill" \/ pc'[w] = "error"
      BY <1>2 DEF Goto, Raise, TypedWorkers, TypeOK
    <2>9. SubmissionOwned'
      BY <1>2, <2>5, OwnedAfterSubmit DEF Facts
    <2>10. EvidenceSound'
      BY <1>1, <2>7, <2>8 DEF MerchantQuiet, Facts, EvidenceSound
    <2>. QED
      BY <2>3, <2>4, <2>9, <2>10 DEF Facts
  <1>3. CASE UNCHANGED dbVars /\ \E error \in Errors : Raise(w, error)
    <2>1. NobodyEnters
      BY <1>1, <1>3 DEF NobodyEnters, Raise, Goto, TypedWorkers, TypeOK, Sent
    <2>. QED
      BY <1>1, <1>3, <2>1, FactsWithoutWrites DEF dbVars
  <1>. QED
    BY <1>2, <1>3 DEF Submit, Errors

\* The one that clicks is the only one there.
LEMMA OwnedAfterClick ==
    ASSUME TypedWorkers, SubmissionOwned, NEW w \in Workers, FillAndClick(w)
    PROVE  SubmissionOwned'
  <1>. DEFINE e == job[w]
  <1>1. /\ pc[w] = "fill" /\ e \in Executions /\ UNCHANGED <<exec, job>>
        /\ exec[e].submitted
        /\ \A v \in Workers : (pc[v] \in Sent /\ job[v] = e) => v = w
    BY DEF FillAndClick, At, TypedWorkers, WorkersBusy, SubmissionOwned, Sent, dbVars
  <1>2. /\ \A v \in Workers \ {w} : pc'[v] = pc[v]
        /\ pc'[w] \in {"await", "error"}
        /\ \A d \in Executions \ {e} : clicks'[d] = clicks[d]
    BY DEF FillAndClick, Goto, Raise, TypedWorkers, TypeOK
  <1>. SUFFICES ASSUME NEW v \in Workers, pc'[v] \in Sent
                PROVE  /\ exec'[job[v]].submitted
                       /\ pc'[v] = "fill" => clicks'[job[v]] = 0
                       /\ \A u \in Workers : (pc'[u] \in Sent /\ job[u] = job[v]) => u = v
    BY <1>1 DEF SubmissionOwned
  <1>3. CASE v = w
    BY <1>1, <1>2, <1>3
  <1>4. CASE v # w
    <2>1. pc[v] \in Sent /\ job[v] # e /\ job[v] \in Executions
      BY <1>1, <1>2, <1>4 DEF TypedWorkers, WorkersBusy, Sent
    <2>. QED
      BY <1>1, <1>2, <1>4, <2>1 DEF SubmissionOwned
  <1>. QED
    BY <1>3, <1>4

LEMMA FactsFillAndClick ==
    ASSUME TypedWorkers, Facts, NEW w \in Workers, FillAndClick(w)
    PROVE  Facts'
  <1>. DEFINE e == job[w]
  <1>1. /\ pc[w] = "fill" /\ e \in Executions /\ job' = job
        /\ exec[e].submitted /\ clicks[e] = 0
    BY DEF FillAndClick, At, TypedWorkers, WorkersBusy, Facts, SubmissionOwned, Sent
  <1>2. UNCHANGED <<exec, cart, purchases>> /\ charge' = charge
    BY DEF FillAndClick, dbVars
  <1>3. \A v \in Workers \ {w} : pc'[v] = pc[v] /\ note'[v] = note[v]
    BY DEF FillAndClick, Goto, Raise, TypedWorkers, TypeOK
  <1>4. CASE /\ clicks' = [clicks EXCEPT ![e] = @ + 1]
             /\ \/ Goto(w, "await") /\ UNCHANGED note
                \/ Raise(w, "unknown")
    <2>1. clicks'[e] = 1 /\ \A d \in Executions \ {e} : clicks'[d] = clicks[d]
      BY <1>1, <1>4 DEF TypedWorkers, TypeOK
    <2>2. RowsConsistent'
      BY <1>1, <1>2, <2>1 DEF Facts, RowsConsistent
    <2>3. PurchaseBacked'
      BY <1>2, PurchasesKept
    <2>4. pc'[w] \in {"await", "error"}
      BY <1>4 DEF Goto, Raise, TypedWorkers, TypeOK
    <2>5. SubmissionOwned'
      BY OwnedAfterClick DEF Facts
    <2>6. EvidenceSound'
      <3>1. \A d \in Executions : clicks[d] > 0 => clicks'[d] > 0
        BY <1>1, <2>1
      <3>2. \A v \in Workers : pc'[v] \in {"await", "settle"} => job[v] \in Executions
        BY <1>1, <1>3 DEF TypedWorkers, WorkersBusy
      <3>. QED
        BY <1>1, <1>2, <1>3, <2>1, <2>4, <3>1, <3>2 DEF Facts, EvidenceSound
    <2>. QED
      BY <2>2, <2>3, <2>5, <2>6 DEF Facts
  <1>5. CASE (\E error \in Errors : Raise(w, error)) /\ UNCHANGED clicks
    <2>1. NobodyEnters /\ MerchantQuiet
      BY <1>1, <1>2, <1>5 DEF MerchantQuiet, NobodyEnters, Raise, Goto, TypedWorkers,
         TypeOK, Sent
    <2>. QED
      BY <1>2, <2>1, FactsWithoutWrites
  <1>. QED
    BY <1>4, <1>5 DEF FillAndClick

LEMMA FactsMerchantSettles ==
    ASSUME TypedWorkers, Facts, NEW e \in Executions, MerchantSettles(e)
    PROVE  Facts'
  <1>1. UNCHANGED <<exec, cart, purchases, pc, job, note, clicks>>
    BY DEF MerchantSettles, dbVars, workerVars
  <1>2. clicks[e] > 0 /\ charge[e] = "none"
    BY DEF MerchantSettles
  <1>3. \A d \in Executions : d # e \/ charge[d] # "none" => charge'[d] = charge[d]
    BY <1>2 DEF MerchantSettles, TypedWorkers, TypeOK
  <1>4. SubmissionOwned'
    BY <1>1 DEF Facts, SubmissionOwned
  <1>5. RowsConsistent'
    BY <1>1, <1>2, <1>3 DEF Facts, RowsConsistent
  <1>6. EvidenceSound'
    <2>1. \A w \in Workers : pc[w] = "settle" => job[w] \in Executions
      BY DEF TypedWorkers, WorkersBusy
    <2>. QED
      BY <1>1, <1>3, <2>1 DEF Facts, EvidenceSound
  <1>7. PurchaseBacked'
    BY <1>1, <1>3 DEF Facts, PurchaseBacked
  <1>. QED
    BY <1>4, <1>5, <1>6, <1>7 DEF Facts

LEMMA FactsObserve ==
    ASSUME TypedWorkers, Facts, NEW w \in Workers, Observe(w)
    PROVE  Facts'
  <1>1. /\ UNCHANGED <<exec, cart, purchases, job, clicks, charge>>
        /\ pc[w] = "await" /\ job[w] \in Executions
    BY DEF Observe, At, dbVars, merchantVars, TypedWorkers, WorkersBusy
  <1>2. \A v \in Workers \ {w} : pc'[v] = pc[v] /\ note'[v] = note[v]
    BY DEF Observe, Goto, Raise, TypedWorkers, TypeOK
  <1>3. \/ pc'[w] = "error"
        \/ /\ pc'[w] = "settle"
           /\ note'[w] = "approved" => charge[job[w]] = "charged"
           /\ note'[w] = "declined" => charge[job[w]] = "declined"
    BY DEF Observe, Goto, Raise, TypedWorkers, TypeOK
  <1>4. SubmissionOwned'
    <2>1. \A v \in Workers : pc'[v] \in Sent => pc[v] \in Sent
      BY <1>1, <1>2 DEF Sent
    <2>2. \A v \in Workers : pc'[v] = "fill" => pc[v] = "fill"
      BY <1>2, <1>3
    <2>. QED
      BY <1>1, <2>1, <2>2 DEF Facts, SubmissionOwned
  <1>5. RowsConsistent' /\ PurchaseBacked'
    BY <1>1 DEF Facts, RowsConsistent, PurchaseBacked
  <1>6. EvidenceSound'
    BY <1>1, <1>2, <1>3 DEF Facts, EvidenceSound
  <1>. QED
    BY <1>4, <1>5, <1>6 DEF Facts

\* A worker that ends its attempt gets to no stage the facts speak of.
LEMMA LeavesSent ==
    ASSUME TypedWorkers, NEW w \in Workers, job' = job,
           NEW stage \in {"error", "again", "release"}, Goto(w, stage),
           \A v \in Workers \ {w} : note'[v] = note[v]
    PROVE  NobodyEnters
  BY DEF NobodyEnters, TypedWorkers, TypeOK, Goto, Sent

LEMMA FactsSettle ==
    ASSUME TypedWorkers, Facts, NEW w \in Workers, Settle(w)
    PROVE  Facts'
  <1>. DEFINE e == job[w]
  <1>1. /\ pc[w] = "settle" /\ e \in Executions /\ note[w] \in Outcomes
        /\ job' = job /\ MerchantQuiet
    BY DEF Settle, At, TypedWorkers, WorkersBusy, merchantVars, MerchantQuiet
  <1>2. NobodyEnters
    <2>1. \A v \in Workers \ {w} : note'[v] = note[v]
      BY DEF Settle, Raise, TypedWorkers, TypeOK
    <2>2. Goto(w, "error") \/ Goto(w, "release")
      BY DEF Settle, Raise
    <2>. QED
      BY <1>1, <2>1, <2>2, LeavesSent
  <1>3. CASE UNCHANGED dbVars
    BY <1>1, <1>2, <1>3, FactsWithoutWrites DEF dbVars
  <1>4. CASE note[w] = "approved" /\ exec[e].submitted /\ RecordPurchase(e)
    <2>1. charge[e] = "charged"
      BY <1>1, <1>4 DEF Facts, EvidenceSound
    <2>. QED
      BY <1>1, <1>2, <1>4, <2>1, FactsAfterPurchase
  <1>5. CASE /\ note[w] # "approved" /\ exec[e].status \notin Terminal
             /\ SetTerminal(e, TerminalFor(note[w]), CodeFor(note[w]))
    <2>1. TerminalFor(note[w]) \in Terminal \ {"succeeded"}
      BY <1>1, <1>5 DEF Outcomes, TerminalFor, Terminal, Unresolved
    <2>2. TerminalFor(note[w]) = "failed" => charge[e] = "declined"
      BY <1>1, <1>5 DEF Outcomes, TerminalFor, Facts, EvidenceSound
    <2>. QED
      BY <1>1, <1>2, <1>5, <2>1, <2>2, FactsAfterTerminal
  <1>. QED
    BY <1>3, <1>4, <1>5 DEF Settle, Succeed, SucceedRaises, FinishTerminal

LEMMA FactsHandleError ==
    ASSUME TypedWorkers, Facts, NEW w \in Workers, HandleError(w)
    PROVE  Facts'
  <1>. DEFINE e == job[w]
  <1>1. /\ e \in Executions /\ job' = job /\ MerchantQuiet
    BY DEF HandleError, TypedWorkers, WorkersBusy, merchantVars, MerchantQuiet
  <1>2. NobodyEnters
    <2>1. \A v \in Workers \ {w} : note'[v] = note[v]
      BY DEF HandleError, RaiseAgain, TypedWorkers, TypeOK
    <2>2. Goto(w, "again") \/ Goto(w, "release")
      BY DEF HandleError, RaiseAgain
    <2>. QED
      BY <1>1, <2>1, <2>2, LeavesSent
  <1>3. \/ UNCHANGED dbVars
        \/ /\ exec[e].status \notin Terminal
           /\ \/ SetTerminal(e, "outcome_unknown", "payment_outcome_unknown")
              \/ ~exec[e].submitted /\ \E code \in ErrorCodes : SetTerminal(e, "failed", code)
              \/ /\ ~exec[e].submitted
                 /\ \E code \in ErrorCodes :
                      WriteRow(e, [exec[e] EXCEPT !.status = "queued", !.lease = "none",
                                                  !.error = code])
                 /\ UNCHANGED <<cart, purchases>>
    BY DEF HandleError, FinishTerminal, RetryOrFail, Requeue, ErrorCodes
  <1>4. CASE UNCHANGED dbVars
    BY <1>1, <1>2, <1>4, FactsWithoutWrites DEF dbVars
  <1>5. {"outcome_unknown", "failed"} \subseteq Terminal \ {"succeeded"}
    BY DEF Terminal, Unresolved
  <1>6. CASE /\ exec[e].status \notin Terminal
             /\ SetTerminal(e, "outcome_unknown", "payment_outcome_unknown")
    BY <1>1, <1>2, <1>5, <1>6, FactsAfterTerminal
  <1>7. ASSUME exec[e].status \notin Terminal, ~exec[e].submitted,
               NEW code \in ErrorCodes, SetTerminal(e, "failed", code)
        PROVE  Facts'
    BY <1>1, <1>2, <1>5, <1>7, FactsAfterTerminal
  <1>8. ASSUME exec[e].status \notin Terminal, ~exec[e].submitted, NEW code \in ErrorCodes,
               WriteRow(e, [exec[e] EXCEPT !.status = "queued", !.lease = "none",
                                           !.error = code]),
               UNCHANGED <<cart, purchases>>
        PROVE  Facts'
    <2>1. RowBecomes(e, "queued", "none")
      BY <1>1, <1>8, RequeueRow DEF TypedWorkers, TypeOK
    <2>2. RowsConsistent' /\ SubmittedKept
      BY <1>1, <1>8, <2>1, RowsKept DEF RowBecomes
    <2>3. PurchaseBacked'
      BY <1>1, <1>8, <2>1, PurchasesKept DEF RowBecomes, Others, MerchantQuiet, Terminal
    <2>. QED
      BY <1>1, <1>2, <2>2, <2>3, WorkerFactsKept DEF Facts
  <1>. QED
    BY <1>3, <1>4, <1>6, <1>7, <1>8

\* A step that touches only the lease of one running row.
LEMMA FactsLease ==
    ASSUME TypedWorkers, Facts, MerchantQuiet, NobodyEnters, NEW e \in Executions,
           NEW lease \in {"live", "expired"}, exec[e].status = "running",
           exec' = [exec EXCEPT ![e].lease = lease], UNCHANGED <<cart, purchases>>
    PROVE  Facts'
  <1>1. RowBecomes(e, "running", lease)
    BY LeaseRow DEF TypedWorkers, TypeOK
  <1>2. RowsConsistent' /\ SubmittedKept
    BY <1>1, RowsKept DEF RowBecomes
  <1>3. PurchaseBacked'
    BY <1>1, PurchasesKept DEF RowBecomes, Others, MerchantQuiet
  <1>. QED
    BY <1>2, <1>3, WorkerFactsKept DEF Facts

LEMMA FactsSurroundings ==
    ASSUME TypedWorkers, Facts,
           \/ \E w \in Workers : Heartbeat(w)
           \/ \E e \in Executions : LeaseExpires(e)
           \/ \E c \in Cards : LockDrops(c) \/ ChangeUsable(c)
    PROVE  Facts'
  <1>1. UNCHANGED <<pc, job, note>> /\ MerchantQuiet
    BY DEF Heartbeat, LeaseExpires, LockDrops, ChangeUsable, workerVars, merchantVars,
       MerchantQuiet
  <1>2. NobodyEnters
    BY <1>1 DEF NobodyEnters
  <1>3. ASSUME NEW w \in Workers, Heartbeat(w)
        PROVE  Facts'
    <2>1. job[w] \in Executions
      BY <1>3 DEF Heartbeat, At, TypedWorkers, WorkersBusy
    <2>. QED
      BY <1>1, <1>2, <1>3, <2>1, FactsLease DEF Heartbeat, RenewLease
  <1>4. ASSUME NEW e \in Executions, LeaseExpires(e)
        PROVE  Facts'
    <2>1. exec[e].status = "running"
      BY <1>4 DEF LeaseExpires, Facts, RowsConsistent
    <2>. QED
      BY <1>1, <1>2, <1>4, <2>1, FactsLease DEF LeaseExpires
  <1>5. ASSUME NEW c \in Cards, LockDrops(c) \/ ChangeUsable(c)
        PROVE  Facts'
    BY <1>1, <1>2, <1>5, FactsWithoutWrites DEF LockDrops, ChangeUsable, dbVars
  <1>. QED
    BY <1>3, <1>4, <1>5

LEMMA FactsApprove ==
    ASSUME TypedWorkers, Facts, NEW e \in Executions, Approve(e)
    PROVE  Facts'
  <1>1. UNCHANGED <<pc, job, note, purchases>> /\ MerchantQuiet
    BY DEF Approve, QueueCheckoutExecution, workerVars, merchantVars, MerchantQuiet
  <1>2. NobodyEnters
    BY <1>1 DEF NobodyEnters
  <1>3. /\ exec'[e].status = "queued" /\ exec'[e].lease = "none"
        /\ ~exec'[e].submitted /\ Others(e)
    BY QueueRow DEF Approve, TypedWorkers, TypeOK
  <1>4. exec[e].status = "absent" /\ ~exec[e].submitted
    BY DEF Approve, QueueCheckoutExecution, Facts, RowsConsistent
  <1>5. cart' = [cart EXCEPT ![e] = "approved"] /\ cart[e] # "purchased"
    BY <1>4 DEF Approve, QueueCheckoutExecution, Facts, PurchaseBacked
  <1>6. RowsConsistent' /\ SubmittedKept
    BY <1>1, <1>3, <1>4, RowsKept
  <1>7. PurchaseBacked'
    BY <1>1, <1>3, <1>4, <1>5, PurchasesKept
    DEF Others, MerchantQuiet, TypedWorkers, TypeOK, DbTypeOK
  <1>. QED
    BY <1>1, <1>2, <1>6, <1>7, WorkerFactsKept DEF Facts

LEMMA FactsReconcile ==
    ASSUME TypedWorkers, Facts, NEW e \in Executions, Reconcile(e)
    PROVE  Facts'
  <1>1. UNCHANGED <<pc, job, note>> /\ MerchantQuiet
    BY DEF Reconcile, workerVars, merchantVars, MerchantQuiet
  <1>2. NobodyEnters
    BY <1>1 DEF NobodyEnters
  <1>. QED
    BY <1>1, <1>2, FactsAfterPurchase DEF Reconcile, ReconcileHostedSucceeded

LEMMA FactsNext == TypedWorkers /\ Facts /\ [Next]_vars => Facts'
  <1>. SUFFICES ASSUME TypedWorkers, Facts, [Next]_vars PROVE Facts'
    OBVIOUS
  <1>1. ASSUME NEW w \in Workers, WorkerStep(w) PROVE Facts'
    BY <1>1, FactsClaim, FactsMoves, FactsSubmit, FactsFillAndClick, FactsObserve,
       FactsSettle, FactsHandleError DEF WorkerStep, Release
  <1>2. CASE Disturbance
    BY <1>2, FactsMoves, FactsSurroundings, FactsApprove, FactsReconcile,
       FactsMerchantSettles DEF Disturbance, Crash
  <1>3. CASE UNCHANGED vars
    BY <1>3, FactsWithoutWrites
    DEF vars, dbVars, workerVars, merchantVars, MerchantQuiet, NobodyEnters
  <1>. QED
    BY <1>1, <1>2, <1>3 DEF Next

-----------------------------------------------------------------------------
(* Every step changes at most one row, and a row once inserted stays. *)

RowMoves(e) ==
    /\ Others(e)
    /\ exec'[e].status # "absent"
    /\ exec[e].status \in Terminal =>
          /\ exec[e].status = "outcome_unknown"
          /\ charge[e] = "charged"
          /\ exec'[e].status = "succeeded"

OneRowMoves == UNCHANGED exec \/ \E e \in Executions : RowMoves(e)

LEMMA RowMovesSetTerminal ==
    ASSUME DbTypeOK, NEW e \in Executions, NEW status \in Terminal, NEW code,
           exec[e].status \notin Terminal, SetTerminal(e, status, code)
    PROVE  OneRowMoves
  BY SetTerminalRow DEF OneRowMoves, RowMoves, RowBecomes, Terminal, Unresolved

LEMMA RowMovesClaim ==
    ASSUME TypedWorkers, NEW w \in Workers, Claim(w)
    PROVE  OneRowMoves
  <1>1. PICK e \in Executions : ClaimSubmitted(e) \/ ClaimExhausted(e) \/ ClaimAttempt(e)
    BY DEF Claim
  <1>2. exec[e].status \notin Terminal /\ DbTypeOK
    BY <1>1 DEF ClaimSubmitted, ClaimExhausted, ClaimAttempt, Claimable, Terminal,
       Unresolved, TypedWorkers, TypeOK
  <1>3. CASE ClaimSubmitted(e) \/ ClaimExhausted(e)
    <2>1. {"outcome_unknown", "failed"} \subseteq Terminal
      BY DEF Terminal, Unresolved
    <2>. QED
      BY <1>2, <1>3, <2>1, RowMovesSetTerminal DEF ClaimSubmitted, ClaimExhausted
  <1>4. CASE ClaimAttempt(e)
    BY <1>2, <1>4, ClaimAttemptRow DEF OneRowMoves, RowMoves, RowBecomes
  <1>. QED
    BY <1>1, <1>3, <1>4

LEMMA RowMovesSettle ==
    ASSUME TypedWorkers, NEW w \in Workers, Settle(w)
    PROVE  OneRowMoves
  <1>. DEFINE e == job[w]
  <1>1. e \in Executions /\ note[w] \in Outcomes /\ DbTypeOK
    BY DEF Settle, At, TypedWorkers, WorkersBusy, TypeOK
  <1>2. CASE UNCHANGED dbVars
    BY <1>2 DEF dbVars, OneRowMoves
  <1>3. CASE Valid(e) /\ RecordPurchase(e)
    BY <1>1, <1>3, RecordPurchaseRow DEF OneRowMoves, RowMoves, RowBecomes, Valid, Terminal,
       Unresolved
  <1>4. CASE /\ note[w] # "approved" /\ exec[e].status \notin Terminal
             /\ SetTerminal(e, TerminalFor(note[w]), CodeFor(note[w]))
    <2>1. TerminalFor(note[w]) \in Terminal
      BY <1>1, <1>4 DEF Outcomes, TerminalFor, Terminal, Unresolved
    <2>. QED
      BY <1>1, <1>4, <2>1, RowMovesSetTerminal
  <1>. QED
    BY <1>2, <1>3, <1>4 DEF Settle, Succeed, SucceedRaises, FinishTerminal

LEMMA RowMovesHandleError ==
    ASSUME TypedWorkers, NEW w \in Workers, HandleError(w)
    PROVE  OneRowMoves
  <1>. DEFINE e == job[w]
  <1>1. e \in Executions /\ DbTypeOK /\ {"outcome_unknown", "failed"} \subseteq Terminal
    BY DEF HandleError, At, TypedWorkers, WorkersBusy, TypeOK, Terminal, Unresolved
  <1>2. CASE UNCHANGED dbVars
    BY <1>2 DEF dbVars, OneRowMoves
  <1>3. ASSUME NEW status \in {"outcome_unknown", "failed"}, NEW code,
               exec[e].status \notin Terminal, SetTerminal(e, status, code)
        PROVE  OneRowMoves
    BY <1>1, <1>3, RowMovesSetTerminal
  <1>4. ASSUME NEW code, exec[e].status \notin Terminal,
               WriteRow(e, [exec[e] EXCEPT !.status = "queued", !.lease = "none",
                                           !.error = code])
        PROVE  OneRowMoves
    BY <1>1, <1>4, RequeueRow DEF OneRowMoves, RowMoves, RowBecomes
  <1>5. \/ UNCHANGED dbVars
        \/ /\ exec[e].status \notin Terminal
           /\ \E code \in ErrorCodes :
                 \/ SetTerminal(e, "outcome_unknown", code)
                 \/ SetTerminal(e, "failed", code)
                 \/ WriteRow(e, [exec[e] EXCEPT !.status = "queued", !.lease = "none",
                                                !.error = code])
    BY DEF HandleError, FinishTerminal, RetryOrFail, Requeue, ErrorCodes
  <1>. QED
    BY <1>2, <1>3, <1>4, <1>5

LEMMA RowMovesLease ==
    ASSUME DbTypeOK, NEW e \in Executions, NEW lease, exec[e].status = "running",
           exec' = [exec EXCEPT ![e].lease = lease]
    PROVE  OneRowMoves
  BY LeaseRow DEF OneRowMoves, RowMoves, RowBecomes, Terminal, Unresolved

LEMMA RowMovesNext == TypedWorkers /\ Facts /\ [Next]_vars => OneRowMoves
  <1>. SUFFICES ASSUME TypedWorkers, Facts, [Next]_vars PROVE OneRowMoves
    OBVIOUS
  <1>1. DbTypeOK
    BY DEF TypedWorkers, TypeOK
  <1>2. ASSUME NEW w \in Workers, Submit(w) PROVE OneRowMoves
    <2>1. job[w] \in Executions
      BY <1>2 DEF Submit, At, TypedWorkers, WorkersBusy
    <2>. QED
      BY <1>1, <1>2, <2>1, MarkSubmittedRow
      DEF Submit, MarkSubmitted, Valid, dbVars, OneRowMoves, RowMoves, Terminal, Unresolved
  <1>3. ASSUME NEW w \in Workers, WorkerStep(w) PROVE OneRowMoves
    <2>1. CASE UNCHANGED dbVars
      BY <2>1 DEF dbVars, OneRowMoves
    <2>. QED
      BY <1>2, <1>3, <2>1, RowMovesClaim, RowMovesSettle, RowMovesHandleError
      DEF WorkerStep, Prepare, AcquireCardLock, PrepareAgain, FailBeforeSubmission,
          FillAndClick, Observe, HandlingFails, Release, LeaveClaim
  <1>4. ASSUME NEW w \in Workers, Heartbeat(w) PROVE OneRowMoves
    <2>1. job[w] \in Executions
      BY <1>4 DEF Heartbeat, At, TypedWorkers, WorkersBusy
    <2>. QED
      BY <1>1, <1>4, <2>1, RowMovesLease DEF Heartbeat, RenewLease
  <1>5. ASSUME NEW e \in Executions, LeaseExpires(e) PROVE OneRowMoves
    BY <1>1, <1>5, RowMovesLease DEF LeaseExpires, Facts, RowsConsistent
  <1>6. ASSUME NEW e \in Executions, Approve(e) PROVE OneRowMoves
    BY <1>1, <1>6, QueueRow
    DEF Approve, QueueCheckoutExecution, OneRowMoves, RowMoves, Terminal, Unresolved
  <1>7. ASSUME NEW e \in Executions, Reconcile(e) PROVE OneRowMoves
    BY <1>1, <1>7, RecordPurchaseRow
    DEF Reconcile, ReconcileHostedSucceeded, OneRowMoves, RowMoves, RowBecomes
  <1>8. CASE Disturbance
    <2>1. CASE UNCHANGED exec
      BY <2>1 DEF OneRowMoves
    <2>. QED
      BY <1>4, <1>5, <1>6, <1>7, <1>8, <2>1
      DEF Disturbance, Crash, LeaveClaim, MerchantSettles, LockDrops, ChangeUsable, dbVars
  <1>9. CASE UNCHANGED vars
    BY <1>9 DEF vars, dbVars, OneRowMoves
  <1>. QED
    BY <1>3, <1>8, <1>9 DEF Next

\* A worker claims a row that exists and keeps it until it goes idle.
LEMMA ClaimsExistNext ==
    TypedWorkers /\ Facts /\ ClaimsExist /\ [Next]_vars => ClaimsExist'
  <1>. SUFFICES ASSUME TypedWorkers, Facts, ClaimsExist, [Next]_vars,
                       NEW w \in Workers, pc'[w] # "idle"
                PROVE  exec'[job'[w]].status # "absent"
    BY DEF ClaimsExist
  <1>1. ASSUME pc[w] # "idle", job'[w] = job[w]
        PROVE  exec'[job'[w]].status # "absent"
    <2>1. job[w] \in Executions
      BY <1>1 DEF TypedWorkers, WorkersBusy
    <2>. QED
      BY <1>1, <2>1, RowMovesNext DEF ClaimsExist, OneRowMoves, RowMoves, Others
  <1>2. ASSUME NEW v \in Workers, Claim(v)
        PROVE  exec'[job'[w]].status # "absent"
    <2>1. CASE v = w /\ pc' # pc
      <3>1. PICK e \in Executions : ClaimAttempt(e) /\ job'[w] = e
        BY <1>2, <2>1 DEF Claim, workerVars, TypedWorkers, TypeOK
      <3>. QED
        BY <3>1, ClaimAttemptRow DEF RowBecomes, TypedWorkers, TypeOK
    <2>2. CASE v # w \/ pc' = pc
      <3>1. pc[w] # "idle" /\ job'[w] = job[w]
        BY <1>2, <2>2 DEF Claim, At, Goto, workerVars, TypedWorkers, TypeOK
      <3>. QED
        BY <1>1, <3>1
    <2>. QED
      BY <2>1, <2>2
  <1>3. ASSUME NEW v \in Workers, LeaveClaim(v)
        PROVE  exec'[job'[w]].status # "absent"
    BY <1>1, <1>3 DEF LeaveClaim, Goto, TypedWorkers, TypeOK
  <1>4. ASSUME NEW v \in Workers, WorkerStep(v), ~Claim(v), ~Release(v)
        PROVE  exec'[job'[w]].status # "absent"
    <2>1. job' = job /\ pc[w] # "idle"
      BY <1>4 DEF WorkerStep, Prepare, AcquireCardLock, PrepareAgain, FailBeforeSubmission,
         Submit, FillAndClick, Observe, Settle, HandleError, HandlingFails, RaiseAgain,
         At, Goto, Raise, TypedWorkers, TypeOK
    <2>. QED
      BY <1>1, <2>1
  <1>5. CASE Disturbance /\ UNCHANGED <<pc, job>>
    BY <1>1, <1>5
  <1>6. CASE UNCHANGED vars
    BY <1>1, <1>6 DEF vars, workerVars
  <1>. QED
    BY <1>2, <1>3, <1>4, <1>5, <1>6
    DEF Next, Disturbance, Release, Crash, Heartbeat, LeaseExpires, Approve, Reconcile,
        MerchantSettles, LockDrops, ChangeUsable, workerVars

-----------------------------------------------------------------------------
(* The theorems. *)

\* The inductive invariant: what the workers' places, the rows, the payments and
\* the purchases have to do with each other.
THEOREM Inductive == Spec => []IInv
  <1>1. Init => TypedWorkers /\ Facts /\ ClaimsExist
    BY TypedInit, FactsInit DEF Init, ClaimsExist
  <1>2. TypedWorkers /\ Facts /\ ClaimsExist /\ [Next]_vars
            => TypedWorkers' /\ Facts' /\ ClaimsExist'
    BY TypedNext, FactsNext, ClaimsExistNext
  <1>3. TypedWorkers /\ Facts /\ ClaimsExist <=> IInv
    BY DEF IInv, TypedWorkers, Facts
  <1>. QED
    BY <1>1, <1>2, <1>3, PTL DEF Spec

\* The pay button is pressed at most once per execution.
THEOREM ClickedOnce == Spec => []AtMostOneClick
  <1>1. IInv => AtMostOneClick
    BY DEF IInv, RowsConsistent, AtMostOneClick
  <1>. QED
    BY <1>1, Inductive, PTL

\* A payment that was made is never called failed and never queued again.
THEOREM ChargeKept == Spec => []ChargeNeverDenied
  <1>1. IInv => ChargeNeverDenied
    <2>. SUFFICES ASSUME IInv, NEW e \in Executions, charge[e] = "charged"
                  PROVE  exec[e].status \in {"running", "succeeded"} \cup Unresolved
      BY DEF ChargeNeverDenied
    <2>1. exec[e].status \in Status
      BY DEF IInv, TypeOK, DbTypeOK, Row
    <2>2. exec[e].submitted
      BY DEF IInv, RowsConsistent
    <2>. QED
      BY <2>1, <2>2 DEF IInv, RowsConsistent, Status, Terminal, Unresolved
  <1>. QED
    BY <1>1, Inductive, PTL

\* Success, the purchase and the purchased cart item come and stay together,
\* and only for a payment that was made.
THEOREM PurchasesAreBacked == Spec => []PurchaseBacked
  <1>1. IInv => PurchaseBacked
    BY DEF IInv
  <1>. QED
    BY <1>1, Inductive, PTL

\* Only proof of payment ever changes a terminal row.
THEOREM TerminalRowsFinal == Spec => TerminalIsFinal
  <1>. DEFINE Final ==
         \A e \in Executions :
            exec[e].status \in Terminal =>
                \/ exec'[e] = exec[e]
                \/ /\ exec[e].status = "outcome_unknown"
                   /\ charge[e] = "charged"
                   /\ exec'[e].status = "succeeded"
  <1>1. IInv /\ [Next]_vars => Final
    BY RowMovesNext DEF IInv, TypedWorkers, Facts, OneRowMoves, RowMoves, Others
  <1>2. IInv /\ [Next]_vars => [Final]_vars
    BY <1>1
  <1>. QED
    BY <1>2, Inductive, PTL DEF Spec, TerminalIsFinal

-----------------------------------------------------------------------------
(* The ledger: feed, timeline, error codes and references fit the rows.    *)

LEMMA WrittenClaim ==
    ASSUME TypedWorkers, NEW w \in Workers, Claim(w)
    PROVE  Written
  <1>. PICK e \in Executions : ClaimSubmitted(e) \/ ClaimExhausted(e) \/ ClaimAttempt(e)
    BY DEF Claim
  <1>1. exec[e].attempts \in 0..MaxAttempts
    BY DEF TypedWorkers, TypeOK, DbTypeOK, Row
  <1>2. ClaimExhausted(e) => exec[e].attempts = MaxAttempts
    BY <1>1, MaxAttemptsAssumption DEF ClaimExhausted
  <1>. QED
    BY <1>2 DEF Written, Writes, CodeFits, ClaimSubmitted, ClaimExhausted, Claimable

LEMMA WrittenSettle ==
    ASSUME TypedWorkers, NEW w \in Workers, Settle(w)
    PROVE  Written
  <1>1. job[w] \in Executions /\ note[w] \in Outcomes
    BY DEF TypedWorkers, WorkersBusy, At, Settle
  <1>2. CASE Succeed(job[w])
    <2>1. CASE UNCHANGED dbVars
      BY <2>1, NothingInDb DEF Written
    <2>2. CASE Valid(job[w]) /\ PurchaseIsNew(job[w]) /\ RecordPurchase(job[w])
      BY <1>1, <2>2 DEF Written, Writes, Valid
    <2>. QED
      BY <1>2, <2>1, <2>2 DEF Succeed
  <1>3. CASE /\ note[w] # "approved"
             /\ FinishTerminal(job[w], TerminalFor(note[w]), CodeFor(note[w]))
    <2>1. /\ TerminalFor(note[w]) \in Terminal \ {"succeeded"}
          /\ CodeFor(note[w]) \in ErrorCodes \ {"checkout_failed"}
          /\ TerminalFor(note[w]) = "outcome_unknown" =>
                CodeFor(note[w]) = "payment_outcome_unknown"
      BY <1>1, <1>3 DEF TerminalFor, CodeFor
    <2>. QED
      BY <1>1, <1>3, <2>1, WrittenFinishTerminal
  <1>4. CASE UNCHANGED dbVars
    BY <1>4, NothingInDb DEF Written
  <1>. QED
    BY <1>2, <1>3, <1>4 DEF Settle, SucceedRaises

LEMMA WrittenNext == TypedWorkers /\ [Next]_vars => Written
  <1>. SUFFICES ASSUME TypedWorkers, [Next]_vars PROVE Written
    OBVIOUS
  <1>0. DbTypeOK
    BY DEF TypedWorkers, TypeOK
  <1>1. ASSUME NEW w \in Workers, Submit(w) PROVE Written
    <2>1. job[w] \in Executions
      BY <1>1 DEF Submit, At, TypedWorkers, WorkersBusy
    <2>2. CASE UNCHANGED dbVars
      BY <2>2, NothingInDb DEF Written
    <2>3. CASE MarkSubmitted(job[w])
      BY <1>0, <2>1, <2>3, NothingInLease DEF Written, MarkSubmitted
    <2>. QED
      BY <1>1, <2>2, <2>3 DEF Submit
  <1>2. ASSUME NEW w \in Workers, HandleError(w) PROVE Written
    <2>1. job[w] \in Executions
      BY <1>2 DEF HandleError, At, TypedWorkers, WorkersBusy
    <2>2. CASE FinishTerminal(job[w], "outcome_unknown", "payment_outcome_unknown")
      BY <2>1, <2>2, WrittenFinishTerminal
    <2>3. CASE RetryOrFail(job[w], note[w] = "retryable")
      BY <1>0, <2>1, <2>3, WrittenRetryOrFail
    <2>. QED
      BY <1>2, <2>2, <2>3 DEF HandleError
  <1>3. ASSUME NEW w \in Workers, Heartbeat(w) PROVE Written
    <2>1. job[w] \in Executions
      BY <1>3 DEF Heartbeat, At, TypedWorkers, WorkersBusy
    <2>. QED
      BY <1>0, <1>3, <2>1, NothingInLease DEF Written, Heartbeat, RenewLease
  <1>4. ASSUME NEW e \in Executions, LeaseExpires(e) PROVE Written
    BY <1>0, <1>4, NothingInLease DEF Written, LeaseExpires
  <1>5. ASSUME NEW e \in Executions, Approve(e) \/ Reconcile(e) PROVE Written
    BY <1>5 DEF Written, Writes, Approve, Reconcile, ReconcileHostedSucceeded
  <1>6. CASE UNCHANGED <<exec, purchases, events, timeline>>
    BY <1>6 DEF Written, NothingWritten
  <1>. QED
    BY <1>1, <1>2, <1>3, <1>4, <1>5, <1>6, WrittenClaim, WrittenSettle
    DEF Next, Disturbance, WorkerStep, Crash, Release, LeaveClaim, MerchantSettles, LockDrops,
        ChangeUsable, Prepare, AcquireCardLock, PrepareAgain, FailBeforeSubmission,
        FillAndClick, Observe, HandlingFails, vars, dbVars

LEMMA FeedKept == TypedWorkers /\ FeedMatchesRow /\ [Next]_vars => FeedMatchesRow'
  <1>. SUFFICES ASSUME TypedWorkers, FeedMatchesRow, [Next]_vars, NEW d \in Executions
                PROVE  IF exec'[d].status \in Terminal
                       THEN \/ events'[d] = <<exec'[d].status>>
                            \/ /\ exec'[d].status = "succeeded"
                               /\ events'[d] = <<"outcome_unknown", "succeeded">>
                       ELSE events'[d] = <<>>
    BY DEF FeedMatchesRow
  <1>0. DbTypeOK
    BY DEF TypedWorkers, TypeOK
  <1>1. CASE NothingWritten
    BY <1>1 DEF NothingWritten, FeedMatchesRow
  <1>2. ASSUME NEW e \in Executions, Entered(e), d = e
        PROVE  IF exec'[d].status \in Terminal
               THEN \/ events'[d] = <<exec'[d].status>>
                    \/ /\ exec'[d].status = "succeeded"
                       /\ events'[d] = <<"outcome_unknown", "succeeded">>
               ELSE events'[d] = <<>>
    <2>1. CASE exec[e].status \notin Terminal
      <3>1. events[e] = <<>>
        BY <2>1 DEF FeedMatchesRow
      <3>2. Append(<<>>, exec'[e].status) = <<exec'[e].status>>
        OBVIOUS
      <3>. QED
        BY <1>2, <3>1, <3>2 DEF Entered
    <2>2. CASE exec[e].status \in Terminal
      <3>1. Append(<<"outcome_unknown">>, "succeeded") = <<"outcome_unknown", "succeeded">>
        BY PairIsAppended
      <3>. QED
        BY <1>2, <2>2, <3>1 DEF Entered
    <2>. QED
      BY <2>1, <2>2
  <1>3. ASSUME NEW e \in Executions, Entered(e), d # e
        PROVE  exec'[d] = exec[d] /\ events'[d] = events[d]
    BY <1>3 DEF Entered
  <1>. QED
    BY <1>0, <1>1, <1>2, <1>3, WrittenNext, WritesEnter DEF Written, FeedMatchesRow

LEMMA CodesKept ==
    TypedWorkers /\ TransientErrorsRetried /\ [Next]_vars => TransientErrorsRetried'
  <1>. SUFFICES ASSUME TypedWorkers, TransientErrorsRetried, [Next]_vars, NEW d \in Executions,
                       exec'[d].status = "failed", exec'[d].error = "checkout_failed"
                PROVE  exec'[d].attempts = MaxAttempts
    BY DEF TransientErrorsRetried
  <1>0. DbTypeOK
    BY DEF TypedWorkers, TypeOK
  <1>1. CASE NothingWritten
    BY <1>1 DEF NothingWritten, TransientErrorsRetried
  <1>2. ASSUME NEW e \in Executions, Entered(e)
        PROVE  exec'[d].attempts = MaxAttempts
    BY <1>2 DEF Entered, TransientErrorsRetried
  <1>. QED
    BY <1>0, <1>1, <1>2, WrittenNext, WritesEnter DEF Written

LEMMA ReferencesKept ==
    TypedWorkers /\ ReferencesUnique /\ [Next]_vars => ReferencesUnique'
  <1>. SUFFICES ASSUME TypedWorkers, ReferencesUnique, [Next]_vars
                PROVE  ReferencesUnique'
    OBVIOUS
  <1>1. CASE UNCHANGED purchases
    BY <1>1 DEF ReferencesUnique
  <1>2. ASSUME NEW e \in Executions, PurchaseIsNew(e), RecordPurchase(e)
        PROVE  ReferencesUnique'
    <2>. DEFINE bought == [execution |-> e, reference |-> ReferenceOf[e]]
    <2>1. purchases' = purchases \cup {bought}
      BY <1>2 DEF RecordPurchase
    <2>2. bought.execution = e /\ bought.reference = ReferenceOf[e]
      OBVIOUS
    <2>3. \A p \in purchases : ~ (/\ CardOf[p.execution] = CardOf[e]
                                  /\ p.reference = ReferenceOf[e])
      BY <1>2 DEF PurchaseIsNew
    <2>. HIDE DEF bought
    <2>. QED
      BY <2>1, <2>2, <2>3 DEF ReferencesUnique
  <1>. QED
    BY <1>1, <1>2, WrittenNext
    DEF Written, NothingWritten, Writes, QueueCheckoutExecution, ClaimAttempt, Requeue,
        SetTerminal

LEMMA TimelineKept == TypedWorkers /\ TimelineMatchesRow /\ [Next]_vars => TimelineMatchesRow'
  <1>. DEFINE Fits(line, row) ==
                 /\ line # <<>> => line[Len(line)] = row.status
                 /\ row.attempts = Cardinality(RunningAt(line))
                 /\ \A i \in 1..Len(line) - 1 :
                       line[i] \in Terminal =>
                          line[i] = "outcome_unknown" /\ line[i + 1] = "succeeded"
  <1>. SUFFICES ASSUME TypedWorkers, TimelineMatchesRow, [Next]_vars, NEW d \in Executions
                PROVE  Fits(timeline'[d], exec'[d])
    BY DEF TimelineMatchesRow, RunningAt
  <1>0. DbTypeOK
    BY DEF TypedWorkers, TypeOK
  <1>1. Fits(timeline[d], exec[d])
    BY DEF TimelineMatchesRow, RunningAt
  <1>2. CASE NothingWritten
    BY <1>1, <1>2 DEF NothingWritten
  <1>3. ASSUME NEW e \in Executions, Entered(e), d # e
        PROVE  Fits(timeline'[d], exec'[d])
    <2>1. exec'[d] = exec[d] /\ timeline'[d] = timeline[d]
      BY <1>3 DEF Entered
    <2>. QED
      BY <1>1, <2>1
  <1>4. ASSUME Entered(d)
        PROVE  Fits(timeline'[d], exec'[d])
    <2>. DEFINE s == timeline[d]
                x == exec'[d].status
    <2>1. s \in Seq(Status \ {"absent"}) /\ Len(s) \in Nat
      BY <1>0 DEF DbTypeOK
    <2>2. x \in Status \ {"absent"} /\ timeline'[d] = Append(s, x)
      BY <1>4 DEF Entered, Row
    <2>3. /\ Append(s, x)[Len(s) + 1] = x
          /\ \A i \in 1..Len(s) : Append(s, x)[i] = s[i]
          /\ Len(Append(s, x)) = Len(s) + 1
      BY <2>1, <2>2
    <2>4. /\ x = "running" =>
               Cardinality(RunningAt(Append(s, x))) = Cardinality(RunningAt(s)) + 1
          /\ x # "running" =>
               Cardinality(RunningAt(Append(s, x))) = Cardinality(RunningAt(s))
      BY <2>1, <2>2, CountOfAppend
    <2>5. exec'[d].attempts = Cardinality(RunningAt(Append(s, x)))
      <3>1. exec[d] \in Row
        BY <1>0 DEF DbTypeOK
      <3>2. exec[d].attempts \in Nat /\ exec[d].attempts = Cardinality(RunningAt(s))
        BY <1>1, <3>1, MaxAttemptsAssumption DEF Row
      <3>3. CASE exec[d].status = "absent" /\ exec'[d].attempts = 0 /\ x = "queued"
        <4>1. s = <<>>
          <5>1. s # <<>> => Len(s) \in 1..Len(s)
            BY <2>1
          <5>2. s # <<>> => s[Len(s)] \in Status \ {"absent"}
            BY <2>1, <5>1
          <5>. QED
            BY <1>1, <3>3, <5>2
        <4>2. RunningAt(s) = {}
          BY <4>1 DEF RunningAt
        <4>3. Cardinality(RunningAt(s)) = 0
          BY <4>2, FS_EmptySet
        <4>. QED
          BY <2>4, <3>3, <4>3
      <3>4. CASE x = "running" /\ exec'[d].attempts = exec[d].attempts + 1
        BY <2>4, <3>2, <3>4
      <3>5. CASE x # "running" /\ exec'[d].attempts = exec[d].attempts
        BY <2>4, <3>2, <3>5
      <3>. QED
        BY <1>4, <3>3, <3>4, <3>5 DEF Entered
    <2>6. ASSUME NEW i \in 1..Len(s), s[i] \in Terminal
          PROVE  s[i] = "outcome_unknown" /\ Append(s, x)[i + 1] = "succeeded"
      <3>1. CASE i = Len(s)
        <4>1. s[i] = exec[d].status
          BY <1>1, <2>1, <3>1
        <4>. QED
          BY <1>4, <2>3, <2>6, <3>1, <4>1 DEF Entered
      <3>2. CASE i # Len(s)
        <4>1. i \in 1..Len(s) - 1 /\ i + 1 \in 1..Len(s)
          BY <2>1, <3>2
        <4>. QED
          BY <1>1, <2>3, <2>6, <4>1
      <3>. QED
        BY <3>1, <3>2
    <2>7. ASSUME NEW i \in 1..Len(Append(s, x)) - 1, Append(s, x)[i] \in Terminal
          PROVE  Append(s, x)[i] = "outcome_unknown" /\ Append(s, x)[i + 1] = "succeeded"
      <3>1. i \in 1..Len(s) /\ Append(s, x)[i] = s[i]
        BY <2>1, <2>3
      <3>. QED
        BY <2>6, <2>7, <3>1
    <2>. HIDE DEF s, x
    <2>. QED
      BY <2>2, <2>3, <2>5, <2>7 DEF x
  <1>. QED
    BY <1>0, <1>2, <1>3, <1>4, WrittenNext, WritesEnter DEF Written

-----------------------------------------------------------------------------
(* The card lock, while the connection that holds it lives.                *)

LockHeld ==
    \A w \in Workers :
        pc[w] \in Critical => job[w] \in Executions /\ lock[CardOf[job[w]]] = w

LEMMA LockHeldKept ==
    ASSUME LockMayDrop = FALSE
    PROVE  TypedWorkers /\ LockHeld /\ [Next]_vars => LockHeld'
  <1>. SUFFICES ASSUME TypedWorkers, LockHeld, [Next]_vars, NEW v \in Workers,
                       pc'[v] \in Critical
                PROVE  job'[v] \in Executions /\ lock'[CardOf[job'[v]]] = v
    BY DEF LockHeld
  <1>1. ASSUME NEW w \in Workers, AcquireCardLock(w)
        PROVE  job'[v] \in Executions /\ lock'[CardOf[job'[v]]] = v
    <2>1. job' = job /\ job[w] \in Executions /\ CardOf[job[w]] \in Cards
      BY <1>1, CardsAssumption DEF AcquireCardLock, At, TypedWorkers, WorkersBusy
    <2>2. v # w => pc[v] \in Critical
      BY <1>1 DEF AcquireCardLock, Goto, TypedWorkers, TypeOK
    <2>3. v # w => lock[CardOf[job[v]]] = v
      BY <2>2 DEF LockHeld
    <2>4. lock[CardOf[job[w]]] # v
      BY <1>1, WorkersAssumption DEF AcquireCardLock
    <2>5. CASE v = w
      BY <1>1, <2>1, <2>5 DEF AcquireCardLock, TypedWorkers, TypeOK
    <2>6. CASE v # w
      <3>1. job[v] \in Executions /\ CardOf[job[v]] # CardOf[job[w]]
        BY <2>2, <2>3, <2>4, <2>6 DEF LockHeld
      <3>2. CardOf[job[v]] \in Cards
        BY <3>1, CardsAssumption
      <3>. QED
        BY <1>1, <2>1, <2>3, <2>6, <3>1, <3>2 DEF AcquireCardLock, TypedWorkers, TypeOK
    <2>. QED
      BY <2>5, <2>6
  <1>2. ASSUME NEW w \in Workers, LeaveClaim(w) \/ (RaiseAgain(w) /\ job' = job)
        PROVE  job'[v] \in Executions /\ lock'[CardOf[job'[v]]] = v
    <2>1. v # w /\ pc[v] \in Critical /\ job'[v] = job[v]
      BY <1>2 DEF LeaveClaim, RaiseAgain, Goto, TypedWorkers, TypeOK
    <2>2. job[v] \in Executions /\ lock[CardOf[job[v]]] = v
      BY <2>1 DEF LockHeld
    <2>3. CardOf[job[v]] \in Cards
      BY <2>2, CardsAssumption
    <2>. QED
      BY <1>2, <2>1, <2>2, <2>3 DEF LeaveClaim, RaiseAgain, Unlock
  <1>3. ASSUME NEW w \in Workers, Claim(w)
        PROVE  job'[v] \in Executions /\ lock'[CardOf[job'[v]]] = v
    <2>1. pc[v] \in Critical /\ lock' = lock
      BY <1>3 DEF Claim, Goto, workerVars, TypedWorkers, TypeOK
    <2>2. job'[v] = job[v]
      BY <1>3, <2>1 DEF Claim, At, workerVars, TypedWorkers, TypeOK
    <2>. QED
      BY <2>1, <2>2 DEF LockHeld
  <1>4. ASSUME NEW w \in Workers, WorkerStep(w), ~AcquireCardLock(w), ~Claim(w), ~Release(w),
               ~(RaiseAgain(w) /\ job' = job)
        PROVE  job'[v] \in Executions /\ lock'[CardOf[job'[v]]] = v
    <2>1. job' = job /\ lock' = lock
      BY <1>4 DEF WorkerStep, Prepare, PrepareAgain, FailBeforeSubmission, Submit, FillAndClick,
         Observe, Settle, HandleError, HandlingFails
    <2>2. pc[v] \in Critical
      BY <1>4 DEF WorkerStep, Prepare, PrepareAgain, FailBeforeSubmission, Submit, FillAndClick,
         Observe, Settle, HandleError, HandlingFails, At, Goto, Raise, TypedWorkers, TypeOK
    <2>. QED
      BY <2>1, <2>2 DEF LockHeld
  <1>5. CASE UNCHANGED <<pc, job, lock>>
    BY <1>5 DEF LockHeld
  <1>. QED
    BY <1>1, <1>2, <1>3, <1>4, <1>5
    DEF Next, Disturbance, Crash, Release, Heartbeat, LeaseExpires, Approve, Reconcile,
        MerchantSettles, LockDrops, ChangeUsable, workerVars, vars

-----------------------------------------------------------------------------
(* The theorems about what is written beside the rows. *)

\* No two purchases on one card carry the same provider reference.
THEOREM ReferencesBookedOnce == Spec => []ReferencesUnique
  <1>1. Init => ReferencesUnique
    BY DEF Init, DbInit, ReferencesUnique
  <1>2. TypedWorkers /\ ReferencesUnique /\ [Next]_vars => ReferencesUnique'
    BY ReferencesKept
  <1>. QED
    BY <1>1, <1>2, TypedInit, TypedNext, PTL DEF Spec

\* The agent's feed holds the terminal event each execution ended with, and a
\* second one only for a reconciliation.
THEOREM FeedFollowsRow == Spec => []FeedMatchesRow
  <1>1. Init => FeedMatchesRow
    <2>1. ASSUME Init, NEW e \in Executions
          PROVE  exec[e].status = "absent" /\ events[e] = <<>>
      <3>1. exec[e] = NoRow /\ events[e] = <<>>
        BY <2>1, Zenon DEF Init, DbInit
      <3>. QED
        BY <3>1 DEF NoRow
    <2>2. "absent" \notin Terminal
      OBVIOUS
    <2>3. ASSUME Init, NEW e \in Executions
          PROVE  exec[e].status \notin Terminal /\ events[e] = <<>>
      BY <2>1, <2>2, <2>3
    <2>. QED
      BY <2>3, Zenon DEF FeedMatchesRow
  <1>2. TypedWorkers /\ FeedMatchesRow /\ [Next]_vars => FeedMatchesRow'
    BY FeedKept
  <1>. QED
    BY <1>1, <1>2, TypedInit, TypedNext, PTL DEF Spec

\* The timeline ends in the row's status, counts its attempts, and goes on after
\* a terminal entry only with a reconciliation.
THEOREM TimelineFollowsRow == Spec => []TimelineMatchesRow
  <1>1. Init => TimelineMatchesRow
    <2>. SUFFICES ASSUME Init PROVE TimelineMatchesRow
      OBVIOUS
    <2>1. \A e \in Executions : timeline[e] = <<>> /\ exec[e].attempts = 0
      BY DEF Init, DbInit, NoRow
    <2>2. Len(<<>>) = 0 /\ 1..0 = {} /\ 1..0 - 1 = {}
      OBVIOUS
    <2>4. ASSUME NEW line, line = <<>>
          PROVE  /\ {i \in 1..Len(line) : line[i] = "running"} = {}
                 /\ \A i \in 1..Len(line) - 1 : FALSE
      BY <2>2, <2>4
    <2>3. Cardinality({}) = 0
      BY FS_EmptySet
    <2>. QED
      BY <2>1, <2>3, <2>4 DEF TimelineMatchesRow
  <1>2. TypedWorkers /\ TimelineMatchesRow /\ [Next]_vars => TimelineMatchesRow'
    BY TimelineKept
  <1>. QED
    BY <1>1, <1>2, TypedInit, TypedNext, PTL DEF Spec

\* Transient errors end an execution only when its attempts are used up.
THEOREM TransientsRetried == Spec => []TransientErrorsRetried
  <1>1. Init => TransientErrorsRetried
    BY DEF Init, DbInit, NoRow, TransientErrorsRetried
  <1>2. TypedWorkers /\ TransientErrorsRetried /\ [Next]_vars => TransientErrorsRetried'
    BY CodesKept
  <1>. QED
    BY <1>1, <1>2, TypedInit, TypedNext, PTL DEF Spec

\* One worker at a time is past the second validation of a card, provided the
\* lock's connection outlives its holder's attempt.
THEOREM CardUsedByOne ==
    ASSUME LockMayDrop = FALSE
    PROVE  Spec => []CardSerialized
  <1>1. Init => LockHeld
    BY DEF Init, LockHeld
  <1>2. TypedWorkers /\ LockHeld /\ [Next]_vars => LockHeld'
    BY LockHeldKept
  <1>3. LockHeld => CardSerialized
    BY DEF LockHeld, CardSerialized
  <1>. QED
    BY <1>1, <1>2, <1>3, TypedInit, TypedNext, PTL DEF Spec

-----------------------------------------------------------------------------
(* CheckoutWorker implements CheckoutLifecycle: under the refinement mapping *)
(* of Promise, every step of a worker, the repository, the merchant or the   *)
(* owner is a step of the promise or changes nothing in it.                  *)

Phase        == [e \in Executions |-> PhaseOf(exec[e])]
Committed    == [e \in Executions |-> exec[e].submitted]
PaymentAsked == [e \in Executions |-> clicks[e] > 0]

\* A promised step, or one the promise does not see.
PromiseStep == Promise!Next \/ UNCHANGED <<Phase, Committed, PaymentAsked, charge>>

\* The phases of a row whose status is not terminal, and of one that is.
LEMMA Phases ==
    ASSUME NEW row
    PROVE  /\ row.status = "absent" => PhaseOf(row) = "absent"
           /\ row.status = "queued" /\ ~row.submitted => PhaseOf(row) = "pending"
           /\ row.status = "running" /\ ~row.submitted => PhaseOf(row) = "pending"
           /\ row.status = "running" /\ row.submitted => PhaseOf(row) = "paying"
           /\ row.status \in Terminal => PhaseOf(row) = row.status
  BY DEF PhaseOf, Terminal, Unresolved

\* A live row before the submission is pending, and after it is being paid.
LEMMA LivePhase ==
    ASSUME TypedWorkers, Facts, NEW e \in Executions,
           exec[e].status \notin Terminal, exec[e].status # "absent"
    PROVE  /\ ~exec[e].submitted => PhaseOf(exec[e]) = "pending"
           /\ exec[e].submitted => PhaseOf(exec[e]) = "paying"
  <1>1. exec[e].status \in {"queued", "running"}
    BY DEF TypedWorkers, TypeOK, DbTypeOK, Row, Status
  <1>. QED
    BY <1>1, Phases DEF Facts, RowsConsistent

\* A transaction that leaves the submission alone moves the phase of its row.
LEMMA PhaseMoves ==
    ASSUME NEW e \in Executions, Others(e), exec'[e].submitted = exec[e].submitted,
           MerchantQuiet
    PROVE  /\ Phase' = [Phase EXCEPT ![e] = PhaseOf(exec'[e])]
           /\ UNCHANGED <<Committed, PaymentAsked, charge>>
  <1>1. \A d \in Executions : exec'[d].submitted = exec[d].submitted
    BY DEF Others
  <1>. QED
    BY <1>1 DEF Others, MerchantQuiet, Phase, Committed, PaymentAsked

\* Steps that touch no row and no payment keep the promise.
LEMMA KeptQuiet ==
    ASSUME UNCHANGED exec, MerchantQuiet
    PROVE  PromiseStep
  BY DEF PromiseStep, Phase, Committed, PaymentAsked, MerchantQuiet

LEMMA KeptTerminal ==
    ASSUME TypedWorkers, Facts, MerchantQuiet, NEW e \in Executions,
           NEW status \in Terminal \ {"succeeded"}, NEW code,
           exec[e].status \notin Terminal, exec[e].status # "absent",
           SetTerminal(e, status, code),
           status = "failed" => ~exec[e].submitted \/ charge[e] = "declined",
           status = "action_required" => exec[e].submitted /\ clicks[e] > 0
    PROVE  PromiseStep
  <1>1. RowBecomes(e, status, "none")
    BY SetTerminalRow DEF TypedWorkers, TypeOK
  <1>2. /\ Phase' = [Phase EXCEPT ![e] = status]
        /\ UNCHANGED <<Committed, PaymentAsked, charge>>
    BY <1>1, PhaseMoves, Phases DEF RowBecomes
  <1>3. status \in {"failed", "action_required", "outcome_unknown"}
    BY DEF Terminal, Unresolved
  <1>4. CASE ~exec[e].submitted
    <2>1. Phase[e] = "pending"
      BY <1>4, LivePhase DEF Phase
    <2>2. Promise!GiveUp(e)
      BY <1>2, <1>3, <1>4, <2>1 DEF Promise!GiveUp, Promise!Move, Phase, Committed, PaymentAsked
    <2>. QED
      BY <2>2 DEF PromiseStep, Promise!Next
  <1>5. CASE exec[e].submitted
    <2>1. Phase[e] = "paying"
      BY <1>5, LivePhase DEF Phase
    <2>2. status = "action_required" => PaymentAsked[e]
      BY DEF PaymentAsked
    <2>3. Promise!Conclude(e)
      BY <1>2, <1>3, <1>5, <2>1, <2>2
      DEF Promise!Conclude, Promise!Move, Phase, Committed, PaymentAsked
    <2>. QED
      BY <2>3 DEF PromiseStep, Promise!Next
  <1>. QED
    BY <1>4, <1>5

LEMMA KeptPurchase ==
    ASSUME TypedWorkers, Facts, MerchantQuiet, NEW e \in Executions, RecordPurchase(e),
           charge[e] = "charged",
           \/ exec[e].status = "running" /\ exec[e].submitted
           \/ exec[e].status = "outcome_unknown"
    PROVE  PromiseStep
  <1>1. RowBecomes(e, "succeeded", "none")
    BY RecordPurchaseRow DEF TypedWorkers, TypeOK
  <1>2. /\ Phase' = [Phase EXCEPT ![e] = "succeeded"]
        /\ UNCHANGED <<Committed, PaymentAsked, charge>>
    BY <1>1, PhaseMoves, Phases DEF RowBecomes, Terminal
  <1>3. Phase[e] \in {"paying", "outcome_unknown"}
    BY Phases DEF Phase, Terminal, Unresolved
  <1>4. Promise!Conclude(e) \/ Promise!Amend(e)
    BY <1>2, <1>3 DEF Promise!Conclude, Promise!Amend, Promise!Move, Phase, Committed, PaymentAsked
  <1>. QED
    BY <1>4 DEF PromiseStep, Promise!Next

LEMMA KeptClaim ==
    ASSUME TypedWorkers, Facts, NEW w \in Workers, Claim(w)
    PROVE  PromiseStep
  <1>1. PICK e \in Executions : ClaimSubmitted(e) \/ ClaimExhausted(e) \/ ClaimAttempt(e)
    BY DEF Claim
  <1>2. /\ exec[e].status \notin Terminal /\ exec[e].status # "absent"
        /\ MerchantQuiet /\ DbTypeOK
    BY <1>1 DEF Claim, merchantVars, MerchantQuiet, ClaimSubmitted, ClaimExhausted,
       ClaimAttempt, Claimable, Terminal, Unresolved, TypedWorkers, TypeOK
  <1>3. CASE ClaimSubmitted(e) \/ ClaimExhausted(e)
    <2>1. {"outcome_unknown", "failed"} \subseteq Terminal \ {"succeeded"}
      BY DEF Terminal, Unresolved
    <2>. QED
      BY <1>2, <1>3, <2>1, KeptTerminal DEF ClaimSubmitted, ClaimExhausted
  <1>4. CASE ClaimAttempt(e)
    <2>1. RowBecomes(e, "running", "live") /\ ~exec[e].submitted
      BY <1>2, <1>4, ClaimAttemptRow DEF ClaimAttempt
    <2>2. PhaseOf(exec'[e]) = "pending" /\ Phase[e] = "pending"
      BY <1>2, <2>1, LivePhase, Phases DEF RowBecomes, Phase
    <2>3. /\ Phase' = [Phase EXCEPT ![e] = PhaseOf(exec'[e])]
          /\ UNCHANGED <<Committed, PaymentAsked, charge>>
      BY <1>2, <2>1, PhaseMoves DEF RowBecomes
    <2>4. Phase' = Phase
      BY <2>2, <2>3 DEF Phase
    <2>. QED
      BY <2>3, <2>4 DEF PromiseStep
  <1>. QED
    BY <1>1, <1>3, <1>4

LEMMA KeptMarkSubmitted ==
    ASSUME TypedWorkers, MerchantQuiet, NEW e \in Executions, MarkSubmitted(e)
    PROVE  PromiseStep
  <1>1. /\ exec'[e].status = "running" /\ exec'[e].submitted /\ Others(e)
    BY MarkSubmittedRow DEF TypedWorkers, TypeOK
  <1>2. exec[e].status = "running" /\ ~exec[e].submitted
    BY DEF MarkSubmitted, Valid
  <1>3. Phase' = [Phase EXCEPT ![e] = "paying"] /\ Phase[e] = "pending"
    BY <1>1, <1>2, Phases DEF Phase, Others
  <1>4. Committed' = [Committed EXCEPT ![e] = TRUE]
    <2>1. \A d \in Executions : d # e => exec'[d].submitted = exec[d].submitted
      BY <1>1 DEF Others
    <2>2. exec[e] \in Row /\ exec' = [exec EXCEPT ![e].submitted = TRUE]
      BY DEF TypedWorkers, TypeOK, DbTypeOK, MarkSubmitted
    <2>3. exec'[e].submitted = TRUE
      BY <2>2 DEF Row, TypedWorkers, TypeOK, DbTypeOK
    <2>. QED
      BY <2>1, <2>3 DEF Committed
  <1>5. UNCHANGED <<PaymentAsked, charge>>
    BY DEF MerchantQuiet, PaymentAsked
  <1>6. Promise!Commit(e)
    BY <1>3, <1>4, <1>5 DEF Promise!Commit, Promise!Move, Phase, Committed, PaymentAsked
  <1>. QED
    BY <1>6 DEF PromiseStep, Promise!Next

LEMMA KeptSubmit ==
    ASSUME TypedWorkers, NEW w \in Workers, Submit(w)
    PROVE  PromiseStep
  <1>1. job[w] \in Executions /\ MerchantQuiet
    BY DEF Submit, At, TypedWorkers, WorkersBusy, merchantVars, MerchantQuiet
  <1>2. CASE MarkSubmitted(job[w])
    BY <1>1, <1>2, KeptMarkSubmitted
  <1>3. CASE UNCHANGED dbVars
    BY <1>1, <1>3, KeptQuiet DEF dbVars
  <1>. QED
    BY <1>2, <1>3 DEF Submit

LEMMA KeptClick ==
    ASSUME TypedWorkers, NEW e \in Executions, exec[e].submitted, clicks[e] = 0,
           clicks' = [clicks EXCEPT ![e] = @ + 1], UNCHANGED <<exec, charge>>
    PROVE  PromiseStep
  <1>1. clicks'[e] = 1 /\ \A d \in Executions \ {e} : clicks'[d] = clicks[d]
    BY DEF TypedWorkers, TypeOK
  <1>2. PaymentAsked' = [PaymentAsked EXCEPT ![e] = TRUE]
    <2>1. (clicks'[e] > 0) = TRUE
      BY <1>1
    <2>2. \A d \in Executions : d # e => (clicks'[d] > 0) = (clicks[d] > 0)
      BY <1>1
    <2>. QED
      BY <2>1, <2>2 DEF PaymentAsked
  <1>3. UNCHANGED <<Phase, Committed>>
    BY DEF Phase, Committed
  <1>4. Committed[e] /\ ~PaymentAsked[e]
    <2>1. Committed[e] = exec[e].submitted /\ PaymentAsked[e] = (clicks[e] > 0)
      BY Zenon DEF Committed, PaymentAsked
    <2>2. ~(clicks[e] > 0)
      OBVIOUS
    <2>. QED
      BY <2>1, <2>2, Zenon
  <1>5. Promise!Ask(e)
    BY <1>2, <1>3, <1>4 DEF Promise!Ask, Phase, Committed, PaymentAsked
  <1>. QED
    BY <1>5 DEF PromiseStep, Promise!Next

LEMMA KeptFillAndClick ==
    ASSUME TypedWorkers, Facts, NEW w \in Workers, FillAndClick(w)
    PROVE  PromiseStep
  <1>1. /\ job[w] \in Executions /\ exec[job[w]].submitted /\ clicks[job[w]] = 0
        /\ UNCHANGED <<exec, charge>>
    BY DEF FillAndClick, At, TypedWorkers, WorkersBusy, Facts, SubmissionOwned, Sent, dbVars
  <1>2. CASE clicks' = [clicks EXCEPT ![job[w]] = @ + 1]
    BY <1>1, <1>2, KeptClick
  <1>3. CASE UNCHANGED clicks
    BY <1>1, <1>3, KeptQuiet DEF MerchantQuiet
  <1>. QED
    BY <1>2, <1>3 DEF FillAndClick

LEMMA KeptMerchantSettles ==
    ASSUME TypedWorkers, NEW e \in Executions, MerchantSettles(e)
    PROVE  PromiseStep
  <1>1. UNCHANGED <<Phase, Committed, PaymentAsked>>
    BY DEF MerchantSettles, dbVars, Phase, Committed, PaymentAsked
  <1>2. PaymentAsked[e]
    BY DEF MerchantSettles, PaymentAsked
  <1>3. Promise!Decide(e)
    BY <1>1, <1>2 DEF MerchantSettles, Promise!Decide, Phase, Committed, PaymentAsked
  <1>. QED
    BY <1>3 DEF PromiseStep, Promise!Next

LEMMA KeptSettle ==
    ASSUME TypedWorkers, Facts, ClaimsExist, NEW w \in Workers, Settle(w)
    PROVE  PromiseStep
  <1>. DEFINE e == job[w]
  <1>1. /\ pc[w] = "settle" /\ e \in Executions /\ note[w] \in Outcomes
        /\ exec[e].submitted /\ clicks[e] > 0 /\ MerchantQuiet
        /\ exec[e].status # "absent"
    BY DEF Settle, At, TypedWorkers, WorkersBusy, merchantVars, MerchantQuiet, Facts,
       SubmissionOwned, EvidenceSound, Sent, ClaimsExist
  <1>2. CASE UNCHANGED dbVars
    BY <1>1, <1>2, KeptQuiet DEF dbVars
  <1>3. CASE note[w] = "approved" /\ Valid(e) /\ exec[e].submitted /\ RecordPurchase(e)
    <2>1. charge[e] = "charged"
      BY <1>1, <1>3 DEF Facts, EvidenceSound
    <2>. QED
      BY <1>1, <1>3, <2>1, KeptPurchase DEF Valid
  <1>4. CASE /\ note[w] # "approved" /\ exec[e].status \notin Terminal
             /\ SetTerminal(e, TerminalFor(note[w]), CodeFor(note[w]))
    <2>1. TerminalFor(note[w]) \in Terminal \ {"succeeded"}
      BY <1>1, <1>4 DEF Outcomes, TerminalFor, Terminal, Unresolved
    <2>2. TerminalFor(note[w]) = "failed" => charge[e] = "declined"
      BY <1>1, <1>4 DEF Outcomes, TerminalFor, Facts, EvidenceSound
    <2>. QED
      BY <1>1, <1>4, <2>1, <2>2, KeptTerminal
  <1>. QED
    BY <1>2, <1>3, <1>4 DEF Settle, Succeed, SucceedRaises, FinishTerminal

LEMMA KeptHandleError ==
    ASSUME TypedWorkers, Facts, ClaimsExist, NEW w \in Workers, HandleError(w)
    PROVE  PromiseStep
  <1>. DEFINE e == job[w]
  <1>1. e \in Executions /\ MerchantQuiet /\ exec[e].status # "absent"
    BY DEF HandleError, At, TypedWorkers, WorkersBusy, merchantVars, MerchantQuiet, ClaimsExist
  <1>2. CASE UNCHANGED dbVars
    BY <1>1, <1>2, KeptQuiet DEF dbVars
  <1>3. {"outcome_unknown", "failed"} \subseteq Terminal \ {"succeeded"}
    BY DEF Terminal, Unresolved
  <1>4. ASSUME NEW status \in {"outcome_unknown", "failed"}, NEW code,
               exec[e].status \notin Terminal, SetTerminal(e, status, code),
               status = "failed" => ~exec[e].submitted
        PROVE  PromiseStep
    BY <1>1, <1>3, <1>4, KeptTerminal
  <1>5. ASSUME NEW code, exec[e].status \notin Terminal, ~exec[e].submitted,
               WriteRow(e, [exec[e] EXCEPT !.status = "queued", !.lease = "none",
                                           !.error = code])
        PROVE  PromiseStep
    <2>1. RowBecomes(e, "queued", "none")
      BY <1>1, <1>5, RequeueRow DEF TypedWorkers, TypeOK
    <2>2. PhaseOf(exec'[e]) = "pending" /\ Phase[e] = "pending"
      BY <1>1, <1>5, <2>1, LivePhase, Phases DEF RowBecomes, Phase
    <2>3. /\ Phase' = [Phase EXCEPT ![e] = PhaseOf(exec'[e])]
          /\ UNCHANGED <<Committed, PaymentAsked, charge>>
      BY <1>1, <2>1, PhaseMoves DEF RowBecomes
    <2>4. Phase' = Phase
      BY <1>1, <2>2, <2>3 DEF Phase
    <2>. QED
      BY <2>3, <2>4 DEF PromiseStep
  <1>6. \/ UNCHANGED dbVars
        \/ /\ exec[e].status \notin Terminal
           /\ \E code \in ErrorCodes :
                 \/ SetTerminal(e, "outcome_unknown", code)
                 \/ ~exec[e].submitted /\ SetTerminal(e, "failed", code)
                 \/ /\ ~exec[e].submitted
                    /\ WriteRow(e, [exec[e] EXCEPT !.status = "queued", !.lease = "none",
                                                   !.error = code])
    BY DEF HandleError, FinishTerminal, RetryOrFail, Requeue, ErrorCodes
  <1>. QED
    BY <1>2, <1>4, <1>5, <1>6

LEMMA KeptLease ==
    ASSUME TypedWorkers, MerchantQuiet, NEW e \in Executions, NEW lease,
           exec' = [exec EXCEPT ![e].lease = lease]
    PROVE  PromiseStep
  <1>1. RowBecomes(e, exec[e].status, lease)
    BY LeaseRow DEF TypedWorkers, TypeOK
  <1>2. Phase' = [Phase EXCEPT ![e] = PhaseOf(exec'[e])] /\ UNCHANGED <<Committed, PaymentAsked, charge>>
    BY <1>1, PhaseMoves DEF RowBecomes
  <1>3. PhaseOf(exec'[e]) = PhaseOf(exec[e])
    BY <1>1 DEF RowBecomes, PhaseOf
  <1>4. Phase' = Phase
    BY <1>2, <1>3 DEF Phase
  <1>. QED
    BY <1>2, <1>4 DEF PromiseStep

LEMMA KeptApprove ==
    ASSUME TypedWorkers, Facts, NEW e \in Executions, Approve(e)
    PROVE  PromiseStep
  <1>1. MerchantQuiet /\ exec[e].status = "absent" /\ ~exec[e].submitted
    BY DEF Approve, QueueCheckoutExecution, merchantVars, MerchantQuiet, Facts, RowsConsistent
  <1>2. exec'[e].status = "queued" /\ ~exec'[e].submitted /\ Others(e)
    BY QueueRow DEF Approve, TypedWorkers, TypeOK
  <1>3. exec[e].submitted \in BOOLEAN /\ exec'[e].submitted \in BOOLEAN
    BY QueueTyped DEF TypedWorkers, TypeOK, DbTypeOK, Row, Approve
  <1>4. exec'[e].submitted = exec[e].submitted
    BY <1>1, <1>2, <1>3
  <1>5. Phase' = [Phase EXCEPT ![e] = "pending"] /\ UNCHANGED <<Committed, PaymentAsked, charge>>
    BY <1>1, <1>2, <1>4, PhaseMoves, Phases
  <1>6. Phase[e] = "absent"
    BY <1>1, Phases DEF Phase
  <1>7. Promise!Accept(e)
    BY <1>5, <1>6 DEF Promise!Accept, Promise!Move, Phase, Committed, PaymentAsked
  <1>. QED
    BY <1>7 DEF PromiseStep, Promise!Next

LEMMA KeptNext == TypedWorkers /\ Facts /\ ClaimsExist /\ [Next]_vars => PromiseStep
  <1>. SUFFICES ASSUME TypedWorkers, Facts, ClaimsExist, [Next]_vars PROVE PromiseStep
    OBVIOUS
  <1>1. ASSUME UNCHANGED dbVars, UNCHANGED merchantVars PROVE PromiseStep
    BY <1>1, KeptQuiet DEF dbVars, merchantVars, MerchantQuiet
  <1>2. ASSUME NEW w \in Workers, Observe(w) PROVE PromiseStep
    BY <1>1, <1>2 DEF Observe
  <1>3. ASSUME NEW w \in Workers, WorkerStep(w) PROVE PromiseStep
    BY <1>1, <1>2, <1>3, KeptClaim, KeptSubmit, KeptFillAndClick, KeptSettle, KeptHandleError
    DEF WorkerStep, Prepare, AcquireCardLock, PrepareAgain, FailBeforeSubmission,
        HandlingFails, Release, LeaveClaim
  <1>4. ASSUME NEW w \in Workers, Heartbeat(w) PROVE PromiseStep
    <2>1. job[w] \in Executions /\ MerchantQuiet
      BY <1>4 DEF Heartbeat, At, TypedWorkers, WorkersBusy, merchantVars, MerchantQuiet
    <2>. QED
      BY <1>4, <2>1, KeptLease DEF Heartbeat, RenewLease
  <1>5. ASSUME NEW e \in Executions, LeaseExpires(e) PROVE PromiseStep
    BY <1>5, KeptLease DEF LeaseExpires, merchantVars, MerchantQuiet
  <1>6. ASSUME NEW e \in Executions, Reconcile(e) PROVE PromiseStep
    BY <1>6, KeptPurchase DEF Reconcile, ReconcileHostedSucceeded, merchantVars, MerchantQuiet
  <1>7. ASSUME NEW c \in Cards, LockDrops(c) \/ ChangeUsable(c) PROVE PromiseStep
    BY <1>7, KeptQuiet DEF LockDrops, ChangeUsable, dbVars, merchantVars, MerchantQuiet
  <1>8. CASE Disturbance
    BY <1>1, <1>4, <1>5, <1>6, <1>7, <1>8, KeptApprove, KeptMerchantSettles
    DEF Disturbance, Crash, LeaveClaim
  <1>9. CASE UNCHANGED vars
    BY <1>1, <1>9 DEF vars
  <1>. QED
    BY <1>3, <1>8, <1>9 DEF Next

\* The checkout worker, its retries, leases, crashes and locks included, keeps
\* every promise of CheckoutLifecycle.
THEOREM PromiseKept == Spec => KeepsPromise
  <1>1. Init => Promise!Init
    <2>. SUFFICES ASSUME Init PROVE Promise!Init
      OBVIOUS
    <2>1. \A e \in Executions : exec[e] = NoRow
      BY DEF Init, DbInit
    <2>2. PhaseOf(NoRow) = "absent" /\ NoRow.submitted = FALSE
      BY Phases DEF NoRow
    <2>3. \A e \in Executions : clicks[e] = 0
      BY DEF Init
    <2>4. (0 > 0) = FALSE
      OBVIOUS
    <2>. QED
      BY <2>1, <2>2, <2>3, <2>4 DEF Init, Promise!Init
  <1>2. TypedWorkers /\ Facts /\ ClaimsExist /\ [Next]_vars => [Promise!Next]_(Promise!vars)
    BY KeptNext DEF PromiseStep, Promise!vars, Phase, Committed, PaymentAsked
  <1>3. IInv => TypedWorkers /\ Facts /\ ClaimsExist
    BY DEF IInv, TypedWorkers, Facts
  <1>. QED
    BY <1>1, <1>2, <1>3, Inductive, PTL DEF Spec, KeepsPromise, Promise!Spec

-----------------------------------------------------------------------------
(* Winding down: each write to a row's status uses up one of those it has   *)
(* left.                                                                    *)

\* Finitely many workers have a claim open, as each of them took one once.
FiniteClaims == \A e \in Executions : IsFiniteSet(Busy(e))

\* The writes that the open claims of a row can still bring.
Hands(e) == Cardinality(Busy(e)) + Cardinality(Unhandled(e))

FewerHands(e) == Busy(e)' \subseteq Busy(e) /\ Unhandled(e)' \subseteq Unhandled(e)

\* A worker has handled its error once, or for good.
HandlesOne(e) ==
    \/ \E w \in Busy(e) : w \notin Busy(e)'
    \/ \E w \in Unhandled(e) : w \notin Unhandled(e)'

FewerBusy == \A e \in Executions : FewerHands(e)

WindsDown(e) ==
    \/ WritesLeft(e)' < WritesLeft(e)
    \/ WritesLeft(e)' = WritesLeft(e) /\ timeline'[e] = timeline[e]

\* WritesLeft, of a row whose open claims can bring n writes.
Left(row, n) ==
    CASE row.status = "absent" -> 3 * MaxAttempts + 1
      [] row.status \in {"queued", "running"} ->
            IF row.attempts = MaxAttempts THEN 2
            ELSE 3 * (MaxAttempts - row.attempts) + n
      [] row.status = "outcome_unknown" -> 1
      [] OTHER -> 0

LEMMA LeftCases ==
    ASSUME NEW row \in Row, NEW n \in Nat
    PROVE  /\ row.status = "absent" => Left(row, n) = 3 * MaxAttempts + 1
           /\ row.status \in {"queued", "running"} =>
                 /\ row.attempts = MaxAttempts => Left(row, n) = 2
                 /\ row.attempts # MaxAttempts =>
                       Left(row, n) = 3 * (MaxAttempts - row.attempts) + n
                 /\ Left(row, n) >= 2
           /\ row.status = "outcome_unknown" => Left(row, n) = 1
           /\ row.status \in Terminal \ {"outcome_unknown"} => Left(row, n) = 0
           /\ Left(row, n) \in Nat
           /\ row.attempts \in 0..MaxAttempts
           /\ row.status \in Status
  BY MaxAttemptsAssumption DEF Left, Row

LEMMA FewerAreLess ==
    ASSUME NEW S, NEW T, IsFiniteSet(S), T \subseteq S
    PROVE  /\ Cardinality(S) \in Nat /\ Cardinality(T) \in Nat
           /\ Cardinality(T) <= Cardinality(S)
           /\ (\E x \in S : x \notin T) => Cardinality(T) < Cardinality(S)
  <1>1. IsFiniteSet(T) /\ Cardinality(T) <= Cardinality(S)
    BY FS_Subset
  <1>2. Cardinality(S) \in Nat /\ Cardinality(T) \in Nat
    BY <1>1, FS_CardinalityType
  <1>3. ASSUME NEW x \in S, x \notin T PROVE Cardinality(T) < Cardinality(S)
    <2>1. T \subseteq S \ {x}
      BY <1>3
    <2>2. IsFiniteSet(S \ {x}) /\ Cardinality(S \ {x}) = Cardinality(S) - 1
      BY <1>3, FS_RemoveElement
    <2>3. Cardinality(T) <= Cardinality(S \ {x})
      BY <2>1, <2>2, FS_Subset
    <2>. QED
      BY <1>2, <2>2, <2>3
  <1>. QED
    BY <1>1, <1>2, <1>3

\* The measure and its parts are numbers, before a step and after it.
LEMMA LeftTyped ==
    ASSUME NEW e \in Executions
    PROVE  /\ DbTypeOK /\ FiniteClaims =>
                /\ Hands(e) \in Nat
                /\ exec[e] \in Row
                /\ WritesLeft(e) = Left(exec[e], Hands(e))
           /\ DbTypeOK' /\ FiniteClaims' =>
                /\ Hands(e)' \in Nat
                /\ exec'[e] \in Row
                /\ WritesLeft(e)' = Left(exec'[e], Hands(e)')
  <1>1. /\ Unhandled(e) \subseteq Busy(e)
        /\ Unhandled(e)' \subseteq Busy(e)'
    BY DEF Unhandled
  <1>2. FiniteClaims => Hands(e) \in Nat
    BY <1>1, FewerAreLess DEF FiniteClaims, Hands
  <1>3. FiniteClaims' => Hands(e)' \in Nat
    BY <1>1, FewerAreLess DEF FiniteClaims, Hands
  <1>4. /\ FiniteClaims => WritesLeft(e) = Left(exec[e], Hands(e))
        /\ FiniteClaims' => WritesLeft(e)' = Left(exec'[e], Hands(e)')
    BY <1>1, FewerAreLess DEF FiniteClaims, WritesLeft, Left, Hands
  <1>. QED
    BY <1>2, <1>3, <1>4 DEF DbTypeOK

LEMMA HandsFewer ==
    ASSUME FiniteClaims, NEW e \in Executions, FewerHands(e)
    PROVE  /\ Hands(e)' <= Hands(e)
           /\ HandlesOne(e) => Hands(e)' < Hands(e)
  <1>1. IsFiniteSet(Busy(e)) /\ IsFiniteSet(Unhandled(e))
    BY FS_Subset DEF FiniteClaims, Unhandled
  <1>2. /\ Cardinality(Busy(e)) \in Nat /\ Cardinality(Busy(e)') \in Nat
        /\ Cardinality(Busy(e)') <= Cardinality(Busy(e))
        /\ (\E w \in Busy(e) : w \notin Busy(e)') =>
              Cardinality(Busy(e)') < Cardinality(Busy(e))
    BY <1>1, FewerAreLess DEF FewerHands
  <1>3. /\ Cardinality(Unhandled(e)) \in Nat /\ Cardinality(Unhandled(e)') \in Nat
        /\ Cardinality(Unhandled(e)') <= Cardinality(Unhandled(e))
        /\ (\E w \in Unhandled(e) : w \notin Unhandled(e)') =>
              Cardinality(Unhandled(e)') < Cardinality(Unhandled(e))
    BY <1>1, FewerAreLess DEF FewerHands
  <1>4. /\ Hands(e) = Cardinality(Busy(e)) + Cardinality(Unhandled(e))
        /\ Hands(e)' = Cardinality(Busy(e)') + Cardinality(Unhandled(e)')
    BY DEF Hands
  <1>. QED
    BY <1>2, <1>3, <1>4 DEF HandlesOne

LEMMA HandsAdded ==
    ASSUME FiniteClaims, NEW e \in Executions, NEW w, w \notin Busy(e),
           Busy(e)' = Busy(e) \cup {w}, Unhandled(e)' = Unhandled(e) \cup {w}
    PROVE  Hands(e)' = Hands(e) + 2
  <1>1. IsFiniteSet(Busy(e)) /\ IsFiniteSet(Unhandled(e)) /\ w \notin Unhandled(e)
    BY FS_Subset DEF FiniteClaims, Unhandled
  <1>2. /\ Cardinality(Busy(e)') = Cardinality(Busy(e)) + 1
        /\ Cardinality(Unhandled(e)') = Cardinality(Unhandled(e)) + 1
    BY <1>1, FS_AddElement
  <1>3. Cardinality(Busy(e)) \in Nat /\ Cardinality(Unhandled(e)) \in Nat
    BY <1>1, FS_CardinalityType
  <1>4. /\ Hands(e) = Cardinality(Busy(e)) + Cardinality(Unhandled(e))
        /\ Hands(e)' = Cardinality(Busy(e)') + Cardinality(Unhandled(e)')
    BY DEF Hands
  <1>. QED
    BY <1>2, <1>3, <1>4

\* A row that no step writes comes no nearer to its end and no further from it,
\* but for the workers that give up their claim of it.
LEMMA WindsUnwritten ==
    ASSUME DbTypeOK, DbTypeOK', FiniteClaims, FiniteClaims', NEW e \in Executions,
           exec'[e].status = exec[e].status, exec'[e].attempts = exec[e].attempts,
           timeline'[e] = timeline[e], FewerHands(e)
    PROVE  WindsDown(e)
  <1>. DEFINE m == Hands(e)
              n == Hands(e)'
  <1>1. /\ m \in Nat /\ exec[e] \in Row /\ WritesLeft(e) = Left(exec[e], m)
        /\ n \in Nat /\ exec'[e] \in Row /\ WritesLeft(e)' = Left(exec'[e], n)
    BY LeftTyped
  <1>2. n <= m
    BY HandsFewer
  <1>3. Left(exec'[e], n) < Left(exec[e], m) \/ Left(exec'[e], n) = Left(exec[e], m)
    <2>. HIDE DEF m, n
    <2>1. CASE exec[e].status \in {"queued", "running"} /\ exec[e].attempts # MaxAttempts
      <3>1. /\ Left(exec[e], m) = 3 * (MaxAttempts - exec[e].attempts) + m
            /\ Left(exec'[e], n) = 3 * (MaxAttempts - exec[e].attempts) + n
            /\ exec[e].attempts \in 0..MaxAttempts
        BY <1>1, <2>1, LeftCases
      <3>. QED
        BY <1>1, <1>2, <3>1, MaxAttemptsAssumption
    <2>2. CASE exec[e].status \notin {"queued", "running"} \/ exec[e].attempts = MaxAttempts
      <3>1. exec[e].status \in Status
        BY <1>1, LeftCases
      <3>2. Left(exec'[e], n) = Left(exec[e], m)
        BY <2>2, <3>1 DEF Left
      <3>. QED
        BY <3>2
    <2>. QED
      BY <2>1, <2>2
  <1>. QED
    BY <1>1, <1>3 DEF WindsDown

\* An end, and the reconciliation of an unknown one.
LEMMA WindsTerminal ==
    ASSUME DbTypeOK, DbTypeOK', FiniteClaims, FiniteClaims', NEW e \in Executions,
           Entered(e), exec'[e].status \in Terminal
    PROVE  WindsDown(e)
  <1>. DEFINE m == Hands(e)
              n == Hands(e)'
  <1>1. /\ m \in Nat /\ exec[e] \in Row /\ WritesLeft(e) = Left(exec[e], m)
        /\ n \in Nat /\ exec'[e] \in Row /\ WritesLeft(e)' = Left(exec'[e], n)
    BY LeftTyped
  <1>2. Left(exec'[e], n) < Left(exec[e], m)
    <2>. HIDE DEF m, n
    <2>1. CASE exec[e].status \notin Terminal
      <3>1. Left(exec[e], m) >= 2 /\ Left(exec[e], m) \in Nat
        <4>1. exec[e].status \in {"absent", "queued", "running"}
          BY <1>1, <2>1, LeftCases
        <4>2. 3 * MaxAttempts + 1 >= 2
          BY MaxAttemptsAssumption
        <4>. QED
          BY <1>1, <4>1, <4>2, LeftCases
      <3>2. Left(exec'[e], n) \in {0, 1}
        BY <1>1, LeftCases
      <3>. QED
        BY <3>1, <3>2
    <2>2. CASE exec[e].status = "outcome_unknown" /\ exec'[e].status = "succeeded"
      BY <1>1, <2>2, LeftCases
    <2>. QED
      BY <2>1, <2>2 DEF Entered
  <1>. QED
    BY <1>1, <1>2 DEF WindsDown

\* A requeue, which an attempt is left for, is paid for by the worker that has
\* handled its error with it.
LEMMA WindsRequeue ==
    ASSUME DbTypeOK, DbTypeOK', FiniteClaims, FiniteClaims', NEW e \in Executions,
           Entered(e), exec'[e].status = "queued", exec[e].status # "absent",
           exec[e].attempts # MaxAttempts, FewerHands(e), HandlesOne(e)
    PROVE  WindsDown(e)
  <1>. DEFINE m == Hands(e)
              n == Hands(e)'
  <1>1. /\ m \in Nat /\ exec[e] \in Row /\ WritesLeft(e) = Left(exec[e], m)
        /\ n \in Nat /\ exec'[e] \in Row /\ WritesLeft(e)' = Left(exec'[e], n)
    BY LeftTyped
  <1>2. n < m
    BY HandsFewer
  <1>3. exec[e].status \in {"queued", "running"} /\ exec'[e].attempts = exec[e].attempts
    BY <1>1, LeftCases DEF Entered
  <1>4. Left(exec'[e], n) < Left(exec[e], m)
    <2>. HIDE DEF m, n
    <2>1. /\ Left(exec[e], m) = 3 * (MaxAttempts - exec[e].attempts) + m
          /\ Left(exec'[e], n) = 3 * (MaxAttempts - exec[e].attempts) + n
          /\ exec[e].attempts \in 0..MaxAttempts
      BY <1>1, <1>3, LeftCases
    <2>. QED
      BY <1>1, <1>2, <2>1, MaxAttemptsAssumption
  <1>. QED
    BY <1>1, <1>4 DEF WindsDown

\* A claim counts one attempt, worth three writes, and brings a worker worth two.
LEMMA WindsClaim ==
    ASSUME DbTypeOK, DbTypeOK', FiniteClaims, FiniteClaims', NEW e \in Executions,
           ClaimAttempt(e), NEW w, w \notin Busy(e), Busy(e)' = Busy(e) \cup {w},
           Unhandled(e)' = Unhandled(e) \cup {w}
    PROVE  WindsDown(e)
  <1>. DEFINE m == Hands(e)
              n == Hands(e)'
  <1>1. /\ m \in Nat /\ exec[e] \in Row /\ WritesLeft(e) = Left(exec[e], m)
        /\ n \in Nat /\ exec'[e] \in Row /\ WritesLeft(e)' = Left(exec'[e], n)
    BY LeftTyped
  <1>2. n = m + 2
    BY HandsAdded
  <1>3. exec[e].status \in {"queued", "running"} /\ exec'[e].status = "running"
    BY ClaimAttemptRow DEF ClaimAttempt, Claimable, RowBecomes
  <1>4. exec'[e].attempts = exec[e].attempts + 1
    BY <1>3, ClaimEnters DEF Entered
  <1>5. Left(exec'[e], n) < Left(exec[e], m)
    <2>. HIDE DEF m, n
    <2>0. exec[e].attempts \in 0..MaxAttempts /\ exec'[e].attempts \in 0..MaxAttempts
      BY <1>1, LeftCases
    <2>1. Left(exec[e], m) = 3 * (MaxAttempts - exec[e].attempts) + m
      <3>1. exec[e].attempts # MaxAttempts
        BY <1>4, <2>0, MaxAttemptsAssumption
      <3>. QED
        BY <1>1, <1>3, <3>1, LeftCases
    <2>2. CASE exec'[e].attempts = MaxAttempts
      <3>1. Left(exec'[e], n) = 2
        BY <1>1, <1>3, <2>2, LeftCases
      <3>. QED
        BY <1>1, <1>4, <2>0, <2>1, <2>2, <3>1, MaxAttemptsAssumption
    <2>3. CASE exec'[e].attempts # MaxAttempts
      <3>1. Left(exec'[e], n) = 3 * (MaxAttempts - exec'[e].attempts) + n
        BY <1>1, <1>3, <2>3, LeftCases
      <3>. QED
        BY <1>1, <1>2, <1>4, <2>0, <2>1, <3>1, MaxAttemptsAssumption
    <2>. QED
      BY <2>2, <2>3
  <1>. QED
    BY <1>1, <1>5 DEF WindsDown

\* An approval finds nobody busy with a row that was not there.
LEMMA WindsQueue ==
    ASSUME DbTypeOK, DbTypeOK', FiniteClaims, FiniteClaims', NEW e \in Executions,
           QueueCheckoutExecution(e), Busy(e)' = {}
    PROVE  WindsDown(e)
  <1>. DEFINE m == Hands(e)
              n == Hands(e)'
  <1>1. /\ m \in Nat /\ exec[e] \in Row /\ WritesLeft(e) = Left(exec[e], m)
        /\ n \in Nat /\ exec'[e] \in Row /\ WritesLeft(e)' = Left(exec'[e], n)
    BY LeftTyped
  <1>2. n = 0
    <2>1. Unhandled(e)' = {}
      BY DEF Unhandled
    <2>2. n = Cardinality(Busy(e)') + Cardinality(Unhandled(e)')
      BY DEF Hands
    <2>. QED
      BY <2>1, <2>2, FS_EmptySet
  <1>3. exec[e].status = "absent" /\ exec'[e].status = "queued"
    BY QueueRow DEF QueueCheckoutExecution
  <1>4. exec'[e].attempts = 0
    BY DEF QueueCheckoutExecution, WriteRow, NoRow, DbTypeOK
  <1>5. Left(exec'[e], n) < Left(exec[e], m)
    <2>. HIDE DEF m, n
    <2>1. Left(exec[e], m) = 3 * MaxAttempts + 1
      BY <1>1, <1>3, LeftCases
    <2>2. Left(exec'[e], n) = 3 * MaxAttempts
      <3>1. exec'[e].attempts # MaxAttempts
        BY <1>4, MaxAttemptsAssumption
      <3>. QED
        BY <1>1, <1>2, <1>3, <1>4, <3>1, LeftCases, MaxAttemptsAssumption
    <2>. QED
      BY <2>1, <2>2, MaxAttemptsAssumption
  <1>. QED
    BY <1>1, <1>5 DEF WindsDown

\* Each action, the row it writes and whom it leaves busy with it.  An error
\* handled takes its worker off the row, or to the outer handler, and only a claim
\* adds a worker.
WindStep ==
    \/ /\ FewerBusy
       /\ \/ NothingWritten
          \/ \E e \in Executions :
                /\ Entered(e) /\ exec[e].status # "absent"
                /\ \/ exec'[e].status \in Terminal
                   \/ /\ exec'[e].status = "queued" /\ exec[e].attempts # MaxAttempts
                      /\ HandlesOne(e)
          \/ \E e \in Executions : QueueCheckoutExecution(e) /\ Busy(e)' = {}
    \/ \E e \in Executions, w \in Workers :
          /\ ClaimAttempt(e)
          /\ w \notin Busy(e)
          /\ Busy(e)' = Busy(e) \cup {w} /\ Unhandled(e)' = Unhandled(e) \cup {w}
          /\ \A d \in Executions \ {e} : FewerHands(d)

LEMMA WindStepFinite == FiniteClaims /\ WindStep => FiniteClaims'
  <1>. SUFFICES ASSUME FiniteClaims, WindStep, NEW d \in Executions
                PROVE  IsFiniteSet(Busy(d)')
    BY DEF FiniteClaims
  <1>1. IsFiniteSet(Busy(d))
    BY DEF FiniteClaims
  <1>2. CASE FewerHands(d)
    BY <1>1, <1>2, FS_Subset DEF FewerHands
  <1>3. ASSUME NEW w \in Workers, Busy(d)' = Busy(d) \cup {w}
        PROVE  IsFiniteSet(Busy(d)')
    BY <1>1, <1>3, FS_AddElement
  <1>. QED
    BY <1>2, <1>3 DEF WindStep, FewerBusy

LEMMA WindStepWinds ==
    ASSUME DbTypeOK, DbTypeOK', FiniteClaims, FiniteClaims', WindStep, NEW d \in Executions
    PROVE  WindsDown(d)
  <1>1. CASE NothingWritten /\ FewerHands(d)
    BY <1>1, WindsUnwritten DEF NothingWritten
  <1>2. ASSUME NEW e \in Executions, d # e, Entered(e), FewerHands(d)
        PROVE  WindsDown(d)
    BY <1>2, WindsUnwritten DEF Entered
  <1>3. ASSUME NEW e \in Executions, ClaimAttempt(e) \/ QueueCheckoutExecution(e)
        PROVE  Entered(e)
    BY <1>3, ClaimEnters, QueueEnters
  <1>4. CASE FewerBusy
    <2>1. FewerHands(d)
      BY <1>4 DEF FewerBusy
    <2>. QED
      BY <1>1, <1>2, <1>3, <2>1, WindsTerminal, WindsRequeue, WindsQueue, WindsClaim DEF WindStep
  <1>5. CASE ~FewerBusy
    BY <1>2, <1>3, <1>5, WindsClaim DEF WindStep
  <1>. QED
    BY <1>4, <1>5

\* What a transaction leaves behind, but for the claims and the approvals.
LEMMA EndsOrRequeues ==
    ASSUME DbTypeOK, NEW e \in Executions, NEW retryable \in BOOLEAN,
           RetryOrFail(e, retryable)
    PROVE  \/ NothingWritten
           \/ Entered(e) /\ exec'[e].status \in Terminal
           \/ Entered(e) /\ exec'[e].status = "queued" /\ exec[e].attempts # MaxAttempts
  <1>. DEFINE code == IF retryable THEN "checkout_failed" ELSE "rejected"
  <1>1. exec[e].attempts \in 0..MaxAttempts
    BY DEF DbTypeOK, Row
  <1>2. CASE UNCHANGED dbVars
    BY <1>2, NothingInDb
  <1>3. CASE /\ exec[e].status \notin Terminal
             /\ SetTerminal(e, "outcome_unknown", "payment_outcome_unknown")
    BY <1>3, TerminalEnters, SetTerminalRow DEF CodeFits, RowBecomes
  <1>4. CASE /\ exec[e].status \notin Terminal
             /\ exec[e].attempts < MaxAttempts
             /\ Requeue(e, code)
    <2>1. exec[e].attempts # MaxAttempts /\ code \in ErrorCodes
      BY <1>1, <1>4, MaxAttemptsAssumption
    <2>2. exec'[e].status = "queued"
      BY <1>4, <2>1, RequeueRow DEF Requeue, RowBecomes
    <2>3. Entered(e)
      BY <1>4, <2>1, RequeueEnters
    <2>. QED
      BY <2>1, <2>2, <2>3
  <1>5. CASE /\ exec[e].status \notin Terminal
             /\ ~(retryable /\ exec[e].attempts < MaxAttempts)
             /\ SetTerminal(e, "failed", code)
    <2>1. CodeFits(e, "failed", code)
      BY <1>1, <1>5, MaxAttemptsAssumption DEF CodeFits
    <2>. QED
      BY <1>5, <2>1, TerminalEnters, SetTerminalRow DEF RowBecomes
  <1>. QED
    BY <1>2, <1>3, <1>4, <1>5 DEF RetryOrFail

LEMMA Ends ==
    ASSUME DbTypeOK, NEW e \in Executions,
           \/ \E status \in Terminal \ {"succeeded"}, code \in ErrorCodes \ {"checkout_failed"} :
                 /\ status = "outcome_unknown" => code = "payment_outcome_unknown"
                 /\ FinishTerminal(e, status, code)
           \/ Succeed(e)
           \/ ReconcileHostedSucceeded(e)
    PROVE  \/ NothingWritten
           \/ Entered(e) /\ exec'[e].status \in Terminal
  <1>1. CASE UNCHANGED dbVars
    BY <1>1, NothingInDb
  <1>2. ASSUME NEW status \in Terminal \ {"succeeded"},
               NEW code \in ErrorCodes \ {"checkout_failed"},
               status = "outcome_unknown" => code = "payment_outcome_unknown",
               exec[e].status \notin Terminal, SetTerminal(e, status, code)
        PROVE  Entered(e) /\ exec'[e].status \in Terminal
    BY <1>2, TerminalEnters, SetTerminalRow DEF CodeFits, RowBecomes
  <1>3. ASSUME RecordPurchase(e),
               \/ exec[e].status \notin Terminal
               \/ exec[e].status = "outcome_unknown" /\ events[e] = <<"outcome_unknown">>
        PROVE  Entered(e) /\ exec'[e].status \in Terminal
    BY <1>3, PurchaseEnters, RecordPurchaseRow DEF RowBecomes
  <1>. QED
    BY <1>1, <1>2, <1>3 DEF FinishTerminal, Succeed, ReconcileHostedSucceeded, Valid

LEMMA WindNext == TypedWorkers /\ ClaimsExist /\ [Next]_vars => WindStep
  <1>. SUFFICES ASSUME TypedWorkers, ClaimsExist, [Next]_vars PROVE WindStep
    OBVIOUS
  <1>0. DbTypeOK
    BY DEF TypedWorkers, TypeOK
  <1>1. ASSUME NEW e \in Executions, FewerBusy, exec[e].status # "absent",
               NothingWritten \/ (Entered(e) /\ exec'[e].status \in Terminal)
        PROVE  WindStep
    BY <1>1 DEF WindStep
  <1>2. ASSUME NEW w \in Workers, WorkerStep(w), ~Claim(w), ~Release(w)
        PROVE  FewerBusy
    <2>1. /\ job' = job /\ pc[w] \notin {"idle", "release"}
          /\ \E stage : Goto(w, stage) /\ (pc[w] = "again" => stage = "release")
      BY <1>2 DEF WorkerStep, Prepare, AcquireCardLock, PrepareAgain, FailBeforeSubmission,
         Submit, FillAndClick, Observe, Settle, HandleError, HandlingFails, RaiseAgain, At, Raise
    <2>. QED
      BY <2>1 DEF Goto, FewerBusy, FewerHands, Busy, Unhandled, TypedWorkers, TypeOK
  <1>3. ASSUME UNCHANGED <<pc, job>> PROVE FewerBusy
    BY <1>3 DEF FewerBusy, FewerHands, Busy, Unhandled
  <1>4. ASSUME NEW w \in Workers, Claim(w) PROVE WindStep
    <2>1. PICK e \in Executions :
             \/ (ClaimSubmitted(e) \/ ClaimExhausted(e)) /\ UNCHANGED <<pc, job>>
             \/ ClaimAttempt(e) /\ Goto(w, "prepare") /\ job' = [job EXCEPT ![w] = e]
      BY <1>4 DEF Claim, workerVars
    <2>2. CASE (ClaimSubmitted(e) \/ ClaimExhausted(e)) /\ UNCHANGED <<pc, job>>
      <3>1. exec[e].status \notin Terminal \cup {"absent"}
        BY <2>2 DEF ClaimSubmitted, ClaimExhausted, Claimable
      <3>2. exec[e].attempts \in 0..MaxAttempts
        BY <1>0 DEF DbTypeOK, Row
      <3>3. ClaimExhausted(e) => CodeFits(e, "failed", "checkout_failed")
        BY <3>2, MaxAttemptsAssumption DEF ClaimExhausted, CodeFits
      <3>4. Entered(e) /\ exec'[e].status \in Terminal
        BY <1>0, <2>2, <3>1, <3>3, TerminalEnters, SetTerminalRow
        DEF ClaimSubmitted, ClaimExhausted, CodeFits, RowBecomes
      <3>. QED
        BY <1>1, <1>3, <2>2, <3>1, <3>4
    <2>3. CASE ClaimAttempt(e) /\ Goto(w, "prepare") /\ job' = [job EXCEPT ![w] = e]
      <3>1. /\ w \notin Busy(e)
            /\ Busy(e)' = Busy(e) \cup {w}
            /\ \A d \in Executions \ {e} : Busy(d)' = Busy(d)
        BY <1>4, <2>3 DEF Claim, At, Goto, Busy, TypedWorkers, TypeOK
      <3>2. /\ Unhandled(e)' = Unhandled(e) \cup {w}
            /\ \A d \in Executions \ {e} : Unhandled(d)' = Unhandled(d)
        BY <1>4, <2>3 DEF Claim, At, Goto, Busy, Unhandled, TypedWorkers, TypeOK
      <3>. QED
        BY <2>3, <3>1, <3>2 DEF WindStep, FewerHands
    <2>. QED
      BY <2>1, <2>2, <2>3
  <1>5. ASSUME NEW w \in Workers, Submit(w) PROVE NothingWritten /\ job[w] \in Executions
    <2>1. job[w] \in Executions
      BY <1>5 DEF Submit, At, TypedWorkers, WorkersBusy
    <2>2. CASE UNCHANGED dbVars
      BY <2>1, <2>2, NothingInDb
    <2>3. CASE MarkSubmitted(job[w])
      BY <1>0, <2>1, <2>3, NothingInLease DEF MarkSubmitted
    <2>. QED
      BY <1>5, <2>2, <2>3 DEF Submit
  <1>6. ASSUME NEW w \in Workers, Settle(w) PROVE WindStep
    <2>1. /\ job[w] \in Executions /\ exec[job[w]].status # "absent"
          /\ note[w] \in Outcomes /\ FewerBusy
      BY <1>2, <1>6 DEF TypedWorkers, WorkersBusy, ClaimsExist, At, Settle, WorkerStep,
         Claim, Release
    <2>2. note[w] # "approved" =>
             /\ TerminalFor(note[w]) \in Terminal \ {"succeeded"}
             /\ CodeFor(note[w]) \in ErrorCodes \ {"checkout_failed"}
             /\ TerminalFor(note[w]) = "outcome_unknown" =>
                   CodeFor(note[w]) = "payment_outcome_unknown"
      BY <2>1 DEF TerminalFor, CodeFor
    <2>3. \/ NothingWritten
          \/ Entered(job[w]) /\ exec'[job[w]].status \in Terminal
      BY <1>0, <1>6, <2>1, <2>2, Ends, NothingInDb DEF Settle, SucceedRaises
    <2>. QED
      BY <1>1, <2>1, <2>3
  <1>7. ASSUME NEW w \in Workers, HandleError(w) PROVE WindStep
    <2>1. PICK e \in Executions : e = job[w]
      BY <1>7 DEF HandleError, At, TypedWorkers, WorkersBusy
    <2>2. exec[e].status # "absent" /\ FewerBusy
      BY <1>2, <1>7, <2>1 DEF ClaimsExist, At, HandleError, WorkerStep, Claim, Release
    <2>3. HandlesOne(e)
      <3>1. CASE Goto(w, "release")
        <4>1. w \in Busy(e) /\ w \notin Busy(e)'
          BY <1>7, <2>1, <3>1 DEF HandleError, Goto, Busy, TypedWorkers, TypeOK
        <4>. QED
          BY <4>1 DEF HandlesOne
      <3>2. CASE At(w, "error") /\ RaiseAgain(w)
        <4>1. w \in Unhandled(e) /\ w \notin Unhandled(e)'
          BY <1>7, <2>1, <3>2
          DEF HandleError, RaiseAgain, At, Goto, Busy, Unhandled, TypedWorkers, TypeOK
        <4>. QED
          BY <4>1 DEF HandlesOne
      <3>. QED
        BY <1>7, <3>1, <3>2 DEF HandleError
    <2>4. \/ NothingWritten
          \/ Entered(e) /\ exec'[e].status \in Terminal
          \/ Entered(e) /\ exec'[e].status = "queued" /\ exec[e].attempts # MaxAttempts
      BY <1>0, <1>7, <2>1, Ends, EndsOrRequeues DEF HandleError
    <2>5. CASE Entered(e) /\ exec'[e].status = "queued" /\ exec[e].attempts # MaxAttempts
      BY <2>2, <2>3, <2>5 DEF WindStep
    <2>. QED
      BY <1>1, <2>2, <2>4, <2>5
  <1>8. ASSUME NEW e \in Executions, Approve(e) PROVE WindStep
    <2>1. QueueCheckoutExecution(e) /\ exec[e].status = "absent" /\ UNCHANGED <<pc, job>>
      BY <1>8 DEF Approve, QueueCheckoutExecution, workerVars
    <2>2. Busy(e)' = {}
      BY <2>1 DEF Busy, ClaimsExist
    <2>. QED
      BY <1>3, <2>1, <2>2 DEF WindStep
  <1>9. ASSUME NEW e \in Executions, Reconcile(e) PROVE WindStep
    BY <1>0, <1>1, <1>3, <1>9, Ends DEF Reconcile, ReconcileHostedSucceeded, workerVars
  <1>10. ASSUME NEW w \in Workers, Heartbeat(w) PROVE WindStep
    <2>1. job[w] \in Executions
      BY <1>10 DEF Heartbeat, At, TypedWorkers, WorkersBusy
    <2>2. NothingWritten
      BY <1>0, <1>10, <2>1, NothingInLease DEF Heartbeat, RenewLease
    <2>. QED
      BY <1>3, <1>10, <2>2 DEF WindStep, Heartbeat, workerVars
  <1>11. ASSUME NEW e \in Executions, LeaseExpires(e) PROVE WindStep
    BY <1>0, <1>3, <1>11, NothingInLease DEF WindStep, LeaseExpires, workerVars
  <1>12. ASSUME UNCHANGED <<exec, purchases, events, timeline>>, FewerBusy PROVE WindStep
    BY <1>12 DEF WindStep, NothingWritten
  <1>13. ASSUME NEW w \in Workers, LeaveClaim(w) PROVE WindStep
    <2>1. FewerBusy
      BY <1>13 DEF LeaveClaim, Goto, FewerBusy, FewerHands, Busy, Unhandled, TypedWorkers, TypeOK
    <2>. QED
      BY <1>12, <1>13, <2>1 DEF LeaveClaim, dbVars
  <1>14. ASSUME NEW w \in Workers, WorkerStep(w) PROVE WindStep
    <2>1. CASE Submit(w)
      BY <1>2, <1>5, <1>14, <2>1 DEF WindStep, Submit, Claim, Release, At
    <2>2. CASE \/ Prepare(w) \/ AcquireCardLock(w) \/ PrepareAgain(w)
               \/ FailBeforeSubmission(w) \/ FillAndClick(w) \/ Observe(w)
               \/ HandlingFails(w)
      <3>1. ~Claim(w) /\ ~Release(w)
        BY <2>2 DEF Prepare, AcquireCardLock, PrepareAgain, FailBeforeSubmission,
           FillAndClick, Observe, HandlingFails, Claim, Release, At
      <3>2. UNCHANGED <<exec, purchases, events, timeline>>
        BY <2>2 DEF Prepare, AcquireCardLock, PrepareAgain, FailBeforeSubmission,
           FillAndClick, Observe, HandlingFails, dbVars
      <3>. QED
        BY <1>2, <1>12, <1>14, <3>1, <3>2
    <2>. QED
      BY <1>4, <1>6, <1>7, <1>13, <1>14, <2>1, <2>2 DEF WorkerStep, Release
  <1>15. CASE Disturbance
    BY <1>3, <1>8, <1>9, <1>10, <1>11, <1>12, <1>13, <1>15
    DEF Disturbance, Crash, MerchantSettles, LockDrops, ChangeUsable, workerVars, dbVars
  <1>16. CASE UNCHANGED vars
    BY <1>3, <1>12, <1>16 DEF vars, workerVars, dbVars
  <1>. QED
    BY <1>14, <1>15, <1>16 DEF Next

LEMMA FiniteClaimsInit == Init => FiniteClaims
  <1>. SUFFICES ASSUME Init, NEW e \in Executions PROVE IsFiniteSet(Busy(e))
    BY DEF FiniteClaims
  <1>1. Busy(e) = {}
    BY DEF Init, Busy
  <1>. QED
    BY <1>1, FS_EmptySet

\* Every write to a row's status brings the row nearer to its end, whatever the
\* number of workers, of crashes and of leases lost.
THEOREM RepositoryWindsDown == Spec => RowsWindDown
  <1>. DEFINE Down == \A e \in Executions :
                         \/ WritesLeft(e)' < WritesLeft(e)
                         \/ WritesLeft(e)' = WritesLeft(e) /\ timeline'[e] = timeline[e]
  <1>1. IInv => TypedWorkers /\ ClaimsExist /\ DbTypeOK
    BY DEF IInv, TypedWorkers, TypeOK
  <1>2. IInv /\ [Next]_vars => WindStep
    BY <1>1, WindNext
  <1>3. IInv /\ FiniteClaims /\ [Next]_vars => FiniteClaims'
    BY <1>2, WindStepFinite
  <1>4. DbTypeOK /\ DbTypeOK' /\ FiniteClaims /\ FiniteClaims' /\ WindStep => Down
    BY WindStepWinds DEF WindsDown
  <1>5. IInv => DbTypeOK
    BY <1>1
  <1>6. IInv /\ IInv' /\ FiniteClaims /\ FiniteClaims' /\ [Next]_vars => [Down]_vars
    <2>1. IInv' => DbTypeOK'
      BY DEF IInv, TypeOK
    <2>. QED
      BY <1>2, <1>4, <1>5, <2>1
  <1>. HIDE DEF Down
  <1>. QED
    BY <1>3, <1>6, Inductive, FiniteClaimsInit, PTL DEF Spec, RowsWindDown, Down

\* The writes to a row's status so far and those it has left.
StatusWritesBounded ==
    \A e \in Executions :
        /\ WritesLeft(e) \in Nat
        /\ Len(timeline[e]) + WritesLeft(e) <= 3 * MaxAttempts + 1

LEMMA BoundedStep ==
    ASSUME DbTypeOK, DbTypeOK', FiniteClaims, FiniteClaims', StatusWritesBounded,
           Written, WindStep
    PROVE  StatusWritesBounded'
  <1>. SUFFICES ASSUME NEW e \in Executions
                PROVE  /\ WritesLeft(e)' \in Nat
                       /\ Len(timeline'[e]) + WritesLeft(e)' <= 3 * MaxAttempts + 1
    BY DEF StatusWritesBounded
  <1>1. WritesLeft(e) \in Nat /\ WritesLeft(e)' \in Nat
    BY LeftTyped, LeftCases
  <1>2. /\ Len(timeline[e]) \in Nat
        /\ Len(timeline[e]) + WritesLeft(e) <= 3 * MaxAttempts + 1
    BY DEF DbTypeOK, StatusWritesBounded
  <1>3. \/ timeline'[e] = timeline[e]
        \/ Len(timeline'[e]) = Len(timeline[e]) + 1
    <2>1. CASE NothingWritten
      BY <2>1 DEF NothingWritten
    <2>2. ASSUME NEW d \in Executions, Entered(d), d # e PROVE timeline'[e] = timeline[e]
      BY <2>2 DEF Entered
    <2>3. ASSUME Entered(e) PROVE Len(timeline'[e]) = Len(timeline[e]) + 1
      <3>1. timeline[e] \in Seq(Status \ {"absent"})
        BY DEF DbTypeOK
      <3>. QED
        BY <2>3, <3>1 DEF Entered
    <2>. QED
      BY <2>1, <2>2, <2>3, WritesEnter DEF Written
  <1>4. WindsDown(e)
    BY WindStepWinds
  <1>. QED
    BY <1>1, <1>2, <1>3, <1>4, MaxAttemptsAssumption DEF WindsDown

\* However long the workers run, a row's status is written at most as often as its
\* attempts allow.
THEOREM StatusWritesEnd ==
    Spec => [](\A e \in Executions : Len(timeline[e]) <= 3 * MaxAttempts + 1)
  <1>. DEFINE Short == \A e \in Executions : Len(timeline[e]) <= 3 * MaxAttempts + 1
  <1>1. Init => StatusWritesBounded
    <2>. SUFFICES ASSUME Init, NEW e \in Executions
                  PROVE  /\ WritesLeft(e) \in Nat
                         /\ Len(timeline[e]) + WritesLeft(e) <= 3 * MaxAttempts + 1
      BY DEF StatusWritesBounded
    <2>1. exec[e].status = "absent" /\ timeline[e] = <<>>
      BY DEF Init, DbInit, NoRow
    <2>2. WritesLeft(e) = 3 * MaxAttempts + 1
      BY <2>1 DEF WritesLeft
    <2>. QED
      BY <2>1, <2>2, MaxAttemptsAssumption
  <1>2. IInv => TypedWorkers /\ ClaimsExist /\ DbTypeOK
    BY DEF IInv, TypedWorkers, TypeOK
  <1>3. IInv /\ [Next]_vars => Written /\ WindStep
    BY <1>2, WindNext, WrittenNext
  <1>4. IInv /\ FiniteClaims /\ [Next]_vars => FiniteClaims'
    BY <1>3, WindStepFinite
  <1>5. IInv /\ IInv' /\ FiniteClaims /\ FiniteClaims' /\ StatusWritesBounded /\ [Next]_vars
            => StatusWritesBounded'
    <2>1. IInv' => DbTypeOK'
      BY DEF IInv, TypeOK
    <2>. QED
      BY <1>2, <1>3, <2>1, BoundedStep
  <1>6. IInv /\ StatusWritesBounded => Short
    <2>. SUFFICES ASSUME IInv, StatusWritesBounded, NEW e \in Executions
                  PROVE  Len(timeline[e]) <= 3 * MaxAttempts + 1
      OBVIOUS
    <2>1. Len(timeline[e]) \in Nat
      BY DEF IInv, TypeOK, DbTypeOK
    <2>. QED
      BY <2>1, MaxAttemptsAssumption DEF StatusWritesBounded
  <1>. HIDE DEF Short
  <1>7. Spec => []Short
    BY <1>1, <1>4, <1>5, <1>6, Inductive, FiniteClaimsInit, PTL DEF Spec
  <1>. QED
    BY <1>7 DEF Short

-----------------------------------------------------------------------------
(* The card lock serves whoever waits for it.                              *)

\* A step that moves one worker along leaves its job and the locks alone; the lock
\* is only ever taken by a worker at its wait and kept until the claim is left.
LEMMA CardLockServesKept == TypedWorkers /\ CardLockServes /\ [Next]_vars => CardLockServes'
  <1>. SUFFICES ASSUME TypedWorkers, CardLockServes, [Next]_vars, NEW c \in Cards,
                       lock'[c] # None
                PROVE  /\ pc'[lock'[c]] \in Critical \cup {"error", "release"}
                       /\ CardOf[job'[lock'[c]]] = c
    BY DEF CardLockServes
  <1>. DEFINE Serves == /\ pc'[lock'[c]] \in Critical \cup {"error", "release"}
                        /\ CardOf[job'[lock'[c]]] = c
  <1>0. lock[c] \in Workers \cup {None} /\ lock'[c] \in Workers \cup {None}
    BY TypedNext DEF TypedWorkers, TypeOK
  <1>1. ASSUME NEW w \in Workers, AcquireCardLock(w) PROVE Serves
    <2>1. CASE lock'[c] = lock[c]
      <3>1. lock[c] \in Workers /\ lock[c] # w
        BY <1>0, <1>1, <2>1 DEF CardLockServes, AcquireCardLock, At
      <3>. QED
        BY <1>1, <2>1, <3>1 DEF CardLockServes, AcquireCardLock, Goto, TypedWorkers, TypeOK
    <2>2. CASE lock'[c] # lock[c]
      <3>1. CardOf[job[w]] = c /\ lock'[c] = w
        BY <1>1, <2>2 DEF AcquireCardLock, TypedWorkers, TypeOK
      <3>. QED
        BY <1>1, <3>1 DEF AcquireCardLock, Goto, TypedWorkers, TypeOK
    <2>. QED
      BY <2>1, <2>2
  <1>2. ASSUME NEW w \in Workers, LeaveClaim(w) \/ (RaiseAgain(w) /\ job' = job) PROVE Serves
    <2>1. lock'[c] = lock[c] /\ lock[c] \in Workers /\ lock[c] # w
      BY <1>0, <1>2 DEF LeaveClaim, RaiseAgain, Unlock
    <2>. QED
      BY <1>2, <2>1 DEF CardLockServes, LeaveClaim, RaiseAgain, Goto, TypedWorkers, TypeOK
  <1>3. ASSUME NEW w \in Workers, Claim(w) PROVE Serves
    <2>1. lock' = lock /\ lock[c] \in Workers /\ lock[c] # w
      BY <1>0, <1>3 DEF Claim, At, workerVars, CardLockServes
    <2>. QED
      BY <1>3, <2>1 DEF CardLockServes, Claim, Goto, workerVars, TypedWorkers, TypeOK
  <1>4. ASSUME NEW w \in Workers, WorkerStep(w), ~AcquireCardLock(w), ~Claim(w), ~Release(w),
               ~(RaiseAgain(w) /\ job' = job)
        PROVE  Serves
    <2>1. job' = job /\ lock' = lock
      BY <1>4 DEF WorkerStep, Prepare, PrepareAgain, FailBeforeSubmission, Submit, FillAndClick,
         Observe, Settle, HandleError, HandlingFails
    <2>2. \/ pc[w] \in {"prepare", "lock"}
          \/ \E stage \in Critical \cup {"error", "release"} : Goto(w, stage)
      BY <1>4 DEF WorkerStep, Prepare, PrepareAgain, FailBeforeSubmission, Submit, FillAndClick,
         Observe, Settle, HandleError, HandlingFails, At, Raise
    <2>3. \E stage : Goto(w, stage)
      BY <1>4 DEF WorkerStep, Prepare, PrepareAgain, FailBeforeSubmission, Submit, FillAndClick,
         Observe, Settle, HandleError, HandlingFails, Raise
    <2>. QED
      BY <1>0, <2>1, <2>2, <2>3 DEF CardLockServes, Goto, TypedWorkers, TypeOK
  <1>5. ASSUME NEW d \in Cards, LockDrops(d) PROVE Serves
    <2>1. lock'[c] = lock[c] /\ UNCHANGED <<pc, job>>
      BY <1>5 DEF LockDrops, TypedWorkers, TypeOK
    <2>. QED
      BY <2>1 DEF CardLockServes
  <1>6. CASE UNCHANGED <<pc, job, lock>>
    BY <1>6 DEF CardLockServes
  <1>. QED
    BY <1>1, <1>2, <1>3, <1>4, <1>5, <1>6
    DEF Next, Disturbance, Crash, Release, Heartbeat, LeaseExpires, Approve, Reconcile,
        MerchantSettles, ChangeUsable, workerVars, vars

\* No worker waits for a card whose holder waits itself, or has gone.
THEOREM CardLocksServe == Spec => []CardLockServes
  <1>1. Init => CardLockServes
    BY DEF Init, CardLockServes
  <1>2. TypedWorkers /\ CardLockServes /\ [Next]_vars => CardLockServes'
    BY CardLockServesKept
  <1>. QED
    BY <1>1, <1>2, TypedInit, TypedNext, PTL DEF Spec

-----------------------------------------------------------------------------
(* A payment that was made and is not known to be can be reconciled.       *)

\* A row calls an unknown outcome by its code, and is there only when its cart
\* item was approved.
UnknownCoded ==
    \A e \in Executions :
        exec[e].status = "outcome_unknown" => exec[e].error = "payment_outcome_unknown"

CartsFollow == \A e \in Executions : exec[e].status # "absent" => cart[e] # "proposed"

LEMMA UnknownCodedKept == TypedWorkers /\ UnknownCoded /\ [Next]_vars => UnknownCoded'
  <1>. SUFFICES ASSUME TypedWorkers, UnknownCoded, [Next]_vars, NEW d \in Executions,
                       exec'[d].status = "outcome_unknown"
                PROVE  exec'[d].error = "payment_outcome_unknown"
    BY DEF UnknownCoded
  <1>0. DbTypeOK
    BY DEF TypedWorkers, TypeOK
  <1>1. CASE NothingWritten
    BY <1>1 DEF NothingWritten, UnknownCoded
  <1>2. ASSUME NEW e \in Executions, Entered(e)
        PROVE  exec'[d].error = "payment_outcome_unknown"
    BY <1>2 DEF Entered, UnknownCoded
  <1>. QED
    BY <1>0, <1>1, <1>2, WrittenNext, WritesEnter DEF Written

\* Only an approval inserts a row.
LEMMA OnlyQueueInserts ==
    ASSUME DbTypeOK, WindStep, NEW e \in Executions,
           exec[e].status = "absent", exec'[e].status # "absent"
    PROVE  QueueCheckoutExecution(e)
  <1>1. ~NothingWritten
    BY DEF NothingWritten
  <1>2. ASSUME NEW d \in Executions, Entered(d), exec[d].status # "absent" PROVE FALSE
    BY <1>2 DEF Entered
  <1>3. ASSUME NEW d \in Executions, ClaimAttempt(d) PROVE FALSE
    BY <1>2, <1>3, ClaimEnters DEF ClaimAttempt, Claimable
  <1>4. ASSUME NEW d \in Executions, QueueCheckoutExecution(d) PROVE d = e
    BY <1>4, QueueEnters DEF Entered
  <1>. QED
    BY <1>1, <1>2, <1>3, <1>4 DEF WindStep

\* A cart item leaves "proposed" with the approval and never returns.
LEMMA CartMoves ==
    ASSUME TypedWorkers, [Next]_vars
    PROVE  cart' = cart \/ \E e \in Executions : QueueCheckoutExecution(e) \/ RecordPurchase(e)
  <1>1. ASSUME NEW w \in Workers, Claim(w) PROVE cart' = cart
    BY <1>1 DEF Claim, ClaimSubmitted, ClaimExhausted, ClaimAttempt, SetTerminal
  <1>2. ASSUME NEW w \in Workers, Submit(w) PROVE cart' = cart
    BY <1>2 DEF Submit, MarkSubmitted, dbVars
  <1>3. ASSUME NEW w \in Workers, Settle(w) PROVE cart' = cart \/ RecordPurchase(job[w])
    BY <1>3 DEF Settle, Succeed, SucceedRaises, FinishTerminal, SetTerminal, dbVars
  <1>4. ASSUME NEW w \in Workers, HandleError(w) PROVE cart' = cart
    BY <1>4 DEF HandleError, FinishTerminal, RetryOrFail, Requeue, SetTerminal, dbVars
  <1>5. ASSUME NEW w \in Workers, Settle(w) PROVE job[w] \in Executions
    BY <1>5 DEF Settle, At, TypedWorkers, WorkersBusy
  <1>6. ASSUME NEW w \in Workers, WorkerStep(w)
        PROVE  cart' = cart \/ \E e \in Executions : RecordPurchase(e)
    <2>1. CASE Settle(w)
      BY <1>3, <1>5, <2>1
    <2>. QED
      BY <1>1, <1>2, <1>4, <1>6, <2>1
      DEF WorkerStep, Prepare, AcquireCardLock, PrepareAgain, FailBeforeSubmission,
          FillAndClick, Observe, HandlingFails, Release, LeaveClaim, dbVars
  <1>7. CASE Disturbance
    BY <1>7
    DEF Disturbance, Crash, LeaveClaim, Heartbeat, RenewLease, LeaseExpires, Approve, Reconcile,
        ReconcileHostedSucceeded, MerchantSettles, LockDrops, ChangeUsable, dbVars
  <1>8. CASE UNCHANGED vars
    BY <1>8 DEF vars, dbVars
  <1>. QED
    BY <1>6, <1>7, <1>8 DEF Next

LEMMA CartsFollowKept ==
    TypedWorkers /\ ClaimsExist /\ CartsFollow /\ [Next]_vars => CartsFollow'
  <1>. SUFFICES ASSUME TypedWorkers, ClaimsExist, CartsFollow, [Next]_vars,
                       NEW d \in Executions, exec'[d].status # "absent"
                PROVE  cart'[d] # "proposed"
    BY DEF CartsFollow
  <1>0. DbTypeOK /\ WindStep
    BY WindNext DEF TypedWorkers, TypeOK
  <1>1. ASSUME NEW e \in Executions, QueueCheckoutExecution(e)
        PROVE  cart' = [cart EXCEPT ![e] = "approved"]
    BY <1>1 DEF QueueCheckoutExecution
  <1>2. ASSUME NEW e \in Executions, RecordPurchase(e)
        PROVE  cart' = [cart EXCEPT ![e] = "purchased"]
    BY <1>2 DEF RecordPurchase
  <1>3. CASE exec[d].status = "absent"
    BY <1>0, <1>1, <1>3, OnlyQueueInserts DEF DbTypeOK
  <1>4. CASE exec[d].status # "absent"
    BY <1>0, <1>1, <1>2, <1>4, CartMoves DEF DbTypeOK, CartsFollow
  <1>. QED
    BY <1>3, <1>4

\* Whichever way the payment came to be unknown, reconciliation finds the rows as
\* it wants them.
THEOREM UnknownPaymentsReconcilable == Spec => []ChargedUnknownReconcilable
  <1>1. Init => UnknownCoded /\ CartsFollow
    BY DEF Init, DbInit, NoRow, UnknownCoded, CartsFollow
  <1>2. IInv => TypedWorkers /\ ClaimsExist
    BY DEF IInv, TypedWorkers
  <1>3. IInv /\ UnknownCoded /\ CartsFollow /\ [Next]_vars => UnknownCoded' /\ CartsFollow'
    BY <1>2, UnknownCodedKept, CartsFollowKept
  <1>4. IInv /\ UnknownCoded /\ CartsFollow /\ FeedMatchesRow => ChargedUnknownReconcilable
    <2>. SUFFICES ASSUME IInv, UnknownCoded, CartsFollow, FeedMatchesRow,
                         NEW e \in Executions, exec[e].status = "outcome_unknown",
                         charge[e] = "charged"
                  PROVE  /\ exec[e].error = "payment_outcome_unknown"
                         /\ exec[e].submitted
                         /\ cart[e] = "approved"
                         /\ events[e] = <<"outcome_unknown">>
                         /\ \A p \in purchases : p.execution # e
      BY DEF ChargedUnknownReconcilable
    <2>1. exec[e].submitted
      BY DEF IInv, RowsConsistent
    <2>2. cart[e] = "approved"
      <3>1. cart[e] \in {"proposed", "approved", "purchased"} /\ cart[e] # "purchased"
        BY DEF IInv, TypeOK, DbTypeOK, PurchaseBacked
      <3>. QED
        BY <3>1 DEF CartsFollow
    <2>3. events[e] = <<"outcome_unknown">>
      BY DEF FeedMatchesRow
    <2>4. \A p \in purchases : p.execution # e
      BY DEF IInv, PurchaseBacked
    <2>. QED
      BY <2>1, <2>2, <2>3, <2>4 DEF UnknownCoded
  <1>. QED
    BY <1>1, <1>3, <1>4, Inductive, FeedFollowsRow, PTL DEF Spec
=============================================================================
