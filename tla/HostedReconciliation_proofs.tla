--------------------- MODULE HostedReconciliation_proofs ---------------------
(***************************************************************************)
(* Proofs about HostedReconciliation, for any number of requests, workers' *)
(* transactions, approvals, checkouts, cards and agents.                   *)
(***************************************************************************)
EXTENDS HostedReconciliation, CheckoutRepository_proofs

USE DEF Terminal, Unresolved, Status, Leases, ErrorCodes, Calls, Answers, Txns

-----------------------------------------------------------------------------
(* The inductive invariant. *)

Proven == {"outcome_unknown", "succeeded"}

Bought(e) == \E p \in purchases : p.execution = e

\* What the rows beside an execution say, by its status.
Agrees(e) ==
    LET status == exec[e].status
        line   == timeline[e]
    IN  /\ status = "absent" => cart[e] = "proposed"
        /\ status \in {"queued", "running", "failed", "action_required", "outcome_unknown"}
              => cart[e] = "approved"
        /\ status = "succeeded" <=> cart[e] = "purchased"
        /\ status = "succeeded" <=> Bought(e)
        /\ status \in {"absent", "queued", "running"} => events[e] = <<>>
        /\ status \in {"failed", "action_required", "outcome_unknown"} => events[e] = <<status>>
        /\ status = "succeeded" =>
              events[e] \in {<<"succeeded">>, <<"outcome_unknown", "succeeded">>}
        /\ status = "outcome_unknown" => exec[e].submitted
        /\ status \in Proven => line[Len(line)] = status

RowsAgree == \A e \in Executions : Agrees(e)

\* A purchase carries the reference of a payment, and no two on a card the same.
PurchasesFit ==
    /\ \A p \in purchases : p.reference = ReferenceOf[p.execution] /\ p.reference \in paid
    /\ \A p, q \in purchases :
          (p.reference = q.reference /\ CardOf[p.execution] = CardOf[q.execution]) => p = q

\* Where only a worker's transaction goes.
WorkerStages == {"commit", "handle", "again"}

\* Where it is alone with its execution, and where its handling is over or outside.
Attempting == {"lock", "commit", "handle"}

USE DEF WorkerStages, Attempting

\* What a request has read, been told and done.
RequestsFit ==
    \A r \in Requests :
        /\ stage[r] \notin WorkerStages
        /\ stage[r] \in {"verify", "lock"} => saw[r] = "outcome_unknown"
        /\ stage[r] = "lock" => ReferenceOf[Subject[r]] \in paid
        /\ saw[r] = "outcome_unknown" => exec[Subject[r]].status \in Proven
        /\ answer[r] = "recorded" => exec[Subject[r]].status = "succeeded"

\* A worker's transaction is at a row that exists, alone of its kind, and on a
\* submitted one it has seen the payment; it commits on a row that still runs.
ValidationsFit ==
    \A v \in Validations :
        /\ stage[v] \in Attempting \cup WorkerStages => exec[Subject[v]].status # "absent"
        /\ stage[v] \in {"lock", "commit"} /\ exec[Subject[v]].submitted =>
              ReferenceOf[Subject[v]] \in paid
        /\ stage[v] = "commit" => locked[v] = 4 /\ exec[Subject[v]].status = "running"
        /\ \A u \in Validations :
              (stage[u] \in Attempting /\ stage[v] \in Attempting
                 /\ Subject[u] = Subject[v]) => u = v

\* An approval past its cart item found it proposed, and is alone with it.
ApprovalsFit ==
    \A a \in Approvals :
        /\ stage[a] \notin WorkerStages
        /\ locked[a] >= 2 => cart[Subject[a]] = "proposed"
        /\ \A b \in Approvals :
              (locked[a] > 0 /\ locked[b] > 0 /\ Subject[a] = Subject[b]) => a = b

AnswersLast == \A t \in Txns : stage[t] # "ended" => answer[t] = "none"

\* A row is locked by one transaction.
Exclusive == \A t, u \in Txns : \A row : Holds(t, row) /\ Holds(u, row) => t = u

Reconciling ==
    /\ TypeOK /\ Exclusive
    /\ RowsAgree /\ PurchasesFit
    /\ RequestsFit /\ ValidationsFit /\ ApprovalsFit /\ AnswersLast

-----------------------------------------------------------------------------
(* Plans. *)

LEMMA PlansOf ==
    ASSUME NEW t \in Txns
    PROVE  /\ t \in Requests => Plan(t) = ReconcilePlan(Subject[t])
           /\ t \in Approvals => Plan(t) = ApprovePlan(Subject[t])
           /\ t \in Validations /\ stage[t] \in {"handle", "again"} =>
                Plan(t) = HandlePlan(Subject[t])
           /\ t \in Validations /\ stage[t] \notin {"handle", "again"} =>
                Plan(t) = ValidatePlan(Subject[t])
  BY TxnsAssumption DEF Plan

LEMMA PlanLengths ==
    ASSUME NEW t \in Txns
    PROVE  /\ t \in Requests => Len(Plan(t)) = 4
           /\ t \in Approvals => Len(Plan(t)) = 3
           /\ Len(Plan(t)) \in 2..4
  BY PlansOf DEF ReconcilePlan, ApprovePlan, HandlePlan, ValidatePlan

-----------------------------------------------------------------------------
(* Types. *)

CallsTyped ==
    /\ stage \in [Txns -> Calls]
    /\ locked \in [Txns -> 0..4]
    /\ saw \in [Requests -> Status]
    /\ answer \in [Txns -> Answers]
    /\ paid \subseteq References
    /\ \A t \in Txns : locked[t] > 0 => stage[t] \in {"lock", "commit", "handle", "again"}

LEMMA TypeParts == TypeOK <=> DbTypeOK /\ CallsTyped
  BY DEF TypeOK, CallsTyped

LEMMA CallsTypedNext ==
    ASSUME CallsTyped, DbTypeOK, [Next]_vars
    PROVE  CallsTyped'
  <1>1. ASSUME NEW t \in Txns, Lock(t)
        PROVE  CallsTyped'
    <2>1. locked[t] + 1 \in 0..4
      <3>1. locked[t] \in 0..4 /\ Len(Plan(t)) \in 2..4 /\ locked[t] < Len(Plan(t))
        BY <1>1, PlanLengths DEF Lock, Wanting, CallsTyped
      <3>2. \A i \in 0..4, n \in 2..4 : i < n => i + 1 \in 0..4
        OBVIOUS
      <3>. QED
        BY <3>1, <3>2
    <2>. QED
      BY <1>1, <2>1 DEF Lock, Wanting, Locking, CallsTyped
  <1>2. ASSUME NEW t \in Txns, NEW result \in Answers, End(t, result), paid' = paid
        PROVE  CallsTyped'
    BY <1>2 DEF End, CallsTyped
  <1>3. ASSUME NEW t \in Txns, NEW where \in Calls, Goto(t, where), locked[t] = 0,
               saw' = saw
        PROVE  CallsTyped'
    BY <1>3 DEF Goto, CallsTyped
  <1>13. ASSUME NEW t \in Txns, NEW where \in Calls, Leave(t, where), paid' = paid
         PROVE  CallsTyped'
    BY <1>13 DEF Leave, CallsTyped
  <1>4. ASSUME NEW t \in Txns, Abort(t)
        PROVE  CallsTyped'
    BY <1>2, <1>4, <1>13 DEF Abort
  <1>14. ASSUME NEW t \in Txns, Check(t)
         PROVE  CallsTyped'
    <2>1. ASSUME Goto(t, "commit"), saw' = saw
          PROVE  CallsTyped'
      BY <2>1 DEF Goto, CallsTyped
    <2>. QED
      BY <1>2, <1>13, <1>14, <2>1 DEF Check
  <1>5. ASSUME NEW t \in Txns, Commit(t)
        PROVE  CallsTyped'
    BY <1>2, <1>5, <1>13 DEF Commit
  <1>6. ASSUME NEW t \in Txns, Handle(t) \/ Approve(t)
        PROVE  CallsTyped'
    BY <1>2, <1>6, <1>13 DEF Handle, Approve
  <1>7. ASSUME NEW r \in Requests, ReadExecution(r)
        PROVE  CallsTyped'
    <2>1. exec[Subject[r]].status \in Status
      BY SubjectAssumption DEF DbTypeOK, Row
    <2>. QED
      BY <1>7, <2>1 DEF ReadExecution, Goto, CallsTyped
  <1>8. ASSUME NEW r \in Requests, ReadRest(r)
        PROVE  CallsTyped'
    <2>1. Loaded(Subject[r], saw[r]) \in {"candidate", "already", "invalid"}
      BY DEF Loaded
    <2>2. ASSUME NEW result \in Answers, End(r, result) PROVE CallsTyped'
      BY <1>2, <1>8, <2>2 DEF ReadRest
    <2>3. ASSUME stage' = [stage EXCEPT ![r] = "verify"], UNCHANGED <<locked, saw, answer>>
          PROVE  CallsTyped'
      BY <1>8, <2>3 DEF ReadRest, CallsTyped
    <2>. QED
      BY <1>8, <2>1, <2>2, <2>3 DEF ReadRest
  <1>9. ASSUME NEW r \in Requests, Verify(r) \/ Apply(r)
        PROVE  CallsTyped'
    BY <1>2, <1>9 DEF Verify, Apply, End, CallsTyped
  <1>10. ASSUME NEW t \in Txns, Validate(t) \/ Ask(t)
         PROVE  CallsTyped'
    <2>1. locked[t] = 0
      BY <1>10 DEF Validate, Ask, CallsTyped
    <2>. QED
      BY <1>3, <1>10, <2>1 DEF Validate, Ask
  <1>11. ASSUME NEW e \in Executions, CloseAbandoned(e) \/ PaymentMade(e)
         PROVE  CallsTyped'
    BY <1>11, ReferencesAssumption DEF CloseAbandoned, PaymentMade, callVars, CallsTyped
  <1>12. CASE UNCHANGED vars
    BY <1>12 DEF vars, callVars, CallsTyped
  <1>. QED
    BY <1>1, <1>4, <1>5, <1>6, <1>7, <1>8, <1>9, <1>10, <1>11, <1>12, <1>14
    DEF Next, CallStep, RequestStep

-----------------------------------------------------------------------------
(* What a call does to the rows. *)

\* A submission that is marked on what was checked before.
Submits(e) ==
    exec[e].status = "running" /\ cart[e] = "approved" /\ ~exec[e].submitted /\ WriteSubmission(e)

Changes(e) ==
    \/ cart[e] = "proposed" /\ Insert(e)
    \/ Submits(e)
    \/ \E code \in ErrorCodes : exec[e].status \in {"queued", "running"} /\ Requeue(e, code)
    \/ \E status \in {"failed", "outcome_unknown"}, code \in ErrorCodes :
          /\ exec[e].status \in {"queued", "running"}
          /\ status = "outcome_unknown" =>
                exec[e].submitted /\ code = "payment_outcome_unknown"
          /\ SetTerminal(e, status, code)
    \/ /\ exec[e].status \in {"running", "outcome_unknown"}
       /\ ReferenceOf[e] \in paid
       /\ PurchaseIsNew(e)
       /\ RecordPurchase(e)

LEMMA LiveStatus ==
    ASSUME DbTypeOK, NEW e \in Executions, exec[e].status \notin Terminal,
           exec[e].status # "absent"
    PROVE  exec[e].status \in {"queued", "running"}
  BY DEF DbTypeOK, Row

LEMMA ApplyChanges ==
    ASSUME Reconciling, NEW r \in Requests, Apply(r)
    PROVE  UNCHANGED dbVars \/ Changes(Subject[r])
  <1>. DEFINE e == Subject[r]
  <1>1. CASE UNCHANGED dbVars
    BY <1>1
  <1>2. CASE /\ Loaded(e, exec[e].status) = "candidate"
             /\ PurchaseIsNew(e) /\ RecordPurchase(e)
    <2>1. exec[e].status = "outcome_unknown"
      BY <1>2 DEF Loaded
    <2>2. stage[r] = "lock"
      BY DEF Apply, AllLocked, Locking, Reconciling, RequestsFit
    <2>3. ReferenceOf[e] \in paid
      BY <2>2 DEF Reconciling, RequestsFit
    <2>. QED
      BY <1>2, <2>1, <2>3 DEF Changes
  <1>. QED
    BY <1>1, <1>2 DEF Apply

LEMMA CommitChanges ==
    ASSUME Reconciling, NEW v \in Validations, Commit(v)
    PROVE  UNCHANGED dbVars \/ Changes(Subject[v])
  <1>. DEFINE e == Subject[v]
  <1>1. CASE UNCHANGED dbVars
    BY <1>1
  <1>2. /\ e \in Executions /\ exec[e].status = "running"
        /\ exec[e].submitted => ReferenceOf[e] \in paid
    BY SubjectAssumption DEF Commit, Reconciling, ValidationsFit
  <1>3. CASE ~exec[e].submitted /\ WriteSubmission(e)
    <2>1. cart[e] = "approved"
      BY <1>2 DEF Reconciling, RowsAgree, Agrees
    <2>. QED
      BY <1>2, <1>3, <2>1 DEF Changes, Submits
  <1>4. CASE exec[e].submitted /\ PurchaseIsNew(e) /\ RecordPurchase(e)
    BY <1>2, <1>4 DEF Changes
  <1>. QED
    BY <1>1, <1>3, <1>4 DEF Commit

LEMMA HandleChanges ==
    ASSUME Reconciling, NEW v \in Validations, Handle(v)
    PROVE  UNCHANGED dbVars \/ Changes(Subject[v])
  <1>. DEFINE e == Subject[v]
  <1>1. e \in Executions /\ DbTypeOK
    BY SubjectAssumption DEF Reconciling, TypeOK
  <1>2. exec[e].status # "absent"
    BY DEF Handle, Reconciling, ValidationsFit
  <1>. PICK retryable \in BOOLEAN : RetryOrFail(e, retryable)
    BY DEF Handle
  <1>3. exec[e].status \notin Terminal => exec[e].status \in {"queued", "running"}
    BY <1>1, <1>2, LiveStatus
  <1>. QED
    BY <1>3 DEF RetryOrFail, Changes

LEMMA ApproveChanges ==
    ASSUME Reconciling, NEW a \in Approvals, Approve(a)
    PROVE  UNCHANGED dbVars \/ Changes(Subject[a])
  <1>1. CASE AllLocked(a) /\ Insert(Subject[a])
    <2>1. locked[a] = 3
      BY <1>1, PlanLengths DEF AllLocked
    <2>. QED
      BY <1>1, <2>1 DEF Reconciling, ApprovalsFit, Changes
  <1>. QED
    BY <1>1 DEF Approve

LEMMA CloseChanges ==
    ASSUME Reconciling, NEW e \in Executions, CloseAbandoned(e)
    PROVE  Changes(e)
  BY DEF CloseAbandoned, ClaimSubmitted, Claimable, Changes

LEMMA ChangesNext ==
    ASSUME Reconciling, [Next]_vars
    PROVE  UNCHANGED dbVars \/ \E e \in Executions : Changes(e)
  <1>1. \A t \in Txns : Subject[t] \in Executions
    BY SubjectAssumption
  <1>2. ASSUME NEW t \in Txns, Commit(t) \/ Handle(t) \/ Approve(t)
        PROVE  UNCHANGED dbVars \/ \E e \in Executions : Changes(e)
    BY <1>1, <1>2, CommitChanges, HandleChanges, ApproveChanges DEF Commit, Handle, Approve
  <1>3. ASSUME NEW r \in Requests, RequestStep(r)
        PROVE  UNCHANGED dbVars \/ \E e \in Executions : Changes(e)
    BY <1>1, <1>3, ApplyChanges DEF RequestStep, ReadExecution, ReadRest, Verify, Goto
  <1>4. ASSUME NEW t \in Txns, Check(t) \/ Lock(t) \/ Abort(t) \/ Validate(t) \/ Ask(t)
        PROVE  UNCHANGED dbVars
    BY <1>4 DEF Check, Lock, Abort, Validate, Ask, Goto
  <1>5. ASSUME NEW e \in Executions, CloseAbandoned(e) \/ PaymentMade(e)
        PROVE  UNCHANGED dbVars \/ Changes(e)
    BY <1>5, CloseChanges DEF PaymentMade
  <1>. QED
    BY <1>2, <1>3, <1>4, <1>5 DEF Next, CallStep, vars

-----------------------------------------------------------------------------
(* The rows go on agreeing. *)

\* The row a transaction writes, and what it leaves alone.
Wrote(e, status, submitted) ==
    /\ exec'[e].status = status
    /\ exec'[e].submitted = submitted
    /\ \A d \in Executions \ {e} :
          exec'[d] = exec[d] /\ cart'[d] = cart[d]
            /\ events'[d] = events[d] /\ timeline'[d] = timeline[d]

Ends(e, status) ==
    LET line == timeline'[e]
    IN  line[Len(line)] = status

LEMMA EndsAppended ==
    ASSUME DbTypeOK, NEW e \in Executions, NEW row \in Row, row.status # "absent",
           WriteRow(e, row)
    PROVE  /\ Ends(e, row.status) /\ exec'[e] = row
           /\ \A d \in Executions \ {e} : exec'[d] = exec[d] /\ timeline'[d] = timeline[d]
  <1>1. /\ timeline[e] \in Seq(Status \ {"absent"})
        /\ row.status \in Status \ {"absent"}
    BY DEF DbTypeOK, Row
  <1>2. /\ Len(Append(timeline[e], row.status)) = Len(timeline[e]) + 1
        /\ Append(timeline[e], row.status)[Len(timeline[e]) + 1] = row.status
    BY <1>1
  <1>. QED
    BY <1>2, WriteRowEnters DEF Ends

LEMMA InsertAgrees ==
    ASSUME DbTypeOK, NEW e \in Executions, Agrees(e), cart[e] = "proposed", Insert(e)
    PROVE  Agrees(e)' /\ Wrote(e, "queued", FALSE)
  <1>. DEFINE row == [NoRow EXCEPT !.status = "queued"]
  <1>1. NoRow \in Row
    BY MaxAttemptsAssumption DEF NoRow, Row
  <1>2. row \in Row /\ row.status = "queued" /\ row.submitted = FALSE
    BY <1>1 DEF Row, NoRow
  <1>3. WriteRow(e, row) /\ cart' = [cart EXCEPT ![e] = "approved"] 
    BY DEF Insert
  <1>4. UNCHANGED <<purchases, events>>
    BY DEF Insert
  <1>. HIDE DEF row
  <1>5. /\ exec'[e] = row
        /\ \A d \in Executions \ {e} : exec'[d] = exec[d] /\ timeline'[d] = timeline[d]
    BY <1>2, <1>3, EndsAppended
  <1>6. /\ cart'[e] = "approved"
        /\ \A d \in Executions \ {e} : cart'[d] = cart[d]
    BY <1>3 DEF DbTypeOK
  <1>7. exec[e].status = "absent"
    <2>1. exec[e].status \in Status
      BY DEF DbTypeOK, Row
    <2>. QED
      BY <2>1 DEF Agrees
  <1>8. ~Bought(e) /\ events[e] = <<>>
    BY <1>7 DEF Agrees
  <1>9. Agrees(e)'
    BY <1>2, <1>4, <1>5, <1>6, <1>8 DEF Agrees, Bought, Proven
  <1>. QED
    BY <1>2, <1>4, <1>5, <1>6, <1>9 DEF Wrote

LEMMA SubmitsRow ==
    ASSUME DbTypeOK, NEW e \in Executions, Submits(e)
    PROVE  /\ exec'[e].status = "running" /\ exec'[e].submitted = TRUE
           /\ exec' \in [Executions -> Row]
           /\ Others(e) /\ UNCHANGED <<cart, usable, purchases, events, timeline>>
  <1>1. exec[e] \in Row /\ exec' = [exec EXCEPT ![e].submitted = TRUE]
    BY DEF DbTypeOK, Submits, WriteSubmission
  <1>2. exec' \in [Executions -> Row]
    BY <1>1, EditTyped DEF DbTypeOK
  <1>3. exec'[e] = [exec[e] EXCEPT !.submitted = TRUE]
    BY <1>1 DEF DbTypeOK
  <1>. QED
    BY <1>1, <1>2, <1>3 DEF DbTypeOK, Submits, WriteSubmission, Others, Row

LEMMA MarkAgrees ==
    ASSUME DbTypeOK, NEW e \in Executions, Agrees(e), Submits(e)
    PROVE  Agrees(e)' /\ Wrote(e, "running", TRUE)
  <1>1. /\ exec'[e].status = "running" /\ exec'[e].submitted = TRUE /\ Others(e)
        /\ UNCHANGED <<cart, purchases, events, timeline>>
    BY SubmitsRow
  <1>2. exec[e].status = "running"
    BY DEF Submits
  <1>3. Wrote(e, "running", TRUE)
    BY <1>1 DEF Wrote, Others
  <1>. QED
    BY <1>1, <1>2, <1>3 DEF Agrees, Bought, Proven

LEMMA RequeueAgrees ==
    ASSUME DbTypeOK, NEW e \in Executions, Agrees(e), NEW code \in ErrorCodes,
           exec[e].status \in {"queued", "running"}, Requeue(e, code)
    PROVE  Agrees(e)' /\ Wrote(e, "queued", exec[e].submitted)
  <1>. DEFINE row == [exec[e] EXCEPT !.status = "queued", !.lease = "none", !.error = code]
  <1>1. row \in Row /\ row.status = "queued" /\ row.submitted = exec[e].submitted
    BY DEF DbTypeOK, Row
  <1>2. WriteRow(e, row) /\ UNCHANGED <<cart, purchases, events>>
    BY DEF Requeue
  <1>. HIDE DEF row
  <1>3. /\ exec'[e] = row
        /\ \A d \in Executions \ {e} : exec'[d] = exec[d] /\ timeline'[d] = timeline[d]
    BY <1>1, <1>2, EndsAppended
  <1>4. Agrees(e)'
    BY <1>1, <1>2, <1>3 DEF Agrees, Bought, Proven
  <1>. QED
    BY <1>1, <1>2, <1>3, <1>4 DEF Wrote

LEMMA TerminalAgrees ==
    ASSUME DbTypeOK, NEW e \in Executions, Agrees(e),
           NEW status \in {"failed", "outcome_unknown"}, NEW code \in ErrorCodes,
           exec[e].status \in {"queued", "running"},
           status = "outcome_unknown" => exec[e].submitted, SetTerminal(e, status, code)
    PROVE  Agrees(e)' /\ Wrote(e, status, exec[e].submitted)
  <1>. DEFINE row == [exec[e] EXCEPT !.status = status, !.lease = "none", !.error = code]
  <1>1. row \in Row /\ row.status = status /\ row.submitted = exec[e].submitted
    BY DEF DbTypeOK, Row
  <1>2. /\ WriteRow(e, row)
        /\ events' = [events EXCEPT ![e] = Append(@, status)]
        /\ UNCHANGED <<cart, usable, purchases>>
    BY DEF SetTerminal
  <1>. HIDE DEF row
  <1>3. /\ exec'[e] = row
        /\ Ends(e, status)
        /\ \A d \in Executions \ {e} : exec'[d] = exec[d] /\ timeline'[d] = timeline[d]
    BY <1>1, <1>2, EndsAppended
  <1>4. events[e] = <<>>
    BY DEF Agrees
  <1>5. Append(<<>>, status) = <<status>>
    OBVIOUS
  <1>6. /\ events'[e] = <<status>>
        /\ \A d \in Executions \ {e} : events'[d] = events[d]
    BY <1>2, <1>4, <1>5 DEF DbTypeOK
  <1>7. Agrees(e)'
    BY <1>1, <1>2, <1>3, <1>6 DEF Agrees, Bought, Proven, Ends
  <1>. QED
    BY <1>1, <1>2, <1>3, <1>6, <1>7 DEF Wrote

LEMMA PurchaseAgrees ==
    ASSUME DbTypeOK, NEW e \in Executions, Agrees(e),
           exec[e].status \in {"running", "outcome_unknown"}, RecordPurchase(e)
    PROVE  Agrees(e)' /\ Wrote(e, "succeeded", exec[e].submitted)
  <1>. DEFINE row == [exec[e] EXCEPT !.status = "succeeded", !.lease = "none",
                                     !.error = "none"]
              bought == [execution |-> e, reference |-> ReferenceOf[e]]
  <1>0. exec[e] \in Row
    BY DEF DbTypeOK
  <1>1. row \in Row /\ row.status = "succeeded" /\ row.submitted = exec[e].submitted
    BY <1>0 DEF Row
  <1>2. /\ WriteRow(e, row)
        /\ events' = [events EXCEPT ![e] = Append(@, "succeeded")]
        /\ cart' = [cart EXCEPT ![e] = "purchased"]
        /\ purchases' = purchases \cup {bought}
    BY DEF RecordPurchase
  <1>3. bought.execution = e
    OBVIOUS
  <1>. HIDE DEF row, bought
  <1>4. /\ exec'[e] = row
        /\ Ends(e, "succeeded")
        /\ \A d \in Executions \ {e} : exec'[d] = exec[d] /\ timeline'[d] = timeline[d]
    BY <1>1, <1>2, EndsAppended
  <1>5. /\ events'[e] = Append(events[e], "succeeded")
        /\ \A d \in Executions \ {e} : events'[d] = events[d]
    BY <1>2 DEF DbTypeOK
  <1>6. /\ cart'[e] = "purchased"
        /\ \A d \in Executions \ {e} : cart'[d] = cart[d]
    BY <1>2 DEF DbTypeOK
  <1>7. Bought(e)'
    BY <1>2, <1>3 DEF Bought
  <1>8. events'[e] \in {<<"succeeded">>, <<"outcome_unknown", "succeeded">>}
    <2>1. CASE exec[e].status = "running"
      <3>1. events[e] = <<>>
        BY <2>1 DEF Agrees
      <3>2. Append(<<>>, "succeeded") = <<"succeeded">>
        OBVIOUS
      <3>. QED
        BY <1>5, <3>1, <3>2
    <2>2. CASE exec[e].status = "outcome_unknown"
      <3>1. events[e] = <<"outcome_unknown">>
        BY <2>2 DEF Agrees
      <3>2. Append(events[e], "succeeded") = <<"outcome_unknown", "succeeded">>
        BY <3>1, PairIsAppended
      <3>. QED
        BY <1>5, <3>2
    <2>. QED
      BY <2>1, <2>2
  <1>9. Agrees(e)'
    BY <1>1, <1>4, <1>6, <1>7, <1>8 DEF Agrees, Proven, Ends
  <1>. QED
    BY <1>1, <1>4, <1>5, <1>6, <1>9 DEF Wrote

\* Bookings only of one checkout at a time.
LEMMA OthersBought ==
    ASSUME NEW e \in Executions, Changes(e), NEW d \in Executions \ {e}
    PROVE  Bought(d)' <=> Bought(d)
  <1>1. CASE UNCHANGED purchases
    BY <1>1 DEF Bought
  <1>2. CASE RecordPurchase(e)
    <2>. DEFINE bought == [execution |-> e, reference |-> ReferenceOf[e]]
    <2>1. purchases' = purchases \cup {bought} /\ bought.execution = e
      BY <1>2 DEF RecordPurchase
    <2>. HIDE DEF bought
    <2>. QED
      BY <2>1 DEF Bought
  <1>. QED
    BY <1>1, <1>2 DEF Changes, Insert, Submits, WriteSubmission, Requeue, SetTerminal

\* What the calls know of the rows stays so.
Onward ==
    \A e \in Executions :
        /\ exec[e].status \in Proven => exec'[e].status \in Proven
        /\ exec[e].status = "succeeded" => exec'[e].status = "succeeded"
        /\ exec[e].status # "absent" => exec'[e].status # "absent"

LEMMA OneAgrees ==
    ASSUME DbTypeOK, NEW e \in Executions, Agrees(e), Changes(e)
    PROVE  /\ Agrees(e)'
           /\ \E status \in Status \ {"absent"}, submitted \in BOOLEAN :
                 /\ Wrote(e, status, submitted)
                 /\ exec[e].status \in Proven => status = "succeeded"
  <1>1. exec[e].submitted \in BOOLEAN /\ exec[e].status \in Status
    BY DEF DbTypeOK, Row
  <1>2. CASE cart[e] = "proposed" /\ Insert(e)
    <2>1. exec[e].status \notin Proven
      BY <1>2 DEF Agrees, Proven
    <2>. QED
      BY <1>2, <2>1, InsertAgrees
  <1>3. CASE Submits(e)
    BY <1>3, MarkAgrees DEF Submits, Proven
  <1>4. ASSUME NEW code \in ErrorCodes, exec[e].status \in {"queued", "running"}, Requeue(e, code)
        PROVE  /\ Agrees(e)' /\ Wrote(e, "queued", exec[e].submitted)
               /\ exec[e].status \notin Proven
    BY <1>4, RequeueAgrees DEF Proven
  <1>5. ASSUME NEW status \in {"failed", "outcome_unknown"}, NEW code \in ErrorCodes,
               exec[e].status \in {"queued", "running"},
               status = "outcome_unknown" => exec[e].submitted, SetTerminal(e, status, code)
        PROVE  /\ Agrees(e)' /\ Wrote(e, status, exec[e].submitted)
               /\ exec[e].status \notin Proven
    BY <1>5, TerminalAgrees DEF Proven
  <1>6. CASE exec[e].status \in {"running", "outcome_unknown"} /\ RecordPurchase(e)
    BY <1>1, <1>6, PurchaseAgrees
  <1>. QED
    BY <1>1, <1>2, <1>3, <1>4, <1>5, <1>6 DEF Changes

LEMMA RowsKept ==
    ASSUME Reconciling, [Next]_vars
    PROVE  RowsAgree' /\ Onward
  <1>0. DbTypeOK
    BY DEF Reconciling, TypeOK
  <1>1. CASE UNCHANGED dbVars
    <2>1. \A d \in Executions : Agrees(d)' <=> Agrees(d)
      BY <1>1 DEF dbVars, Agrees, Bought
    <2>. QED
      BY <1>1, <2>1 DEF dbVars, Onward, Reconciling, RowsAgree
  <1>2. ASSUME NEW e \in Executions, Changes(e)
        PROVE  RowsAgree' /\ Onward
    <2>0. Agrees(e)
      BY DEF Reconciling, RowsAgree
    <2>. PICK status \in Status \ {"absent"}, submitted \in BOOLEAN :
            /\ Wrote(e, status, submitted)
            /\ exec[e].status \in Proven => status = "succeeded"
      BY <1>0, <1>2, <2>0, OneAgrees
    <2>1. Agrees(e)'
      BY <1>0, <1>2, <2>0, OneAgrees
    <2>2. ASSUME NEW d \in Executions, d # e PROVE Agrees(d)'
      <3>1. Agrees(d) /\ (Bought(d)' <=> Bought(d))
        BY <1>2, <2>2, OthersBought DEF Reconciling, RowsAgree
      <3>2. /\ exec'[d] = exec[d] /\ cart'[d] = cart[d]
            /\ events'[d] = events[d] /\ timeline'[d] = timeline[d]
        BY <2>2 DEF Wrote
      <3>. QED
        BY <3>1, <3>2 DEF Agrees
    <2>3. RowsAgree'
      BY <2>1, <2>2 DEF RowsAgree
    <2>4. Onward
      BY DEF Wrote, Onward, Proven
    <2>. QED
      BY <2>3, <2>4
  <1>. QED
    BY <1>1, <1>2, ChangesNext

LEMMA PaidGrows ==
    ASSUME [Next]_vars
    PROVE  paid \subseteq paid'
  <1>1. ASSUME NEW t \in Txns, CallStep(t) PROVE paid' = paid
    BY <1>1 DEF CallStep, RequestStep, ReadExecution, ReadRest, Verify, Apply, Check, Commit,
       Handle, Approve, Lock, Abort, Goto
  <1>. QED
    BY <1>1 DEF Next, Validate, Ask, Goto, CloseAbandoned, PaymentMade, vars

LEMMA PurchasesKept ==
    ASSUME Reconciling, [Next]_vars
    PROVE  PurchasesFit' /\ purchases \subseteq purchases'
  <1>1. CASE UNCHANGED purchases
    BY <1>1, PaidGrows DEF Reconciling, PurchasesFit
  <1>2. ASSUME NEW e \in Executions, ReferenceOf[e] \in paid, PurchaseIsNew(e),
               RecordPurchase(e)
        PROVE  PurchasesFit' /\ purchases \subseteq purchases'
    <2>. DEFINE bought == [execution |-> e, reference |-> ReferenceOf[e]]
    <2>1. purchases' = purchases \cup {bought}
      BY <1>2 DEF RecordPurchase
    <2>2. bought.execution = e /\ bought.reference = ReferenceOf[e]
      OBVIOUS
    <2>3. \A p \in purchases : ~ (/\ CardOf[p.execution] = CardOf[e]
                                  /\ p.reference = ReferenceOf[e])
      BY <1>2 DEF PurchaseIsNew
    <2>. HIDE DEF bought
    <2>4. \A p \in purchases' : p.reference = ReferenceOf[p.execution] /\ p.reference \in paid'
      BY <1>2, <2>1, <2>2, PaidGrows DEF Reconciling, PurchasesFit
    <2>5. \A p, q \in purchases' :
             (p.reference = q.reference /\ CardOf[p.execution] = CardOf[q.execution]) => p = q
      BY <2>1, <2>2, <2>3 DEF Reconciling, PurchasesFit
    <2>. QED
      BY <2>1, <2>4, <2>5 DEF PurchasesFit
  <1>3. ASSUME NEW e \in Executions, Changes(e),
               ~ (ReferenceOf[e] \in paid /\ PurchaseIsNew(e) /\ RecordPurchase(e))
        PROVE  UNCHANGED purchases
    BY <1>3 DEF Changes, Insert, Submits, WriteSubmission, Requeue, SetTerminal
  <1>. QED
    BY <1>1, <1>2, <1>3, ChangesNext DEF dbVars

-----------------------------------------------------------------------------
(* What the calls know goes on holding. *)

LEMMA RequestsKept ==
    ASSUME Reconciling, [Next]_vars
    PROVE  RequestsFit'
  <1>. SUFFICES ASSUME NEW r \in Requests
                PROVE  /\ stage'[r] \notin WorkerStages
                       /\ stage'[r] \in {"verify", "lock"} => saw'[r] = "outcome_unknown"
                       /\ stage'[r] = "lock" => ReferenceOf[Subject[r]] \in paid'
                       /\ saw'[r] = "outcome_unknown" => exec'[Subject[r]].status \in Proven
                       /\ answer'[r] = "recorded" => exec'[Subject[r]].status = "succeeded"
    BY DEF RequestsFit
  <1>0. /\ r \in Txns /\ Subject[r] \in Executions
        /\ r \notin Validations /\ r \notin Approvals
    BY SubjectAssumption, TxnsAssumption
  <1>1. /\ stage[r] \notin WorkerStages
        /\ stage[r] \in {"verify", "lock"} => saw[r] = "outcome_unknown"
        /\ stage[r] = "lock" => ReferenceOf[Subject[r]] \in paid
        /\ saw[r] = "outcome_unknown" => exec[Subject[r]].status \in Proven
        /\ answer[r] = "recorded" => exec[Subject[r]].status = "succeeded"
    BY DEF Reconciling, RequestsFit
  <1>2. Onward /\ paid \subseteq paid'
    BY RowsKept, PaidGrows
  <1>3. /\ exec[Subject[r]].status \in Proven => exec'[Subject[r]].status \in Proven
        /\ exec[Subject[r]].status = "succeeded" => exec'[Subject[r]].status = "succeeded"
    BY <1>0, <1>2 DEF Onward
  <1>4. CallsTyped
    BY TypeParts DEF Reconciling
  <1>5. CASE stage'[r] = stage[r] /\ saw'[r] = saw[r] /\ answer'[r] = answer[r]
    BY <1>1, <1>2, <1>3, <1>5
  <1>6. CASE stage'[r] = "ended" /\ saw'[r] = saw[r] /\ answer'[r] # "recorded"
    BY <1>1, <1>2, <1>3, <1>6
  <1>7. CASE ReadExecution(r)
    <2>1. stage'[r] = "read" /\ saw'[r] = exec[Subject[r]].status /\ answer'[r] = answer[r]
      BY <1>4, <1>7 DEF ReadExecution, Goto, CallsTyped
    <2>. QED
      BY <1>1, <1>3, <2>1 DEF Proven
  <1>8. CASE ReadRest(r)
    <2>1. ASSUME stage' = [stage EXCEPT ![r] = "verify"], UNCHANGED <<locked, saw, answer>>,
                 Loaded(Subject[r], saw[r]) = "candidate"
          PROVE  stage'[r] = "verify" /\ saw'[r] = "outcome_unknown" /\ answer'[r] = answer[r]
      BY <1>4, <2>1 DEF CallsTyped, Loaded
    <2>2. ASSUME NEW result, End(r, result), result # "recorded"
          PROVE  stage'[r] = "ended" /\ saw'[r] = saw[r] /\ answer'[r] # "recorded"
      BY <1>4, <2>2 DEF CallsTyped, End
    <2>3. Loaded(Subject[r], saw[r]) # "recorded"
      BY DEF Loaded
    <2>. QED
      BY <1>1, <1>3, <1>6, <1>8, <2>1, <2>2, <2>3 DEF ReadRest
  <1>9. CASE Verify(r)
    <2>1. ASSUME NEW result, End(r, result), result # "recorded"
          PROVE  stage'[r] = "ended" /\ saw'[r] = saw[r] /\ answer'[r] # "recorded"
      BY <1>4, <2>1 DEF CallsTyped, End
    <2>2. ASSUME stage' = [stage EXCEPT ![r] = "lock"], UNCHANGED <<locked, saw, answer>>,
                 ReferenceOf[Subject[r]] \in paid
          PROVE  stage'[r] = "lock" /\ saw'[r] = saw[r] /\ answer'[r] = answer[r]
      BY <1>4, <2>2 DEF CallsTyped
    <2>. QED
      BY <1>1, <1>2, <1>3, <1>6, <1>9, <2>1, <2>2 DEF Verify
  <1>10. CASE Apply(r)
    <2>1. ASSUME NEW result, End(r, result)
          PROVE  stage'[r] = "ended" /\ saw'[r] = saw[r] /\ answer'[r] = result
      BY <1>4, <1>0, <2>1 DEF CallsTyped, End
    <2>2. ASSUME RecordPurchase(Subject[r]), End(r, "recorded")
          PROVE  exec'[Subject[r]].status = "succeeded"
      BY <1>0, <2>2, RecordPurchaseRow DEF Reconciling, TypeOK, RowBecomes
    <2>. QED
      BY <1>1, <1>3, <1>6, <1>10, <2>1, <2>2 DEF Apply
  <1>11. CASE Lock(r)
    BY <1>5, <1>11 DEF Lock
  <1>12. CASE Abort(r)
    <2>1. stage'[r] = "ended" /\ saw'[r] = saw[r] /\ answer'[r] = "aborted"
      BY <1>0, <1>4, <1>12 DEF Abort, End, CallsTyped
    <2>. QED
      BY <1>6, <2>1
  <1>13. ASSUME NEW t \in Txns \ {r}, CallStep(t) \/ Validate(t) \/ Ask(t)
         PROVE  stage'[r] = stage[r] /\ saw'[r] = saw[r] /\ answer'[r] = answer[r]
    BY <1>0, <1>4, <1>13
    DEF CallStep, RequestStep, ReadExecution, ReadRest, Verify, Apply, Check, Commit, Handle,
        Approve, Lock, Abort, Validate, Ask, Goto, End, Leave, CallsTyped
  <1>14. ASSUME NEW e \in Executions, CloseAbandoned(e) \/ PaymentMade(e)
         PROVE  stage' = stage /\ saw' = saw /\ answer' = answer
    BY <1>14 DEF CloseAbandoned, PaymentMade, callVars
  <1>15. CASE CallStep(r)
    BY <1>0, <1>7, <1>8, <1>9, <1>10, <1>11, <1>12, <1>15
    DEF CallStep, RequestStep, Check, Commit, Handle, Approve
  <1>16. CASE UNCHANGED vars
    BY <1>5, <1>16 DEF vars, callVars
  <1>. QED
    BY <1>0, <1>5, <1>13, <1>14, <1>15, <1>16 DEF Next

\* Another call's step leaves a call where it is, its locks and its answer.
LEMMA OthersStay ==
    ASSUME CallsTyped, NEW t \in Txns, NEW u \in Txns \ {t},
           CallStep(t) \/ Validate(t) \/ Ask(t)
    PROVE  stage'[u] = stage[u] /\ locked'[u] = locked[u] /\ answer'[u] = answer[u]
  BY DEF CallStep, RequestStep, ReadExecution, ReadRest, Verify, Apply, Check, Commit, Handle,
         Approve, Lock, Abort, Validate, Ask, Goto, End, Leave, CallsTyped

\* A call goes from one stage to another, or ends.
LEMMA StagesOf ==
    ASSUME CallsTyped, NEW t \in Txns, CallStep(t) \/ Validate(t) \/ Ask(t)
    PROVE  /\ stage[t] # "ended"
           /\ t \in Validations =>
                /\ stage'[t] \in Attempting => Validate(t) \/ stage[t] \in Attempting
                /\ stage'[t] = "lock" => Validate(t) \/ stage[t] = "lock"
                /\ stage'[t] = "commit" => Check(t) /\ Valid(Subject[t])
                /\ stage'[t] \in Attempting \cup WorkerStages =>
                     Validate(t) \/ stage[t] \in Attempting \cup WorkerStages
           /\ t \in Approvals => stage'[t] \in {stage[t], "lock", "ended"}
           /\ stage'[t] # "ended" => answer'[t] = answer[t]
  <1>1. ASSUME NEW result, End(t, result)
        PROVE  stage'[t] = "ended"
    BY <1>1 DEF End, CallsTyped
  <1>2. ASSUME NEW where, Leave(t, where)
        PROVE  stage'[t] = where /\ answer' = answer
    BY <1>2 DEF Leave, CallsTyped
  <1>3. CASE t \in Requests /\ RequestStep(t)
    BY <1>1, <1>3, TxnsAssumption
    DEF RequestStep, ReadExecution, ReadRest, Verify, Apply, AllLocked, Locking, Goto, CallsTyped
  <1>4. CASE Check(t)
    <2>1. t \in Validations /\ stage[t] = "lock"
      BY <1>4 DEF Check
    <2>2. \/ stage'[t] = "commit" /\ answer' = answer /\ Valid(Subject[t])
          \/ stage'[t] = "handle" /\ answer' = answer
          \/ stage'[t] = "ended"
      BY <1>1, <1>2, <1>4 DEF Check, Goto, CallsTyped
    <2>. QED
      BY <1>4, <2>1, <2>2, TxnsAssumption
  <1>5. CASE Commit(t)
    <2>1. t \in Validations /\ stage[t] = "commit"
      BY <1>5 DEF Commit
    <2>2. stage'[t] = "ended" \/ (stage'[t] = "handle" /\ answer' = answer)
      BY <1>1, <1>2, <1>5 DEF Commit
    <2>. QED
      BY <2>1, <2>2, TxnsAssumption
  <1>6. CASE Handle(t)
    <2>1. t \in Validations /\ stage[t] \in {"handle", "again"}
      BY <1>6 DEF Handle
    <2>2. stage'[t] = "ended" \/ (stage'[t] = "again" /\ answer' = answer)
      BY <1>1, <1>2, <1>6 DEF Handle
    <2>. QED
      BY <2>1, <2>2, TxnsAssumption
  <1>7. CASE Approve(t)
    BY <1>1, <1>7, TxnsAssumption DEF Approve, AllLocked, Locking, MustStop, CallsTyped
  <1>8. CASE Lock(t)
    BY <1>8 DEF Lock, Wanting, Locking
  <1>9. CASE Abort(t)
    <2>1. stage[t] \in {"lock", "handle", "again"}
      BY <1>9 DEF Abort, WaitsFor, Wanting, Locking
    <2>2. CASE t \in Validations /\ stage[t] # "again"
      <3>1. Leave(t, IF stage[t] = "lock" THEN "handle" ELSE "again")
        BY <1>9, <2>2 DEF Abort
      <3>2. stage'[t] = (IF stage[t] = "lock" THEN "handle" ELSE "again") /\ answer' = answer
        BY <1>2, <3>1
      <3>. QED
        BY <2>1, <2>2, <3>2, TxnsAssumption
    <2>3. CASE ~(t \in Validations /\ stage[t] # "again")
      <3>1. stage'[t] = "ended"
        BY <1>1, <1>9, <2>3 DEF Abort
      <3>. QED
        BY <2>1, <3>1
    <2>. QED
      BY <2>2, <2>3
  <1>10. CASE Validate(t) \/ Ask(t)
    BY <1>10, TxnsAssumption DEF Validate, Ask, Goto, CallsTyped
  <1>. QED
    BY <1>3, <1>4, <1>5, <1>6, <1>7, <1>8, <1>9, <1>10 DEF CallStep

\* A step leaves a call's locks, adds the next one, or gives all back.
LEMMA LocksOf ==
    ASSUME CallsTyped, [Next]_vars, NEW t \in Txns
    PROVE  \/ locked'[t] = 0
           \/ locked'[t] = locked[t] /\ Plan(t)' = Plan(t)
           \/ Lock(t) /\ locked'[t] = locked[t] + 1 /\ Plan(t)' = Plan(t)
  <1>. DEFINE Kept == locked'[t] = 0 \/ (locked'[t] = locked[t] /\ Plan(t)' = Plan(t))
  <1>1. stage'[t] = stage[t] => Plan(t)' = Plan(t)
    BY DEF Plan, ReconcilePlan, ApprovePlan, HandlePlan, ValidatePlan, TheCart, TheExecution,
           TheMethod, TheAgent
  <1>2. stage[t] \notin {"lock", "commit", "handle", "again"} => locked[t] = 0
    BY DEF CallsTyped
  <1>3. ASSUME NEW result, End(t, result) PROVE locked'[t] = 0
    BY <1>3 DEF End, CallsTyped
  <1>4. ASSUME NEW where, Leave(t, where) PROVE locked'[t] = 0
    BY <1>4 DEF Leave, CallsTyped
  <1>5. CASE t \in Requests /\ RequestStep(t)
    BY <1>2, <1>3, <1>5 DEF RequestStep, ReadExecution, ReadRest, Verify, Apply, Goto
  <1>6. CASE Check(t)
    <2>1. ASSUME Goto(t, "commit")
          PROVE  locked'[t] = locked[t] /\ Plan(t)' = Plan(t)
      <3>1. stage[t] = "lock" /\ stage'[t] = "commit" /\ locked' = locked
        BY <1>6, <2>1 DEF Check, Goto, CallsTyped
      <3>. QED
        BY <3>1 DEF Plan, ReconcilePlan, ApprovePlan, HandlePlan, ValidatePlan, TheCart,
                    TheExecution, TheMethod, TheAgent
    <2>. QED
      BY <1>3, <1>4, <1>6, <2>1 DEF Check
  <1>7. CASE Commit(t) \/ Handle(t) \/ Approve(t) \/ Abort(t)
    BY <1>3, <1>4, <1>7 DEF Commit, Handle, Approve, Abort
  <1>8. CASE Lock(t)
    BY <1>1, <1>8 DEF Lock, CallsTyped
  <1>9. CASE Validate(t) \/ Ask(t)
    BY <1>2, <1>9 DEF Validate, Ask, Goto
  <1>10. ASSUME NEW u \in Txns \ {t}, CallStep(u) \/ Validate(u) \/ Ask(u)
         PROVE  Kept
    BY <1>1, <1>10, OthersStay
  <1>11. ASSUME NEW e \in Executions, CloseAbandoned(e) \/ PaymentMade(e)
         PROVE  Kept
    BY <1>1, <1>11 DEF CloseAbandoned, PaymentMade, callVars
  <1>12. CASE UNCHANGED vars
    BY <1>1, <1>12 DEF vars, callVars
  <1>. QED
    BY <1>5, <1>6, <1>7, <1>8, <1>9, <1>10, <1>11, <1>12 DEF Next, CallStep

LEMMA ExclusiveKept ==
    ASSUME Reconciling, [Next]_vars
    PROVE  Exclusive'
  <1>0. CallsTyped /\ Exclusive
    BY TypeParts DEF Reconciling
  <1>1. ASSUME NEW t \in Txns, NEW row, Holds(t, row)', ~Lock(t)
        PROVE  Holds(t, row)
    BY <1>0, <1>1, LocksOf DEF Holds
  <1>2. ASSUME NEW t \in Txns, NEW row, Holds(t, row)', Lock(t)
        PROVE  Holds(t, row) \/ row = Plan(t)[locked[t] + 1]
    <2>1. locked'[t] = locked[t] + 1 /\ locked[t] \in 0..4 /\ Plan(t)' = Plan(t)
      <3>1. locked'[t] = locked[t] + 1 /\ locked[t] \in 0..4
        BY <1>0, <1>2 DEF Lock, CallsTyped
      <3>. QED
        BY <1>0, <3>1, LocksOf
    <2>. QED
      BY <1>2, <2>1 DEF Holds
  <1>3. ASSUME NEW t \in Txns, NEW u \in Txns, t # u, Lock(t), Lock(u) PROVE FALSE
    <2>1. locked'[t] = locked[t] + 1 /\ locked[t] \in 0..4 /\ locked'[t] = locked[t]
      BY <1>0, <1>3 DEF Lock, CallsTyped
    <2>. QED
      BY <2>1
  <1>4. ASSUME NEW t \in Txns, NEW u \in Txns, t # u, NEW row, Holds(t, row)', Holds(u, row)',
               Lock(t)
        PROVE  FALSE
    <2>1. Holds(u, row)
      BY <1>1, <1>3, <1>4
    <2>2. row = Plan(t)[locked[t] + 1]
      BY <1>0, <1>2, <1>4, <2>1 DEF Exclusive
    <2>3. WaitsFor(t, u)
      BY <1>4, <2>1, <2>2 DEF WaitsFor, Lock
    <2>. QED
      BY <1>4, <2>3 DEF Lock
  <1>. SUFFICES ASSUME NEW t \in Txns, NEW u \in Txns, NEW row, Holds(t, row)', Holds(u, row)'
                PROVE  t = u
    BY DEF Exclusive
  <1>. QED
    BY <1>0, <1>1, <1>4 DEF Exclusive

LEMMA SubmittedByOne ==
    ASSUME Reconciling, NEW e \in Executions, Changes(e),
           ~Submits(e)
    PROVE  \A d \in Executions : exec'[d].submitted => exec[d].submitted
  <1>1. DbTypeOK /\ Agrees(e)
    BY DEF Reconciling, TypeOK, RowsAgree
  <1>2. CASE cart[e] = "proposed" /\ Insert(e)
    BY <1>1, <1>2, InsertAgrees DEF Wrote
  <1>3. ASSUME NEW code \in ErrorCodes, exec[e].status \in {"queued", "running"}, Requeue(e, code)
        PROVE  \A d \in Executions : exec'[d].submitted => exec[d].submitted
    BY <1>1, <1>3, RequeueAgrees DEF Wrote
  <1>4. ASSUME NEW status \in {"failed", "outcome_unknown"}, NEW code \in ErrorCodes,
               exec[e].status \in {"queued", "running"},
               status = "outcome_unknown" => exec[e].submitted, SetTerminal(e, status, code)
        PROVE  \A d \in Executions : exec'[d].submitted => exec[d].submitted
    BY <1>1, <1>4, TerminalAgrees DEF Wrote
  <1>5. CASE exec[e].status \in {"running", "outcome_unknown"} /\ RecordPurchase(e)
    BY <1>1, <1>5, PurchaseAgrees DEF Wrote
  <1>. QED
    BY <1>2, <1>3, <1>4, <1>5 DEF Changes

\* Only a worker's commit marks a submission, and its transaction is over then.
LEMMA MarksAreCommits ==
    ASSUME Reconciling, [Next]_vars, NEW d \in Executions,
           exec'[d].submitted, ~exec[d].submitted
    PROVE  \E v \in Validations : Commit(v) /\ Subject[v] = d /\ stage'[v] \notin {"lock", "commit"}
  <1>0. DbTypeOK /\ CallsTyped
    BY TypeParts DEF Reconciling
  <1>1. ASSUME NEW v \in Validations, Commit(v), Submits(Subject[v])
        PROVE  Subject[v] = d /\ stage'[v] \notin {"lock", "commit"}
    <2>1. Subject[v] \in Executions /\ ~exec[Subject[v]].submitted
      BY <1>1, SubjectAssumption DEF Submits
    <2>2. Others(Subject[v])
      BY <1>0, <1>1, <2>1, SubmitsRow
    <2>3. Subject[v] = d
      BY <2>2 DEF Others
    <2>. QED
      BY <1>0, <1>1, <2>1, <2>3 DEF Commit, End, Leave, CallsTyped
  <1>2. ASSUME NEW e \in Executions, Changes(e) PROVE Submits(e)
    BY <1>2, SubmittedByOne
  <1>3. ~UNCHANGED dbVars
    BY DEF dbVars
  <1>4. ASSUME NEW e \in Executions, Submits(e)
        PROVE  /\ exec'[e].status = "running" /\ exec'[e].submitted /\ ~exec[e].submitted
               /\ UNCHANGED <<cart, purchases, events, timeline>>
    BY <1>0, <1>4, SubmitsRow DEF Submits
  <1>5. ASSUME NEW r \in Requests, RequestStep(r)
        PROVE  FALSE
    <2>1. Apply(r) /\ Submits(Subject[r])
      BY <1>2, <1>3, <1>5, ApplyChanges, SubjectAssumption
      DEF RequestStep, ReadExecution, ReadRest, Verify, Goto
    <2>2. RecordPurchase(Subject[r])
      BY <1>3, <2>1 DEF Apply
    <2>3. Subject[r] \in Executions
      BY SubjectAssumption
    <2>. QED
      BY <1>0, <1>4, <2>1, <2>2, <2>3, RecordPurchaseRow DEF RowBecomes
  <1>6. ASSUME NEW v \in Validations, Handle(v)
        PROVE  FALSE
    <2>1. Subject[v] \in Executions
      BY SubjectAssumption
    <2>2. Submits(Subject[v])
      BY <1>2, <1>3, <1>6, <2>1, HandleChanges
    <2>3. timeline'[Subject[v]] # timeline[Subject[v]]
      <3>. PICK row : WriteRow(Subject[v], row)
        BY <1>3, <1>6 DEF Handle, RetryOrFail, SetTerminal, Requeue
      <3>1. timeline[Subject[v]] \in Seq(Status \ {"absent"})
        BY <1>0, <2>1 DEF DbTypeOK
      <3>2. timeline'[Subject[v]] = Append(timeline[Subject[v]], row.status)
        BY <1>0, <2>1 DEF WriteRow, DbTypeOK
      <3>3. Len(Append(timeline[Subject[v]], row.status)) # Len(timeline[Subject[v]])
        BY <3>1
      <3>. QED
        BY <3>2, <3>3
    <2>. QED
      BY <1>4, <2>1, <2>2, <2>3
  <1>7. ASSUME NEW a \in Approvals, Approve(a)
        PROVE  FALSE
    <2>1. Subject[a] \in Executions
      BY SubjectAssumption
    <2>2. Submits(Subject[a])
      BY <1>2, <1>3, <1>7, <2>1, ApproveChanges
    <2>3. AllLocked(a) /\ Insert(Subject[a])
      BY <1>3, <1>7 DEF Approve
    <2>4. cart[Subject[a]] = "proposed"
      BY <2>3, PlanLengths DEF AllLocked, Reconciling, ApprovalsFit
    <2>5. cart[Subject[a]] = "approved"
      BY <2>2 DEF Submits
    <2>. QED
      BY <2>4, <2>5
  <1>8. ASSUME NEW e \in Executions, CloseAbandoned(e)
        PROVE  FALSE
    <2>1. Changes(e) /\ exec[e].submitted
      BY <1>8, CloseChanges DEF CloseAbandoned, ClaimSubmitted
    <2>. QED
      BY <1>2, <2>1 DEF Submits
  <1>9. ASSUME NEW v \in Validations, Commit(v)
        PROVE  Submits(Subject[v])
    BY <1>2, <1>3, <1>9, CommitChanges, SubjectAssumption
  <1>10. ASSUME NEW t \in Txns, Commit(t) \/ Handle(t) \/ Approve(t)
         PROVE  t \in Validations /\ Commit(t)
    BY <1>6, <1>7, <1>10 DEF Commit, Handle, Approve
  <1>11. ASSUME NEW t \in Txns, Check(t) \/ Lock(t) \/ Abort(t) \/ Validate(t) \/ Ask(t)
         PROVE  FALSE
    BY <1>3, <1>11 DEF Check, Lock, Abort, Validate, Ask, Goto
  <1>12. ASSUME NEW e \in Executions, PaymentMade(e)
         PROVE  FALSE
    BY <1>3, <1>12 DEF PaymentMade
  <1>13. PICK v \in Validations : Commit(v)
    BY <1>3, <1>5, <1>8, <1>10, <1>11, <1>12 DEF Next, CallStep, vars
  <1>. QED
    BY <1>1, <1>9, <1>13

\* A transaction that has a row locked is alone to change its status.
LEMMA HeldRowKept ==
    ASSUME Reconciling, [Next]_vars, NEW v \in Validations, stage[v] = "commit",
           stage'[v] = "commit"
    PROVE  locked'[v] = 4 /\ exec'[Subject[v]].status = "running"
  <1>. DEFINE e == Subject[v]
  <1>0. /\ CallsTyped /\ DbTypeOK /\ v \in Txns /\ e \in Executions
        /\ v \notin Requests /\ v \notin Approvals
    BY TypeParts, SubjectAssumption, TxnsAssumption DEF Reconciling, TypeOK
  <1>1. locked[v] = 4 /\ exec[e].status = "running"
    BY DEF Reconciling, ValidationsFit
  <1>2. Holds(v, TheExecution(e))
    <2>1. Plan(v)[1] = TheExecution(e)
      BY <1>0, PlansOf DEF ValidatePlan
    <2>. QED
      BY <1>1, <2>1 DEF Holds
  <1>3. ~(CallStep(v) \/ Validate(v) \/ Ask(v))
    <2>1. CallStep(v) \/ Validate(v) \/ Ask(v) => Check(v)
      BY <1>0, StagesOf
    <2>2. ~Check(v) /\ ~Validate(v) /\ ~Ask(v)
      BY DEF Check, Validate, Ask
    <2>. QED
      BY <2>1, <2>2
  <1>4. locked'[v] = 4
    <2>1. ASSUME NEW t \in Txns \ {v}, CallStep(t) \/ Validate(t) \/ Ask(t)
          PROVE  locked'[v] = locked[v]
      BY <1>0, <2>1, OthersStay
    <2>2. ASSUME NEW c \in Executions, CloseAbandoned(c) \/ PaymentMade(c)
          PROVE  locked' = locked
      BY <2>2 DEF CloseAbandoned, PaymentMade, callVars
    <2>. QED
      BY <1>1, <1>3, <2>1, <2>2 DEF Next, vars, callVars
  \* Nobody else's change is one of this row.
  <1>5. ASSUME NEW c \in Executions, Changes(c), c # e
        PROVE  exec'[e] = exec[e]
    <2>1. Agrees(c)
      BY DEF Reconciling, RowsAgree
    <2>. QED
      BY <1>0, <1>5, <2>1, OneAgrees DEF Wrote
  <1>6. CASE UNCHANGED dbVars
    BY <1>1, <1>4, <1>6 DEF dbVars
  <1>7. ASSUME NEW r \in Requests, Apply(r)
        PROVE  exec'[e].status = "running"
    <2>1. UNCHANGED dbVars \/ Loaded(Subject[r], exec[Subject[r]].status) = "candidate"
      BY <1>7 DEF Apply
    <2>2. UNCHANGED dbVars \/ Subject[r] # e
      BY <1>1, <2>1 DEF Loaded
    <2>. QED
      BY <1>1, <1>5, <1>7, <2>2, ApplyChanges, SubjectAssumption DEF dbVars
  <1>8. ASSUME NEW u \in Validations, Commit(u)
        PROVE  exec'[e].status = "running"
    <2>1. u # v /\ u \in Txns
      BY <1>3, <1>8 DEF CallStep
    <2>2. Subject[u] # e
      BY <1>8, <2>1 DEF Commit, Reconciling, ValidationsFit
    <2>. QED
      BY <1>1, <1>5, <1>8, <2>2, CommitChanges, SubjectAssumption DEF dbVars
  <1>9. ASSUME NEW u \in Validations, Handle(u)
        PROVE  exec'[e].status = "running"
    <2>1. u # v /\ u \in Txns
      BY <1>3, <1>9 DEF CallStep
    <2>2. Plan(u) = HandlePlan(Subject[u]) /\ locked[u] = Len(Plan(u))
      BY <1>9, <2>1, PlansOf DEF Handle, AllLocked
    <2>3. Holds(u, TheExecution(Subject[u]))
      BY <2>2 DEF Holds, HandlePlan
    <2>4. Subject[u] # e
      BY <1>0, <1>2, <2>1, <2>3 DEF Reconciling, Exclusive
    <2>. QED
      BY <1>1, <1>5, <1>9, <2>4, HandleChanges, SubjectAssumption DEF dbVars
  <1>10. ASSUME NEW a \in Approvals, Approve(a)
         PROVE  exec'[e].status = "running"
    <2>1. CASE AllLocked(a) /\ Insert(Subject[a])
      <3>1. locked[a] = 3
        BY <2>1, PlanLengths DEF AllLocked
      <3>2. cart[Subject[a]] = "proposed"
        BY <3>1 DEF Reconciling, ApprovalsFit
      <3>3. Subject[a] # e
        BY <1>0, <1>1, <3>2 DEF Reconciling, RowsAgree, Agrees
      <3>. QED
        BY <1>1, <1>5, <1>10, <3>3, ApproveChanges, SubjectAssumption DEF dbVars
    <2>. QED
      BY <1>1, <1>10, <2>1 DEF Approve, dbVars
  <1>11. ASSUME NEW c \in Executions, CloseAbandoned(c)
         PROVE  exec'[e].status = "running"
    <2>1. c # e
      BY <1>0, <1>2, <1>11 DEF CloseAbandoned
    <2>. QED
      BY <1>1, <1>5, <1>11, <2>1, CloseChanges
  <1>12. ASSUME NEW t \in Txns, Check(t) \/ Lock(t) \/ Abort(t) \/ Validate(t) \/ Ask(t)
         PROVE  UNCHANGED dbVars
    BY <1>12 DEF Check, Lock, Abort, Validate, Ask, Goto
  <1>13. ASSUME NEW r \in Requests, ReadExecution(r) \/ ReadRest(r) \/ Verify(r)
         PROVE  UNCHANGED dbVars
    BY <1>13 DEF ReadExecution, ReadRest, Verify, Goto
  <1>14. ASSUME NEW t \in Txns, CallStep(t), ~UNCHANGED dbVars
         PROVE  exec'[e].status = "running"
    BY <1>7, <1>8, <1>9, <1>10, <1>12, <1>13, <1>14
    DEF CallStep, RequestStep, Commit, Handle, Approve
  <1>15. ASSUME ~UNCHANGED dbVars
         PROVE  \/ \E t \in Txns : CallStep(t)
                \/ \E c \in Executions : CloseAbandoned(c)
    BY <1>12, <1>15 DEF Next, PaymentMade, vars
  <1>. QED
    BY <1>4, <1>6, <1>11, <1>14, <1>15

LEMMA ValidationsKept ==
    ASSUME Reconciling, [Next]_vars
    PROVE  ValidationsFit'
  <1>0. CallsTyped /\ ValidationsFit
    BY TypeParts DEF Reconciling
  <1>. DEFINE There(v) == stage[v] \in Attempting \cup WorkerStages
  <1>1. ASSUME NEW v \in Validations
        PROVE  /\ There(v)' => There(v) \/ Validate(v)
               /\ stage'[v] \in Attempting => stage[v] \in Attempting \/ Validate(v)
               /\ stage'[v] = "lock" => stage[v] = "lock" \/ Validate(v)
               /\ stage'[v] = "commit" => stage[v] = "commit" \/ (Check(v) /\ Valid(Subject[v]))
    <2>1. v \in Txns
      OBVIOUS
    <2>2. CASE CallStep(v) \/ Validate(v) \/ Ask(v)
      BY <1>0, <2>1, <2>2, StagesOf
    <2>3. ASSUME NEW t \in Txns \ {v}, CallStep(t) \/ Validate(t) \/ Ask(t)
          PROVE  stage'[v] = stage[v]
      BY <1>0, <2>1, <2>3, OthersStay
    <2>4. ASSUME NEW e \in Executions, CloseAbandoned(e) \/ PaymentMade(e)
          PROVE  stage'[v] = stage[v]
      BY <2>4 DEF CloseAbandoned, PaymentMade, callVars
    <2>5. CASE UNCHANGED vars
      BY <2>5 DEF vars, callVars
    <2>. QED
      BY <2>1, <2>2, <2>3, <2>4, <2>5 DEF Next
  <1>2. ASSUME NEW v \in Validations, Validate(v)
        PROVE  /\ exec' = exec /\ paid' = paid
               /\ exec[Subject[v]].status # "absent"
               /\ exec[Subject[v]].submitted => ReferenceOf[Subject[v]] \in paid
               /\ \A u \in Validations \ {v} :
                     ~Validate(u) /\ (Subject[u] = Subject[v] => stage[u] \notin Attempting)
    <2>1. stage'[v] = "lock" /\ stage[v] = "idle"
      BY <1>0, <1>2 DEF Validate, Goto, CallsTyped
    <2>2. ASSUME NEW u \in Validations \ {v}, Validate(u)
          PROVE  FALSE
      BY <1>0, <2>1, <2>2 DEF Validate, Goto, CallsTyped
    <2>. QED
      BY <1>2, <2>2 DEF Validate, Goto, dbVars
  <1>3. Onward /\ paid \subseteq paid'
    BY RowsKept, PaidGrows
  <1>4. ASSUME NEW v \in Validations, There(v)'
        PROVE  exec'[Subject[v]].status # "absent"
    <2>1. Subject[v] \in Executions
      BY SubjectAssumption
    <2>2. exec[Subject[v]].status # "absent"
      BY <1>0, <1>1, <1>2, <1>4 DEF ValidationsFit
    <2>. QED
      BY <1>3, <2>1, <2>2 DEF Onward
  <1>5. ASSUME NEW v \in Validations, stage'[v] \in {"lock", "commit"}, exec'[Subject[v]].submitted
        PROVE  ReferenceOf[Subject[v]] \in paid'
    <2>1. Subject[v] \in Executions
      BY SubjectAssumption
    <2>2. CASE Validate(v)
      BY <1>2, <1>5, <2>2
    <2>. SUFFICES ASSUME stage[v] \in {"lock", "commit"}
                  PROVE  ReferenceOf[Subject[v]] \in paid'
      BY <1>1, <1>5, <2>2 DEF Check
    <2>3. CASE exec[Subject[v]].submitted
      BY <1>0, <1>3, <2>3 DEF ValidationsFit
    <2>4. CASE ~exec[Subject[v]].submitted
      <3>1. PICK u \in Validations :
               Commit(u) /\ Subject[u] = Subject[v] /\ stage'[u] \notin {"lock", "commit"}
        BY <1>5, <2>1, <2>4, MarksAreCommits
      <3>2. stage[u] = "commit" /\ u # v
        BY <1>5, <3>1 DEF Commit
      <3>. QED
        BY <1>0, <3>1, <3>2 DEF ValidationsFit
    <2>. QED
      BY <2>3, <2>4
  <1>6. ASSUME NEW u \in Validations, NEW v \in Validations, stage'[u] \in Attempting,
               stage'[v] \in Attempting, Subject[u] = Subject[v]
        PROVE  u = v
    <2>1. stage[u] \in Attempting /\ stage[v] \in Attempting => u = v
      BY <1>0, <1>6 DEF ValidationsFit
    <2>2. u # v => ~Validate(u) /\ ~Validate(v)
      <3>1. ASSUME u # v, Validate(u) PROVE FALSE
        BY <1>1, <1>2, <1>6, <3>1
      <3>2. ASSUME u # v, Validate(v) PROVE FALSE
        BY <1>1, <1>2, <1>6, <3>2
      <3>. QED
        BY <3>1, <3>2
    <2>. QED
      BY <1>1, <1>6, <2>1, <2>2
  <1>7. ASSUME NEW v \in Validations, stage'[v] = "commit"
        PROVE  locked'[v] = 4 /\ exec'[Subject[v]].status = "running"
    <2>1. CASE stage[v] = "commit"
      BY <1>7, <2>1, HeldRowKept
    <2>2. CASE Check(v) /\ Valid(Subject[v])
      <3>1. exec[Subject[v]].status = "running" /\ stage[v] = "lock"
        BY <2>2 DEF Check, Valid
      <3>2. ~MustStop(v)
        BY <3>1, TxnsAssumption DEF MustStop
      <3>3. locked[v] = 4
        <4>1. Plan(v) = ValidatePlan(Subject[v])
          BY <3>1, PlansOf
        <4>. QED
          BY <2>2, <3>2, <4>1 DEF Check, AllLocked, ValidatePlan
      <3>4. Goto(v, "commit")
        <4>1. ASSUME NEW result, End(v, result) PROVE FALSE
          BY <1>0, <1>7, <4>1 DEF End, CallsTyped
        <4>. QED
          BY <2>2, <4>1 DEF Check
      <3>. QED
        BY <3>1, <3>3, <3>4 DEF Goto, dbVars
    <2>. QED
      BY <1>1, <1>7, <2>1, <2>2
  <1>. QED
    BY <1>4, <1>5, <1>6, <1>7 DEF ValidationsFit

\* Two approvals of one item do not both get past it.
LEMMA ApprovalsKept ==
    ASSUME Reconciling, [Next]_vars
    PROVE  ApprovalsFit'
  <1>0. CallsTyped /\ ApprovalsFit
    BY TypeParts DEF Reconciling
  <1>1. ASSUME NEW a \in Approvals
        PROVE  /\ stage'[a] \notin WorkerStages
               /\ locked'[a] > 0 => locked[a] > 0 \/ Lock(a)
               /\ locked'[a] >= 2 => locked[a] >= 2 \/ (Lock(a) /\ locked[a] = 1)
               /\ locked'[a] > 0 => stage'[a] # "ended"
    <2>1. a \in Txns /\ locked[a] \in 0..4 /\ stage[a] \notin WorkerStages
      BY <1>0 DEF CallsTyped, ApprovalsFit
    <2>2. CASE Lock(a)
      <3>1. locked'[a] = locked[a] + 1 /\ stage'[a] = stage[a] /\ stage[a] = "lock"
        BY <1>0, <2>1, <2>2 DEF Lock, Wanting, Locking, CallsTyped
      <3>. QED
        BY <2>1, <2>2, <3>1
    <2>3. CASE (CallStep(a) \/ Validate(a) \/ Ask(a)) /\ ~Lock(a)
      <3>1. stage'[a] \in {stage[a], "lock", "ended"}
        BY <1>0, <2>1, <2>3, StagesOf
      <3>2. locked'[a] \in {locked[a], 0}
        BY <1>0, <2>1, <2>3, TxnsAssumption
        DEF CallStep, RequestStep, Check, Commit, Handle, Approve, Abort, Validate, Ask, Goto,
            End, Leave, CallsTyped
      <3>3. stage'[a] = "ended" => locked'[a] = 0
        <4>1. stage[a] # "ended"
          BY <1>0, <2>1, <2>3, StagesOf
        <4>. QED
          BY <1>0, <2>1, <2>3, <4>1, TxnsAssumption
          DEF CallStep, RequestStep, Check, Commit, Handle, Approve, Abort, Validate, Ask, Goto,
              End, Leave, CallsTyped
      <3>. QED
        BY <2>1, <3>1, <3>2, <3>3
    <2>4. ASSUME NEW t \in Txns \ {a}, CallStep(t) \/ Validate(t) \/ Ask(t)
          PROVE  stage'[a] = stage[a] /\ locked'[a] = locked[a]
      BY <1>0, <2>1, <2>4, OthersStay
    <2>5. ASSUME NEW e \in Executions, CloseAbandoned(e) \/ PaymentMade(e)
          PROVE  stage' = stage /\ locked' = locked
      BY <2>5 DEF CloseAbandoned, PaymentMade, callVars
    <2>6. CASE UNCHANGED vars
      BY <1>0, <2>1, <2>6 DEF vars, callVars, CallsTyped
    <2>7. locked[a] > 0 => stage[a] # "ended"
      BY <1>0, <2>1 DEF CallsTyped
    <2>. QED
      BY <2>1, <2>2, <2>3, <2>4, <2>5, <2>6, <2>7 DEF Next
  <1>2. ASSUME NEW a \in Approvals, Lock(a)
        PROVE  UNCHANGED dbVars /\ \A b \in Approvals \ {a} : ~Lock(b)
    <2>1. locked'[a] = locked[a] + 1 /\ locked[a] \in 0..4
      BY <1>0, <1>2 DEF Lock, CallsTyped
    <2>2. ASSUME NEW b \in Approvals \ {a}, Lock(b) PROVE FALSE
      <3>1. locked'[a] = locked[a]
        BY <1>0, <2>2 DEF Lock, CallsTyped
      <3>. QED
        BY <2>1, <3>1
    <2>. QED
      BY <1>2, <2>2 DEF Lock
  <1>3. ASSUME NEW a \in Approvals, NEW b \in Approvals, a # b, Subject[a] = Subject[b],
               Lock(a), locked[a] = 0
        PROVE  locked[b] = 0
    <2>1. a \in Txns /\ b \in Txns /\ locked[b] \in 0..4
      BY <1>0 DEF CallsTyped
    <2>2. Plan(a)[1] = TheCart(Subject[a]) /\ Plan(b)[1] = TheCart(Subject[b])
      BY <2>1, PlansOf DEF ApprovePlan
    <2>3. locked[b] > 0 => Holds(b, Plan(a)[1])
      BY <1>3, <2>1, <2>2 DEF Holds
    <2>4. locked[b] > 0 => WaitsFor(a, b)
      BY <1>3, <2>3 DEF WaitsFor, Lock
    <2>. QED
      BY <1>3, <2>1, <2>4 DEF Lock
  <1>4. ASSUME NEW a \in Approvals, NEW b \in Approvals, locked'[a] > 0, locked'[b] > 0,
               Subject[a] = Subject[b]
        PROVE  a = b
    <2>1. locked[a] > 0 /\ locked[b] > 0 => a = b
      BY <1>0, <1>4 DEF ApprovalsFit
    <2>2. locked[a] \in 0..4 /\ locked[b] \in 0..4
      BY <1>0 DEF CallsTyped
    <2>. QED
      BY <1>1, <1>2, <1>3, <1>4, <2>1, <2>2
  <1>5. ASSUME NEW a \in Approvals, locked'[a] >= 2
        PROVE  cart'[Subject[a]] = "proposed"
    <2>1. Subject[a] \in Executions /\ locked[a] \in 0..4
      BY <1>0, SubjectAssumption DEF CallsTyped
    <2>2. CASE Lock(a) /\ locked[a] = 1
      <3>1. cart[Subject[a]] = "proposed"
        BY <2>2 DEF Lock, Wanting, MustStop
      <3>. QED
        BY <1>2, <2>2, <3>1 DEF dbVars
    <2>3. CASE locked[a] >= 2
      <3>1. cart[Subject[a]] = "proposed"
        BY <1>0, <2>3 DEF ApprovalsFit
      <3>2. exec[Subject[a]].status = "absent"
        <4>1. exec[Subject[a]].status \in Status
          BY <2>1 DEF Reconciling, TypeOK, DbTypeOK, Row
        <4>. QED
          BY <2>1, <3>1, <4>1 DEF Reconciling, RowsAgree, Agrees
      <3>3. CASE cart'[Subject[a]] = cart[Subject[a]]
        BY <3>1, <3>3
      <3>4. ASSUME NEW b \in Approvals, Approve(b), AllLocked(b), Insert(Subject[b]),
                   Subject[b] = Subject[a]
            PROVE  FALSE
        <4>1. locked[b] = 3 /\ locked'[b] = 0
          BY <1>0, <3>4, PlanLengths DEF AllLocked, Approve, End, MustStop, CallsTyped
        <4>2. a = b
          BY <1>0, <2>1, <2>3, <3>4, <4>1 DEF ApprovalsFit
        <4>. QED
          BY <1>5, <4>1, <4>2
      <3>5. ASSUME NEW e \in Executions, Changes(e), cart'[Subject[a]] # cart[Subject[a]]
            PROVE  e = Subject[a] /\ Insert(e)
        <4>1. e = Subject[a]
          <5>1. Agrees(e) /\ DbTypeOK
            BY DEF Reconciling, RowsAgree, TypeOK
          <5>. QED
            BY <2>1, <3>5, <5>1, OneAgrees DEF Wrote
        <4>. QED
          BY <3>2, <3>5, <4>1 DEF Changes, Submits
      <3>6. CASE UNCHANGED dbVars
        BY <3>1, <3>6 DEF dbVars
      <3>7. ASSUME NEW t \in Txns, CallStep(t), cart'[Subject[a]] # cart[Subject[a]]
            PROVE  \E b \in Approvals : /\ Approve(b) /\ AllLocked(b) /\ Insert(Subject[b])
                                         /\ Subject[b] = Subject[a]
        <4>0. ~UNCHANGED dbVars /\ Subject[t] \in Executions
          BY <3>7, SubjectAssumption DEF dbVars
        <4>1. CASE t \in Requests /\ RequestStep(t)
          <5>1. Apply(t) /\ Changes(Subject[t])
            BY <4>0, <4>1, ApplyChanges
            DEF RequestStep, ReadExecution, ReadRest, Verify, Goto
          <5>2. Subject[t] = Subject[a] /\ Insert(Subject[t])
            BY <3>5, <3>7, <4>0, <5>1
          <5>3. Loaded(Subject[t], exec[Subject[t]].status) = "candidate"
            BY <4>0, <5>1 DEF Apply
          <5>. QED
            BY <3>2, <5>2, <5>3 DEF Loaded
        <4>2. CASE Commit(t)
          <5>1. t \in Validations /\ Changes(Subject[t])
            BY <4>0, <4>2, CommitChanges DEF Commit
          <5>2. Subject[t] = Subject[a]
            BY <3>5, <3>7, <4>0, <5>1
          <5>3. exec[Subject[t]].status # "absent"
            BY <4>2, <5>1 DEF Commit, Reconciling, ValidationsFit
          <5>. QED
            BY <3>2, <5>2, <5>3
        <4>3. CASE Handle(t)
          <5>1. t \in Validations /\ Changes(Subject[t])
            BY <4>0, <4>3, HandleChanges DEF Handle
          <5>2. Subject[t] = Subject[a]
            BY <3>5, <3>7, <4>0, <5>1
          <5>3. exec[Subject[t]].status # "absent"
            BY <4>3, <5>1 DEF Handle, Reconciling, ValidationsFit
          <5>. QED
            BY <3>2, <5>2, <5>3
        <4>4. CASE Approve(t)
          <5>1. t \in Approvals /\ AllLocked(t) /\ Insert(Subject[t])
            BY <4>0, <4>4 DEF Approve
          <5>2. Changes(Subject[t])
            BY <4>0, <4>4, <5>1, ApproveChanges
          <5>3. Subject[t] = Subject[a]
            BY <3>5, <3>7, <4>0, <5>2
          <5>. QED
            BY <4>4, <5>1, <5>3
        <4>5. CASE Check(t) \/ Lock(t) \/ Abort(t)
          BY <4>0, <4>5 DEF Check, Lock, Abort, Goto
        <4>. QED
          BY <3>7, <4>1, <4>2, <4>3, <4>4, <4>5 DEF CallStep
      <3>8. ASSUME NEW e \in Executions, CloseAbandoned(e)
            PROVE  cart' = cart
        BY <3>8 DEF CloseAbandoned, ClaimSubmitted, SetTerminal
      <3>. QED
        BY <3>3, <3>4, <3>6, <3>7, <3>8
        DEF Next, Validate, Ask, Goto, PaymentMade, vars
    <2>. QED
      BY <1>1, <1>5, <2>2, <2>3
  <1>. QED
    BY <1>1, <1>4, <1>5 DEF ApprovalsFit

LEMMA AnswersKept ==
    ASSUME Reconciling, [Next]_vars
    PROVE  AnswersLast'
  <1>0. CallsTyped /\ AnswersLast
    BY TypeParts DEF Reconciling
  <1>1. ASSUME NEW u \in Txns, stage'[u] # "ended"
        PROVE  answer'[u] = "none"
    <2>1. CASE CallStep(u) \/ Validate(u) \/ Ask(u)
      BY <1>0, <1>1, <2>1, StagesOf DEF AnswersLast
    <2>2. ASSUME NEW t \in Txns \ {u}, CallStep(t) \/ Validate(t) \/ Ask(t)
          PROVE  stage'[u] = stage[u] /\ answer'[u] = answer[u]
      BY <1>0, <2>2, OthersStay
    <2>3. ASSUME NEW e \in Executions, CloseAbandoned(e) \/ PaymentMade(e)
          PROVE  stage' = stage /\ answer' = answer
      BY <2>3 DEF CloseAbandoned, PaymentMade, callVars
    <2>4. CASE UNCHANGED vars
      BY <1>0, <1>1, <2>4 DEF vars, callVars, AnswersLast
    <2>. QED
      BY <1>0, <1>1, <2>1, <2>2, <2>3, <2>4 DEF Next, AnswersLast
  <1>. QED
    BY <1>1 DEF AnswersLast

LEMMA DbTypedNext ==
    ASSUME Reconciling, [Next]_vars
    PROVE  DbTypeOK'
  <1>0. DbTypeOK
    BY DEF Reconciling, TypeOK
  <1>1. CASE UNCHANGED dbVars
    BY <1>0, <1>1 DEF dbVars, DbTypeOK
  <1>2. ASSUME NEW e \in Executions, Insert(e)
        PROVE  DbTypeOK'
    <2>. DEFINE row == [NoRow EXCEPT !.status = "queued"]
    <2>1. NoRow \in Row
      BY MaxAttemptsAssumption DEF NoRow, Row
    <2>2. row \in Row /\ row.status # "absent"
      BY <2>1 DEF Row
    <2>3. /\ exec' \in [Executions -> Row]
          /\ timeline' \in [Executions -> Seq(Status \ {"absent"})]
      BY <1>0, <1>2, <2>2, WriteRowTyped DEF Insert
    <2>. QED
      BY <1>0, <1>2, <2>3 DEF DbTypeOK, Insert
  <1>3. ASSUME NEW e \in Executions, Submits(e)
        PROVE  DbTypeOK'
    BY <1>0, <1>3, SubmitsRow DEF DbTypeOK
  <1>4. ASSUME NEW e \in Executions, NEW code \in ErrorCodes, Requeue(e, code)
        PROVE  DbTypeOK'
    <2>. DEFINE row == [exec[e] EXCEPT !.status = "queued", !.lease = "none", !.error = code]
    <2>0. exec[e] \in Row
      BY <1>0 DEF DbTypeOK
    <2>1. row \in Row /\ row.status # "absent"
      BY <2>0 DEF Row
    <2>. QED
      BY <1>0, <1>4, <2>1, WriteRowTyped DEF Requeue, DbTypeOK
  <1>5. ASSUME NEW e \in Executions, NEW status \in {"failed", "outcome_unknown"},
               NEW code \in ErrorCodes, SetTerminal(e, status, code)
        PROVE  DbTypeOK'
    BY <1>0, <1>5, SetTerminalTyped
  <1>6. ASSUME NEW e \in Executions, RecordPurchase(e)
        PROVE  DbTypeOK'
    BY <1>0, <1>6, RecordPurchaseTyped
  <1>. QED
    BY <1>1, <1>2, <1>3, <1>4, <1>5, <1>6, ChangesNext DEF Changes

-----------------------------------------------------------------------------
(* The beginning. *)

LEMMA ReconcilingInit == Init => Reconciling
  <1>. SUFFICES ASSUME Init PROVE Reconciling
    OBVIOUS
  <1>1. NoRow \in Row /\ UnknownRow \in Row /\ RunningRows \subseteq Row
    BY MaxAttemptsAssumption DEF NoRow, UnknownRow, RunningRows, Row
  <1>2. /\ NoRow.status = "absent" /\ UnknownRow.status = "outcome_unknown"
        /\ UnknownRow.submitted
        /\ \A row \in RunningRows : row.status = "running"
    BY DEF NoRow, UnknownRow, RunningRows
  <1>3. ASSUME NEW e \in Executions
        PROVE  \/ /\ exec[e] = NoRow /\ cart[e] = "proposed" /\ events[e] = <<>>
                  /\ timeline[e] = <<>>
               \/ /\ exec[e] = UnknownRow /\ cart[e] = "approved"
                  /\ events[e] = <<"outcome_unknown">>
                  /\ timeline[e] = <<"queued", "running", "outcome_unknown">>
               \/ /\ exec[e] \in RunningRows /\ cart[e] = "approved" /\ events[e] = <<>>
                  /\ timeline[e] = <<"queued", "running">>
    <2>1. exec[e] \in {NoRow, UnknownRow} \cup RunningRows
      BY DEF Init
    <2>2. CASE exec[e] = NoRow
      BY <1>2, <2>2 DEF Init
    <2>3. CASE exec[e] = UnknownRow
      BY <1>2, <2>3 DEF Init
    <2>4. CASE exec[e] \in RunningRows
      BY <1>2, <2>4 DEF Init
    <2>. QED
      BY <2>1, <2>2, <2>3, <2>4
  <1>4. DbTypeOK
    <2>1. exec \in [Executions -> Row] /\ usable \in [Cards -> BOOLEAN] /\ purchases = {}
      BY <1>1 DEF Init
    <2>2. cart \in [Executions -> {"proposed", "approved", "purchased"}]
      BY DEF Init
    <2>3. events \in [Executions -> Seq(Terminal)]
      <3>1. <<>> \in Seq(Terminal) /\ <<"outcome_unknown">> \in Seq(Terminal)
        OBVIOUS
      <3>2. \A e \in Executions : events[e] \in Seq(Terminal)
        BY <1>3, <3>1
      <3>. QED
        BY <3>2 DEF Init
    <2>4. timeline \in [Executions -> Seq(Status \ {"absent"})]
      <3>1. /\ <<>> \in Seq(Status \ {"absent"})
            /\ <<"queued", "running">> \in Seq(Status \ {"absent"})
            /\ <<"queued", "running", "outcome_unknown">> \in Seq(Status \ {"absent"})
        OBVIOUS
      <3>2. \A e \in Executions : timeline[e] \in Seq(Status \ {"absent"})
        BY <1>3, <3>1
      <3>. QED
        BY <3>2 DEF Init
    <2>. QED
      BY <2>1, <2>2, <2>3, <2>4 DEF DbTypeOK
  <1>5. CallsTyped
    BY DEF Init, CallsTyped
  <1>6. RowsAgree
    <2>. SUFFICES ASSUME NEW e \in Executions PROVE Agrees(e)
      BY DEF RowsAgree
    <2>1. ~Bought(e)
      BY DEF Init, Bought
    <2>2. LET line == <<"queued", "running", "outcome_unknown">>
          IN  line[Len(line)] = "outcome_unknown"
      OBVIOUS
    <2>. QED
      BY <1>2, <1>3, <2>1, <2>2 DEF Agrees, Proven
  <1>7. PurchasesFit /\ AnswersLast
    BY DEF Init, PurchasesFit, AnswersLast
  <1>8. RequestsFit /\ ValidationsFit /\ ApprovalsFit
    BY DEF Init, RequestsFit, ValidationsFit, ApprovalsFit
  <1>9. Exclusive
    BY DEF Init, Exclusive, Holds
  <1>. QED
    BY <1>4, <1>5, <1>6, <1>7, <1>8, <1>9, TypeParts DEF Reconciling

LEMMA ReconcilingNext == Reconciling /\ [Next]_vars => Reconciling'
  <1>. SUFFICES ASSUME Reconciling, [Next]_vars PROVE Reconciling'
    OBVIOUS
  <1>1. DbTypeOK /\ CallsTyped
    BY TypeParts DEF Reconciling
  <1>2. DbTypeOK' /\ CallsTyped'
    BY <1>1, DbTypedNext, CallsTypedNext
  <1>3. TypeOK'
    BY <1>2 DEF TypeOK, CallsTyped
  <1>. QED
    BY <1>3, ExclusiveKept, RowsKept, PurchasesKept, RequestsKept, ValidationsKept,
       ApprovalsKept, AnswersKept
    DEF Reconciling

-----------------------------------------------------------------------------
(* The theorems. *)

\* Rows, calls, locks and answers keep their types, and what each call knows of
\* the rows it has read or locked stays so.
THEOREM ReconcilingInductive == Spec => []Reconciling
  BY ReconcilingInit, ReconcilingNext, PTL DEF Spec

\* Rows, calls, locks and answers keep their types.
THEOREM ReconcilingTypeCorrect == Spec => []TypeOK
  <1>1. Reconciling => TypeOK
    BY DEF Reconciling
  <1>. QED
    BY <1>1, ReconcilingInductive, PTL

\* The rows of a checkout agree on its success.
THEOREM SuccessIsWhole == Spec => []SuccessWhole
  <1>1. Reconciling => SuccessWhole
    <2>. SUFFICES ASSUME Reconciling, NEW e \in Executions
                  PROVE  LET done == exec[e].status = "succeeded"
                         IN  /\ done <=> cart[e] = "purchased"
                             /\ done <=> \E p \in purchases : p.execution = e
                             /\ done <=> \E i \in 1..Len(events[e]) : events[e][i] = "succeeded"
                             /\ done => timeline[e][Len(timeline[e])] = "succeeded"
      BY DEF SuccessWhole
    <2>1. Agrees(e) /\ exec[e].status \in Status
      BY DEF Reconciling, RowsAgree, TypeOK, DbTypeOK, Row
    <2>2. CASE exec[e].status = "succeeded"
      <3>1. ASSUME events[e] = <<"succeeded">>
            PROVE  1 \in 1..Len(events[e]) /\ events[e][1] = "succeeded"
        BY <3>1
      <3>2. ASSUME events[e] = <<"outcome_unknown", "succeeded">>
            PROVE  2 \in 1..Len(events[e]) /\ events[e][2] = "succeeded"
        BY <3>2
      <3>. QED
        BY <2>1, <2>2, <3>1, <3>2 DEF Agrees, Bought, Proven
    <2>3. CASE exec[e].status # "succeeded"
      <3>1. \/ events[e] = <<>>
            \/ events[e] = <<exec[e].status>>
        BY <2>1, <2>3 DEF Agrees
      <3>2. \A i \in 1..Len(events[e]) : events[e][i] # "succeeded"
        BY <2>3, <3>1
      <3>. QED
        BY <2>1, <2>3, <3>2 DEF Agrees, Bought
    <2>. QED
      BY <2>2, <2>3
  <1>. QED
    BY <1>1, ReconcilingInductive, PTL

\* One payment is booked once and only if it was made, and one request records it.
THEOREM PaymentBookedOnce == Spec => []BookedOnce
  <1>. DEFINE OneRecords ==
         \A q, r \in Requests :
            (answer[q] = "recorded" /\ answer[r] = "recorded" /\ Subject[q] = Subject[r]) => q = r
  <1>1. Init => OneRecords
    BY DEF Init
  <1>2. Reconciling /\ OneRecords /\ [Next]_vars => OneRecords'
    <2>. SUFFICES ASSUME Reconciling, OneRecords, [Next]_vars PROVE OneRecords'
      OBVIOUS
    <2>0. CallsTyped
      BY TypeParts DEF Reconciling
    <2>1. ASSUME NEW r \in Requests, answer'[r] = "recorded", answer[r] # "recorded"
          PROVE  Apply(r) /\ exec[Subject[r]].status = "outcome_unknown"
      <3>1. r \in Txns /\ r \notin Validations /\ r \notin Approvals
        BY TxnsAssumption
      <3>2. ASSUME NEW t \in Txns \ {r}, CallStep(t) \/ Validate(t) \/ Ask(t)
            PROVE  FALSE
        BY <2>0, <2>1, <3>1, <3>2, OthersStay
      <3>3. ASSUME NEW result, End(r, result) PROVE result = "recorded"
        BY <2>0, <2>1, <3>1, <3>3 DEF End, CallsTyped
      <3>4. CASE CallStep(r)
        <4>1. ~Abort(r) /\ ~Lock(r) /\ ~ReadExecution(r) /\ ~Verify(r)
          BY <2>1, <3>1, <3>3 DEF Abort, Lock, ReadExecution, Verify, Goto
        <4>2. Loaded(Subject[r], saw[r]) # "recorded"
          BY DEF Loaded
        <4>3. ~ReadRest(r)
          BY <2>1, <3>3, <4>2 DEF ReadRest
        <4>4. Apply(r)
          BY <3>1, <3>4, <4>1, <4>3 DEF CallStep, RequestStep, Check, Commit, Handle, Approve
        <4>5. Loaded(Subject[r], exec[Subject[r]].status) = "candidate"
          BY <3>3, <4>4 DEF Apply
        <4>. QED
          BY <4>4, <4>5 DEF Loaded
      <3>5. CASE Validate(r) \/ Ask(r)
        BY <2>1, <3>5 DEF Validate, Ask, Goto
      <3>6. ASSUME NEW e \in Executions, CloseAbandoned(e) \/ PaymentMade(e)
            PROVE  FALSE
        BY <2>1, <3>6 DEF CloseAbandoned, PaymentMade, callVars
      <3>7. ~UNCHANGED vars
        BY <2>1 DEF vars, callVars
      <3>. QED
        BY <3>1, <3>2, <3>4, <3>5, <3>6, <3>7 DEF Next
    <2>2. ASSUME NEW q \in Requests, NEW r \in Requests, answer'[q] = "recorded",
                 answer'[r] = "recorded", Subject[q] = Subject[r], q # r
          PROVE  FALSE
      <3>1. answer[q] = "recorded" => exec[Subject[q]].status = "succeeded"
        BY DEF Reconciling, RequestsFit
      <3>2. answer[r] = "recorded" => exec[Subject[r]].status = "succeeded"
        BY DEF Reconciling, RequestsFit
      <3>3. CASE answer[q] # "recorded" /\ answer[r] # "recorded"
        <4>1. Apply(q) /\ Apply(r)
          BY <2>1, <2>2, <3>3
        <4>2. stage[q] \in {"lock", "handle", "again"} /\ stage'[q] = "ended"
          BY <2>0, <4>1 DEF Apply, AllLocked, Locking, End, CallsTyped
        <4>3. stage'[q] = stage[q]
          BY <2>0, <2>2, <4>1 DEF Apply, End, CallsTyped
        <4>. QED
          BY <4>2, <4>3
      <3>. QED
        BY <2>1, <2>2, <3>1, <3>2, <3>3
    <2>. QED
      BY <2>2
  <1>3. Reconciling /\ OneRecords => BookedOnce
    BY DEF Reconciling, PurchasesFit, BookedOnce
  <1>. HIDE DEF OneRecords
  <1>. QED
    BY <1>1, <1>2, <1>3, ReconcilingInductive, PTL DEF Spec

LEMMA Below ==
    ASSUME NEW i \in 0..4, i > 0, NEW n, i < n
    PROVE  /\ n = 4 => i \in {1, 2, 3}
           /\ n = 3 => i \in {1, 2}
           /\ n = 2 => i = 1
  OBVIOUS

\* Every cycle of waits has a worker's validation in it: a reconciliation waits for
\* a cart item that is approved, an approval holds one that is proposed, and who
\* waits for an agent waits for a transaction that has all its locks.
THEOREM CyclesNeedWorkers == Spec => []OnlyWorkersDeadlock
  <1>1. Reconciling => OnlyWorkersDeadlock
    <2>. SUFFICES ASSUME Reconciling, NEW set \in SUBSET Waiting, Cycle(set),
                         \A v \in set : ~(v \in Validations /\ stage[v] = "lock")
                  PROVE  FALSE
      BY DEF OnlyWorkersDeadlock
    <2>0. CallsTyped
      BY TypeParts DEF Reconciling
    <2>1. set \subseteq Txns
      BY DEF Waiting
    <2>2. ASSUME NEW t \in set
          PROVE  /\ t \in Requests => locked[t] \in {1, 2, 3}
                 /\ t \in Approvals => locked[t] \in {1, 2}
                 /\ t \notin Requests /\ t \notin Approvals => locked[t] = 1
                 /\ Locking(t) /\ ~MustStop(t)
                 /\ \E u \in set : WaitsFor(t, u)
                 /\ t \in Requests => Plan(t) = ReconcilePlan(Subject[t])
                 /\ t \in Approvals => Plan(t) = ApprovePlan(Subject[t])
                 /\ t \notin Requests /\ t \notin Approvals => Plan(t) = HandlePlan(Subject[t])
      <3>1. PICK u \in set : WaitsFor(t, u)
        BY DEF Cycle
      <3>2. PICK w \in set : WaitsFor(w, t)
        BY DEF Cycle
      <3>3. locked[t] > 0
        BY <3>2 DEF WaitsFor, Holds
      <3>4. t \in Txns /\ locked[t] \in 0..4
        BY <2>0, <2>1 DEF CallsTyped
      <3>5. Wanting(t)
        BY <3>1 DEF WaitsFor
      <3>6. t \notin Requests /\ t \notin Approvals =>
              t \in Validations /\ stage[t] \in {"handle", "again"}
        BY <3>4, <3>5 DEF Wanting, Locking
      <3>7. /\ t \in Requests => Plan(t) = ReconcilePlan(Subject[t])
            /\ t \in Approvals => Plan(t) = ApprovePlan(Subject[t])
            /\ t \notin Requests /\ t \notin Approvals => Plan(t) = HandlePlan(Subject[t])
        BY <3>4, <3>6, PlansOf
      <3>8. /\ t \in Requests => Len(Plan(t)) = 4
            /\ t \in Approvals => Len(Plan(t)) = 3
            /\ t \notin Requests /\ t \notin Approvals => Len(Plan(t)) = 2
        BY <3>7 DEF ReconcilePlan, ApprovePlan, HandlePlan
      <3>9. locked[t] > 0 /\ locked[t] < Len(Plan(t))
        BY <3>3, <3>5 DEF Wanting
      <3>10. /\ t \in Requests => locked[t] \in {1, 2, 3}
             /\ t \in Approvals => locked[t] \in {1, 2}
             /\ t \notin Requests /\ t \notin Approvals => locked[t] = 1
        BY <3>4, <3>8, <3>9, Below
      <3>. QED
        BY <3>1, <3>5, <3>7, <3>10 DEF Wanting
    <2>3. ASSUME NEW t \in set, NEW u \in set, WaitsFor(t, u)
          PROVE  \E i \in 1..locked[u] : Plan(u)[i] = Plan(t)[locked[t] + 1]
      BY <2>3 DEF WaitsFor, Holds
    \* Nobody in the set waits for an agent.
    <2>4. ASSUME NEW t \in set
          PROVE  \A e : Plan(t)[locked[t] + 1] # TheAgent(e)
      <3>. PICK u \in set : WaitsFor(t, u)
        BY <2>2
      <3>. PICK i \in 1..locked[u] : Plan(u)[i] = Plan(t)[locked[t] + 1]
        BY <2>3
      <3>1. CASE u \in Requests
        <4>1. Plan(u) = <<TheMethod(Subject[u]), TheExecution(Subject[u]), TheCart(Subject[u]),
                          TheAgent(Subject[u])>> /\ i \in {1, 2, 3}
          BY <2>2, <3>1 DEF ReconcilePlan
        <4>. QED
          BY <4>1 DEF TheMethod, TheExecution, TheCart, TheAgent
      <3>2. CASE u \in Approvals
        <4>1. Plan(u) = <<TheCart(Subject[u]), TheMethod(Subject[u]), TheAgent(Subject[u])>>
              /\ i \in {1, 2}
          BY <2>2, <3>2 DEF ApprovePlan
        <4>. QED
          BY <4>1 DEF TheMethod, TheCart, TheAgent
      <3>3. CASE u \notin Requests /\ u \notin Approvals
        <4>1. Plan(u) = <<TheExecution(Subject[u]), TheAgent(Subject[u])>>
          BY <2>2, <3>3 DEF HandlePlan
        <4>2. i = 1
          BY <2>2, <3>3
        <4>. QED
          BY <4>1, <4>2 DEF TheExecution, TheAgent
      <3>. QED
        BY <3>1, <3>2, <3>3
    \* So no worker's error handling is in it, nor an approval with its method.
    <2>5. ASSUME NEW t \in set
          PROVE  \/ t \in Requests /\ locked[t] \in {1, 2}
                 \/ t \in Approvals /\ locked[t] = 1
      <3>0. t \in Txns
        BY <2>1
      <3>1. CASE t \in Requests
        <4>1. Plan(t)[4] = TheAgent(Subject[t])
          BY <2>2, <3>1 DEF ReconcilePlan
        <4>2. locked[t] # 3
          BY <2>4, <4>1
        <4>. QED
          BY <2>2, <3>1, <4>2
      <3>2. CASE t \in Approvals
        <4>1. Plan(t)[3] = TheAgent(Subject[t])
          BY <2>2, <3>2 DEF ApprovePlan
        <4>2. locked[t] # 2
          BY <2>4, <4>1
        <4>. QED
          BY <2>2, <3>2, <4>2
      <3>3. CASE t \notin Requests /\ t \notin Approvals
        <4>1. Plan(t)[2] = TheAgent(Subject[t])
          BY <2>2, <3>3 DEF HandlePlan
        <4>2. locked[t] # 1
          BY <2>4, <4>1
        <4>. QED
          BY <2>2, <3>3, <4>2
      <3>. QED
        BY <3>1, <3>2, <3>3
    \* An approval holds a proposed item, a reconciliation waits for an approved one.
    <2>6. ASSUME NEW a \in set, a \in Approvals
          PROVE  FALSE
      <3>1. locked[a] = 1 /\ a \notin Requests
        BY <2>5, <2>6, TxnsAssumption
      <3>2. PICK t \in set : WaitsFor(t, a)
        BY DEF Cycle
      <3>3. Plan(t)[locked[t] + 1] = TheCart(Subject[a])
        <4>1. PICK i \in 1..locked[a] : Plan(a)[i] = Plan(t)[locked[t] + 1]
          BY <2>3, <3>2
        <4>2. i = 1
          BY <3>1, <4>1
        <4>. QED
          BY <2>2, <2>6, <4>1, <4>2 DEF ApprovePlan
      <3>4. CASE t \in Approvals
        <4>1. Plan(t)[2] = TheMethod(Subject[t]) /\ locked[t] = 1
          BY <2>2, <2>5, <3>4, TxnsAssumption DEF ApprovePlan
        <4>. QED
          BY <3>3, <4>1 DEF TheMethod, TheCart
      <3>5. CASE t \in Requests
        <4>1. /\ Plan(t)[2] = TheExecution(Subject[t])
              /\ Plan(t)[3] = TheCart(Subject[t])
              /\ locked[t] \in {1, 2}
          BY <2>2, <2>5, <3>5, TxnsAssumption DEF ReconcilePlan
        <4>2. Plan(t)[3] = TheCart(Subject[a])
          BY <3>3, <4>1 DEF TheExecution, TheCart
        <4>3. Subject[t] = Subject[a]
          BY <4>1, <4>2 DEF TheCart
        <4>4. cart[Subject[a]] = "proposed"
          BY <2>2, <2>6, <3>1 DEF MustStop
        <4>5. stage[t] = "lock"
          BY <2>2, <3>5 DEF Locking, Reconciling, RequestsFit
        <4>6. exec[Subject[t]].status \in Proven
          BY <3>5, <4>5 DEF Reconciling, RequestsFit
        <4>7. cart[Subject[t]] # "proposed"
          BY <3>5, <4>6, SubjectAssumption DEF Reconciling, RowsAgree, Agrees, Proven
        <4>. QED
          BY <4>3, <4>4, <4>7
      <3>. QED
        BY <2>5, <3>4, <3>5
    \* Reconciliations alone lock their rows in one order.
    <2>7. ASSUME NEW t \in set, locked[t] = 2
          PROVE  FALSE
      <3>1. t \in Requests
        BY <2>5, <2>7
      <3>2. PICK u \in set : WaitsFor(t, u)
        BY <2>2
      <3>3. u \in Requests /\ locked[u] \in {1, 2}
        BY <2>5, <2>6
      <3>4. Plan(t)[3] = TheCart(Subject[t])
        BY <2>2, <3>1 DEF ReconcilePlan
      <3>5. Plan(u)[1] = TheMethod(Subject[u]) /\ Plan(u)[2] = TheExecution(Subject[u])
        BY <2>2, <3>3 DEF ReconcilePlan
      <3>6. PICK i \in 1..locked[u] : Plan(u)[i] = Plan(t)[3]
        BY <2>3, <2>7, <3>2
      <3>7. i \in {1, 2}
        BY <3>3, <3>6
      <3>. QED
        BY <3>4, <3>5, <3>6, <3>7 DEF TheCart, TheMethod, TheExecution
    <2>8. PICK t \in set : TRUE
      BY DEF Cycle
    <2>9. PICK u \in set : WaitsFor(t, u)
      BY <2>2
    <2>10. t \in Requests /\ locked[t] = 1 /\ u \in Requests /\ locked[u] = 1
      BY <2>5, <2>6, <2>7
    <2>11. Plan(t)[2] = TheExecution(Subject[t]) /\ Plan(u)[1] = TheMethod(Subject[u])
      BY <2>2, <2>10 DEF ReconcilePlan
    <2>12. Plan(u)[1] = Plan(t)[2]
      <3>1. PICK i \in 1..locked[u] : Plan(u)[i] = Plan(t)[locked[t] + 1]
        BY <2>3, <2>9
      <3>2. i = 1
        BY <2>10, <3>1
      <3>. QED
        BY <2>10, <3>1, <3>2
    <2>. QED
      BY <2>11, <2>12 DEF TheExecution, TheMethod
  <1>. QED
    BY <1>1, ReconcilingInductive, PTL

Booked(e) ==
    \E p \in purchases : /\ p.reference = ReferenceOf[e]
                         /\ CardOf[p.execution] = CardOf[e]

LEMMA BoughtIsBooked ==
    ASSUME Reconciling, NEW e \in Executions, Bought(e)
    PROVE  \E p \in purchases : p.execution = e /\ p.reference = ReferenceOf[e]
  <1>. PICK p \in purchases : p.execution = e
    BY DEF Bought
  <1>. QED
    BY DEF Reconciling, PurchasesFit

\* Rows that agree are not found invalid.
LEMMA ProvenIsLoaded ==
    ASSUME Reconciling, NEW e \in Executions, CardOf[e] \in HostedCards,
           exec[e].status \in Proven
    PROVE  /\ exec[e].status = "outcome_unknown" => Loaded(e, "outcome_unknown") = "candidate"
           /\ exec[e].status = "succeeded" => Loaded(e, "succeeded") = "already"
  <1>1. Agrees(e)
    BY DEF Reconciling, RowsAgree
  <1>2. CASE exec[e].status = "outcome_unknown"
    <2>1. /\ exec[e].submitted /\ cart[e] = "approved" /\ ~Bought(e)
          /\ timeline[e][Len(timeline[e])] = "outcome_unknown"
          /\ events[e] = <<"outcome_unknown">>
      BY <1>1, <1>2 DEF Agrees, Proven
    <2>. QED
      BY <1>2, <2>1 DEF Loaded, Bought
  <1>3. CASE exec[e].status = "succeeded"
    <2>1. /\ cart[e] = "purchased" /\ Bought(e)
          /\ timeline[e][Len(timeline[e])] = "succeeded"
          /\ events[e] \in {<<"succeeded">>, <<"outcome_unknown", "succeeded">>}
      BY <1>1, <1>3 DEF Agrees, Proven
    <2>. QED
      BY <1>3, <2>1, BoughtIsBooked DEF Loaded
  <1>. QED
    BY <1>2, <1>3 DEF Proven

\* What was read as unknown is refused only when its payment is booked.
THEOREM RefusalsAreRight == Spec => []RefusedOnlyIfBooked
  <1>1. Init => RefusedOnlyIfBooked
    BY DEF Init, RefusedOnlyIfBooked
  <1>2. Reconciling /\ RefusedOnlyIfBooked /\ [Next]_vars => RefusedOnlyIfBooked'
    <2>. SUFFICES ASSUME Reconciling, RefusedOnlyIfBooked, [Next]_vars, NEW r \in Requests,
                         answer'[r] = "invalid", saw'[r] = "outcome_unknown",
                         CardOf[Subject[r]] \in HostedCards
                  PROVE  Booked(Subject[r])'
      BY DEF RefusedOnlyIfBooked, Booked
    <2>0. CallsTyped /\ Subject[r] \in Executions /\ r \in Txns
      BY TypeParts, SubjectAssumption DEF Reconciling
    <2>1. Booked(Subject[r]) => Booked(Subject[r])'
      BY PurchasesKept DEF Booked
    <2>2. CASE answer[r] = "invalid"
      <3>1. stage[r] = "ended"
        BY <2>0, <2>2 DEF Reconciling, AnswersLast
      <3>2. ASSUME NEW q \in Requests, ReadExecution(q)
            PROVE  saw'[r] = saw[r]
        BY <2>0, <3>1, <3>2 DEF ReadExecution, CallsTyped
      <3>4. ASSUME NEW t \in Txns, CallStep(t), ~(t \in Requests /\ ReadExecution(t))
            PROVE  saw' = saw
        BY <3>4
        DEF CallStep, RequestStep, ReadRest, Verify, Apply, Check, Commit, Handle, Approve,
            Lock, Abort, End, Leave
      <3>5. ASSUME NEW t \in Txns, Validate(t) \/ Ask(t)
            PROVE  saw' = saw
        BY <3>5 DEF Validate, Ask
      <3>6. ASSUME \/ \E e \in Executions : CloseAbandoned(e) \/ PaymentMade(e)
                   \/ UNCHANGED vars
            PROVE  saw' = saw
        BY <3>6 DEF CloseAbandoned, PaymentMade, vars, callVars
      <3>3. saw'[r] = saw[r]
        BY <3>2, <3>4, <3>5, <3>6 DEF Next, Txns
      <3>. QED
        BY <2>1, <2>2, <3>3 DEF RefusedOnlyIfBooked, Booked
    <2>3. CASE answer[r] # "invalid"
      <3>1. r \notin Validations /\ r \notin Approvals
        BY TxnsAssumption
      <3>2. ASSUME NEW t \in Txns \ {r}, CallStep(t) \/ Validate(t) \/ Ask(t)
            PROVE  FALSE
        BY <2>0, <2>3, <3>2, OthersStay
      <3>3. ASSUME NEW result, End(r, result) PROVE result = "invalid" /\ saw' = saw
        BY <2>0, <3>3 DEF End, CallsTyped
      <3>4. CASE ReadRest(r)
        <4>1. End(r, Loaded(Subject[r], saw[r])) /\ saw[r] # "absent"
          BY <2>3, <3>3, <3>4 DEF ReadRest
        <4>2. Loaded(Subject[r], "outcome_unknown") = "invalid" /\ saw[r] = "outcome_unknown"
          BY <3>3, <4>1
        <4>3. exec[Subject[r]].status \in Proven
          BY <4>2 DEF Reconciling, RequestsFit
        <4>4. exec[Subject[r]].status = "succeeded"
          BY <2>0, <4>2, <4>3, ProvenIsLoaded DEF Proven
        <4>5. Bought(Subject[r])
          BY <2>0, <4>4 DEF Reconciling, RowsAgree, Agrees
        <4>. QED
          BY <2>0, <2>1, <4>5, BoughtIsBooked DEF Booked
      <3>5. CASE Apply(r)
        <4>. DEFINE e == Subject[r]
        <4>1. stage[r] = "lock"
          BY <3>5 DEF Apply, AllLocked, Locking, Reconciling, RequestsFit
        <4>2. exec[e].status \in Proven
          BY <4>1 DEF Reconciling, RequestsFit
        <4>3. Loaded(e, exec[e].status) # "invalid"
          BY <2>0, <4>2, ProvenIsLoaded DEF Proven
        <4>4. ~PurchaseIsNew(e)
          BY <3>3, <3>5, <4>3 DEF Apply
        <4>5. Booked(e)
          <5>1. CASE Bought(e)
            BY <2>0, <5>1, BoughtIsBooked DEF Booked
          <5>2. CASE ~Bought(e)
            BY <4>4, <5>2 DEF PurchaseIsNew, Bought, Booked
          <5>. QED
            BY <5>1, <5>2
        <4>. QED
          BY <2>1, <4>5
      <3>6. CASE CallStep(r)
        <4>1. ~Abort(r) /\ ~Lock(r) /\ ~ReadExecution(r) /\ ~Verify(r)
          BY <2>3, <3>1, <3>3 DEF Abort, Lock, ReadExecution, Verify, Goto
        <4>. QED
          BY <3>1, <3>4, <3>5, <3>6, <4>1
          DEF CallStep, RequestStep, Check, Commit, Handle, Approve
      <3>7. CASE Validate(r) \/ Ask(r)
        BY <2>3, <3>7 DEF Validate, Ask, Goto
      <3>8. ASSUME NEW e \in Executions, CloseAbandoned(e) \/ PaymentMade(e)
            PROVE  FALSE
        BY <2>3, <3>8 DEF CloseAbandoned, PaymentMade, callVars
      <3>9. ~UNCHANGED vars
        BY <2>3 DEF vars, callVars
      <3>. QED
        BY <2>0, <3>2, <3>6, <3>7, <3>8, <3>9 DEF Next
    <2>. QED
      BY <2>2, <2>3
  <1>. QED
    BY <1>1, <1>2, ReconcilingInductive, PTL DEF Spec

-----------------------------------------------------------------------------
(* Calls stand still only where the detector looks. *)

\* In a finite set whose members each wait for another one of it, some wait in a
\* cycle: the least set closed under "the one it waits for".
LEMMA WaitersCycle ==
    ASSUME IsFiniteSet(Waiting), Waiting # {},
           \A t \in Waiting : \E u \in Waiting : WaitsFor(t, u)
    PROVE  \E set \in SUBSET Waiting : Cycle(set)
  <1>. DEFINE next == [t \in Waiting |-> CHOOSE u \in Waiting : WaitsFor(t, u)]
              Closed == {set \in SUBSET Waiting : set # {} /\ \A t \in set : next[t] \in set}
  <1>1. \A t \in Waiting : next[t] \in Waiting /\ WaitsFor(t, next[t])
    OBVIOUS
  <1>. HIDE DEF next
  <1>2. Waiting \in Closed
    BY <1>1
  <1>3. PICK least \in Closed : \A set \in Closed :
                ~(<<set, least>> \in StrictSubsetOrdering(Waiting))
    <2>1. IsWellFoundedOn(StrictSubsetOrdering(Waiting), SUBSET Waiting)
      BY FS_StrictSubsetOrderingWellFounded, FS_FiniteSubsetsOfFinite
    <2>2. Closed \subseteq SUBSET Waiting /\ Closed # {}
      BY <1>2
    <2>. HIDE DEF Closed
    <2>. QED
      BY <2>1, <2>2, WFMin
  <1>4. least \in SUBSET Waiting /\ least # {} /\ \A t \in least : next[t] \in least
    OBVIOUS
  <1>. DEFINE image == {next[t] : t \in least}
  <1>5. image \in Closed
    BY <1>4
  <1>6. image = least
    <2>1. <<image, least>> \in (SUBSET Waiting) \X (SUBSET Waiting) /\ image \subseteq least
      BY <1>4
    <2>. QED
      BY <1>3, <1>5, <2>1 DEF StrictSubsetOrdering
  <1>7. \A t \in least : \E u \in least : WaitsFor(t, u)
    BY <1>1, <1>4
  <1>8. ASSUME NEW t \in least PROVE \E u \in least : WaitsFor(u, t)
    <2>1. PICK u \in least : t = next[u]
      BY <1>6
    <2>. QED
      BY <1>1, <1>4, <2>1
  <1>. QED
    BY <1>4, <1>7, <1>8 DEF Cycle

\* Finitely many calls were begun, one at a time.
Started == {t \in Txns : stage[t] # "idle"}

FiniteStarted == IsFiniteSet(Started)

LEMMA StartedFinite == Spec => []FiniteStarted
  <1>1. Init => FiniteStarted
    <2>1. Init => Started = {}
      BY DEF Init, Started
    <2>. QED
      BY <2>1, FS_EmptySet DEF FiniteStarted
  <1>2. Reconciling /\ FiniteStarted /\ [Next]_vars => FiniteStarted'
    <2>. SUFFICES ASSUME Reconciling, IsFiniteSet(Started), [Next]_vars
                  PROVE  IsFiniteSet(Started')
      BY DEF FiniteStarted
    <2>0. CallsTyped
      BY TypeParts DEF Reconciling
    <2>1. ASSUME NEW t \in Txns, CallStep(t) \/ Validate(t) \/ Ask(t)
          PROVE  IsFiniteSet(Started')
      <3>1. \A u \in Txns \ {t} : stage'[u] = stage[u]
        BY <2>0, <2>1, OthersStay
      <3>2. Started' \in SUBSET (Started \cup {t})
        BY <3>1 DEF Started
      <3>3. IsFiniteSet(Started \cup {t})
        BY FS_AddElement
      <3>. QED
        BY <3>2, <3>3, FS_Subset
    <2>2. CASE UNCHANGED stage
      <3>1. Started' = Started
        BY <2>2 DEF Started
      <3>. QED
        BY <3>1
    <2>. QED
      BY <2>1, <2>2 DEF Next, CloseAbandoned, PaymentMade, vars, callVars
  <1>. QED
    BY <1>1, <1>2, ReconcilingInductive, PTL DEF Spec

\* No lock outlives its call, so that a standstill is a cycle, which the
\* deadlock detector ends.
THEOREM StandstillsAreCycles == Spec => []StuckOnlyInCycles
  <1>1. ASSUME FiniteStarted, Reconciling PROVE StuckOnlyInCycles
    <2>. SUFFICES ASSUME Waiting # {}, \A t \in Txns : Begun(t) => t \in Waiting
                  PROVE  \E set \in SUBSET Waiting : Cycle(set)
      BY DEF StuckOnlyInCycles
    <2>0. CallsTyped
      BY <1>1, TypeParts DEF Reconciling
    <2>1. IsFiniteSet(Waiting)
      <3>1. Waiting \in SUBSET Started
        BY DEF Waiting, WaitsFor, Wanting, Locking, Started
      <3>. QED
        BY <1>1, <3>1, FS_Subset DEF FiniteStarted
    <2>2. ASSUME NEW t \in Waiting PROVE \E u \in Waiting : WaitsFor(t, u)
      <3>1. PICK u \in Txns : WaitsFor(t, u)
        BY DEF Waiting
      <3>2. stage[u] \in {"lock", "commit", "handle", "again"}
        BY <2>0, <3>1 DEF WaitsFor, Holds, CallsTyped
      <3>. QED
        BY <3>1, <3>2 DEF Begun
    <2>. QED
      BY <2>1, <2>2, WaitersCycle
  <1>. QED
    BY <1>1, StartedFinite, ReconcilingInductive, PTL

-----------------------------------------------------------------------------
(* The rows move by the repository's transactions only.                     *)

\* A row is there or empty; an unknown outcome is coded as one.
Coded ==
    \A e \in Executions :
        /\ exec[e].status = "outcome_unknown" => exec[e].error = "payment_outcome_unknown"
        /\ exec[e].status = "absent" => exec[e] = NoRow

\* An approval with all its locks looked at its card, whose usability nobody
\* changes meanwhile.
Looked == \A a \in Approvals : locked[a] = 3 => usable[CardOf[Subject[a]]]

\* What a worker's transaction found is so when it commits.
Checked == \A v \in Validations : stage[v] = "commit" => StillValid(Subject[v])

LEMMA UsableStays ==
    ASSUME Reconciling, [Next]_vars
    PROVE  usable' = usable
  <1>1. ASSUME NEW e \in Executions, Changes(e) PROVE usable' = usable
    BY <1>1 DEF Changes, Insert, Submits, WriteSubmission, Requeue, SetTerminal, RecordPurchase
  <1>. QED
    BY <1>1, ChangesNext DEF dbVars

LEMMA CodedKept ==
    ASSUME Reconciling, Coded, [Next]_vars
    PROVE  Coded'
  <1>0. DbTypeOK
    BY DEF Reconciling, TypeOK
  <1>1. CASE UNCHANGED dbVars
    BY <1>1 DEF dbVars, Coded
  <1>2. ASSUME NEW e \in Executions,
               \A d \in Executions \ {e} : exec'[d] = exec[d],
               exec'[e].status # "absent",
               exec'[e].status = "outcome_unknown" =>
                  exec'[e].error = "payment_outcome_unknown"
        PROVE  Coded'
    BY <1>2 DEF Coded
  <1>3. ASSUME NEW e \in Executions, NEW row, WriteRow(e, row), row.status # "absent",
               row.status = "outcome_unknown" => row.error = "payment_outcome_unknown"
        PROVE  Coded'
    BY <1>0, <1>2, <1>3, WriteRowEnters
  <1>4. ASSUME NEW e \in Executions, Changes(e)
        PROVE  Coded'
    <2>1. exec[e] \in Row
      BY <1>0 DEF DbTypeOK
    <2>2. CASE Insert(e)
      <3>1. [NoRow EXCEPT !.status = "queued"].status = "queued"
        BY DEF NoRow
      <3>. QED
        BY <1>3, <2>2, <3>1 DEF Insert
    <2>3. CASE Submits(e)
      BY <1>0, <1>2, <2>3, SubmitsRow DEF Others
    <2>4. ASSUME NEW code, Requeue(e, code) PROVE Coded'
      BY <1>3, <2>1, <2>4 DEF Requeue, Row
    <2>5. ASSUME NEW status \in {"failed", "outcome_unknown"}, NEW code,
                 status = "outcome_unknown" => code = "payment_outcome_unknown",
                 SetTerminal(e, status, code)
          PROVE  Coded'
      BY <1>3, <2>1, <2>5 DEF SetTerminal, Row
    <2>6. CASE RecordPurchase(e)
      BY <1>3, <2>1, <2>6 DEF RecordPurchase, Row
    <2>. QED
      BY <1>4, <2>2, <2>3, <2>4, <2>5, <2>6 DEF Changes
  <1>. QED
    BY <1>1, <1>4, ChangesNext

LEMMA LookedKept ==
    ASSUME Reconciling, Looked, [Next]_vars
    PROVE  Looked'
  <1>0. CallsTyped /\ DbTypeOK
    BY TypeParts DEF Reconciling
  <1>1. usable' = usable
    BY UsableStays
  <1>2. ASSUME NEW a \in Approvals, locked'[a] = 3, locked[a] # 3
        PROVE  usable[CardOf[Subject[a]]]
    <2>0. a \in Txns /\ locked[a] \in 0..4
      BY <1>0 DEF CallsTyped
    <2>1. ASSUME NEW t \in Txns \ {a}, CallStep(t) \/ Validate(t) \/ Ask(t)
          PROVE  FALSE
      BY <1>0, <1>2, <2>0, <2>1, OthersStay
    <2>2. CASE Lock(a)
      <3>1. locked[a] = 2 /\ ~MustStop(a)
        BY <1>0, <1>2, <2>0, <2>2 DEF Lock, Wanting, CallsTyped
      <3>. QED
        BY <3>1 DEF MustStop
    <2>3. CASE (CallStep(a) \/ Validate(a) \/ Ask(a)) /\ ~Lock(a)
      <3>1. locked'[a] \in {locked[a], 0}
        BY <1>0, <2>0, <2>3, TxnsAssumption
        DEF CallStep, RequestStep, Check, Commit, Handle, Approve, Abort, Validate, Ask, Goto,
            End, Leave, CallsTyped
      <3>. QED
        BY <1>2, <3>1
    <2>4. ~UNCHANGED locked
      BY <1>2
    <2>. QED
      BY <2>0, <2>1, <2>2, <2>3, <2>4
      DEF Next, CloseAbandoned, PaymentMade, vars, callVars
  <1>. QED
    BY <1>1, <1>2 DEF Looked

\* A checkout becomes unresolved by an error's handling or when it is found abandoned.
LEMMA UnresolvedBy ==
    ASSUME Reconciling, [Next]_vars, NEW d \in Executions, exec[d].status \notin Unresolved,
           exec'[d].status \in Unresolved
    PROVE  (\E u \in Validations : Handle(u) /\ Subject[u] = d) \/ CloseAbandoned(d)
  <1>0. DbTypeOK /\ \A t \in Txns : Subject[t] \in Executions
    BY SubjectAssumption DEF Reconciling, TypeOK
  <1>1. ASSUME NEW e \in Executions, Changes(e)
        PROVE  e = d
    <2>1. Agrees(e)
      BY DEF Reconciling, RowsAgree
    <2>. QED
      BY <1>0, <1>1, <2>1, OneAgrees DEF Wrote
  <1>2. ~UNCHANGED dbVars
    BY DEF dbVars
  <1>3. ASSUME RecordPurchase(d) PROVE FALSE
    BY <1>0, <1>3, RecordPurchaseRow DEF RowBecomes
  <1>4. ASSUME NEW r \in Requests, Apply(r) PROVE FALSE
    <2>1. Subject[r] = d
      BY <1>0, <1>1, <1>2, <1>4, ApplyChanges
    <2>. QED
      BY <1>2, <1>3, <1>4, <2>1 DEF Apply
  <1>5. ASSUME NEW u \in Validations, Commit(u) PROVE FALSE
    <2>1. Subject[u] = d
      BY <1>0, <1>1, <1>2, <1>5, CommitChanges
    <2>2. ASSUME WriteSubmission(d) PROVE FALSE
      <3>1. exec[d] \in Row /\ exec'[d] = [exec[d] EXCEPT !.submitted = TRUE]
        BY <1>0, <2>2 DEF WriteSubmission, DbTypeOK
      <3>. QED
        BY <3>1 DEF Row
    <2>. QED
      BY <1>2, <1>3, <1>5, <2>1, <2>2 DEF Commit
  <1>6. ASSUME NEW a \in Approvals, Approve(a) PROVE FALSE
    <2>1. Subject[a] = d /\ AllLocked(a) /\ Insert(d)
      BY <1>0, <1>1, <1>2, <1>6, ApproveChanges DEF Approve
    <2>2. cart[d] = "proposed" /\ Agrees(d)
      BY <2>1, PlanLengths DEF AllLocked, Reconciling, ApprovalsFit, RowsAgree
    <2>. QED
      BY <1>0, <2>1, <2>2, InsertAgrees DEF Wrote
  <1>7. ASSUME NEW u \in Validations, Handle(u) PROVE Subject[u] = d
    BY <1>0, <1>1, <1>2, <1>7, HandleChanges
  <1>8. ASSUME NEW e \in Executions, CloseAbandoned(e) PROVE e = d
    BY <1>1, <1>8, CloseChanges
  <1>9. ASSUME NEW t \in Txns, Check(t) \/ Lock(t) \/ Abort(t) \/ Validate(t) \/ Ask(t)
        PROVE  FALSE
    BY <1>2, <1>9 DEF Check, Lock, Abort, Validate, Ask, Goto
  <1>10. ASSUME NEW r \in Requests, ReadExecution(r) \/ ReadRest(r) \/ Verify(r)
         PROVE  FALSE
    BY <1>2, <1>10 DEF ReadExecution, ReadRest, Verify, Goto
  <1>11. ASSUME NEW t \in Txns, CallStep(t)
         PROVE  t \in Validations /\ Handle(t)
    BY <1>4, <1>5, <1>6, <1>9, <1>10, <1>11
    DEF CallStep, RequestStep, Commit, Handle, Approve
  <1>12. (\E t \in Txns : CallStep(t)) \/ \E e \in Executions : CloseAbandoned(e)
    BY <1>2, <1>9 DEF Next, PaymentMade, vars
  <1>. QED
    BY <1>7, <1>8, <1>11, <1>12

\* Both take the row of the agent, which the transaction about to commit has locked.
LEMMA CheckedKept ==
    ASSUME Reconciling, Checked, [Next]_vars
    PROVE  Checked'
  <1>. SUFFICES ASSUME NEW v \in Validations, stage'[v] = "commit"
                PROVE  StillValid(Subject[v])'
    BY DEF Checked
  <1>. DEFINE e == Subject[v]
  <1>0. /\ CallsTyped /\ v \in Txns /\ e \in Executions
        /\ v \notin Requests /\ v \notin Approvals
    BY TypeParts, SubjectAssumption, TxnsAssumption DEF Reconciling
  <1>1. stage[v] = "commit" \/ (Check(v) /\ Valid(e))
    <2>1. CASE CallStep(v) \/ Validate(v) \/ Ask(v)
      BY <1>0, <2>1, StagesOf
    <2>2. ASSUME NEW t \in Txns \ {v}, CallStep(t) \/ Validate(t) \/ Ask(t)
          PROVE  stage'[v] = stage[v]
      BY <1>0, <2>2, OthersStay
    <2>3. ASSUME \/ \E c \in Executions : CloseAbandoned(c) \/ PaymentMade(c)
                 \/ UNCHANGED vars
          PROVE  stage' = stage
      BY <2>3 DEF CloseAbandoned, PaymentMade, vars, callVars
    <2>. QED
      BY <1>0, <2>1, <2>2, <2>3 DEF Next
  <1>2. exec'[e].status = "running" /\ cart'[e] = "approved"
    <2>1. exec'[e].status = "running"
      BY ValidationsKept DEF ValidationsFit
    <2>. QED
      BY <1>0, <2>1, RowsKept DEF RowsAgree, Agrees
  <1>3. usable'[CardOf[e]]
    BY <1>1, UsableStays DEF Checked, StillValid, Valid
  <1>4. ASSUME ServesOneAgent(e), NEW d \in Siblings(e), exec'[d].status \in Unresolved
        PROVE  FALSE
    <2>0. d \in Executions /\ TheAgent(d) = TheAgent(e)
      BY <1>4 DEF Siblings, ServesOneAgent, TheAgent
    <2>1. exec[d].status \notin Unresolved
      BY <1>1, <1>4 DEF Checked, StillValid, Valid, Quarantined
    <2>2. stage[v] = "commit"
      <3>1. Check(v) => exec' = exec
        <4>1. ASSUME Check(v) PROVE UNCHANGED dbVars
          BY <4>1 DEF Check, Goto
        <4>. QED
          BY <4>1 DEF dbVars
      <3>. QED
        BY <1>1, <1>4, <2>1, <3>1
    <2>3. Holds(v, TheAgent(d))
      <3>1. Plan(v)[3] = TheAgent(e) /\ locked[v] = 4
        BY <1>0, <2>2, PlansOf DEF ValidatePlan, Reconciling, ValidationsFit
      <3>. QED
        BY <2>0, <3>1 DEF Holds
    <2>4. ASSUME NEW u \in Validations, Handle(u), Subject[u] = d
          PROVE  FALSE
      <3>1. u \in Txns /\ u # v /\ Plan(u) = HandlePlan(d) /\ locked[u] = Len(Plan(u))
        BY <2>2, <2>4, PlansOf DEF Handle, AllLocked
      <3>2. Holds(u, TheAgent(d))
        BY <3>1 DEF Holds, HandlePlan
      <3>. QED
        BY <1>0, <2>3, <3>1, <3>2 DEF Reconciling, Exclusive
    <2>5. ~CloseAbandoned(d)
      BY <1>0, <2>2, <2>3 DEF CloseAbandoned, OwnsAgent
    <2>. QED
      BY <1>4, <2>0, <2>1, <2>4, <2>5, UnresolvedBy
  <1>. QED
    BY <1>2, <1>3, <1>4 DEF StillValid, Quarantined, ServesOneAgent, Siblings

\* Every call that changes the rows makes one transaction of the repository.
LEMMA StepIsTransaction ==
    ASSUME Reconciling, Coded, Looked, Checked, [Next]_vars
    PROVE  UNCHANGED dbVars \/ \E e \in Executions : Transaction(e)
  <1>0. DbTypeOK /\ \A t \in Txns : Subject[t] \in Executions
    BY SubjectAssumption DEF Reconciling, TypeOK
  <1>1. ASSUME NEW r \in Requests, Apply(r)
        PROVE  UNCHANGED dbVars \/ Transaction(Subject[r])
    <2>. DEFINE e == Subject[r]
    <2>1. CASE UNCHANGED dbVars
      BY <2>1
    <2>2. CASE Loaded(e, exec[e].status) = "candidate" /\ PurchaseIsNew(e) /\ RecordPurchase(e)
      <3>1. /\ exec[e].status = "outcome_unknown" /\ CardOf[e] \in HostedCards
            /\ exec[e].submitted /\ cart[e] = "approved" /\ events[e] = <<"outcome_unknown">>
        BY <2>2 DEF Loaded
      <3>2. ReferenceOf[e] \in paid
        BY <1>1 DEF Apply, AllLocked, Locking, Reconciling, RequestsFit
      <3>3. exec[e].error = "payment_outcome_unknown"
        BY <1>0, <3>1 DEF Coded
      <3>. QED
        BY <2>2, <3>1, <3>2, <3>3 DEF Transaction, ReconcileHostedSucceeded
    <2>. QED
      BY <1>1, <2>1, <2>2 DEF Apply
  <1>2. ASSUME NEW v \in Validations, Commit(v)
        PROVE  UNCHANGED dbVars \/ Transaction(Subject[v])
    <2>1. StillValid(Subject[v])
      BY <1>2 DEF Commit, Checked
    <2>2. exec[Subject[v]].submitted => ReferenceOf[Subject[v]] \in paid
      BY <1>2 DEF Commit, Reconciling, ValidationsFit
    <2>. QED
      BY <1>2, <2>1, <2>2 DEF Commit, Transaction
  <1>3. ASSUME NEW v \in Validations, Handle(v)
        PROVE  Transaction(Subject[v])
    BY <1>3 DEF Handle, Transaction
  <1>4. ASSUME NEW a \in Approvals, Approve(a)
        PROVE  UNCHANGED dbVars \/ Transaction(Subject[a])
    <2>1. CASE AllLocked(a) /\ Insert(Subject[a])
      <3>1. locked[a] = 3
        BY <2>1, PlanLengths DEF AllLocked
      <3>2. cart[Subject[a]] = "proposed" /\ usable[CardOf[Subject[a]]]
        BY <3>1 DEF Reconciling, ApprovalsFit, Looked
      <3>3. exec[Subject[a]].status = "absent"
        <4>1. exec[Subject[a]].status \in Status /\ Agrees(Subject[a])
          BY <1>0 DEF DbTypeOK, Row, Reconciling, RowsAgree
        <4>. QED
          BY <3>2, <4>1 DEF Agrees
      <3>4. exec[Subject[a]] = NoRow
        BY <1>0, <3>3 DEF Coded
      <3>. QED
        BY <2>1, <3>2, <3>4 DEF Transaction
    <2>. QED
      BY <1>4, <2>1 DEF Approve
  <1>5. ASSUME NEW e \in Executions, CloseAbandoned(e) \/ PaymentMade(e)
        PROVE  UNCHANGED dbVars \/ Transaction(e)
    BY <1>5 DEF CloseAbandoned, PaymentMade, Transaction
  <1>6. ASSUME NEW r \in Requests, ReadExecution(r) \/ ReadRest(r) \/ Verify(r)
        PROVE  UNCHANGED dbVars
    BY <1>6 DEF ReadExecution, ReadRest, Verify, Goto
  <1>7. ASSUME NEW t \in Txns, Check(t) \/ Lock(t) \/ Abort(t) \/ Validate(t) \/ Ask(t)
        PROVE  UNCHANGED dbVars
    BY <1>7 DEF Check, Lock, Abort, Validate, Ask, Goto
  <1>8. ASSUME NEW t \in Txns, CallStep(t)
        PROVE  UNCHANGED dbVars \/ \E e \in Executions : Transaction(e)
    <2>1. ASSUME NEW c \in Executions, Transaction(c)
          PROVE  \E e \in Executions : Transaction(e)
      BY <2>1
    <2>. QED
      BY <1>0, <1>1, <1>2, <1>3, <1>4, <1>6, <1>7, <1>8, <2>1
      DEF CallStep, RequestStep, Commit, Handle, Approve
  <1>. QED
    BY <1>5, <1>7, <1>8 DEF Next, vars

\* Whatever locks a call took in which order, and however old its proof, what it
\* commits is one transaction of the repository whose conditions hold then; that no
\* other checkout of the card is unresolved, only where they are all one agent's.
THEOREM RowsMoveByTransactions == Spec => KeepsRepository
  <1>1. Init => Coded /\ Looked /\ Checked
    <2>1. ASSUME Init, NEW e \in Executions
          PROVE  /\ exec[e].status = "outcome_unknown" => exec[e].error = "payment_outcome_unknown"
                 /\ exec[e].status = "absent" => exec[e] = NoRow
      <3>1. exec[e] = NoRow \/ exec[e] = UnknownRow \/ exec[e] \in RunningRows
        BY <2>1 DEF Init
      <3>2. NoRow.status = "absent" /\ UnknownRow.status = "outcome_unknown"
              /\ UnknownRow.error = "payment_outcome_unknown"
        BY DEF NoRow, UnknownRow
      <3>3. exec[e] \in RunningRows => exec[e].status = "running"
        BY DEF RunningRows
      <3>. HIDE DEF NoRow, UnknownRow, RunningRows
      <3>. QED
        BY <3>1, <3>2, <3>3
    <2>2. ASSUME Init PROVE Coded
      BY <2>1, <2>2 DEF Coded
    <2>. QED
      BY <2>2 DEF Init, Looked, Checked
  <1>2. Reconciling /\ Coded /\ Looked /\ Checked /\ [Next]_vars =>
           Coded' /\ Looked' /\ Checked'
    BY CodedKept, LookedKept, CheckedKept
  <1>3. Reconciling /\ Coded /\ Looked /\ Checked /\ [Next]_vars =>
           [\E e \in Executions : Transaction(e)]_dbVars
    BY StepIsTransaction
  <1>. QED
    BY <1>1, <1>2, <1>3, ReconcilingInductive, PTL DEF Spec, KeepsRepository
=============================================================================
