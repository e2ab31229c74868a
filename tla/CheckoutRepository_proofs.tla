---------------------- MODULE CheckoutRepository_proofs ----------------------
(***************************************************************************)
(* Lemmas about the transactions of CheckoutRepository: the types they     *)
(* keep, the row they change and what they write beside it.                *)
(***************************************************************************)
EXTENDS CheckoutRepository, FiniteSetTheorems, SequenceTheorems, TLAPS

USE DEF Terminal, Unresolved, Status, Leases, ErrorCodes

-----------------------------------------------------------------------------
(* The transactions of the repository, as steps on well-typed rows. *)

LEMMA RowEdits ==
    ASSUME NEW row \in Row
    PROVE  /\ \A lease \in Leases : [row EXCEPT !.lease = lease] \in Row
           /\ [row EXCEPT !.submitted = TRUE] \in Row
  BY DEF Row

LEMMA EditTyped ==
    ASSUME exec \in [Executions -> Row], NEW e \in Executions,
           \/ \E lease \in Leases : exec' = [exec EXCEPT ![e].lease = lease]
           \/ exec' = [exec EXCEPT ![e].submitted = TRUE]
    PROVE  exec' \in [Executions -> Row]
  <1>1. exec[e] \in Row
    OBVIOUS
  <1>. QED
    BY <1>1, RowEdits

LEMMA WriteRowTyped ==
    ASSUME DbTypeOK, NEW e \in Executions, NEW row \in Row, row.status # "absent",
           WriteRow(e, row)
    PROVE  /\ exec' \in [Executions -> Row]
           /\ timeline' \in [Executions -> Seq(Status \ {"absent"})]
  <1>1. row.status \in Status \ {"absent"}
    BY DEF Row
  <1>2. Append(timeline[e], row.status) \in Seq(Status \ {"absent"})
    BY <1>1 DEF DbTypeOK
  <1>. QED
    BY <1>2 DEF WriteRow, DbTypeOK

LEMMA SetTerminalTyped ==
    ASSUME DbTypeOK, NEW e \in Executions, NEW status \in Terminal,
           NEW code \in ErrorCodes, SetTerminal(e, status, code)
    PROVE  DbTypeOK'
  <1>. DEFINE row == [exec[e] EXCEPT !.status = status, !.lease = "none", !.error = code]
  <1>0. exec[e] \in Row
    BY DEF DbTypeOK
  <1>1. row \in Row /\ row.status # "absent"
    BY <1>0 DEF Row
  <1>2. WriteRow(e, row)
    BY DEF SetTerminal
  <1>3. /\ exec' \in [Executions -> Row]
        /\ timeline' \in [Executions -> Seq(Status \ {"absent"})]
    BY <1>1, <1>2, WriteRowTyped
  <1>4. Append(events[e], status) \in Seq(Terminal)
    BY DEF DbTypeOK
  <1>. QED
    BY <1>3, <1>4 DEF DbTypeOK, SetTerminal

LEMMA RecordPurchaseTyped ==
    ASSUME DbTypeOK, NEW e \in Executions, RecordPurchase(e)
    PROVE  DbTypeOK'
  <1>. DEFINE row == [exec[e] EXCEPT !.status = "succeeded", !.lease = "none",
                                     !.error = "none"]
  <1>0. exec[e] \in Row
    BY DEF DbTypeOK
  <1>1. row \in Row /\ row.status # "absent"
    BY <1>0 DEF Row
  <1>2. WriteRow(e, row)
    BY DEF RecordPurchase
  <1>3. /\ exec' \in [Executions -> Row]
        /\ timeline' \in [Executions -> Seq(Status \ {"absent"})]
    BY <1>1, <1>2, WriteRowTyped
  <1>4. Append(events[e], "succeeded") \in Seq(Terminal)
    BY DEF DbTypeOK
  <1>5. [execution |-> e, reference |-> ReferenceOf[e]] \in Purchases
    BY ReferencesAssumption DEF Purchases
  <1>. QED
    BY <1>3, <1>4, <1>5 DEF DbTypeOK, RecordPurchase

LEMMA QueueTyped ==
    ASSUME DbTypeOK, NEW e \in Executions, QueueCheckoutExecution(e)
    PROVE  DbTypeOK'
  <1>. DEFINE row == [NoRow EXCEPT !.status = "queued"]
  <1>0. NoRow \in Row
    BY MaxAttemptsAssumption DEF NoRow, Row
  <1>1. row \in Row /\ row.status # "absent"
    BY <1>0 DEF Row
  <1>2. /\ exec' \in [Executions -> Row]
        /\ timeline' \in [Executions -> Seq(Status \ {"absent"})]
    BY <1>1, WriteRowTyped DEF QueueCheckoutExecution
  <1>. QED
    BY <1>2 DEF DbTypeOK, QueueCheckoutExecution

LEMMA ClaimTyped ==
    ASSUME DbTypeOK, NEW e \in Executions,
           ClaimSubmitted(e) \/ ClaimExhausted(e) \/ ClaimAttempt(e)
    PROVE  DbTypeOK'
  <1>1. CASE ClaimSubmitted(e)
    BY <1>1, SetTerminalTyped DEF ClaimSubmitted
  <1>2. CASE ClaimExhausted(e)
    BY <1>2, SetTerminalTyped DEF ClaimExhausted
  <1>3. CASE ClaimAttempt(e)
    <2>. DEFINE row == [exec[e] EXCEPT !.status = "running", !.attempts = @ + 1,
                                       !.lease = "live", !.error = "none"]
    <2>1. exec[e].attempts + 1 \in 0..MaxAttempts
      BY <1>3, MaxAttemptsAssumption DEF ClaimAttempt, DbTypeOK, Row
    <2>r. exec[e] \in Row
      BY DEF DbTypeOK
    <2>2. row \in Row /\ row.status # "absent"
      BY <2>1, <2>r DEF Row
    <2>3. /\ exec' \in [Executions -> Row]
          /\ timeline' \in [Executions -> Seq(Status \ {"absent"})]
      BY <1>3, <2>2, WriteRowTyped DEF ClaimAttempt
    <2>. QED
      BY <1>3, <2>3 DEF DbTypeOK, ClaimAttempt
  <1>. QED
    BY <1>1, <1>2, <1>3

LEMMA RetryOrFailTyped ==
    ASSUME DbTypeOK, NEW e \in Executions, NEW retryable \in BOOLEAN,
           RetryOrFail(e, retryable)
    PROVE  DbTypeOK'
  <1>. DEFINE code == IF retryable THEN "checkout_failed" ELSE "rejected"
              row  == [exec[e] EXCEPT !.status = "queued", !.lease = "none", !.error = code]
  <1>1. CASE UNCHANGED dbVars
    BY <1>1 DEF dbVars, DbTypeOK
  <1>2. CASE SetTerminal(e, "outcome_unknown", "payment_outcome_unknown")
    BY <1>2, SetTerminalTyped
  <1>3. CASE SetTerminal(e, "failed", code)
    BY <1>3, SetTerminalTyped
  <1>4. CASE WriteRow(e, row) /\ UNCHANGED <<cart, usable, purchases, events>>
    <2>0. exec[e] \in Row
      BY DEF DbTypeOK
    <2>1. row \in Row /\ row.status # "absent"
      BY <2>0 DEF Row
    <2>. QED
      BY <1>4, <2>1, WriteRowTyped DEF DbTypeOK
  <1>. QED
    BY <1>1, <1>2, <1>3, <1>4 DEF RetryOrFail, Requeue

LEMMA FinishTerminalTyped ==
    ASSUME DbTypeOK, NEW e \in Executions, NEW status \in Terminal,
           NEW code \in ErrorCodes, FinishTerminal(e, status, code)
    PROVE  DbTypeOK'
  BY SetTerminalTyped DEF FinishTerminal, dbVars, DbTypeOK

-----------------------------------------------------------------------------
(* What a transaction does to the rows, as far as safety can tell. *)

Others(e) == \A d \in Executions \ {e} : exec'[d] = exec[d]

RowBecomes(e, status, lease) ==
    /\ exec'[e].status = status
    /\ exec'[e].lease = lease
    /\ exec'[e].submitted = exec[e].submitted
    /\ Others(e)

LEMMA SetTerminalRow ==
    ASSUME DbTypeOK, NEW e \in Executions, NEW status, NEW code,
           SetTerminal(e, status, code)
    PROVE  RowBecomes(e, status, "none") /\ UNCHANGED <<cart, purchases>>
  <1>1. exec[e] \in Row
    BY DEF DbTypeOK
  <1>2. exec' = [exec EXCEPT ![e] =
                   [exec[e] EXCEPT !.status = status, !.lease = "none", !.error = code]]
    BY DEF SetTerminal, WriteRow
  <1>3. exec'[e] = [exec[e] EXCEPT !.status = status, !.lease = "none", !.error = code]
    BY <1>2 DEF DbTypeOK
  <1>. QED
    BY <1>1, <1>2, <1>3 DEF DbTypeOK, SetTerminal, RowBecomes, Others, Row

LEMMA RecordPurchaseRow ==
    ASSUME DbTypeOK, NEW e \in Executions, RecordPurchase(e)
    PROVE  RowBecomes(e, "succeeded", "none")
  <1>1. exec[e] \in Row
    BY DEF DbTypeOK
  <1>2. exec' = [exec EXCEPT ![e] = [exec[e] EXCEPT !.status = "succeeded",
                                       !.lease = "none", !.error = "none"]]
    BY DEF RecordPurchase, WriteRow
  <1>3. exec'[e] = [exec[e] EXCEPT !.status = "succeeded", !.lease = "none",
                                   !.error = "none"]
    BY <1>2 DEF DbTypeOK
  <1>. QED
    BY <1>1, <1>2, <1>3 DEF DbTypeOK, RowBecomes, Others, Row

LEMMA ClaimAttemptRow ==
    ASSUME DbTypeOK, NEW e \in Executions, ClaimAttempt(e)
    PROVE  RowBecomes(e, "running", "live") /\ UNCHANGED <<cart, purchases>>
  <1>1. exec[e] \in Row
    BY DEF DbTypeOK
  <1>2. exec' = [exec EXCEPT ![e] = [exec[e] EXCEPT !.status = "running",
                   !.attempts = @ + 1, !.lease = "live", !.error = "none"]]
    BY DEF ClaimAttempt, WriteRow
  <1>3. exec'[e] = [exec[e] EXCEPT !.status = "running", !.attempts = @ + 1,
                                   !.lease = "live", !.error = "none"]
    BY <1>2 DEF DbTypeOK
  <1>. QED
    BY <1>1, <1>2, <1>3 DEF DbTypeOK, ClaimAttempt, RowBecomes, Others, Row

LEMMA RequeueRow ==
    ASSUME DbTypeOK, NEW e \in Executions, NEW code,
           WriteRow(e, [exec[e] EXCEPT !.status = "queued", !.lease = "none", !.error = code])
    PROVE  RowBecomes(e, "queued", "none")
  <1>1. exec[e] \in Row
    BY DEF DbTypeOK
  <1>2. exec'[e] = [exec[e] EXCEPT !.status = "queued", !.lease = "none", !.error = code]
    BY DEF WriteRow, DbTypeOK
  <1>. QED
    BY <1>1, <1>2 DEF DbTypeOK, WriteRow, RowBecomes, Others, Row

LEMMA QueueRow ==
    ASSUME DbTypeOK, NEW e \in Executions, QueueCheckoutExecution(e)
    PROVE  /\ exec'[e].status = "queued" /\ exec'[e].lease = "none"
           /\ ~exec'[e].submitted /\ Others(e)
  <1>1. NoRow \in Row /\ ~NoRow.submitted /\ NoRow.lease = "none"
    BY MaxAttemptsAssumption DEF NoRow, Row
  <1>2. exec'[e] = [NoRow EXCEPT !.status = "queued"]
    BY DEF QueueCheckoutExecution, WriteRow, DbTypeOK
  <1>. QED
    BY <1>1, <1>2 DEF DbTypeOK, QueueCheckoutExecution, WriteRow, Others, Row

LEMMA LeaseRow ==
    ASSUME DbTypeOK, NEW e \in Executions, NEW lease,
           exec' = [exec EXCEPT ![e].lease = lease]
    PROVE  RowBecomes(e, exec[e].status, lease)
  <1>1. exec[e] \in Row /\ exec'[e] = [exec[e] EXCEPT !.lease = lease]
    BY DEF DbTypeOK
  <1>. QED
    BY <1>1 DEF DbTypeOK, RowBecomes, Others, Row

LEMMA MarkSubmittedRow ==
    ASSUME DbTypeOK, NEW e \in Executions, MarkSubmitted(e)
    PROVE  /\ exec'[e].status = "running" /\ exec'[e].lease = exec[e].lease
           /\ exec'[e].submitted /\ Others(e)
  <1>1. exec[e] \in Row /\ exec'[e] = [exec[e] EXCEPT !.submitted = TRUE]
    BY DEF DbTypeOK, MarkSubmitted
  <1>. QED
    BY <1>1 DEF DbTypeOK, MarkSubmitted, Valid, Others, Row

-----------------------------------------------------------------------------
(* What is written beside the rows: purchases, events and the timeline.    *)

\* The codes a transaction may leave: a transient error fails a row for good
\* only when its attempts are used up, an unknown outcome is called by its name.
CodeFits(e, status, code) ==
    /\ (status = "failed" /\ code = "checkout_failed") => exec[e].attempts = MaxAttempts
    /\ status = "outcome_unknown" => code = "payment_outcome_unknown"

\* A transaction that writes to the timeline, and what it found.
Writes(e) ==
    \/ QueueCheckoutExecution(e)
    \/ ClaimAttempt(e)
    \/ \E code \in ErrorCodes : exec[e].status \notin Terminal /\ Requeue(e, code)
    \/ \E status \in Terminal \ {"succeeded"}, code \in ErrorCodes :
          /\ exec[e].status \notin Terminal
          /\ CodeFits(e, status, code)
          /\ SetTerminal(e, status, code)
    \/ /\ \/ exec[e].status \notin Terminal
          \/ exec[e].status = "outcome_unknown" /\ events[e] = <<"outcome_unknown">>
       /\ PurchaseIsNew(e)
       /\ RecordPurchase(e)

\* A step that writes no timeline leaves all but the lease and the submission.
NothingWritten ==
    /\ UNCHANGED <<purchases, events, timeline>>
    /\ \A e \in Executions :
          /\ exec'[e].status = exec[e].status
          /\ exec'[e].attempts = exec[e].attempts
          /\ exec'[e].error = exec[e].error

Written == NothingWritten \/ \E e \in Executions : Writes(e)

LEMMA NothingInDb == UNCHANGED dbVars => NothingWritten
  BY DEF dbVars, NothingWritten

LEMMA NothingInLease ==
    ASSUME DbTypeOK, NEW e \in Executions, UNCHANGED <<purchases, events, timeline>>,
           \/ \E lease \in Leases : exec' = [exec EXCEPT ![e].lease = lease]
           \/ exec' = [exec EXCEPT ![e].submitted = TRUE]
    PROVE  NothingWritten
  <1>1. exec[e] \in Row
    BY DEF DbTypeOK
  <1>2. \A d \in Executions \ {e} : exec'[d] = exec[d]
    BY DEF DbTypeOK
  <1>3. \/ \E lease \in Leases : exec'[e] = [exec[e] EXCEPT !.lease = lease]
        \/ exec'[e] = [exec[e] EXCEPT !.submitted = TRUE]
    BY DEF DbTypeOK
  <1>. QED
    BY <1>1, <1>2, <1>3 DEF NothingWritten, Row

LEMMA WrittenRetryOrFail ==
    ASSUME DbTypeOK, NEW e \in Executions, NEW retryable \in BOOLEAN,
           RetryOrFail(e, retryable)
    PROVE  Written
  <1>. DEFINE code == IF retryable THEN "checkout_failed" ELSE "rejected"
  <1>1. exec[e].attempts \in 0..MaxAttempts
    BY DEF DbTypeOK, Row
  <1>2. CASE UNCHANGED dbVars
    BY <1>2, NothingInDb DEF Written
  <1>3. CASE /\ exec[e].status \notin Terminal
             /\ SetTerminal(e, "outcome_unknown", "payment_outcome_unknown")
    BY <1>3 DEF Written, Writes, CodeFits
  <1>4. CASE exec[e].status \notin Terminal /\ Requeue(e, code)
    BY <1>4 DEF Written, Writes
  <1>5. CASE /\ exec[e].status \notin Terminal
             /\ ~(retryable /\ exec[e].attempts < MaxAttempts)
             /\ SetTerminal(e, "failed", code)
    <2>1. CodeFits(e, "failed", code)
      BY <1>1, <1>5, MaxAttemptsAssumption DEF CodeFits
    <2>. QED
      BY <1>5, <2>1 DEF Written, Writes
  <1>. QED
    BY <1>2, <1>3, <1>4, <1>5 DEF RetryOrFail

LEMMA WrittenFinishTerminal ==
    ASSUME NEW e \in Executions, NEW status \in Terminal \ {"succeeded"},
           NEW code \in ErrorCodes \ {"checkout_failed"}, FinishTerminal(e, status, code),
           status = "outcome_unknown" => code = "payment_outcome_unknown"
    PROVE  Written
  <1>1. CASE UNCHANGED dbVars
    BY <1>1, NothingInDb DEF Written
  <1>2. CASE exec[e].status \notin Terminal /\ SetTerminal(e, status, code)
    BY <1>2 DEF Written, Writes, CodeFits
  <1>. QED
    BY <1>1, <1>2 DEF FinishTerminal

-----------------------------------------------------------------------------
(* What holds of one execution when a transaction has written it. *)

Entered(e) ==
    /\ \A d \in Executions \ {e} :
          /\ exec'[d] = exec[d]
          /\ events'[d] = events[d]
          /\ timeline'[d] = timeline[d]
    /\ exec'[e] \in Row
    /\ timeline'[e] = Append(timeline[e], exec'[e].status)
    /\ \/ exec'[e].status \notin Terminal /\ events'[e] = events[e]
       \/ exec'[e].status \in Terminal /\ events'[e] = Append(events[e], exec'[e].status)
    /\ \/ exec[e].status = "absent" /\ exec'[e].attempts = 0 /\ exec'[e].status = "queued"
       \/ exec[e].status # "absent" /\ exec'[e].status = "running" 
                   /\ exec'[e].attempts = exec[e].attempts + 1
       \/ exec'[e].status \notin {"absent", "running"} /\ exec'[e].attempts = exec[e].attempts
    /\ \/ exec[e].status \notin Terminal
       \/ /\ exec[e].status = "outcome_unknown"
          /\ events[e] = <<"outcome_unknown">>
          /\ exec'[e].status = "succeeded"
    /\ (exec'[e].status = "failed" /\ exec'[e].error = "checkout_failed")
          => exec'[e].attempts = MaxAttempts
    /\ exec'[e].status = "outcome_unknown" => exec'[e].error = "payment_outcome_unknown"

LEMMA WriteRowEnters ==
    ASSUME DbTypeOK, NEW e \in Executions, NEW row, WriteRow(e, row)
    PROVE  /\ exec'[e] = row
           /\ timeline'[e] = Append(timeline[e], row.status)
           /\ \A d \in Executions \ {e} : exec'[d] = exec[d] /\ timeline'[d] = timeline[d]
  BY DEF DbTypeOK, WriteRow

LEMMA QueueEnters ==
    ASSUME DbTypeOK, NEW e \in Executions, QueueCheckoutExecution(e)
    PROVE  Entered(e)
  <1>. DEFINE row == [NoRow EXCEPT !.status = "queued"]
  <1>1. NoRow \in Row /\ NoRow.attempts = 0
    BY MaxAttemptsAssumption DEF NoRow, Row
  <1>2. row \in Row /\ row.attempts = 0 /\ row.status = "queued"
    BY <1>1 DEF Row
  <1>3. WriteRow(e, row)
    BY DEF QueueCheckoutExecution
  <1>. HIDE DEF row
  <1>. QED
    BY <1>2, <1>3, WriteRowEnters DEF QueueCheckoutExecution, Entered

LEMMA ClaimEnters ==
    ASSUME DbTypeOK, NEW e \in Executions, ClaimAttempt(e)
    PROVE  Entered(e)
  <1>. DEFINE row == [exec[e] EXCEPT !.status = "running", !.attempts = @ + 1,
                                     !.lease = "live", !.error = "none"]
  <1>1. exec[e] \in Row
    BY DEF DbTypeOK
  <1>2. exec[e].attempts + 1 \in 0..MaxAttempts
    BY <1>1, MaxAttemptsAssumption DEF ClaimAttempt, Row
  <1>3. /\ row \in Row /\ row.status = "running"
        /\ row.attempts = exec[e].attempts + 1
    BY <1>1, <1>2 DEF Row
  <1>4. WriteRow(e, row) /\ exec[e].status \in {"queued", "running"} /\ events' = events
    BY DEF ClaimAttempt, Claimable
  <1>. HIDE DEF row
  <1>. QED
    BY <1>3, <1>4, WriteRowEnters DEF Entered

LEMMA RequeueEnters ==
    ASSUME DbTypeOK, NEW e \in Executions, NEW code \in ErrorCodes,
           exec[e].status \notin Terminal, Requeue(e, code)
    PROVE  Entered(e)
  <1>. DEFINE row == [exec[e] EXCEPT !.status = "queued", !.lease = "none", !.error = code]
  <1>1. exec[e] \in Row
    BY DEF DbTypeOK
  <1>2. row \in Row /\ row.status = "queued" /\ row.attempts = exec[e].attempts
    BY <1>1 DEF Row
  <1>3. WriteRow(e, row) /\ events' = events
    BY DEF Requeue
  <1>. HIDE DEF row
  <1>. QED
    BY <1>2, <1>3, WriteRowEnters DEF Entered

LEMMA TerminalEnters ==
    ASSUME DbTypeOK, NEW e \in Executions, NEW status \in Terminal \ {"succeeded"},
           NEW code \in ErrorCodes, exec[e].status \notin Terminal,
           CodeFits(e, status, code), SetTerminal(e, status, code)
    PROVE  Entered(e)
  <1>. DEFINE row == [exec[e] EXCEPT !.status = status, !.lease = "none", !.error = code]
  <1>1. exec[e] \in Row
    BY DEF DbTypeOK
  <1>2. /\ row \in Row /\ row.status = status /\ row.error = code
        /\ row.attempts = exec[e].attempts
    BY <1>1 DEF Row
  <1>3. WriteRow(e, row) /\ events' = [events EXCEPT ![e] = Append(@, status)]
    BY DEF SetTerminal
  <1>4. /\ events'[e] = Append(events[e], status)
        /\ \A d \in Executions \ {e} : events'[d] = events[d]
    BY <1>3 DEF DbTypeOK
  <1>. HIDE DEF row
  <1>. QED
    BY <1>2, <1>3, <1>4, WriteRowEnters DEF Entered, CodeFits

LEMMA PurchaseEnters ==
    ASSUME DbTypeOK, NEW e \in Executions, RecordPurchase(e),
           \/ exec[e].status \notin Terminal
           \/ exec[e].status = "outcome_unknown" /\ events[e] = <<"outcome_unknown">>
    PROVE  Entered(e)
  <1>. DEFINE row == [exec[e] EXCEPT !.status = "succeeded", !.lease = "none",
                                     !.error = "none"]
  <1>1. exec[e] \in Row
    BY DEF DbTypeOK
  <1>2. /\ row \in Row /\ row.status = "succeeded" /\ row.attempts = exec[e].attempts
    BY <1>1 DEF Row
  <1>3. WriteRow(e, row) /\ events' = [events EXCEPT ![e] = Append(@, "succeeded")]
    BY DEF RecordPurchase
  <1>4. /\ events'[e] = Append(events[e], "succeeded")
        /\ \A d \in Executions \ {e} : events'[d] = events[d]
    BY <1>3 DEF DbTypeOK
  <1>. HIDE DEF row
  <1>. QED
    BY <1>2, <1>3, <1>4, WriteRowEnters DEF Entered

LEMMA WritesEnter ==
    ASSUME DbTypeOK, NEW e \in Executions, Writes(e)
    PROVE  Entered(e)
  BY QueueEnters, ClaimEnters, RequeueEnters, TerminalEnters, PurchaseEnters DEF Writes

-----------------------------------------------------------------------------
(* Sequences that a transaction appends to.                                *)

LEMMA PairIsAppended ==
    ASSUME NEW x, NEW y, NEW s, s = <<x>>
    PROVE  Append(s, y) = <<x, y>>
  <1>1. s \in Seq({x, y}) /\ Len(s) = 1 /\ s[1] = x
    OBVIOUS
  <1>2. /\ Append(s, y) \in Seq({x, y}) /\ Len(Append(s, y)) = 2
        /\ Append(s, y)[1] = x /\ Append(s, y)[2] = y
    BY <1>1
  <1>3. /\ <<x, y>> \in Seq({x, y}) /\ Len(<<x, y>>) = 2
        /\ <<x, y>>[1] = x /\ <<x, y>>[2] = y
    OBVIOUS
  <1>4. \A i \in 1..2 : i = 1 \/ i = 2
    OBVIOUS
  <1>. QED
    BY <1>2, <1>3, <1>4, SeqEqual

\* Appending to a sequence adds one index, which counts if it is "running".
RunningAt(line) == {i \in 1..Len(line) : line[i] = "running"}

LEMMA CountOfAppend ==
    ASSUME NEW S, NEW s \in Seq(S), NEW x \in S
    PROVE  /\ Cardinality(RunningAt(s)) \in Nat
           /\ x = "running" =>
                Cardinality(RunningAt(Append(s, x))) = Cardinality(RunningAt(s)) + 1
           /\ x # "running" =>
                Cardinality(RunningAt(Append(s, x))) = Cardinality(RunningAt(s))
  <1>. DEFINE last == Len(s) + 1
  <1>1. Len(s) \in Nat /\ Len(Append(s, x)) = last
    OBVIOUS
  <1>2. Append(s, x)[last] = x /\ \A i \in 1..Len(s) : Append(s, x)[i] = s[i]
    OBVIOUS
  <1>3. IsFiniteSet(RunningAt(s))
    <2>1. IsFiniteSet(1..Len(s))
      BY <1>1, FS_Interval
    <2>2. RunningAt(s) \in SUBSET (1..Len(s))
      BY DEF RunningAt
    <2>. QED
      BY <2>1, <2>2, FS_Subset
  <1>4. Cardinality(RunningAt(s)) \in Nat
    BY <1>3, FS_CardinalityType
  <1>5. ASSUME x = "running"
        PROVE  Cardinality(RunningAt(Append(s, x))) = Cardinality(RunningAt(s)) + 1
    <2>1. RunningAt(Append(s, x)) = RunningAt(s) \cup {last}
      BY <1>1, <1>2, <1>5 DEF RunningAt
    <2>2. last \notin RunningAt(s)
      BY <1>1 DEF RunningAt
    <2>. HIDE DEF last
    <2>. QED
      BY <1>3, <2>1, <2>2, FS_AddElement
  <1>6. ASSUME x # "running"
        PROVE  RunningAt(Append(s, x)) = RunningAt(s)
    BY <1>1, <1>2, <1>6 DEF RunningAt
  <1>. QED
    BY <1>4, <1>5, <1>6
=============================================================================
