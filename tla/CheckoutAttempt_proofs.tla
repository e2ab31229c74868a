----------------------- MODULE CheckoutAttempt_proofs -----------------------
(***************************************************************************)
(* Proofs about CheckoutAttempt: its steps are steps of CheckoutWorker,    *)
(* card data goes to payment origins only, and one spend request pays.     *)
(***************************************************************************)
EXTENDS CheckoutAttempt, CheckoutWorker_proofs

USE DEF GoWith, RaiseOutside, Finish, FillStep, FillFrame, Filling

-----------------------------------------------------------------------------
(* The steps of an attempt are steps of CheckoutWorker's worker, but for the *)
(* verdict on an authorization, which has to be shown sound.                 *)

LEMMA GiveUpFails ==
    ASSUME NEW w \in Workers, At(w, "browse"), NEW error \in Errors, GiveUp(w, error)
    PROVE  FailBeforeSubmission(w)
  BY DEF GiveUp, FailBeforeSubmission, At, Errors

LEMMA AskLinkRefines ==
    ASSUME NEW w \in Workers, AskLink(w)
    PROVE  FailBeforeSubmission(w) \/ UNCHANGED vars
  <1>1. At(w, "browse")
    BY DEF AskLink, Look, Create, RequestApproval, Record, WaitForApproval, LinkFails, Asking
  <1>2. (\E error \in Errors : GiveUp(w, error)) \/ UNCHANGED vars
    BY DEF AskLink, Look, Create, RequestApproval, Record, WaitForApproval, LinkFails,
           Errors, vars
  <1>. QED
    BY <1>1, <1>2, GiveUpFails

LEMMA BrowseRefines ==
    ASSUME NEW w \in Workers, Browse(w) \/ Snapshot(w) \/ Load(w)
    PROVE  UNCHANGED vars
  BY DEF Browse, Snapshot, Load, StartSession, OpenPage, VerifyCart, MapForm, ResolveControls,
         Preflight, FreezeForm, LoadCard, Recheck, RefreshControls, BrowserStep, vars

LEMMA FailEarlyRefines ==
    ASSUME NEW w \in Workers, FailEarly(w)
    PROVE  FailBeforeSubmission(w)
  BY DEF FailEarly, BrowserFails, FreezeTooLate, ReportedAs, FailBeforeSubmission, At

LEMMA MarkRefines ==
    ASSUME NEW w \in Workers, Mark(w)
    PROVE  Submit(w) \/ FailBeforeSubmission(w)
  <1>1. MarkRun(w)
    BY DEF Mark
  <1>2. At(w, "browse") /\ UNCHANGED <<merchantVars, job, lock>>
    BY <1>1 DEF MarkRun
  <1>3. CASE MarkSubmitted(job[w])
    <2>1. (Goto(w, "fill") /\ UNCHANGED note) \/ \E error \in {"retryable", "fatal"} : Raise(w, error)
      BY <1>1, <1>3 DEF MarkRun, ReportedAs, MarkSubmitted
    <2>. QED
      BY <1>2, <1>3, <2>1 DEF Submit
  <1>4. CASE ~Valid(job[w]) /\ Raise(w, "fatal") /\ UNCHANGED dbVars
    BY <1>2, <1>4 DEF Submit
  <1>5. CASE /\ Valid(job[w]) /\ exec[job[w]].submitted /\ UNCHANGED dbVars
             /\ Raise(w, "fatal") \/ Raise(w, "unknown")
    BY <1>2, <1>5 DEF FailBeforeSubmission, At
  <1>. QED
    BY <1>1, <1>3, <1>4, <1>5 DEF MarkRun

LEMMA FillRefines ==
    ASSUME NEW w \in Workers, Fill(w)
    PROVE  FillAndClick(w) \/ UNCHANGED vars
  <1>1. CASE CheckField(w) \/ TypeField(w)
    BY <1>1 DEF CheckField, TypeField, vars
  <1>2. CASE ClickPay(w)
    BY <1>2 DEF ClickPay, FillAndClick, Errors
  <1>3. CASE FillFails(w)
    BY <1>3 DEF FillFails, FillAndClick, Errors, merchantVars
  <1>. QED
    BY <1>1, <1>2, <1>3 DEF Fill

LEMMA ReadResultRefines ==
    ASSUME NEW w \in Workers, ReadResult(w)
    PROVE  Observe(w) \/ UNCHANGED vars
  <1>1. At(w, "await") /\ UNCHANGED <<dbVars, merchantVars>>
    BY DEF ReadResult
  <1>2. CASE TakePageResult(w) /\ UNCHANGED <<job, lock>>
    <2>1. PICK shown \in PageShows(w) :
              Conclude(w, shown) \/ Conclude(w, "unknown")
      BY <1>2 DEF TakePageResult
    <2>2. /\ shown \in Outcomes
          /\ shown = "approved" => charge[job[w]] = "charged"
          /\ shown = "declined" => charge[job[w]] = "declined"
      BY <2>1 DEF PageShows, HostedShows, MarkersShow, Outcomes
    <2>. QED
      BY <1>1, <1>2, <2>1, <2>2 DEF Observe, Conclude, Outcomes
  <1>3. CASE LeavePage(w)
    BY <1>1, <1>3 DEF LeavePage, Observe, Conclude, Outcomes, Errors, vars
  <1>4. CASE ResultFails(w) /\ UNCHANGED <<job, lock>>
    BY <1>1, <1>4 DEF ResultFails, Observe, Conclude, Outcomes, Errors
  <1>. QED
    BY <1>2, <1>3, <1>4 DEF ReadResult

LEMMA VerifyIntentRefines ==
    ASSUME TypedWorkers, NEW w \in Workers, VerifyIntent(w)
    PROVE  Observe(w)
  <1>1. charge[job[w]] \in {"none", "charged", "declined"}
    BY DEF TypedWorkers, TypeOK, WorkersBusy, VerifyIntent, At
  <1>2. \A outcome \in IntentShows(w) :
            /\ outcome \in Outcomes
            /\ outcome = "approved" => charge[job[w]] = "charged"
            /\ outcome = "declined" => charge[job[w]] = "declined"
    BY <1>1 DEF IntentShows, Outcomes
  <1>. QED
    BY <1>2 DEF VerifyIntent, Observe, Conclude, Errors

\* Evidence that a rail reports a result on is evidence of the payment.
VerdictFits(w) ==
    /\ Verdict(w) = "approved" => charge[job[w]] = "charged"
    /\ Verdict(w) = "declined" => charge[job[w]] = "declined"

LEMMA FindAuthorizationRefines ==
    ASSUME NEW w \in Workers, FindAuthorization(w), VerdictFits(w)
    PROVE  Observe(w)
  BY DEF FindAuthorization, VerdictFits, Verdict, Observe, Conclude, Outcomes

LEMMA RowsMoveAlone ==
    ASSUME RowsMove
    PROVE  /\ UNCHANGED <<workerVars, merchantVars, attemptVars>>
           /\ Disturbance
  BY DEF RowsMove, Disturbance, Idle, Approve, LeaseExpires, Reconcile, Heartbeat, ChangeUsable,
     workerVars, merchantVars

LEMMA SurroundingsRefine ==
    ASSUME Surroundings
    PROVE  Disturbance \/ UNCHANGED vars
  <1>1. ASSUME NEW w \in Workers, Die(w) PROVE Disturbance
    BY <1>1 DEF Die, Disturbance
  <1>2. ASSUME NEW w \in Workers, PageMoves(w) PROVE UNCHANGED vars
    BY <1>2 DEF PageMoves, Reprice, Rerender, Frame, vars
  <1>3. ASSUME NEW e \in Executions, Settles(e) PROVE Disturbance
    BY <1>3 DEF Settles, Disturbance
  <1>4. ASSUME NEW c \in Cards, LockDrops(c) PROVE Disturbance
    BY <1>4 DEF Disturbance
  <1>5. CASE IssuingMoves \/ LinkMoves
    BY <1>5 DEF IssuingMoves, LinkMoves, Tick, OtherUse, LateCreate, OwnerDecides, Expires, vars
  <1>. QED
    BY <1>1, <1>2, <1>3, <1>4, <1>5, RowsMoveAlone DEF Surroundings

LEMMA AttemptRefines ==
    ASSUME TypedWorkers, AttemptNext
    PROVE  Next \/ UNCHANGED vars \/ \E w \in Workers : FindAuthorization(w)
  <1>1. ASSUME NEW w \in Workers, AttemptStep(w)
        PROVE  WorkerStep(w) \/ UNCHANGED vars \/ FindAuthorization(w)
    <2>1. CASE Begin(w) \/ Outside(w)
      BY <2>1 DEF Begin, Outside, WorkerStep
    <2>. QED
      BY <1>1, <2>1, AskLinkRefines, BrowseRefines, FailEarlyRefines, MarkRefines, FillRefines,
         ReadResultRefines, VerifyIntentRefines DEF AttemptStep, WorkerStep
  <1>. QED
    BY <1>1, SurroundingsRefine DEF AttemptNext, Next

LEMMA TypedAttempt == TypedWorkers /\ [AttemptNext]_allVars => TypedWorkers'
  <1>. SUFFICES ASSUME TypedWorkers, [AttemptNext]_allVars PROVE TypedWorkers'
    OBVIOUS
  <1>1. ASSUME NEW w \in Workers, FindAuthorization(w) PROVE TypedWorkers'
    <2>1. PICK outcome \in Outcomes : Conclude(w, outcome)
      BY <1>1 DEF FindAuthorization, Verdict, Outcomes
    <2>. QED
      BY <1>1, <2>1 DEF FindAuthorization, Conclude, Goto, At, TypedWorkers, TypeOK, DbTypeOK,
         WorkersBusy, dbVars, merchantVars, Stages, Critical
  <1>2. CASE UNCHANGED allVars
    BY <1>2, TypedNext DEF allVars
  <1>. QED
    BY <1>1, <1>2, AttemptRefines, TypedNext

-----------------------------------------------------------------------------
(* Where a worker is: its stage, the step of its browser run, and its call   *)
(* to Link.                                                                  *)

Inside == {"browse", "fill", "await"}

Everywhere == TypedWorkers /\ AttemptTypeOK

\* A worker without a run and without a call to Link.
Out(w) == step[w] = "off" /\ ask[w] = "off" /\ mine[w] = {}

\* A run, or a question to Link, is inside the attempt; Link's rails run only
\* with an approved request in hand, and ask only before the run.
Placed(w) ==
    \/ Out(w)
    \/ /\ pc[w] \in Inside
       /\ ~OnLink(w)
       /\ ask[w] = "off" /\ mine[w] = {}
    \/ /\ pc[w] = "browse"
       /\ OnLink(w)
       /\ step[w] = "off"
       /\ ask[w] \in {"look", "create"} \/ (ask[w] \in {"approve", "record", "wait"} /\ mine[w] # {})
    \/ /\ pc[w] \in Inside
       /\ OnLink(w)
       /\ ask[w] = "ready" /\ mine[w] # {}

Shape == \A w \in Workers : Placed(w)

\* The steps of one worker leave the others where they are.
Alone(w) ==
    \A v \in Workers \ {w} :
        /\ pc'[v] = pc[v] /\ job'[v] = job[v]
        /\ step'[v] = step[v] /\ ask'[v] = ask[v] /\ mine'[v] = mine[v]

LEMMA ShapeAlone ==
    ASSUME Shape, rail' = rail, NEW w \in Workers, Alone(w), Placed(w)'
    PROVE  Shape'
  BY DEF Shape, Placed, Alone, Out, OnLink, RailOf

LEMMA ShapeOut ==
    ASSUME Shape, rail' = rail, NEW w \in Workers, Alone(w), Out(w)'
    PROVE  Shape'
  BY ShapeAlone DEF Placed

\* Leaving the attempt.
LEMMA Leaving ==
    ASSUME Everywhere, Shape, NEW w \in Workers, CloseBrowser(w), StopAsking(w),
           job' = job, \E stage : Goto(w, stage)
    PROVE  Shape' /\ Alone(w) /\ Out(w)'
  <1>1. Alone(w) /\ rail' = rail
    BY DEF Everywhere, TypedWorkers, TypeOK, CloseBrowser, StopAsking, Alone, Goto
  <1>2. Out(w)'
    BY DEF Everywhere, AttemptTypeOK, BrowserTypeOK, LinkTypeOK, CloseBrowser, StopAsking, Out
  <1>. QED
    BY <1>1, <1>2, ShapeOut

LEMMA ShapeBegin ==
    ASSUME Everywhere, Shape, NEW w \in Workers, Begin(w)
    PROVE  Shape' /\ Alone(w)
  <1>1. /\ Out(w) /\ job' = job
        /\ \E stage : Goto(w, stage)
    BY DEF Begin, PrepareAgain, At, Shape, Placed, Inside, Raise
  <1>2. CASE pc'[w] # "browse"
    <2>1. UNCHANGED attemptVars
      BY <1>2 DEF Begin, Idle
    <2>2. Alone(w) /\ Out(w)' /\ rail' = rail
      BY <1>1, <2>1 DEF attemptVars, browserVars, linkVars, Alone, Goto, Everywhere,
         TypedWorkers, TypeOK, Out
    <2>. QED
      BY <2>2, ShapeOut
  <1>3. CASE pc'[w] = "browse"
    <2>1. /\ StartRun(w, IF OnLink(w) THEN "off" ELSE "session")
          /\ IF OnLink(w) THEN StartAsking(w) ELSE UNCHANGED linkVars
      BY <1>3 DEF Begin
    <2>2. Alone(w) /\ rail' = rail
      <3>1. \A v \in Workers \ {w} : pc'[v] = pc[v] /\ job'[v] = job[v] /\ step'[v] = step[v]
        BY <1>1, <2>1 DEF Goto, StartRun, Everywhere, TypedWorkers, TypeOK, AttemptTypeOK,
           BrowserTypeOK
      <3>2. \A v \in Workers \ {w} : ask'[v] = ask[v] /\ mine'[v] = mine[v]
        BY <2>1 DEF StartAsking, linkVars, Everywhere, AttemptTypeOK, LinkTypeOK
      <3>. QED
        BY <2>1, <3>1, <3>2 DEF Alone, StartRun
    <2>3. CASE OnLink(w)
      BY <1>1, <1>3, <2>1, <2>2, <2>3, ShapeAlone DEF StartRun, StartAsking, Placed, OnLink, RailOf, Inside,
         Everywhere, AttemptTypeOK, BrowserTypeOK, LinkTypeOK
    <2>4. CASE ~OnLink(w)
      BY <1>1, <1>3, <2>1, <2>2, <2>4, ShapeAlone DEF StartRun, linkVars, Placed, OnLink, RailOf, Inside, Out,
         Everywhere, AttemptTypeOK, BrowserTypeOK, LinkTypeOK
    <2>. QED
      BY <2>3, <2>4
  <1>. QED
    BY <1>2, <1>3

LEMMA ShapeOutside ==
    ASSUME Everywhere, Shape, NEW w \in Workers, Outside(w)
    PROVE  Shape' /\ Alone(w) /\ Out(w) /\ Out(w)'
  <1>. DEFINE OthersStay ==
              /\ pc[w] \notin Inside
              /\ \A v \in Workers \ {w} : pc'[v] = pc[v] /\ job'[v] = job[v]
  <1>a. pc \in [Workers -> Stages] /\ job \in [Workers -> Executions \cup {None}]
    BY DEF Everywhere, TypedWorkers, TypeOK
  <1>b. ASSUME Claim(w) PROVE OthersStay
    <2>1. pc[w] = "idle"
      BY <1>b DEF Claim, At
    <2>2. UNCHANGED workerVars \/ (Goto(w, "prepare") /\ \E e : job' = [job EXCEPT ![w] = e])
      BY <1>b DEF Claim
    <2>. QED
      BY <1>a, <2>1, <2>2 DEF workerVars, Goto, Inside
  <1>c. ASSUME Prepare(w) \/ AcquireCardLock(w) \/ (pc[w] # "browse" /\ FailBeforeSubmission(w))
        PROVE  OthersStay
    BY <1>a, <1>c DEF Prepare, AcquireCardLock, FailBeforeSubmission, At, Raise, Goto, Inside
  <1>d. ASSUME Settle(w) PROVE OthersStay
    <2>1. pc[w] = "settle" /\ job' = job /\ \E stage : Goto(w, stage)
      BY <1>d DEF Settle, At, Raise
    <2>. QED
      BY <1>a, <2>1 DEF Goto, Inside
  <1>e. ASSUME HandleError(w) \/ HandlingFails(w) PROVE OthersStay
    <2>1. pc[w] \in {"error", "again"} /\ job' = job /\ \E stage : Goto(w, stage)
      BY <1>e DEF HandleError, HandlingFails, RaiseAgain, At
    <2>. QED
      BY <1>a, <2>1 DEF Goto, Inside
  <1>f. ASSUME Release(w) PROVE OthersStay
    BY <1>a, <1>f DEF Release, LeaveClaim, At, Goto, Inside
  <1>1. OthersStay
    BY <1>b, <1>c, <1>d, <1>e, <1>f DEF Outside
  <1>2. UNCHANGED attemptVars
    BY DEF Outside, Idle
  <1>3. Out(w)
    BY <1>1 DEF Shape, Placed, Inside
  <1>4. Alone(w) /\ Out(w)' /\ rail' = rail
    BY <1>1, <1>2, <1>3 DEF attemptVars, browserVars, linkVars, Alone, Out
  <1>. QED
    BY <1>3, <1>4, ShapeOut

LEMMA ShapeAsk ==
    ASSUME Everywhere, Shape, NEW w \in Workers, AskLink(w)
    PROVE  Shape' /\ Alone(w)
  <1>1. /\ pc[w] = "browse" /\ OnLink(w) /\ step[w] = "off"
        /\ ask[w] \notin {"off", "ready"} /\ job' = job
    <2>1. pc[w] = "browse" /\ ask[w] \notin {"off", "ready"}
      BY DEF AskLink, Look, Create, RequestApproval, Record, WaitForApproval, LinkFails, Asking, At
    <2>2. job' = job
      BY DEF AskLink, Look, Create, RequestApproval, Record, WaitForApproval, LinkFails, GiveUp,
             workerVars
    <2>. QED
      BY <2>1, <2>2 DEF Shape, Placed, Out
  <1>2. CASE \E error : GiveUp(w, error)
    <2>1. ask'[w] = "off"
      BY <1>2 DEF GiveUp, StopAsking, Everywhere, AttemptTypeOK, LinkTypeOK
    <2>2. UNCHANGED browserVars
      BY <2>1 DEF AskLink
    <2>3. Alone(w) /\ rail' = rail /\ Out(w)'
      BY <1>1, <1>2, <2>2 DEF GiveUp, StopAsking, Raise, Goto, browserVars, Alone, Out,
         Everywhere, AttemptTypeOK, LinkTypeOK, TypedWorkers, TypeOK
    <2>. QED
      BY <2>3, ShapeOut
  <1>3. CASE /\ UNCHANGED workerVars
             /\ \E call \in Asks : ask' = [ask EXCEPT ![w] = call] /\ call # "off"
                                     /\ (call \in {"look", "create"} \/ mine'[w] # {})
             /\ mine' = mine \/ \E r : mine' = [mine EXCEPT ![w] = {r}]
    <2>1. IF ask'[w] = "ready" THEN StartRun(w, "session") ELSE UNCHANGED browserVars
      BY DEF AskLink
    <2>2. Alone(w) /\ rail' = rail
      BY <1>3, <2>1 DEF workerVars, Alone, StartRun, browserVars, Everywhere, AttemptTypeOK,
         LinkTypeOK, BrowserTypeOK
    <2>3. Placed(w)'
      BY <1>1, <1>3, <2>1 DEF workerVars, Placed, OnLink, RailOf, StartRun, browserVars, Inside, Asks,
         Everywhere, AttemptTypeOK, LinkTypeOK, BrowserTypeOK
    <2>. QED
      BY <2>2, <2>3, ShapeAlone
  <1>4. (ask[w] \in {"approve", "record", "wait"} => mine[w] # {})
    BY <1>1 DEF Shape, Placed, Out
  <1>5. CASE Look(w) \/ Create(w)
    <2>1. mine \in [Workers -> SUBSET Requests]
      BY DEF Everywhere, AttemptTypeOK, LinkTypeOK
    <2>2. \A r : mine' = [mine EXCEPT ![w] = {r}] => mine'[w] # {}
      BY <2>1
    <2>3. CASE Look(w)
      BY <1>2, <1>3, <2>2, <2>3 DEF Look, Asks
    <2>4. CASE Create(w)
      BY <1>2, <1>3, <2>2, <2>4 DEF Create, Asks
    <2>. QED
      BY <1>5, <2>3, <2>4
  <1>6. CASE RequestApproval(w) \/ Record(w) \/ WaitForApproval(w) \/ LinkFails(w)
    BY <1>2, <1>3, <1>4, <1>6 DEF RequestApproval, Record, WaitForApproval, LinkFails, Asks, Asking
  <1>. QED
    BY <1>5, <1>6 DEF AskLink

LEMMA ShapeBrowse ==
    ASSUME Everywhere, Shape, NEW w \in Workers, Browse(w) \/ Snapshot(w) \/ Load(w)
    PROVE  Shape' /\ Alone(w) /\ At(w, "browse") /\ step[w] # "off" /\ job' = job
  <1>1. PICK from \in Steps \ {"off"}, to \in Steps \ {"off"} : BrowserStep(w, from, to)
    BY DEF Browse, Snapshot, Load, StartSession, OpenPage, VerifyCart, MapForm, ResolveControls,
           Preflight, FreezeForm, LoadCard, Recheck, RefreshControls, Steps, Loaded
  <1>2. UNCHANGED <<ask, mine>>
    BY DEF Browse, Snapshot, Load, RetrieveCard, linkVars
  <1>3. /\ pc' = pc /\ job' = job /\ pc[w] = "browse" /\ step[w] # "off"
        /\ rail' = rail /\ step' = [step EXCEPT ![w] = to]
    BY <1>1 DEF BrowserStep, workerVars, At
  <1>4. Alone(w)
    BY <1>2, <1>3 DEF Alone, Everywhere, AttemptTypeOK, BrowserTypeOK
  <1>5. Placed(w)'
    BY <1>2, <1>3 DEF Shape, Placed, Out, OnLink, RailOf
  <1>. QED
    BY <1>3, <1>4, <1>5, ShapeAlone DEF At

LEMMA ShapeFailEarly ==
    ASSUME Everywhere, Shape, NEW w \in Workers, FailEarly(w)
    PROVE  Shape' /\ Alone(w) /\ Out(w)'
  BY Leaving DEF FailEarly, BrowserFails, FreezeTooLate, EndLink, Raise

LEMMA ShapeMark ==
    ASSUME Everywhere, Shape, NEW w \in Workers, Mark(w)
    PROVE  Shape' /\ Alone(w) /\ job' = job /\ step[w] = "mark" /\ pc[w] = "browse"
  <1>1. MarkRun(w) /\ job' = job /\ pc[w] = "browse" /\ step[w] = "mark"
    BY DEF Mark, MarkRun, At
  <1>2. CASE CloseBrowser(w) /\ \E error : Raise(w, error)
    <2>1. StopAsking(w)
      BY <1>2 DEF Mark, Raise, Goto, EndLink, Everywhere, TypedWorkers, TypeOK
    <2>. QED
      BY <1>1, <1>2, <2>1, Leaving DEF Raise
  <1>3. CASE /\ Goto(w, "fill") /\ step' = [step EXCEPT ![w] = "check"]
             /\ UNCHANGED <<rail, page, handles, form, frozen, typed>>
    <2>1. UNCHANGED linkVars
      BY <1>3 DEF Mark, Goto, Everywhere, TypedWorkers, TypeOK
    <2>2. Alone(w) /\ rail' = rail
      BY <1>1, <1>3, <2>1 DEF Alone, Goto, linkVars, Everywhere, TypedWorkers, TypeOK,
         AttemptTypeOK, BrowserTypeOK
    <2>3. Placed(w)'
      BY <1>1, <1>3, <2>1 DEF Shape, Placed, Out, OnLink, RailOf, Inside, Goto, linkVars,
         Everywhere, TypedWorkers, TypeOK, Stages
    <2>. QED
      BY <1>1, <2>2, <2>3, ShapeAlone
  <1>. QED
    BY <1>1, <1>2, <1>3 DEF MarkRun

LEMMA ShapeFill ==
    ASSUME Everywhere, Shape, NEW w \in Workers, Fill(w)
    PROVE  Shape' /\ Alone(w) /\ job' = job /\ pc[w] = "fill"
  <1>1. pc[w] = "fill" /\ job' = job /\ step[w] # "off"
    BY DEF Fill, CheckField, TypeField, ClickPay, FillFails, At, workerVars
  <1>2. CASE CloseBrowser(w) /\ \E error : Raise(w, error)
    <2>1. pc'[w] = "error"
      BY <1>2 DEF Raise, Goto, Everywhere, TypedWorkers, TypeOK
    <2>2. StopAsking(w)
      BY <2>1 DEF Fill, Abandon, Report, EndLink
    <2>. QED
      BY <1>1, <1>2, <2>2, Leaving DEF Raise
  <1>3. CASE /\ \/ UNCHANGED pc
                \/ Goto(w, "await")
             /\ \E to \in Steps \ {"off"} : step' = [step EXCEPT ![w] = to]
             /\ rail' = rail
    <2>1. pc'[w] \in {"fill", "await"}
      BY <1>1, <1>3 DEF Goto, Everywhere, TypedWorkers, TypeOK
    <2>2. UNCHANGED linkVars
      BY <2>1 DEF Fill
    <2>3. Alone(w)
      BY <1>1, <1>3, <2>2 DEF Alone, Goto, linkVars, Everywhere, TypedWorkers, TypeOK,
         AttemptTypeOK, BrowserTypeOK
    <2>4. Placed(w)'
      BY <1>1, <1>3, <2>1, <2>2 DEF Shape, Placed, Out, OnLink, RailOf, Inside, linkVars
    <2>. QED
      BY <1>1, <1>3, <2>3, <2>4, ShapeAlone
  <1>. QED
    BY <1>1, <1>2, <1>3 DEF Fill, CheckField, TypeField, ClickPay, FillFails, workerVars, Steps, Loaded

LEMMA ShapeReadResult ==
    ASSUME Everywhere, Shape, NEW w \in Workers, ReadResult(w)
    PROVE  Shape' /\ Alone(w) /\ job' = job /\ pc[w] = "await" /\ step[w] = "result"
  <1>1. /\ pc[w] = "await" /\ step[w] = "result" /\ job' = job /\ CloseBrowser(w)
        /\ UNCHANGED pc \/ \E stage : Goto(w, stage)
    BY DEF ReadResult, TakePageResult, LeavePage, ResultFails, At, workerVars, Conclude, Raise
  <1>2. CASE StopAsking(w)
    <2>1. \E stage : Goto(w, stage)
      BY <1>1 DEF Goto, Everywhere, TypedWorkers, TypeOK
    <2>. QED
      BY <1>1, <1>2, <2>1, Leaving
  <1>3. CASE LeavePage(w)
    <2>1. UNCHANGED linkVars /\ ~OnLink(w)
      BY <1>3 DEF LeavePage, OnLink, LinkRails
    <2>2. ask[w] = "off" /\ mine[w] = {}
      BY <1>1, <2>1 DEF Shape, Placed, Out
    <2>3. Alone(w) /\ rail' = rail /\ Out(w)'
      BY <1>1, <2>1, <2>2 DEF CloseBrowser, linkVars, Alone, Out, Goto, Everywhere, TypedWorkers,
         TypeOK, AttemptTypeOK, BrowserTypeOK
    <2>. QED
      BY <1>1, <2>3, ShapeOut
  <1>4. TakePageResult(w) \/ ResultFails(w) => StopAsking(w)
    BY DEF TakePageResult, ResultFails, Report, EndLink, Abandon
  <1>. QED
    BY <1>2, <1>3, <1>4 DEF ReadResult

LEMMA ShapeAnswers ==
    ASSUME Everywhere, Shape, NEW w \in Workers, FindAuthorization(w) \/ VerifyIntent(w)
    PROVE  Shape' /\ Alone(w) /\ UNCHANGED <<browserVars, linkVars>> /\ step[w] = "off" /\ job' = job
  <1>1. /\ pc[w] = "await" /\ step[w] = "off" /\ ~OnLink(w) /\ job' = job
        /\ UNCHANGED <<browserVars, linkVars>>
        /\ \E stage : Goto(w, stage)
    BY DEF FindAuthorization, VerifyIntent, At, OnIssuing, OnLink, LinkRails, Conclude, Raise,
           Idle, attemptVars
  <1>2. Out(w)
    BY <1>1 DEF Shape, Placed, Out
  <1>3. Alone(w) /\ rail' = rail /\ Out(w)'
    BY <1>1, <1>2 DEF browserVars, linkVars, Alone, Out, Goto, Everywhere, TypedWorkers, TypeOK
  <1>. QED
    BY <1>1, <1>3, ShapeOut

LEMMA ShapeSurroundings ==
    ASSUME Everywhere, Shape, Surroundings
    PROVE  Shape'
  <1>1. ASSUME NEW w \in Workers, Die(w) PROVE Shape'
    <2>1. Alone(w) /\ rail' = rail
      BY <1>1 DEF Die, Crash, LeaveClaim, Goto, CloseBrowser, StopAsking, Alone, Everywhere,
         TypedWorkers, TypeOK
    <2>2. Out(w)'
      BY <1>1 DEF Die, CloseBrowser, StopAsking, Out, Everywhere, AttemptTypeOK,
         BrowserTypeOK, LinkTypeOK
    <2>. QED
      BY <2>1, <2>2, ShapeOut
  <1>2. CASE UNCHANGED <<pc, job, step, ask, mine, rail>>
    BY <1>2 DEF Shape, Placed, Out, OnLink, RailOf
  <1>3. ASSUME NEW w \in Workers, PageMoves(w) PROVE Shape'
    BY <1>2, <1>3 DEF PageMoves, Reprice, Rerender, Frame, workerVars, linkVars
  <1>4. ASSUME NEW e \in Executions, Settles(e) PROVE Shape'
    BY <1>2, <1>4 DEF Settles, MerchantSettles, browserVars, linkVars, workerVars
  <1>7. CASE RowsMove
    BY <1>2, <1>7, RowsMoveAlone DEF attemptVars, browserVars, linkVars, workerVars
  <1>5. ASSUME NEW c \in Cards, LockDrops(c) /\ Idle PROVE Shape'
    BY <1>2, <1>5 DEF LockDrops, Idle, attemptVars, browserVars, linkVars
  <1>6. CASE IssuingMoves \/ LinkMoves
    BY <1>2, <1>6 DEF IssuingMoves, LinkMoves, Tick, OtherUse, LateCreate, OwnerDecides, Expires,
       browserVars, linkVars, workerVars
  <1>. QED
    BY <1>1, <1>3, <1>4, <1>5, <1>6, <1>7 DEF Surroundings

LEMMA ShapeNext == Everywhere /\ Shape /\ [AttemptNext]_allVars => Shape'
  <1>. SUFFICES ASSUME Everywhere, Shape, [AttemptNext]_allVars PROVE Shape'
    OBVIOUS
  <1>1. CASE UNCHANGED allVars
    BY <1>1 DEF allVars, vars, workerVars, attemptVars, browserVars, linkVars, Shape, Placed, Out,
       OnLink, RailOf
  <1>. QED
    BY <1>1, ShapeBegin, ShapeOutside, ShapeAsk, ShapeBrowse, ShapeFailEarly, ShapeMark, ShapeFill,
       ShapeReadResult, ShapeAnswers, ShapeSurroundings DEF AttemptNext, AttemptStep

-----------------------------------------------------------------------------
(* The browser run: what is checked before the card is loaded, and again     *)
(* after it.                                                                 *)

Mapped == {"resolve", "snapshot", "preflight", "freeze", "load"} \cup Loaded

RunOK(w) ==
    /\ step[w] \in Rechecked => page[w].total # "early"
    /\ step[w] \in Refreshed => handles[w] \in {"attached", "late"}
    /\ step[w] \in {"off", "session", "open"} => handles[w] = "none"
    /\ handles[w] = "attached" => page[w].frame = "payment"
    /\ (step[w] # "off" /\ ~form[w].new /\ form[w].map # "none") => frozen[job[w]] = form[w].map
    /\ (RailOf(w) = "direct" /\ step[w] \in Mapped) => form[w].map # "none"
    /\ (RailOf(w) = "direct" /\ step[w] \in {"load"} \cup Loaded) => frozen[job[w]] = form[w].map

Runs ==
    /\ CardOnlyAtPaymentOrigin
    /\ \A w \in Workers : RunOK(w)

FrozenGrows == \A e \in Executions : frozen'[e] = frozen[e] \/ frozen[e] = "none"

BrowserTypes ==
    /\ rail \in [Executions -> Rails]
    /\ step \in [Workers -> Steps]
    /\ page \in [Workers -> [frame : Origins, total : {"approved"} \cup Ages]]
    /\ handles \in [Workers -> {"none", "attached"} \cup Ages]
    /\ form \in [Workers -> [map : FormMaps \cup {"none"}, new : BOOLEAN]]
    /\ frozen \in [Executions -> FormMaps \cup {"none"}]
    /\ typed \subseteq Origins

\* What a step of one worker's run leaves alone, and what it does to it.
RunStep(w) ==
    /\ \A v \in Workers \ {w} :
          page'[v] = page[v] /\ handles'[v] = handles[v] /\ form'[v] = form[v]
    /\ rail' = rail
    /\ FrozenGrows
    /\ typed' \subseteq typed \cup {"payment"}
    /\ BrowserTypes'
    /\ RunOK(w)'

LEMMA RunsKept ==
    ASSUME Everywhere, Shape, Runs, NEW w \in Workers, RunStep(w), Alone(w)
    PROVE  Runs'
  <1>1. \A v \in Workers : step[v] # "off" => job[v] \in Executions
    BY DEF Shape, Placed, Out, Inside, Everywhere, TypedWorkers, WorkersBusy
  <1>2. ASSUME NEW v \in Workers \ {w} PROVE RunOK(v)'
    <2>1. RunOK(v)
      BY DEF Runs
    <2>2. /\ step'[v] = step[v] /\ page'[v] = page[v] /\ handles'[v] = handles[v]
          /\ form'[v] = form[v] /\ job'[v] = job[v] /\ rail' = rail
      BY <1>2 DEF RunStep, Alone
    <2>3. CASE step[v] = "off"
      BY <2>1, <2>2, <2>3 DEF RunOK, Rechecked, Refreshed, Mapped, Loaded
    <2>4. CASE step[v] # "off"
      <3>1. frozen'[job[v]] = frozen[job[v]] \/ frozen[job[v]] = "none"
        BY <1>1, <2>4 DEF RunStep, FrozenGrows
      <3>. QED
        BY <2>1, <2>2, <3>1 DEF RunOK, RailOf, Mapped
    <2>. QED
      BY <2>3, <2>4
  <1>. QED
    BY <1>2 DEF Runs, RunStep, CardOnlyAtPaymentOrigin

LEMMA RunsStay ==
    ASSUME Everywhere, Runs, UNCHANGED browserVars,
           \A v \in Workers : step[v] # "off" => job'[v] = job[v]
    PROVE  Runs' /\ BrowserTypes'
  <1>1. ASSUME NEW v \in Workers PROVE RunOK(v)'
    <2>1. CASE step[v] = "off"
      BY <2>1 DEF Runs, browserVars, RunOK, Rechecked, Refreshed, Mapped, Loaded
    <2>2. CASE step[v] # "off"
      BY <2>2 DEF Runs, browserVars, RunOK, RailOf
    <2>. QED
      BY <2>1, <2>2
  <1>. QED
    BY <1>1 DEF Runs, CardOnlyAtPaymentOrigin, browserVars, BrowserTypes, Everywhere,
       AttemptTypeOK, BrowserTypeOK

LEMMA RunCloses ==
    ASSUME Everywhere, NEW w \in Workers, CloseBrowser(w)
    PROVE  RunStep(w)
  <1>. USE DEF Everywhere, AttemptTypeOK, BrowserTypeOK
  <1>1. BrowserTypes'
    BY DEF CloseBrowser, BrowserTypes, NoPage, NoForm, Origins, Steps
  <1>2. RunOK(w)'
    BY DEF CloseBrowser, RunOK, Rechecked, Refreshed, Mapped, Loaded
  <1>. QED
    BY <1>1, <1>2 DEF CloseBrowser, RunStep, FrozenGrows

LEMMA RunStarts ==
    ASSUME Everywhere, Runs, NEW w \in Workers, job[w] \in Executions, job' = job,
           step[w] = "off", NEW first \in {"off", "session"}, StartRun(w, first)
    PROVE  RunStep(w)
  <1>. USE DEF Everywhere, AttemptTypeOK, BrowserTypeOK
  <1>1. form'[w] = [map |-> frozen[job[w]], new |-> FALSE] /\ step'[w] = first
    BY DEF StartRun
  <1>2. BrowserTypes'
    BY DEF StartRun, BrowserTypes, Steps
  <1>3. RunOK(w)'
    BY <1>1 DEF Runs, StartRun, RunOK, Rechecked, Refreshed, Mapped, Loaded
  <1>. QED
    BY <1>2, <1>3 DEF StartRun, RunStep, FrozenGrows

LEMMA RunWalks ==
    ASSUME Everywhere, Runs, NEW w \in Workers, job[w] \in Executions,
           Browse(w) \/ Snapshot(w) \/ Load(w)
    PROVE  RunStep(w)
  <1>. USE DEF Everywhere, AttemptTypeOK, BrowserTypeOK
  <1>1. RunOK(w)
    BY DEF Runs
  <1>2. ASSUME NEW from \in Steps, NEW to \in Steps, BrowserStep(w, from, to)
        PROVE  /\ step' \in [Workers -> Steps] /\ step[w] = from /\ step'[w] = to
               /\ job' = job /\ rail' = rail /\ typed' = typed /\ RailOf(w)' = RailOf(w)
    BY <1>2 DEF BrowserStep, workerVars, RailOf
  <1>. DEFINE Kept == UNCHANGED <<page, handles, form, frozen>>
  <1>3. ASSUME NEW from \in Steps, NEW to \in Steps, BrowserStep(w, from, to), Kept,
               to \in Rechecked => page[w].total # "early",
               to \in Refreshed => handles[w] \in {"attached", "late"},
               from # "off", to \in {"off", "session", "open"} => from = "session",
               (RailOf(w) = "direct" /\ to \in Mapped) => form[w].map # "none",
               (RailOf(w) = "direct" /\ to \in {"load"} \cup Loaded)
                  => frozen[job[w]] = form[w].map
        PROVE  RunStep(w)
    <2>1. RunOK(w)'
      BY <1>1, <1>2, <1>3 DEF RunOK
    <2>. QED
      BY <1>2, <1>3, <2>1 DEF RunStep, BrowserTypes, FrozenGrows
  <1>a. ASSUME StartSession(w) PROVE RunStep(w)
    <2>1. BrowserStep(w, "session", "open") /\ Kept
      BY <1>a DEF StartSession
    <2>. QED
      BY <1>3, <2>1 DEF Steps, Rechecked, Refreshed, Mapped, Loaded
  <1>b. ASSUME OpenPage(w) PROVE RunStep(w)
    <2>1. BrowserStep(w, "open", "verify") /\ UNCHANGED <<handles, form, frozen>>
      BY <1>b DEF OpenPage
    <2>2. /\ step' \in [Workers -> Steps] /\ step[w] = "open" /\ step'[w] = "verify"
          /\ job' = job /\ rail' = rail /\ typed' = typed
      BY <1>2, <2>1 DEF Steps
    <2>3. /\ page' \in [Workers -> [frame : Origins, total : {"approved"} \cup Ages]]
          /\ \A v \in Workers \ {w} : page'[v] = page[v]
      BY <1>b DEF OpenPage, Ages
    <2>4. RunOK(w)'
      BY <1>1, <2>1, <2>2, <2>3 DEF RunOK, Rechecked, Refreshed, Mapped, Loaded
    <2>. QED
      BY <2>1, <2>2, <2>3, <2>4 DEF RunStep, BrowserTypes, FrozenGrows
  <1>c. ASSUME VerifyCart(w) PROVE RunStep(w)
    <2>1. /\ BrowserStep(w, "verify", IF RailOf(w) \in MappedRails THEN "map" ELSE "resolve")
          /\ Kept
      BY <1>c DEF VerifyCart
    <2>2. RailOf(w) = "direct" => RailOf(w) \in MappedRails
      BY DEF MappedRails
    <2>3. CASE RailOf(w) \in MappedRails
      BY <1>3, <2>1, <2>3 DEF Steps, Rechecked, Refreshed, Mapped, Loaded
    <2>4. CASE RailOf(w) \notin MappedRails
      BY <1>3, <2>1, <2>2, <2>4 DEF Steps, Rechecked, Refreshed, Mapped, Loaded
    <2>. QED
      BY <2>3, <2>4
  <1>d. ASSUME MapForm(w) PROVE RunStep(w)
    <2>1. BrowserStep(w, "map", "resolve") /\ UNCHANGED <<page, handles, frozen>>
      BY <1>d DEF MapForm
    <2>2. /\ step' \in [Workers -> Steps] /\ step[w] = "map" /\ step'[w] = "resolve"
          /\ job' = job /\ rail' = rail /\ typed' = typed
      BY <1>2, <2>1 DEF Steps
    <2>3. CASE form[w].map # "none" /\ UNCHANGED form
      <3>1. RunOK(w)'
        BY <1>1, <2>1, <2>2, <2>3 DEF RunOK, Rechecked, Refreshed, Mapped, Loaded
      <3>. QED
        BY <2>1, <2>2, <2>3, <3>1 DEF RunStep, BrowserTypes, FrozenGrows
    <2>4. CASE Discover(w)
      <3>1. PICK map \in FormMaps : form' = [form EXCEPT ![w] = [map |-> map, new |-> TRUE]]
        BY <2>4 DEF Discover
      <3>2. /\ form'[w].map # "none" /\ form'[w].new
            /\ form' \in [Workers -> [map : FormMaps \cup {"none"}, new : BOOLEAN]]
            /\ \A v \in Workers \ {w} : form'[v] = form[v]
        BY <3>1, FormMapsAssumption
      <3>3. RunOK(w)'
        BY <1>1, <2>1, <2>2, <3>2 DEF RunOK, Rechecked, Refreshed, Mapped, Loaded
      <3>. QED
        BY <2>1, <2>2, <3>2, <3>3 DEF RunStep, BrowserTypes, FrozenGrows
    <2>. QED
      BY <1>d, <2>3, <2>4 DEF MapForm
  <1>e. ASSUME NEW from \in {"resolve", "refresh"}, NEW to \in Steps \ {"load"},
               BrowserStep(w, from, to), Resolve(w), UNCHANGED <<page, form, frozen>>,
               from = "resolve" => to \in {"snapshot", "preflight"}, from = "refresh" => to \in Loaded
        PROVE  RunStep(w)
    <2>1. from \in Steps
      BY DEF Steps, Loaded
    <2>2. /\ step' \in [Workers -> Steps] /\ step[w] = from /\ step'[w] = to
          /\ job' = job /\ rail' = rail /\ typed' = typed /\ RailOf(w)' = RailOf(w)
      BY <1>2, <1>e, <2>1
    <2>3. /\ handles'[w] = "attached" /\ handles' \in [Workers -> {"none", "attached"} \cup Ages]
          /\ \A v \in Workers \ {w} : handles'[v] = handles[v]
      BY <1>e DEF Resolve
    <2>4. to \notin {"off", "session", "open"} /\ page'[w].frame = "payment"
      BY <1>e DEF Resolve, PaymentFrame, Loaded
    <2>5. RunOK(w)'
      BY <1>1, <1>e, <2>2, <2>3, <2>4 DEF RunOK, Rechecked, Refreshed, Mapped, Loaded
    <2>. QED
      BY <1>e, <2>2, <2>3, <2>5 DEF RunStep, BrowserTypes, FrozenGrows
  <1>f. ASSUME ResolveControls(w) PROVE RunStep(w)
    BY <1>e, <1>f DEF ResolveControls, Steps, Loaded
  <1>g. ASSUME RefreshControls(w) PROVE RunStep(w)
    BY <1>e, <1>g DEF RefreshControls, Steps, Loaded
  <1>h. ASSUME Preflight(w) PROVE RunStep(w)
    <2>1. Kept /\ step[w] = "preflight"
      BY <1>h DEF Preflight, BrowserStep
    <2>2. CASE RailOf(w) = "direct" /\ form[w].new
      BY <1>1, <1>3, <1>h, <2>1, <2>2 DEF Preflight, RunOK, Steps, Rechecked, Refreshed, Mapped, Loaded
    <2>3. CASE ~(RailOf(w) = "direct" /\ form[w].new)
      <3>1. BrowserStep(w, "preflight", "load")
        BY <1>h, <2>3 DEF Preflight
      <3>2. RailOf(w) = "direct" => (form[w].map # "none" /\ frozen[job[w]] = form[w].map)
        BY <1>1, <2>1, <2>3 DEF RunOK, Mapped
      <3>. QED
        BY <1>3, <2>1, <3>1, <3>2 DEF Steps, Rechecked, Refreshed, Mapped, Loaded
    <2>. QED
      BY <2>2, <2>3
  <1>i. ASSUME FreezeForm(w) PROVE RunStep(w)
    <2>1. /\ BrowserStep(w, "freeze", "load") /\ UNCHANGED <<page, handles, form>>
          /\ frozen[job[w]] \in {"none", form[w].map}
          /\ frozen' = [frozen EXCEPT ![job[w]] = form[w].map]
      BY <1>i DEF FreezeForm
    <2>2. /\ step' \in [Workers -> Steps] /\ step[w] = "freeze" /\ step'[w] = "load"
          /\ job' = job /\ rail' = rail /\ typed' = typed /\ RailOf(w)' = RailOf(w)
      BY <1>2, <2>1 DEF Steps
    <2>3. /\ frozen' \in [Executions -> FormMaps \cup {"none"}]
          /\ frozen'[job[w]] = form[w].map
          /\ FrozenGrows
      BY <2>1 DEF FrozenGrows
    <2>4. RunOK(w)'
      BY <1>1, <2>1, <2>2, <2>3 DEF RunOK, Rechecked, Refreshed, Mapped, Loaded
    <2>. QED
      BY <2>1, <2>2, <2>3, <2>4 DEF RunStep, BrowserTypes
  <1>j. ASSUME Recheck(w) PROVE RunStep(w)
    <2>1. BrowserStep(w, "recheck", "refresh") /\ Kept /\ page[w].total = "approved"
      BY <1>j DEF Recheck, CartVerified
    <2>2. step[w] = "recheck"
      BY <2>1 DEF BrowserStep
    <2>3. RailOf(w) = "direct" => (form[w].map # "none" /\ frozen[job[w]] = form[w].map)
      BY <1>1, <2>2 DEF RunOK, Mapped, Loaded
    <2>. QED
      BY <1>3, <2>1, <2>3 DEF Steps, Rechecked, Refreshed, Mapped, Loaded
  <1>k. ASSUME Snapshot(w) PROVE RunStep(w)
    <2>1. BrowserStep(w, "snapshot", "preflight") /\ Kept
      BY <1>k DEF Snapshot
    <2>2. step[w] = "snapshot"
      BY <2>1 DEF BrowserStep
    <2>. QED
      BY <1>1, <1>3, <2>1, <2>2 DEF RunOK, Steps, Rechecked, Refreshed, Mapped, Loaded
  <1>l. ASSUME Load(w) PROVE RunStep(w)
    <2>1. BrowserStep(w, "load", "recheck") /\ Kept
      BY <1>l DEF Load, LoadCard
    <2>2. step[w] = "load"
      BY <2>1 DEF BrowserStep
    <2>. QED
      BY <1>1, <1>3, <2>1, <2>2 DEF RunOK, Steps, Rechecked, Refreshed, Mapped, Loaded
  <1>. QED
    BY <1>a, <1>b, <1>c, <1>d, <1>f, <1>g, <1>h, <1>i, <1>j, <1>k, <1>l DEF Browse

\* From the submission to the result the run only goes on.
LEMMA RunGoesOn ==
    ASSUME Everywhere, Runs, NEW w \in Workers, job' = job, rail' = rail,
           step[w] \in {"mark", "click"} \cup Filling,
           NEW to \in {"click", "result"} \cup Filling, step' = [step EXCEPT ![w] = to],
           UNCHANGED <<page, handles, form, frozen>>,
           typed' \subseteq typed \cup {"payment"}
    PROVE  RunStep(w)
  <1>. USE DEF Everywhere, AttemptTypeOK, BrowserTypeOK
  <1>1. step' \in [Workers -> Steps] /\ step'[w] = to /\ RailOf(w)' = RailOf(w)
    BY DEF Steps, Loaded, RailOf
  <1>2. RunOK(w)'
    BY <1>1 DEF Runs, RunOK, Rechecked, Refreshed, Mapped, Loaded
  <1>3. BrowserTypes'
    BY <1>1 DEF BrowserTypes, Origins
  <1>. QED
    BY <1>2, <1>3 DEF RunStep, FrozenGrows

\* The merchant's page moves: what was checked is then late, not early.
LEMMA RunSeesPage ==
    ASSUME Everywhere, Runs, NEW w \in Workers, Reprice(w) \/ Rerender(w)
    PROVE  RunStep(w)
  <1>. USE DEF Everywhere, AttemptTypeOK, BrowserTypeOK
  <1>1. /\ RunOK(w) /\ RailOf(w)' = RailOf(w)
        /\ UNCHANGED <<job, rail, step, form, frozen, typed>>
    BY DEF Runs, Reprice, Rerender, Frame, workerVars, RailOf
  <1>2. CASE Reprice(w)
    <2>1. UNCHANGED handles /\ page' = [page EXCEPT ![w].total = AgeSince(w, Rechecked)]
      BY <1>2 DEF Reprice
    <2>2. AgeSince(w, Rechecked) \in Ages /\ (step[w] \in Rechecked => AgeSince(w, Rechecked) = "late")
      BY DEF AgeSince, Ages
    <2>3. /\ page' \in [Workers -> [frame : Origins, total : {"approved"} \cup Ages]]
          /\ \A v \in Workers \ {w} : page'[v] = page[v]
          /\ page'[w].total = AgeSince(w, Rechecked)
      BY <2>1, <2>2
    <2>4. RunOK(w)'
      BY <1>1, <2>1, <2>2, <2>3 DEF RunOK
    <2>. QED
      BY <1>1, <2>1, <2>3, <2>4 DEF RunStep, BrowserTypes, FrozenGrows
  <1>3. CASE Rerender(w)
    <2>1. PICK frame \in Origins : page' = [page EXCEPT ![w].frame = frame]
      BY <1>3 DEF Rerender
    <2>2. /\ page' \in [Workers -> [frame : Origins, total : {"approved"} \cup Ages]]
          /\ \A v \in Workers \ {w} : page'[v] = page[v]
          /\ page'[w].total = page[w].total
      <3>1. page' \in [Workers -> [frame : Origins, total : {"approved"} \cup Ages]]
        <4>1. page[w] \in [frame : Origins, total : {"approved"} \cup Ages]
          BY <1>1
        <4>2. [page[w] EXCEPT !.frame = frame] \in [frame : Origins, total : {"approved"} \cup Ages]
          BY <4>1
        <4>. QED
          BY <2>1, <4>2
      <3>. QED
        BY <2>1, <3>1
    <2>3. handles' = [handles EXCEPT ![w] = IF @ = "attached" THEN AgeSince(w, Refreshed) ELSE @]
      BY <1>3 DEF Rerender
    <2>4. AgeSince(w, Refreshed) \in Ages /\ (step[w] \in Refreshed => AgeSince(w, Refreshed) = "late")
      BY DEF AgeSince, Ages
    <2>5. /\ handles' \in [Workers -> {"none", "attached"} \cup Ages]
          /\ \A v \in Workers \ {w} : handles'[v] = handles[v]
          /\ (step[w] \in Refreshed /\ handles[w] \in {"attached", "late"}) => handles'[w] = "late"
          /\ handles'[w] # "attached" /\ (handles[w] = "none" => handles'[w] = "none")
      BY <2>3, <2>4 DEF Ages
    <2>6. RunOK(w)'
      BY <1>1, <2>2, <2>5 DEF RunOK
    <2>. QED
      BY <1>1, <2>2, <2>5, <2>6 DEF RunStep, BrowserTypes, FrozenGrows
  <1>. QED
    BY <1>2, <1>3

LEMMA RunsWorker ==
    ASSUME Everywhere, Shape, Runs, NEW w \in Workers, AttemptStep(w)
    PROVE  Runs' /\ BrowserTypes'
  <1>. USE DEF Everywhere, AttemptTypeOK, BrowserTypeOK
  <1>1. ASSUME RunStep(w), Alone(w) PROVE Runs' /\ BrowserTypes'
    BY <1>1, RunsKept DEF RunStep
  <1>2. ASSUME UNCHANGED browserVars, Alone(w), job' = job \/ step[w] = "off"
        PROVE  Runs' /\ BrowserTypes'
    BY <1>2, RunsStay DEF Alone
  <1>3. pc[w] \in Inside => job[w] \in Executions
    BY DEF TypedWorkers, WorkersBusy, Inside
  <1>a. CASE Begin(w)
    <2>1. Alone(w) /\ job' = job /\ job[w] \in Executions /\ step[w] = "off"
      BY <1>a, ShapeBegin DEF Begin, PrepareAgain, At, TypedWorkers, WorkersBusy, Shape, Placed,
         Out, Inside
    <2>2. CASE UNCHANGED browserVars
      BY <1>2, <2>1, <2>2
    <2>3. CASE \E first \in {"off", "session"} : StartRun(w, first)
      BY <1>1, <2>1, <2>3, RunStarts
    <2>. QED
      BY <1>a, <2>2, <2>3 DEF Begin, Idle, attemptVars
  <1>b. CASE Outside(w)
    BY <1>2, <1>b, ShapeOutside DEF Outside, Idle, attemptVars, Out
  <1>c. CASE AskLink(w)
    <2>1. Alone(w) /\ job' = job /\ job[w] \in Executions /\ step[w] = "off"
      <3>1. pc[w] = "browse" /\ job' = job /\ ask[w] \notin {"off", "ready"}
        BY <1>c DEF AskLink, Look, Create, RequestApproval, Record, WaitForApproval, LinkFails,
           Asking, At, GiveUp, workerVars
      <3>. QED
        BY <1>3, <1>c, <3>1, ShapeAsk DEF Inside, Shape, Placed, Out
    <2>2. CASE UNCHANGED browserVars
      BY <1>2, <2>1, <2>2
    <2>3. CASE StartRun(w, "session")
      BY <1>1, <2>1, <2>3, RunStarts
    <2>. QED
      BY <1>c, <2>2, <2>3 DEF AskLink
  <1>d. CASE Browse(w) \/ Snapshot(w) \/ Load(w)
    BY <1>1, <1>3, <1>d, ShapeBrowse, RunWalks DEF At, Inside
  <1>e. CASE FailEarly(w)
    BY <1>1, <1>e, ShapeFailEarly, RunCloses DEF FailEarly, BrowserFails, FreezeTooLate
  <1>f. CASE Mark(w)
    <2>1. Alone(w) /\ job' = job /\ step[w] = "mark" /\ MarkRun(w)
      BY <1>f, ShapeMark DEF Mark
    <2>2. CASE CloseBrowser(w)
      BY <1>1, <2>1, <2>2, RunCloses
    <2>3. CASE /\ step' = [step EXCEPT ![w] = "check"]
               /\ UNCHANGED <<rail, page, handles, form, frozen, typed>>
      <3>1. RunStep(w)
        BY <2>1, <2>3, RunGoesOn
      <3>. QED
        BY <1>1, <2>1, <3>1
    <2>. QED
      BY <2>1, <2>2, <2>3 DEF MarkRun
  <1>g. CASE Fill(w)
    <2>1. Alone(w) /\ job' = job
      BY <1>g, ShapeFill
    <2>2. CASE CloseBrowser(w)
      BY <1>1, <2>1, <2>2, RunCloses
    <2>3. CASE CheckField(w) \/ TypeField(w)
      <3>1. handles[w] = "attached" => page[w].frame = "payment"
        BY DEF Runs, RunOK
      <3>2. typed' \subseteq typed \cup {"payment"}
        BY <2>3, <3>1 DEF CheckField, TypeField
      <3>3. \E to \in {"click", "result"} \cup Filling :
                step[w] \in Filling /\ step' = [step EXCEPT ![w] = to]
        BY <2>3 DEF CheckField, TypeField
      <3>4. RunStep(w)
        BY <2>1, <2>3, <3>2, <3>3, RunGoesOn DEF CheckField, TypeField
      <3>. QED
        BY <1>1, <2>1, <3>4
    <2>4. CASE /\ step[w] = "click" /\ step' = [step EXCEPT ![w] = "result"]
               /\ UNCHANGED <<rail, page, handles, form, frozen, typed>>
      <3>1. RunStep(w)
        BY <2>1, <2>4, RunGoesOn
      <3>. QED
        BY <1>1, <2>1, <3>1
    <2>. QED
      BY <1>g, <2>2, <2>3, <2>4 DEF Fill, ClickPay, FillFails
  <1>h. CASE ReadResult(w)
    <2>1. CloseBrowser(w)
      BY <1>h DEF ReadResult, TakePageResult, LeavePage, ResultFails
    <2>. QED
      BY <1>1, <1>h, <2>1, ShapeReadResult, RunCloses
  <1>i. CASE FindAuthorization(w) \/ VerifyIntent(w)
    BY <1>2, <1>i, ShapeAnswers
  <1>. QED
    BY <1>a, <1>b, <1>c, <1>d, <1>e, <1>f, <1>g, <1>h, <1>i DEF AttemptStep

LEMMA RunsSurroundings ==
    ASSUME Everywhere, Shape, Runs, Surroundings
    PROVE  Runs' /\ BrowserTypes'
  <1>. USE DEF Everywhere, AttemptTypeOK, BrowserTypeOK
  <1>1. ASSUME NEW w \in Workers, Die(w) PROVE Runs' /\ BrowserTypes'
    <2>1. Alone(w)
      BY <1>1 DEF Die, Crash, LeaveClaim, Goto, CloseBrowser, StopAsking, Alone, TypedWorkers,
         TypeOK, LinkTypeOK
    <2>2. RunStep(w)
      BY <1>1, RunCloses DEF Die
    <2>. QED
      BY <2>1, <2>2, RunsKept DEF RunStep
  <1>2. CASE UNCHANGED browserVars /\ job' = job
    BY <1>2, RunsStay
  <1>3. ASSUME NEW w \in Workers, PageMoves(w) PROVE Runs' /\ BrowserTypes'
    <2>1. Alone(w)
      BY <1>3 DEF PageMoves, Reprice, Rerender, Frame, workerVars, linkVars, Alone
    <2>2. RunStep(w)
      BY <1>3, RunSeesPage DEF PageMoves
    <2>. QED
      BY <2>1, <2>2, RunsKept DEF RunStep
  <1>4. ASSUME NEW e \in Executions, Settles(e) PROVE Runs' /\ BrowserTypes'
    BY <1>2, <1>4 DEF Settles, MerchantSettles, workerVars
  <1>7. CASE RowsMove
    BY <1>2, <1>7, RowsMoveAlone DEF attemptVars, workerVars
  <1>5. ASSUME NEW c \in Cards, LockDrops(c) /\ Idle PROVE Runs' /\ BrowserTypes'
    BY <1>2, <1>5 DEF LockDrops, Idle, attemptVars
  <1>6. CASE IssuingMoves \/ LinkMoves
    BY <1>2, <1>6 DEF IssuingMoves, LinkMoves, Tick, OtherUse, LateCreate, OwnerDecides, Expires,
       workerVars
  <1>. QED
    BY <1>1, <1>3, <1>4, <1>5, <1>6, <1>7 DEF Surroundings

LEMMA RunsNext == Everywhere /\ Shape /\ Runs /\ [AttemptNext]_allVars => Runs' /\ BrowserTypes'
  <1>. SUFFICES ASSUME Everywhere, Shape, Runs, [AttemptNext]_allVars
                PROVE  Runs' /\ BrowserTypes'
    OBVIOUS
  <1>1. CASE UNCHANGED allVars
    BY <1>1, RunsStay DEF allVars, vars, workerVars, attemptVars
  <1>. QED
    BY <1>1, RunsWorker, RunsSurroundings DEF AttemptNext

-----------------------------------------------------------------------------
(* Spend requests: what Link and the rows hold.                              *)

StoreTypes ==
    /\ link \in [Requests -> [status : Active \cup {"absent", "closed"},
                              for : Executions \cup {None}, exact : BOOLEAN,
                              used : BOOLEAN, reported : SUBSET Reports]]
    /\ recorded \in [Executions -> SUBSET Requests]
    /\ \A e \in Executions : AtMostOne(recorded[e])
    /\ late \subseteq Executions
    /\ astray \subseteq Executions

Store ==
    /\ StoreTypes
    /\ \A e \in Executions : \A r \in recorded[e] : link[r].for = e
    /\ \A r \in Requests :
          IF link[r].status = "absent" THEN link[r] = NoRequest ELSE link[r].for \in Executions
    /\ \A e \in Executions \ astray : AtMostOne(RequestsFor(e))
    /\ OneRequestPays
    /\ ReportsTrue

\* A request that is there keeps whose it is and what it was made with.
Evolving ==
    /\ \A r \in Requests : link[r].status # "absent" =>
          /\ link'[r].for = link[r].for /\ link'[r].exact = link[r].exact
          /\ link[r].used => link'[r].used
    /\ \A e \in Executions : recorded'[e] = recorded[e] \/ recorded[e] = {}
    /\ astray \subseteq astray' /\ astray' \subseteq Executions
    /\ late' \subseteq Executions

ChargeGrows == \A e \in Executions : charge[e] = "charged" => charge'[e] = "charged"

\* The requests of an execution are there, so that a new one is none of them.
LEMMA RequestsAreThere ==
    ASSUME Store, NEW r \in Requests, link[r].for \in Executions
    PROVE  link[r].status # "absent"
  BY WorkersAssumption DEF Store, NoRequest

LEMMA StoreStill ==
    ASSUME Store, UNCHANGED <<link, recorded>>, ChargeGrows,
           astray \subseteq astray', astray' \subseteq Executions, late' \subseteq Executions
    PROVE  Store' /\ Evolving
  <1>1. StoreTypes'
    BY DEF Store, StoreTypes, AtMostOne
  <1>2. Evolving
    BY DEF Evolving
  <1>3. OneRequestPays'
    BY DEF Store, OneRequestPays
  <1>4. ReportsTrue'
    <2>1. ASSUME NEW r \in Requests, "success" \in link[r].reported
          PROVE  charge'[link[r].for] = "charged"
      <3>1. link[r].for \in Executions
        BY <2>1 DEF Store, NoRequest
      <3>2. charge[link[r].for] = "charged"
        BY <2>1 DEF Store, ReportsTrue
      <3>. QED
        BY <3>1, <3>2 DEF ChargeGrows
    <2>. QED
      BY <2>1 DEF Store, ReportsTrue
  <1>5. \A e \in Executions \ astray' : AtMostOne(RequestsFor(e)')
    BY DEF Store, AtMostOne, RequestsFor
  <1>. QED
    BY <1>1, <1>2, <1>3, <1>4, <1>5 DEF Store, AtMostOne, RequestsFor

\* Link makes a request, for an execution that had none or is astray.
LEMMA StoreNew ==
    ASSUME Store, NEW r \in Unused, NEW e \in Executions, NEW exact \in BOOLEAN,
           NewRequest(r, e, exact), UNCHANGED <<recorded, charge>>,
           astray \subseteq astray', astray' \subseteq Executions, late' \subseteq Executions,
           e \in astray' \/ RequestsFor(e) = {}
    PROVE  /\ Store' /\ Evolving
           /\ \A s \in Requests : link'[s].for \in Executions => (link[s].status # "absent" \/ s = r)
           /\ link'[r].for = e /\ link'[r].exact = exact
           /\ link'[r].status \in {"created", "pending_approval"}
  <1>1. PICK status \in {"created", "pending_approval"} :
            link' = [link EXCEPT ![r] = [NoRequest EXCEPT !.status = status, !.for = e,
                                                          !.exact = exact]]
    BY DEF NewRequest
  <1>2. r \in Requests /\ link[r] = NoRequest
    BY DEF Unused, Store
  <1>3. /\ link'[r] = [status |-> status, for |-> e, exact |-> exact, used |-> FALSE, reported |-> {}]
        /\ \A s \in Requests \ {r} : link'[s] = link[s]
    BY <1>1, <1>2 DEF NoRequest, Store, StoreTypes
  <1>4. StoreTypes'
    <2> DEFINE T == [status : Active \cup {"absent", "closed"}, for : Executions \cup {None},
                     exact : BOOLEAN, used : BOOLEAN, reported : SUBSET Reports]
    <2>1. link'[r] \in T
      BY <1>3 DEF Active
    <2>2. link \in [Requests -> T]
      BY DEF Store, StoreTypes
    <2>3. DOMAIN link' = Requests /\ link' = [s \in Requests |-> link'[s]]
      BY <1>1, <2>2
    <2>4. link' \in [Requests -> T]
      BY <1>3, <2>1, <2>2, <2>3
    <2>. QED
      BY <2>4 DEF Store, StoreTypes, AtMostOne
  <1>5. Evolving
    BY <1>2, <1>3 DEF Evolving, NoRequest
  <1>6. ASSUME NEW d \in Executions, NEW s \in recorded[d] PROVE s \in Requests /\ s # r
    <2>1. s \in Requests /\ link[s].for = d
      BY DEF Store, StoreTypes
    <2>2. link[r].for = None
      BY <1>2 DEF NoRequest
    <2>. QED
      BY <2>1, <2>2, WorkersAssumption
  <1>7. OneRequestPays' /\ ReportsTrue'
    BY <1>3 DEF Store, OneRequestPays, ReportsTrue
  <1>8. ASSUME NEW d \in Executions \ astray' PROVE AtMostOne(RequestsFor(d))'
    <2>1. CASE d = e
      BY <1>3, <1>8, <2>1 DEF AtMostOne, RequestsFor
    <2>2. CASE d # e
      <3>1. AtMostOne(RequestsFor(d))
        BY <1>8 DEF Store
      <3>. QED
        BY <1>3, <2>2, <3>1 DEF AtMostOne, RequestsFor
    <2>. QED
      BY <2>1, <2>2
  <1>9. \A s \in Requests :
            IF link'[s].status = "absent" THEN link'[s] = NoRequest ELSE link'[s].for \in Executions
    BY <1>3 DEF Store
  <1>10. Store'
    BY <1>3, <1>4, <1>6, <1>7, <1>8, <1>9 DEF Store
  <1>11. \A s \in Requests : link'[s].for \in Executions => (link[s].status # "absent" \/ s = r)
    BY <1>3, RequestsAreThere
  <1>. QED
    BY <1>3, <1>5, <1>10, <1>11

\* The record of a request that is there changes in what is not its identity.
LEMMA StoreEdit ==
    ASSUME Store, NEW r \in Requests, link[r].status # "absent",
           UNCHANGED <<recorded, charge>>,
           astray' = astray, late' = late,
           link' \in [Requests -> [status : Active \cup {"absent", "closed"},
                              for : Executions \cup {None}, exact : BOOLEAN,
                              used : BOOLEAN, reported : SUBSET Reports]],
           \A s \in Requests \ {r} : link'[s] = link[s],
           link'[r].for = link[r].for, link'[r].exact = link[r].exact,
           link'[r].status # "absent",
           link[r].used => link'[r].used,
           link'[r].used => (link[r].used \/ (recorded[link[r].for] = {r} /\ link[r].exact)),
           "success" \in link'[r].reported =>
               ("success" \in link[r].reported \/ charge[link[r].for] = "charged"),
           link'[r].reported # {} => link'[r].used
    PROVE  Store' /\ Evolving
  <1>1. StoreTypes'
    BY DEF Store, StoreTypes, AtMostOne
  <1>2. Evolving
    BY DEF Evolving, Store, StoreTypes
  <1>3. OneRequestPays'
    BY DEF Store, OneRequestPays
  <1>4. ReportsTrue'
    BY DEF Store, ReportsTrue
  <1>5. ASSUME NEW e \in Executions \ astray' PROVE AtMostOne(RequestsFor(e))'
    BY <1>5 DEF Store, AtMostOne, RequestsFor
  <1>6. \A e \in Executions : \A s \in recorded'[e] : link'[s].for = e
    BY DEF Store, StoreTypes
  <1>7. \A s \in Requests :
            IF link'[s].status = "absent" THEN link'[s] = NoRequest ELSE link'[s].for \in Executions
    BY DEF Store
  <1>. QED
    BY <1>1, <1>2, <1>3, <1>4, <1>5, <1>6, <1>7 DEF Store

\* record_provider_request.
LEMMA StoreRecord ==
    ASSUME Store, NEW e \in Executions, NEW r \in Requests, link[r].for = e,
           recorded[e] \in {{}, {r}}, recorded' = [recorded EXCEPT ![e] = {r}],
           UNCHANGED <<link, charge, late, astray>>
    PROVE  Store' /\ Evolving /\ recorded'[e] = {r}
  <1>1. /\ recorded'[e] = {r} /\ \A d \in Executions \ {e} : recorded'[d] = recorded[d]
        /\ recorded' \in [Executions -> SUBSET Requests]
    BY DEF Store, StoreTypes
  <1>2. StoreTypes'
    BY <1>1 DEF Store, StoreTypes, AtMostOne
  <1>3. Evolving
    BY <1>1 DEF Evolving, Store, StoreTypes
  <1>4. OneRequestPays'
    <2>1. ASSUME NEW s \in Requests, link[s].used PROVE recorded'[link[s].for] = {s}
      <3>1. recorded[link[s].for] = {s}
        BY <2>1 DEF Store, OneRequestPays
      <3>2. link[s].for \in Executions
        BY <2>1 DEF Store, NoRequest
      <3>. QED
        BY <1>1, <3>1, <3>2
    <2>. QED
      BY <2>1 DEF Store, OneRequestPays
  <1>5. ReportsTrue' /\ \A d \in Executions \ astray' : AtMostOne(RequestsFor(d))'
    BY DEF Store, ReportsTrue, AtMostOne, RequestsFor
  <1>6. \A d \in Executions : \A s \in recorded'[d] : link'[s].for = d
    BY <1>1 DEF Store
  <1>. QED
    BY <1>1, <1>2, <1>3, <1>4, <1>5, <1>6 DEF Store

-----------------------------------------------------------------------------
(* What a worker knows of its request.                                       *)

AskTypes ==
    /\ ask \in [Workers -> Asks]
    /\ mine \in [Workers -> SUBSET Requests]
    /\ \A w \in Workers : AtMostOne(mine[w])

\* The request in hand is the job's; past record_provider_request it is the
\* row's, and past retrieve_card it was used.  Who goes to create one under
\* the card's lock has found none, and nobody else has made one since.
Linked(w) ==
    /\ \A r \in mine[w] : link[r].for = job[w]
    /\ ask[w] \in {"wait", "ready"} => recorded[job[w]] = mine[w]
    /\ (OnLink(w) /\ step[w] \in Loaded) => \A r \in mine[w] : link[r].used
    /\ (ask[w] = "create" /\ lock[CardOf[job[w]]] = w /\ job[w] \notin astray)
          => RequestsFor(job[w]) = {}

Links == Store /\ AskTypes /\ \A w \in Workers : Linked(w)

\* Nobody in the middle of an attempt gains the card's lock.
LockKept == \A v \in Workers, c \in Cards : (lock'[c] = v /\ ask[v] # "off") => lock[c] = v

LEMMA RailKept == [AttemptNext]_allVars => rail' = rail
  <1>. SUFFICES ASSUME [AttemptNext]_allVars PROVE rail' = rail
    OBVIOUS
  <1>1. CASE UNCHANGED browserVars
    BY <1>1 DEF browserVars
  <1>2. ASSUME NEW w \in Workers, CloseBrowser(w) PROVE rail' = rail
    BY <1>2 DEF CloseBrowser
  <1>3. ASSUME NEW w \in Workers, AttemptStep(w) PROVE rail' = rail
    <2>1. CASE Begin(w) \/ AskLink(w) \/ Outside(w)
      BY <1>1, <2>1 DEF Begin, AskLink, Outside, StartRun, Idle, attemptVars
    <2>2. CASE Browse(w) \/ Snapshot(w) \/ Load(w)
      BY <2>2 DEF Browse, Snapshot, Load, StartSession, OpenPage, VerifyCart, MapForm, ResolveControls,
           Preflight, FreezeForm, LoadCard, Recheck, RefreshControls, BrowserStep
    <2>3. CASE FailEarly(w) \/ Mark(w)
      BY <1>2, <2>3 DEF FailEarly, BrowserFails, FreezeTooLate, Mark, MarkRun
    <2>4. CASE Fill(w)
      BY <1>2, <2>4 DEF Fill, CheckField, TypeField, ClickPay, FillFails
    <2>5. CASE ReadResult(w)
      BY <1>2, <2>5 DEF ReadResult, TakePageResult, LeavePage, ResultFails
    <2>6. CASE FindAuthorization(w) \/ VerifyIntent(w)
      BY <1>1, <2>6 DEF FindAuthorization, VerifyIntent, Idle, attemptVars
    <2>. QED
      BY <1>3, <2>1, <2>2, <2>3, <2>4, <2>5, <2>6 DEF AttemptStep
  <1>4. CASE Surroundings
    <2>1. ASSUME NEW w \in Workers, Die(w) \/ PageMoves(w) PROVE rail' = rail
      BY <2>1 DEF Die, CloseBrowser, PageMoves, Reprice, Rerender, Frame
    <2>. QED
      BY <1>1, <1>4, <2>1 DEF Surroundings, RowsMove, Settles, Idle, attemptVars, IssuingMoves, LinkMoves
  <1>. QED
    BY <1>1, <1>3, <1>4 DEF AttemptNext, allVars, attemptVars

LEMMA LocksNext == Everywhere /\ Shape /\ [AttemptNext]_allVars => LockKept
  <1>. SUFFICES ASSUME Everywhere, Shape, [AttemptNext]_allVars PROVE LockKept
    OBVIOUS
  <1>1. CASE lock' = lock
    BY <1>1 DEF LockKept
  <1>2. ASSUME NEW w \in Workers, Unlock(w) PROVE LockKept
    BY <1>2, WorkersAssumption DEF Unlock, LockKept
  <1>3. ASSUME NEW w \in Workers, AcquireCardLock(w) PROVE LockKept
    <2>1. ask[w] = "off"
      BY <1>3 DEF Shape, Placed, Out, AcquireCardLock, At, Inside
    <2>2. \A c \in Cards : lock'[c] = lock[c] \/ lock'[c] = w
      BY <1>3 DEF AcquireCardLock, Everywhere, TypedWorkers, TypeOK
    <2>. QED
      BY <2>1, <2>2 DEF LockKept
  <1>4. ASSUME NEW w \in Workers, AttemptStep(w) PROVE LockKept
    <2>1. CASE Begin(w) \/ Outside(w)
      <3>1. CASE Claim(w)
        BY <1>1, <3>1 DEF Claim, workerVars
      <3>. QED
        BY <1>1, <1>2, <1>3, <2>1, <3>1 DEF Begin, Outside, PrepareAgain, Prepare,
           FailBeforeSubmission, Settle, HandleError, HandlingFails, RaiseAgain, Release, LeaveClaim
    <2>2. CASE AskLink(w) \/ FailEarly(w)
      BY <1>1, <2>2, AskLinkRefines, FailEarlyRefines DEF FailBeforeSubmission, vars, workerVars
    <2>3. CASE Browse(w) \/ Snapshot(w) \/ Load(w)
      BY <1>1, <2>3, BrowseRefines DEF vars, workerVars
    <2>4. CASE Mark(w) \/ Fill(w) \/ ReadResult(w)
      BY <1>1, <2>4, MarkRefines, FillRefines, ReadResultRefines DEF Submit, FailBeforeSubmission,
         FillAndClick, Observe, vars, workerVars
    <2>5. CASE FindAuthorization(w) \/ VerifyIntent(w)
      BY <1>1, <2>5 DEF FindAuthorization, VerifyIntent
    <2>. QED
      BY <1>4, <2>1, <2>2, <2>3, <2>4, <2>5 DEF AttemptStep
  <1>5. CASE Surroundings
    <2>1. ASSUME NEW w \in Workers, Die(w) PROVE LockKept
      BY <1>2, <2>1 DEF Die, Crash, LeaveClaim
    <2>2. ASSUME NEW c \in Cards, LockDrops(c) PROVE LockKept
      <3>1. \A d \in Cards : lock'[d] = lock[d] \/ lock'[d] = None
        BY <2>2 DEF LockDrops, Everywhere, TypedWorkers, TypeOK
      <3>. QED
        BY <3>1, WorkersAssumption DEF LockKept
    <2>3. ASSUME NEW w \in Workers, PageMoves(w) PROVE LockKept
      BY <1>1, <2>3 DEF PageMoves, Reprice, Rerender, Frame, workerVars
    <2>4. ASSUME NEW e \in Executions, Settles(e) PROVE LockKept
      BY <1>1, <2>4 DEF Settles, MerchantSettles, workerVars
    <2>6. CASE RowsMove
      BY <1>1, <2>6, RowsMoveAlone DEF workerVars
    <2>5. CASE IssuingMoves \/ LinkMoves
      BY <1>1, <2>5 DEF IssuingMoves, LinkMoves, Tick, OtherUse, LateCreate, OwnerDecides, Expires, workerVars
    <2>. QED
      BY <1>5, <2>1, <2>2, <2>3, <2>4, <2>5, <2>6 DEF Surroundings
  <1>. QED
    BY <1>1, <1>4, <1>5 DEF AttemptNext, allVars, vars, workerVars

\* A request in hand is there, and is that of an execution.
LEMMA MineIsThere ==
    ASSUME Everywhere, Shape, Links, NEW w \in Workers, NEW r \in mine[w]
    PROVE  /\ r \in Requests /\ job[w] \in Executions
           /\ link[r].for = job[w] /\ link[r].status # "absent"
  <1>1. r \in Requests /\ link[r].for = job[w]
    BY DEF Links, AskTypes, Linked
  <1>2. job[w] \in Executions
    BY DEF Shape, Placed, Out, Inside, Everywhere, TypedWorkers, WorkersBusy
  <1>. QED
    BY <1>1, <1>2, RequestsAreThere DEF Links

\* Requests that are made meanwhile are not those of a worker that is to make one.
NoNew(v) ==
    (ask[v] = "create" /\ lock[CardOf[job[v]]] = v /\ job[v] \notin astray' /\ RequestsFor(job[v]) = {})
        => RequestsFor(job[v])' = {}

\* What a worker knows stays true while others take steps.
LEMMA LinkedKept ==
    ASSUME Everywhere, Shape, Links, Evolving, LockKept, rail' = rail, NEW v \in Workers, NoNew(v),
           job'[v] = job[v], ask'[v] = ask[v], mine'[v] = mine[v],
           (OnLink(v) /\ step'[v] \in Loaded) => step[v] \in Loaded
    PROVE  Linked(v)'
  <1>1. Linked(v)
    BY DEF Links
  <1>2. \A r \in mine'[v] : link'[r].for = job'[v]
    BY MineIsThere DEF Evolving
  <1>3. ask'[v] \in {"wait", "ready"} => recorded'[job'[v]] = mine'[v]
    <2>. HAVE ask'[v] \in {"wait", "ready"}
    <2>1. mine[v] # {}
      BY DEF Shape, Placed, Out
    <2>2. recorded[job[v]] # {} /\ job[v] \in Executions
      BY <1>1, <2>1, MineIsThere DEF Linked
    <2>. QED
      BY <1>1, <2>2 DEF Linked, Evolving
  <1>4. (OnLink(v)' /\ step'[v] \in Loaded) => \A r \in mine'[v] : link'[r].used
    BY <1>1, MineIsThere DEF Linked, OnLink, RailOf, Evolving
  <1>5. (ask[v] = "create" /\ lock[CardOf[job[v]]] = v /\ job[v] \notin astray
            => RequestsFor(job[v]) = {})'
    <2>. HAVE (ask[v] = "create" /\ lock[CardOf[job[v]]] = v /\ job[v] \notin astray)'
    <2>1. job[v] \in Executions
      BY DEF Shape, Placed, Out, Inside, Everywhere, TypedWorkers, WorkersBusy
    <2>2. lock[CardOf[job[v]]] = v
      BY <2>1, CardsAssumption DEF LockKept
    <2>3. RequestsFor(job[v]) = {} /\ job[v] \notin astray
      BY <1>1, <2>2 DEF Linked, Evolving
    <2>. QED
      BY <2>2, <2>3 DEF NoNew
  <1>. QED
    BY <1>2, <1>3, <1>4, <1>5 DEF Linked

LEMMA LinkedOut == ASSUME NEW w \in Workers, Out(w)' PROVE Linked(w)'
  BY DEF Out, Linked

\* What a step of one worker does to its request and to those of the others.
LinkStep(w) ==
    /\ Store' /\ Evolving /\ AskTypes'
    /\ Linked(w)'
    /\ \A v \in Workers \ {w} : NoNew(v)

LEMMA LinksAlone ==
    ASSUME Everywhere, Shape, Links, LockKept, rail' = rail, NEW w \in Workers, Alone(w), LinkStep(w)
    PROVE  Links'
  <1>1. \A v \in Workers \ {w} : Linked(v)'
    BY LinkedKept DEF Alone, LinkStep
  <1>. QED
    BY <1>1 DEF Links, LinkStep

LEMMA LinksSurrounded ==
    ASSUME Everywhere, Shape, Links, LockKept, rail' = rail, Store', Evolving,
           UNCHANGED <<job, ask, mine, step>>, \A v \in Workers : NoNew(v)
    PROVE  Links'
  <1>1. \A v \in Workers : Linked(v)'
    BY LinkedKept
  <1>. QED
    BY <1>1 DEF Links, AskTypes, AtMostOne

LEMMA LinkQuiet ==
    ASSUME Everywhere, Shape, Links, LockKept, rail' = rail, NEW w \in Workers, Alone(w),
           UNCHANGED linkVars, ChargeGrows,
           Out(w)' \/ (job'[w] = job[w] /\ ((OnLink(w) /\ step'[w] \in Loaded) => step[w] \in Loaded))
    PROVE  LinkStep(w)
  <1>. USE DEF linkVars
  <1>1. Store' /\ Evolving
    BY StoreStill DEF Links, Store, StoreTypes
  <1>2. AskTypes'
    BY DEF Links, AskTypes, AtMostOne
  <1>3. \A v \in Workers \ {w} : NoNew(v)
    BY DEF NoNew, RequestsFor, Alone
  <1>4. CASE Out(w)'
    BY <1>1, <1>2, <1>3, <1>4, LinkedOut DEF LinkStep
  <1>5. CASE job'[w] = job[w] /\ ((OnLink(w) /\ step'[w] \in Loaded) => step[w] \in Loaded)
    <2>1. NoNew(w)
      BY <1>5 DEF NoNew, RequestsFor
    <2>2. Linked(w)'
      BY <1>1, <1>5, <2>1, LinkedKept
    <2>. QED
      BY <1>1, <1>2, <1>3, <2>2 DEF LinkStep
  <1>. QED
    BY <1>4, <1>5

\* An attempt ends, whatever becomes of the call it was in.
LEMMA LinkEnds ==
    ASSUME Everywhere, Links, NEW w \in Workers, Alone(w), Out(w)', StopAsking(w),
           UNCHANGED <<link, recorded, astray>>, late' \subseteq Executions, ChargeGrows
    PROVE  LinkStep(w)
  <1>1. Store' /\ Evolving
    BY StoreStill DEF Links, Store, StoreTypes
  <1>2. AskTypes'
    BY DEF Links, AskTypes, AtMostOne, StopAsking, Asks
  <1>3. \A v \in Workers \ {w} : NoNew(v)
    BY DEF NoNew, RequestsFor, Alone
  <1>. QED
    BY <1>1, <1>2, <1>3, LinkedOut DEF LinkStep

LEMMA LinksBegin ==
    ASSUME Everywhere, Shape, Links, LockKept, rail' = rail, NEW w \in Workers, Begin(w)
    PROVE  Links'
  <1>1. Alone(w) /\ job' = job /\ charge' = charge /\ step[w] = "off" /\ job[w] \in Executions
    <2>1. job' = job /\ pc[w] = "validate" /\ charge' = charge
      BY DEF Begin, PrepareAgain, At, merchantVars
    <2>2. step[w] = "off"
      BY <2>1 DEF Shape, Placed, Out, Inside
    <2>3. job[w] \in Executions
      BY <2>1 DEF Everywhere, TypedWorkers, WorkersBusy
    <2>. QED
      BY <2>1, <2>2, <2>3, ShapeBegin
  <1>2. CASE UNCHANGED linkVars /\ step'[w] \notin Loaded
    BY <1>1, <1>2, LinkQuiet, LinksAlone DEF ChargeGrows
  <1>3. CASE /\ StartAsking(w)
             /\ StartRun(w, "off")
    <2>1. Store' /\ Evolving
      BY <1>1, <1>3, StoreStill DEF StartAsking, Links, Store, StoreTypes, ChargeGrows
    <2>2. ask'[w] = "look" /\ mine'[w] = recorded[job[w]] /\ step'[w] = "off"
      BY <1>3 DEF StartAsking, StartRun, Everywhere, AttemptTypeOK, BrowserTypeOK, LinkTypeOK
    <2>3. AskTypes'
      BY <1>1, <1>3, <2>2 DEF StartAsking, Links, AskTypes, Asks, AtMostOne, Store, StoreTypes
    <2>4. Linked(w)'
      BY <1>1, <1>3, <2>2 DEF StartAsking, Linked, Links, Store, Loaded
    <2>5. \A v \in Workers \ {w} : NoNew(v)
      BY <1>3, <1>1 DEF StartAsking, NoNew, RequestsFor
    <2>. QED
      BY <1>1, <2>1, <2>3, <2>4, <2>5, LinksAlone DEF LinkStep
  <1>4. step'[w] \notin Loaded
    BY <1>1 DEF Begin, Idle, attemptVars, browserVars, StartRun, Loaded, Everywhere, AttemptTypeOK,
       BrowserTypeOK
  <1>. QED
    BY <1>2, <1>3, <1>4 DEF Begin, Idle, attemptVars

LEMMA LinksOutside ==
    ASSUME Everywhere, Shape, Links, LockKept, rail' = rail, NEW w \in Workers, Outside(w)
    PROVE  Links'
  <1>1. charge' = charge
    BY DEF Outside, Claim, Prepare, AcquireCardLock, FailBeforeSubmission, Settle, HandleError,
       HandlingFails, Release, LeaveClaim, merchantVars
  <1>2. UNCHANGED linkVars
    BY DEF Outside, Idle, attemptVars
  <1>. QED
    BY <1>1, <1>2, ShapeOutside, LinkQuiet, LinksAlone DEF ChargeGrows

\* What all calls to Link have in common.
LEMMA Asked ==
    ASSUME Everywhere, Shape, NEW w \in Workers, AskLink(w)
    PROVE  /\ Alone(w) /\ job' = job /\ charge' = charge /\ job[w] \in Executions
           /\ step'[w] \notin Loaded
           /\ StopAsking(w) => Out(w)'
  <1>1. /\ pc[w] = "browse" /\ job' = job /\ charge' = charge
    <2>1. pc[w] = "browse"
      BY DEF AskLink, Look, Create, RequestApproval, Record, WaitForApproval, LinkFails, Asking, At
    <2>. QED
      BY <2>1, AskLinkRefines DEF FailBeforeSubmission, vars, workerVars, merchantVars
  <1>2. ask[w] \notin {"off", "ready"}
    BY DEF AskLink, Look, Create, RequestApproval, Record, WaitForApproval, LinkFails, Asking
  <1>3. step[w] = "off" /\ job[w] \in Executions
    BY <1>1, <1>2 DEF Shape, Placed, Out, Everywhere, TypedWorkers, WorkersBusy
  <1>4. StopAsking(w) => Out(w)'
    BY <1>3 DEF AskLink, StopAsking, Out, browserVars, Everywhere, AttemptTypeOK, LinkTypeOK
  <1>5. step'[w] \notin Loaded
    BY <1>3 DEF AskLink, StartRun, browserVars, Loaded, Everywhere, AttemptTypeOK, BrowserTypeOK
  <1>. QED
    BY <1>1, <1>3, <1>4, <1>5, ShapeAsk

\* The request a call is about may change, the requests at Link stay.
LEMMA AskGoesOn ==
    ASSUME Everywhere, Shape, Links, LockKept, NEW w \in Workers, AskLink(w),
           UNCHANGED <<link, recorded, late, astray>>,
           NEW call \in Asks, ask' = [ask EXCEPT ![w] = call],
           mine' \in [Workers -> SUBSET Requests],
           \A v \in Workers \ {w} : mine'[v] = mine[v],
           AtMostOne(mine'[w]), \A r \in mine'[w] : link[r].for = job[w],
           call \in {"wait", "ready"} => recorded[job[w]] = mine'[w],
           call = "create" => RequestsFor(job[w]) = {}
    PROVE  LinkStep(w)
  <1>1. Store' /\ Evolving
    BY Asked, StoreStill DEF Links, Store, StoreTypes, ChargeGrows
  <1>2. AskTypes'
    BY DEF Links, AskTypes, AtMostOne
  <1>3. ask'[w] = call
    BY DEF Links, AskTypes
  <1>4. Linked(w)'
    BY <1>3, Asked DEF Linked, RequestsFor
  <1>5. \A v \in Workers \ {w} : NoNew(v)
    BY Asked DEF NoNew, RequestsFor, Alone
  <1>. QED
    BY <1>1, <1>2, <1>4, <1>5 DEF LinkStep

LEMMA LinkLook ==
    ASSUME Everywhere, Shape, Links, LockKept, NEW w \in Workers, AskLink(w), Look(w)
    PROVE  LinkStep(w)
  <1>1. UNCHANGED <<link, recorded, late, astray>>
    BY DEF Look
  <1>2. \A r \in Found(w) : r \in Requests /\ link[r].for = job[w]
    BY DEF Found, Listed, RequestsFor, Links, AskTypes, Linked
  <1>3. mine \in [Workers -> SUBSET Requests] /\ \A v \in Workers : AtMostOne(mine[v])
    BY DEF Links, AskTypes
  <1>4. CASE Found(w) = {} /\ ask' = [ask EXCEPT ![w] = "create"] /\ mine' = mine
    <2>1. RequestsFor(job[w]) = {} /\ mine[w] = {}
      BY <1>4 DEF Found, Listed
    <2>. QED
      BY <1>1, <1>3, <1>4, <2>1, AskGoesOn DEF Asks
  <1>5. ASSUME NEW r \in Found(w), mine' = [mine EXCEPT ![w] = {r}],
               ask' = [ask EXCEPT ![w] = IF link[r].status = "created" THEN "approve" ELSE "record"]
        PROVE  LinkStep(w)
    <2>1. /\ mine' \in [Workers -> SUBSET Requests] /\ mine'[w] = {r}
          /\ \A v \in Workers \ {w} : mine'[v] = mine[v]
      BY <1>2, <1>3, <1>5
    <2>2. AtMostOne(mine'[w]) /\ \A q \in mine'[w] : link[q].for = job[w]
      BY <1>2, <2>1 DEF AtMostOne
    <2>3. CASE link[r].status = "created"
      BY <1>1, <1>5, <2>1, <2>2, <2>3, AskGoesOn DEF Asks
    <2>4. CASE link[r].status # "created"
      BY <1>1, <1>5, <2>1, <2>2, <2>4, AskGoesOn DEF Asks
    <2>. QED
      BY <2>3, <2>4
  <1>6. CASE StopAsking(w)
    BY <1>1, <1>6, Asked, LinkEnds DEF Links, Store, StoreTypes, ChargeGrows
  <1>. QED
    BY <1>4, <1>5, <1>6 DEF Look, GiveUp

LEMMA LinkWaits ==
    ASSUME Everywhere, Shape, Links, LockKept, NEW w \in Workers, AskLink(w),
           WaitForApproval(w) \/ LinkFails(w)
    PROVE  LinkStep(w)
  <1>1. UNCHANGED <<link, recorded, astray>>
    BY DEF WaitForApproval, LinkFails
  <1>2. late' \subseteq Executions
    <2>1. late' \in {late, late \cup {job[w]}}
      BY DEF WaitForApproval, LinkFails, CutOff
    <2>. QED
      BY <2>1, Asked DEF Links, Store, StoreTypes
  <1>3. CASE WaitForApproval(w) /\ ask' = [ask EXCEPT ![w] = "ready"] /\ mine' = mine
    <2>1. /\ mine' \in [Workers -> SUBSET Requests] /\ AtMostOne(mine'[w])
          /\ \A r \in mine'[w] : link[r].for = job[w]
          /\ recorded[job[w]] = mine'[w]
      BY <1>3 DEF Links, AskTypes, Linked, WaitForApproval, Asking
    <2>. QED
      BY <1>3, <2>1, AskGoesOn DEF WaitForApproval, Asks
  <1>4. CASE StopAsking(w)
    BY <1>1, <1>2, <1>4, Asked, LinkEnds DEF ChargeGrows
  <1>. QED
    BY <1>3, <1>4 DEF WaitForApproval, LinkFails, GiveUp

LEMMA LinkRecords ==
    ASSUME Everywhere, Shape, Links, LockKept, NEW w \in Workers, AskLink(w), Record(w)
    PROVE  LinkStep(w)
  <1>1. ask[w] = "record"
    BY DEF Record, Asking
  <1>2. CASE StopAsking(w) /\ recorded' = recorded
    BY <1>2, Asked, LinkEnds DEF Record, Links, Store, StoreTypes, ChargeGrows
  <1>3. CASE /\ recorded[job[w]] \in {{}, mine[w]}
             /\ recorded' = [recorded EXCEPT ![job[w]] = mine[w]]
             /\ ask' = [ask EXCEPT ![w] = "wait"]
             /\ mine' = mine
    <2>1. UNCHANGED <<link, late, astray>>
      BY DEF Record
    <2>2. mine[w] # {}
      BY <1>1 DEF Shape, Placed, Out
    <2>3. PICK r \in Requests : mine[w] = {r} /\ link[r].for = job[w]
      BY <2>2 DEF Links, AskTypes, AtMostOne, Linked
    <2>4. Store' /\ Evolving /\ recorded'[job[w]] = {r}
      BY <1>3, <2>1, <2>3, Asked, StoreRecord DEF Links
    <2>5. AskTypes'
      BY <1>3 DEF Links, AskTypes, AtMostOne, Asks
    <2>6. ask'[w] = "wait"
      BY <1>3 DEF Links, AskTypes
    <2>7. Linked(w)'
      BY <1>3, <2>1, <2>3, <2>4, <2>6, Asked DEF Linked
    <2>8. \A v \in Workers \ {w} : NoNew(v)
      BY <2>1, Asked DEF NoNew, RequestsFor, Alone
    <2>. QED
      BY <2>4, <2>5, <2>7, <2>8 DEF LinkStep
  <1>. QED
    BY <1>2, <1>3 DEF Record, GiveUp

LEMMA LinkCreates ==
    ASSUME Everywhere, Shape, Links, LockKept, NEW w \in Workers, AskLink(w), Create(w)
    PROVE  LinkStep(w)
  <1>1. PICK r \in Unused, exact \in BOOLEAN :
            /\ NewRequest(r, job[w], exact)
            /\ \/ /\ exact
                  /\ mine' = [mine EXCEPT ![w] = {r}]
                  /\ ask' = [ask EXCEPT ![w] = "record"]
               \/ StopAsking(w)
    BY DEF Create, GiveUp
  <1>2. /\ ask[w] = "create" /\ UNCHANGED <<recorded, late>>
        /\ astray' = IF lock[CardOf[job[w]]] = w THEN astray ELSE astray \cup {job[w]}
    BY DEF Create, Asking
  <1>3. job[w] \in astray' \/ RequestsFor(job[w]) = {}
    BY <1>2 DEF Links, Linked
  <1>4. astray \subseteq astray' /\ astray' \subseteq Executions /\ late' \subseteq Executions
    BY <1>2, Asked DEF Links, Store, StoreTypes
  <1>5. /\ Store' /\ Evolving
        /\ \A s \in Requests : link'[s].for \in Executions => (link[s].status # "absent" \/ s = r)
        /\ link'[r].for = job[w]
    BY <1>1, <1>2, <1>3, <1>4, Asked, StoreNew DEF Links
  <1>6. r \in Requests
    BY DEF Unused
  <1>7. AskTypes'
    BY <1>1, <1>6 DEF Links, AskTypes, AtMostOne, Asks, StopAsking
  <1>8. Linked(w)'
    <2>1. CASE StopAsking(w)
      BY <2>1, Asked, LinkedOut
    <2>2. CASE mine' = [mine EXCEPT ![w] = {r}] /\ ask' = [ask EXCEPT ![w] = "record"]
      <3>1. mine'[w] = {r} /\ ask'[w] = "record"
        BY <2>2 DEF Links, AskTypes
      <3>. QED
        BY <1>5, <3>1, Asked DEF Linked
    <2>. QED
      BY <1>1, <2>1, <2>2
  <1>9. ASSUME NEW v \in Workers \ {w} PROVE NoNew(v)
    <2>. SUFFICES ASSUME ask[v] = "create", lock[CardOf[job[v]]] = v, job[v] \notin astray',
                         RequestsFor(job[v]) = {}
                  PROVE  RequestsFor(job[v])' = {}
      BY DEF NoNew
    <2>1. job[v] \in Executions /\ job'[v] = job[v]
      BY Asked DEF Shape, Placed, Out, Inside, Everywhere, TypedWorkers, WorkersBusy
    <2>2. job[v] # job[w]
      BY <1>2
    <2>3. ASSUME NEW s \in Requests, link'[s].for = job[v] PROVE FALSE
      <3>1. link[s].status # "absent" /\ s # r
        BY <1>5, <2>1, <2>2, <2>3
      <3>2. link[s].for = job[v]
        BY <1>5, <2>3, <3>1 DEF Evolving
      <3>. QED
        BY <3>2 DEF RequestsFor
    <2>. QED
      BY <2>1, <2>3 DEF RequestsFor
  <1>. QED
    BY <1>5, <1>7, <1>8, <1>9 DEF LinkStep

\* Nobody's requests are others than before.
LEMMA NoneNew ==
    ASSUME NEW v \in Workers, job'[v] = job[v], \A s \in Requests : link'[s].for = link[s].for
    PROVE  NoNew(v)
  BY DEF NoNew, RequestsFor

LEMMA LinkApproves ==
    ASSUME Everywhere, Shape, Links, LockKept, NEW w \in Workers, AskLink(w), RequestApproval(w)
    PROVE  LinkStep(w)
  <1>1. PICK r \in mine[w] :
            link' = [link EXCEPT ![r].status = IF @ = "created" THEN "pending_approval" ELSE @]
    BY DEF RequestApproval
  <1>2. UNCHANGED <<recorded, late, astray>>
    BY DEF RequestApproval
  <1>3. r \in Requests /\ link[r].for = job[w] /\ link[r].status # "absent"
    BY MineIsThere
  <1>4. /\ link' \in [Requests -> [status : Active \cup {"absent", "closed"},
                              for : Executions \cup {None}, exact : BOOLEAN,
                              used : BOOLEAN, reported : SUBSET Reports]]
        /\ \A s \in Requests \ {r} : link'[s] = link[s]
        /\ link'[r].for = link[r].for /\ link'[r].exact = link[r].exact
        /\ link'[r].used = link[r].used /\ link'[r].reported = link[r].reported
        /\ link'[r].status # "absent"
    BY <1>1, <1>3 DEF Links, Store, StoreTypes, Active
  <1>5. Store' /\ Evolving
    <2>1. link[r].reported # {} => link[r].used
      BY <1>3 DEF Links, Store, ReportsTrue
    <2>. QED
      BY <1>2, <1>3, <1>4, <2>1, Asked, StoreEdit DEF Links
  <1>6. \A s \in Requests : link'[s].for = link[s].for
    BY <1>4
  <1>7. AskTypes'
    BY DEF RequestApproval, GiveUp, StopAsking, Links, AskTypes, AtMostOne, Asks
  <1>8. Linked(w)'
    <2>1. CASE StopAsking(w)
      BY <2>1, Asked, LinkedOut
    <2>2. CASE mine' = mine /\ ask' = [ask EXCEPT ![w] = "record"]
      <3>1. ask'[w] = "record"
        BY <2>2 DEF Links, AskTypes
      <3>2. \A s \in mine'[w] : link'[s].for = job'[w]
        BY <1>6, <2>2, MineIsThere, Asked
      <3>. QED
        BY <3>1, <3>2, Asked DEF Linked
    <2>. QED
      BY <2>1, <2>2 DEF RequestApproval, GiveUp
  <1>9. \A v \in Workers \ {w} : NoNew(v)
    BY <1>6, NoneNew, Asked
  <1>. QED
    BY <1>5, <1>7, <1>8, <1>9 DEF LinkStep

LEMMA LinksAsk ==
    ASSUME Everywhere, Shape, Links, LockKept, rail' = rail, NEW w \in Workers, AskLink(w)
    PROVE  Links'
  <1>1. LinkStep(w)
    BY LinkLook, LinkCreates, LinkApproves, LinkRecords, LinkWaits DEF AskLink
  <1>. QED
    BY <1>1, Asked, LinksAlone

LEMMA LinksBrowse ==
    ASSUME Everywhere, Shape, Links, LockKept, rail' = rail, NEW w \in Workers,
           Browse(w) \/ Snapshot(w)
    PROVE  Links'
  <1>1. UNCHANGED linkVars /\ charge' = charge
    BY BrowseRefines DEF Browse, Snapshot, vars, merchantVars
  <1>2. Alone(w) /\ job' = job
    BY ShapeBrowse
  <1>3. step'[w] \in Loaded => step[w] \in Loaded
    <2>1. CASE Recheck(w) \/ RefreshControls(w)
      BY <2>1 DEF Recheck, RefreshControls, BrowserStep, Loaded
    <2>2. CASE \E from, to \in Steps \ Loaded : BrowserStep(w, from, to)
      BY <2>2 DEF BrowserStep, Everywhere, AttemptTypeOK, BrowserTypeOK
    <2>3. CASE Preflight(w) \/ VerifyCart(w) \/ ResolveControls(w)
      BY <2>2, <2>3 DEF Preflight, VerifyCart, ResolveControls, Steps, Loaded
    <2>. QED
      BY <2>1, <2>2, <2>3 DEF Browse, Snapshot, StartSession, OpenPage, MapForm, FreezeForm,
         Steps, Loaded
  <1>. QED
    BY <1>1, <1>2, <1>3, LinkQuiet, LinksAlone DEF ChargeGrows

\* retrieve_card.
LEMMA LinksLoad ==
    ASSUME Everywhere, Shape, Links, LockKept, rail' = rail, NEW w \in Workers, Load(w)
    PROVE  Links'
  <1>1. Alone(w) /\ job' = job /\ charge' = charge
    BY BrowseRefines, ShapeBrowse DEF vars, merchantVars
  <1>2. CASE ~OnLink(w)
    BY <1>1, <1>2, LinkQuiet, LinksAlone DEF Load, ChargeGrows
  <1>3. CASE OnLink(w)
    <2>1. /\ ask[w] = "ready" /\ UNCHANGED <<recorded, ask, mine, late, astray>>
      BY <1>3 DEF Load, RetrieveCard
    <2>2. PICK r \in mine[w] : Acceptable(r) /\ link' = [link EXCEPT ![r].used = TRUE]
      BY <1>3 DEF Load, RetrieveCard
    <2>3. r \in Requests /\ link[r].for = job[w] /\ link[r].status # "absent"
      BY MineIsThere
    <2>4. /\ mine[w] = {r} /\ recorded[link[r].for] = {r} /\ link[r].exact
      BY <2>1, <2>2, <2>3 DEF Links, AskTypes, AtMostOne, Linked, Acceptable
    <2>5. /\ link' \in [Requests -> [status : Active \cup {"absent", "closed"},
                              for : Executions \cup {None}, exact : BOOLEAN,
                              used : BOOLEAN, reported : SUBSET Reports]]
          /\ \A s \in Requests \ {r} : link'[s] = link[s]
          /\ link'[r].for = link[r].for /\ link'[r].exact = link[r].exact
          /\ link'[r].used /\ link'[r].reported = link[r].reported
          /\ link'[r].status = link[r].status
      BY <2>2, <2>3 DEF Links, Store, StoreTypes
    <2>6. Store' /\ Evolving
      BY <1>1, <2>1, <2>3, <2>4, <2>5, StoreEdit DEF Links
    <2>7. \A s \in Requests : link'[s].for = link[s].for
      BY <2>5
    <2>8. \A v \in Workers \ {w} : NoNew(v)
      BY <1>1, <2>7, NoneNew
    <2>9. Linked(w)'
      BY <1>1, <2>1, <2>3, <2>4, <2>5 DEF Linked
    <2>10. AskTypes'
      BY <2>1 DEF Links, AskTypes, AtMostOne
    <2>. QED
      BY <1>1, <2>6, <2>8, <2>9, <2>10, LinksAlone DEF LinkStep
  <1>. QED
    BY <1>2, <1>3

\* report_outcome, by an attempt that ends.
LEMMA LinkReports ==
    ASSUME Everywhere, Shape, Links, LockKept, rail' = rail, NEW w \in Workers,
           Alone(w), Out(w)', job' = job, charge' = charge, OnLink(w), step[w] \in Loaded,
           NEW outcome \in Reports, Report(w, outcome),
           outcome = "success" => charge[job[w]] = "charged"
    PROVE  Links'
  <1>1. StopAsking(w) /\ UNCHANGED <<recorded, late, astray>>
    BY DEF Report
  <1>2. CASE UNCHANGED link
    <2>1. LinkStep(w)
      BY <1>1, <1>2, LinkEnds DEF Links, Store, StoreTypes, ChargeGrows
    <2>. QED
      BY <2>1, LinksAlone
  <1>3. ASSUME NEW r \in mine[w], link' = [link EXCEPT ![r].reported = @ \cup {outcome}]
        PROVE  Links'
    <2>1. r \in Requests /\ link[r].for = job[w] /\ link[r].status # "absent"
      BY MineIsThere
    <2>2. link[r].used
      BY DEF Links, Linked
    <2>3. /\ link' \in [Requests -> [status : Active \cup {"absent", "closed"},
                              for : Executions \cup {None}, exact : BOOLEAN,
                              used : BOOLEAN, reported : SUBSET Reports]]
          /\ \A s \in Requests \ {r} : link'[s] = link[s]
          /\ link'[r].for = link[r].for /\ link'[r].exact = link[r].exact
          /\ link'[r].used = link[r].used /\ link'[r].reported = link[r].reported \cup {outcome}
          /\ link'[r].status = link[r].status
      BY <1>3, <2>1 DEF Links, Store, StoreTypes
    <2>4. Store' /\ Evolving
      BY <1>1, <2>1, <2>2, <2>3, StoreEdit DEF Links
    <2>5. \A s \in Requests : link'[s].for = link[s].for
      BY <2>3
    <2>6. AskTypes'
      BY <1>1 DEF StopAsking, Links, AskTypes, AtMostOne, Asks
    <2>7. LinkStep(w)
      BY <2>4, <2>5, <2>6, LinkedOut, NoneNew DEF LinkStep
    <2>. QED
      BY <2>7, LinksAlone
  <1>. QED
    BY <1>2, <1>3 DEF Report

\* An attempt that ends and says nothing to Link.
LEMMA LinksEnd ==
    ASSUME Everywhere, Shape, Links, LockKept, rail' = rail, NEW w \in Workers,
           Alone(w), Out(w)', charge' = charge, EndLink(w)
    PROVE  Links'
  <1>1. LinkStep(w)
    BY LinkEnds DEF EndLink, Links, Store, StoreTypes, ChargeGrows
  <1>. QED
    BY <1>1, LinksAlone

LEMMA LinksBefore ==
    ASSUME Everywhere, Shape, Links, LockKept, rail' = rail, NEW w \in Workers,
           FailEarly(w) \/ Mark(w)
    PROVE  Links'
  <1>1. charge' = charge
    BY FailEarlyRefines, MarkRefines DEF FailBeforeSubmission, Submit, merchantVars
  <1>2. CASE FailEarly(w)
    BY <1>1, <1>2, ShapeFailEarly, LinksEnd DEF FailEarly
  <1>3. CASE Mark(w)
    <2>1. Alone(w) /\ job' = job /\ step[w] = "mark"
      BY <1>3, ShapeMark
    <2>2. CASE UNCHANGED linkVars
      BY <1>1, <2>1, <2>2, LinkQuiet, LinksAlone DEF ChargeGrows, Loaded
    <2>3. CASE EndLink(w) /\ CloseBrowser(w)
      <3>1. Out(w)'
        BY <2>3 DEF EndLink, StopAsking, CloseBrowser, Out, Everywhere, AttemptTypeOK,
           BrowserTypeOK, LinkTypeOK
      <3>. QED
        BY <1>1, <2>1, <2>3, <3>1, LinksEnd
    <2>4. pc'[w] = "error" => CloseBrowser(w)
      BY <1>3 DEF Mark, MarkRun, Goto, Everywhere, TypedWorkers, TypeOK
    <2>. QED
      BY <1>3, <2>2, <2>3, <2>4 DEF Mark
  <1>. QED
    BY <1>2, <1>3

LEMMA ClosedIsOut ==
    ASSUME Everywhere, NEW w \in Workers, StopAsking(w), CloseBrowser(w)
    PROVE  Out(w)'
  BY DEF StopAsking, CloseBrowser, Out, Everywhere, AttemptTypeOK, BrowserTypeOK, LinkTypeOK

LEMMA LinksAbandon ==
    ASSUME Everywhere, Shape, Links, LockKept, rail' = rail, NEW w \in Workers,
           Alone(w), job' = job, charge' = charge, step[w] \in Loaded, CloseBrowser(w), Abandon(w)
    PROVE  Links'
  <1>1. Out(w)'
    BY ClosedIsOut DEF Abandon, Report, EndLink
  <1>2. CASE EndLink(w)
    BY <1>1, <1>2, LinksEnd
  <1>3. CASE OnLink(w) /\ Report(w, "abandoned")
    BY <1>1, <1>3, LinkReports DEF Reports
  <1>. QED
    BY <1>2, <1>3 DEF Abandon

LEMMA LinksFill ==
    ASSUME Everywhere, Shape, Links, LockKept, rail' = rail, NEW w \in Workers, Fill(w)
    PROVE  Links'
  <1>1. Alone(w) /\ job' = job /\ charge' = charge /\ step[w] \in Loaded
    <2>1. step[w] \in Loaded
      BY DEF Fill, CheckField, TypeField, ClickPay, FillFails, Loaded
    <2>. QED
      BY <2>1, ShapeFill, FillRefines DEF FillAndClick, vars, merchantVars
  <1>2. CASE UNCHANGED linkVars
    BY <1>1, <1>2, LinkQuiet, LinksAlone DEF ChargeGrows
  <1>3. CASE pc'[w] = "error" /\ Abandon(w)
    <2>1. pc[w] = "fill"
      BY ShapeFill
    <2>2. CloseBrowser(w)
      BY <1>3, <2>1 DEF Fill, CheckField, TypeField, ClickPay, FillFails, Goto, workerVars, Everywhere,
         TypedWorkers, TypeOK
    <2>. QED
      BY <1>1, <1>3, <2>2, LinksAbandon
  <1>. QED
    BY <1>2, <1>3 DEF Fill

LEMMA LinksRead ==
    ASSUME Everywhere, Shape, Links, LockKept, rail' = rail, NEW w \in Workers, ReadResult(w)
    PROVE  Links'
  <1>1. /\ Alone(w) /\ job' = job /\ charge' = charge /\ step[w] \in Loaded
        /\ CloseBrowser(w)
    BY ShapeReadResult DEF ReadResult, TakePageResult, LeavePage, ResultFails, Loaded, merchantVars
  <1>2. CASE EndLink(w)
    BY <1>1, <1>2, ClosedIsOut, LinksEnd DEF EndLink
  <1>3. CASE TakePageResult(w)
    <2>1. ASSUME NEW shown \in PageShows(w), OnLink(w), Report(w, ReportFor(shown)) PROVE Links'
      <3>1. /\ ReportFor(shown) \in Reports
            /\ ReportFor(shown) = "success" => charge[job[w]] = "charged"
        BY DEF PageShows, HostedShows, MarkersShow, ReportFor, Reports
      <3>2. Out(w)'
        BY <1>1, <2>1, ClosedIsOut DEF Report
      <3>. QED
        BY <1>1, <2>1, <3>1, <3>2, LinkReports
    <2>. QED
      BY <1>2, <1>3, <2>1 DEF TakePageResult
  <1>4. CASE LeavePage(w)
    BY <1>1, <1>4, LinkQuiet, LinksAlone DEF LeavePage, ChargeGrows
  <1>5. CASE ResultFails(w)
    BY <1>1, <1>2, <1>5, LinksAbandon DEF ResultFails
  <1>. QED
    BY <1>3, <1>4, <1>5 DEF ReadResult

LEMMA LinksAnswers ==
    ASSUME Everywhere, Shape, Links, LockKept, rail' = rail, NEW w \in Workers,
           FindAuthorization(w) \/ VerifyIntent(w)
    PROVE  Links'
  <1>1. charge' = charge /\ step' = step
    BY ShapeAnswers DEF FindAuthorization, VerifyIntent, merchantVars, browserVars
  <1>. QED
    BY <1>1, ShapeAnswers, LinkQuiet, LinksAlone DEF ChargeGrows

LEMMA LinksStill ==
    ASSUME Everywhere, Shape, Links, LockKept, rail' = rail, UNCHANGED <<linkVars, job, step>>,
           ChargeGrows
    PROVE  Links'
  <1>. USE DEF linkVars
  <1>1. Store' /\ Evolving
    BY StoreStill DEF Links, Store, StoreTypes
  <1>2. \A v \in Workers : NoNew(v)
    BY NoneNew
  <1>. QED
    BY <1>1, <1>2, LinksSurrounded

\* The owner decides, a request expires.
LEMMA LinksChange ==
    ASSUME Everywhere, Shape, Links, LockKept, rail' = rail, UNCHANGED <<job, step, charge>>,
           NEW r \in Requests, OwnerDecides(r) \/ Expires(r)
    PROVE  Links'
  <1>1. PICK status \in {"approved", "closed"} : link' = [link EXCEPT ![r].status = status]
    BY DEF OwnerDecides, Expires
  <1>2. /\ link[r].status # "absent"
        /\ UNCHANGED <<recorded, ask, mine, late, astray>>
    BY DEF OwnerDecides, Expires, Active
  <1>3. /\ link' \in [Requests -> [status : Active \cup {"absent", "closed"},
                              for : Executions \cup {None}, exact : BOOLEAN,
                              used : BOOLEAN, reported : SUBSET Reports]]
        /\ \A s \in Requests \ {r} : link'[s] = link[s]
        /\ link'[r].for = link[r].for /\ link'[r].exact = link[r].exact
        /\ link'[r].used = link[r].used /\ link'[r].reported = link[r].reported
        /\ link'[r].status # "absent"
    BY <1>1 DEF Links, Store, StoreTypes, Active
  <1>4. link[r].reported # {} => link[r].used
    BY DEF Links, Store, ReportsTrue
  <1>5. Store' /\ Evolving
    BY <1>2, <1>3, <1>4, StoreEdit DEF Links
  <1>6. \A s \in Requests : link'[s].for = link[s].for
    BY <1>3
  <1>7. \A v \in Workers : NoNew(v)
    BY <1>6, NoneNew
  <1>. QED
    BY <1>2, <1>5, <1>7, LinksSurrounded

LEMMA LinksLate ==
    ASSUME Everywhere, Shape, Links, LockKept, rail' = rail, UNCHANGED <<job, step, charge>>,
           NEW e \in Executions, LateCreate(e)
    PROVE  Links'
  <1>1. PICK r \in Unused : NewRequest(r, e, TRUE)
    BY DEF LateCreate
  <1>2. /\ UNCHANGED <<recorded, ask, mine>>
        /\ astray' = astray \cup {e} /\ late' = late \ {e}
    BY DEF LateCreate
  <1>3. /\ Store' /\ Evolving
        /\ \A s \in Requests : link'[s].for \in Executions => (link[s].status # "absent" \/ s = r)
        /\ link'[r].for = e
    <2>1. astray' \subseteq Executions /\ late' \subseteq Executions
      BY <1>2 DEF Links, Store, StoreTypes
    <2>. QED
      BY <1>1, <1>2, <2>1, StoreNew DEF Links
  <1>4. ASSUME NEW v \in Workers PROVE NoNew(v)
    <2>. SUFFICES ASSUME ask[v] = "create", job[v] \notin astray', RequestsFor(job[v]) = {}
                  PROVE  RequestsFor(job[v])' = {}
      BY DEF NoNew
    <2>1. job[v] \in Executions /\ job[v] # e
      BY <1>2 DEF Shape, Placed, Out, Inside, Everywhere, TypedWorkers, WorkersBusy
    <2>2. ASSUME NEW s \in Requests, link'[s].for = job[v] PROVE FALSE
      <3>1. link[s].status # "absent"
        BY <1>3, <2>1, <2>2
      <3>2. link[s].for = job[v]
        BY <1>3, <2>2, <3>1 DEF Evolving
      <3>. QED
        BY <3>2 DEF RequestsFor
    <2>. QED
      BY <2>2 DEF RequestsFor
  <1>. QED
    BY <1>2, <1>3, <1>4, LinksSurrounded

LEMMA LinksSurroundings ==
    ASSUME Everywhere, Shape, Links, LockKept, rail' = rail, Surroundings
    PROVE  Links'
  <1>1. ASSUME NEW w \in Workers, Die(w) PROVE Links'
    <2>0. Out(w)'
      BY <1>1, ClosedIsOut DEF Die
    <2>1. Alone(w)
      BY <1>1 DEF Die, Crash, LeaveClaim, Goto, CloseBrowser, StopAsking, Alone,
         Everywhere, TypedWorkers, TypeOK, AttemptTypeOK, BrowserTypeOK, LinkTypeOK
    <2>2. late' \subseteq Executions
      <3>1. late' = late \/ (late' = late \cup {job[w]} /\ ask[w] = "create")
        BY <1>1 DEF Die, CutOff
      <3>2. ask[w] = "create" => job[w] \in Executions
        BY DEF Shape, Placed, Out, Inside, Everywhere, TypedWorkers, WorkersBusy
      <3>. QED
        BY <3>1, <3>2 DEF Links, Store, StoreTypes
    <2>3. ChargeGrows
      BY <1>1 DEF Die, Crash, LeaveClaim, merchantVars, ChargeGrows
    <2>. QED
      BY <1>1, <2>0, <2>1, <2>2, <2>3, LinkEnds, LinksAlone DEF Die
  <1>2. ASSUME NEW w \in Workers, PageMoves(w) PROVE Links'
    BY <1>2, LinksStill DEF PageMoves, Reprice, Rerender, Frame, workerVars, merchantVars, ChargeGrows
  <1>3. ASSUME NEW e \in Executions, Settles(e) PROVE Links'
    <2>1. ChargeGrows
      <3>1. PICK decision : charge' = [charge EXCEPT ![e] = decision] /\ charge[e] = "none"
        BY <1>3 DEF Settles, MerchantSettles
      <3>2. \A d \in Executions : charge'[d] = charge[d] \/ d = e
        BY <3>1 DEF Everywhere, TypedWorkers, TypeOK
      <3>. QED
        BY <3>1, <3>2 DEF ChargeGrows
    <2>. QED
      BY <1>3, <2>1, LinksStill DEF Settles, MerchantSettles, workerVars, browserVars
  <1>4. CASE RowsMove
    BY <1>4, LinksStill, RowsMoveAlone DEF attemptVars, browserVars, workerVars, merchantVars,
       ChargeGrows
  <1>5. ASSUME NEW c \in Cards, LockDrops(c) /\ Idle PROVE Links'
    BY <1>5, LinksStill DEF LockDrops, Idle, attemptVars, browserVars, merchantVars, ChargeGrows
  <1>6. CASE IssuingMoves
    BY <1>6, LinksStill DEF IssuingMoves, Tick, OtherUse, browserVars, workerVars, merchantVars,
       ChargeGrows
  <1>7. CASE LinkMoves
    <2>1. UNCHANGED <<job, step, charge>>
      BY <1>7 DEF LinkMoves, LateCreate, OwnerDecides, Expires, browserVars, workerVars, merchantVars
    <2>. QED
      BY <1>7, <2>1, LinksChange, LinksLate DEF LinkMoves
  <1>. QED
    BY <1>1, <1>2, <1>3, <1>4, <1>5, <1>6, <1>7 DEF Surroundings

LEMMA LinksNext == Everywhere /\ Shape /\ Links /\ [AttemptNext]_allVars => Links'
  <1>. SUFFICES ASSUME Everywhere, Shape, Links, [AttemptNext]_allVars PROVE Links'
    OBVIOUS
  <1>1. LockKept /\ rail' = rail
    BY LocksNext, RailKept
  <1>2. CASE UNCHANGED allVars
    BY <1>1, <1>2, LinksStill DEF allVars, vars, workerVars, merchantVars, attemptVars, browserVars,
       ChargeGrows
  <1>. QED
    BY <1>1, <1>2, LinksBegin, LinksOutside, LinksAsk, LinksBrowse, LinksLoad, LinksBefore, LinksFill,
       LinksRead, LinksAnswers, LinksSurroundings DEF AttemptNext, AttemptStep

-----------------------------------------------------------------------------
(* Authorizations: what is not this checkout's was listed, or is older than  *)
(* what is asked for.                                                        *)

Clocks == IssuingTypeOK /\ IsFiniteSet(auths) /\ time >= 1

\* A worker that has listed the card's authorizations.
Listing(w) ==
    /\ OnIssuing(w)
    /\ step[w] \in {"preflight", "freeze", "load"} \cup Loaded \/ pc[w] \in {"fill", "await"}

Covered(w) ==
    Listing(w) =>
        \A a \in auths :
            \/ a.ours \/ a \in excluded[w]
            \/ a.at < WorkerTime /\ (pc[w] \in {"fill", "await"} => a.at < since[w])

\* At most one checkout pays by a card of Issuing.
OneIssued == \A d, e \in Executions : (rail[d] = "issuing" /\ rail[e] = "issuing") => d = e

\* An authorization of the only checkout tells what became of its payment.
OursTrue ==
    OneIssued => \A a \in auths, e \in Executions :
        (a.ours /\ rail[e] = "issuing") =>
            charge[e] = IF a.approved THEN "charged" ELSE "declined"

\* What one worker's step does to the clocks and the authorizations.
ClockStep(w) ==
    /\ UNCHANGED <<time, lead, auths, charge>>
    /\ \A v \in Workers \ {w} : excluded'[v] = excluded[v] /\ since'[v] = since[v]
    /\ Clocks'
    /\ Covered(w)'

LEMMA Forgotten ==
    ASSUME Clocks, NEW w \in Workers, ForgetAttempt(w)
    PROVE  /\ Clocks' /\ UNCHANGED <<time, lead, auths>>
           /\ \A v \in Workers \ {w} : excluded'[v] = excluded[v] /\ since'[v] = since[v]
  BY DEF ForgetAttempt, Clocks, IssuingTypeOK

LEMMA ClockStill ==
    ASSUME Clocks, UNCHANGED issuingVars
    PROVE  Clocks'
  BY DEF issuingVars, Clocks, IssuingTypeOK

LEMMA ClockRuns ==
    ASSUME NEW t \in Nat, NEW u \in Nat, NEW l \in Nat, t >= 1, u >= t
    PROVE  /\ t + l - 1 \in Nat /\ u + l - 1 \in Nat
           /\ u + l - 1 >= t + l - 1
  OBVIOUS

LEMMA CoveredKept ==
    ASSUME Clocks, NEW v \in Workers, Covered(v), Listing(v)' => Listing(v),
           UNCHANGED <<lead, auths>>, time' >= time, time' \in Nat,
           excluded'[v] = excluded[v], since'[v] = since[v],
           pc'[v] \in {"fill", "await"} => pc[v] \in {"fill", "await"}
    PROVE  Covered(v)'
  <1>. SUFFICES ASSUME Listing(v)', NEW a \in auths, ~a.ours, a \notin excluded[v]
                PROVE  a.at < WorkerTime' /\ (pc'[v] \in {"fill", "await"} => a.at < since'[v])
    BY DEF Covered
  <1>1. a.at < WorkerTime /\ (pc[v] \in {"fill", "await"} => a.at < since[v])
    BY DEF Covered
  <1>2. a.at \in Nat /\ WorkerTime \in Nat /\ WorkerTime' \in Nat /\ WorkerTime' >= WorkerTime
    <2>1. a.at \in Nat
      BY DEF Clocks, IssuingTypeOK, Authorizations
    <2>2. lead \in Nat /\ time \in Nat /\ time >= 1
      BY LeadsAssumption DEF Clocks, IssuingTypeOK
    <2>3. lead' = lead /\ time' \in Nat /\ time' >= time
      OBVIOUS
    <2>4. WorkerTime = time + lead - 1 /\ WorkerTime' = time' + lead - 1
      BY <2>3 DEF WorkerTime
    <2>. QED
      BY <2>1, <2>2, <2>3, <2>4, ClockRuns
  <1>3. a.at < WorkerTime'
    BY <1>1, <1>2
  <1>4. pc'[v] \in {"fill", "await"} => a.at < since'[v]
    BY <1>1
  <1>. QED
    BY <1>3, <1>4

LEMMA CoversQuiet ==
    ASSUME Clocks, NEW w \in Workers, Covered(w), UNCHANGED <<issuingVars, charge>>,
           Listing(w)' => Listing(w),
           pc'[w] \in {"fill", "await"} => pc[w] \in {"fill", "await"}
    PROVE  ClockStep(w)
  <1>1. Clocks'
    BY ClockStill
  <1>2. UNCHANGED <<time, lead, auths, excluded, since>> /\ time \in Nat /\ time' >= time
    BY DEF issuingVars, Clocks, IssuingTypeOK
  <1>3. Covered(w)'
    BY <1>2, CoveredKept
  <1>. QED
    BY <1>1, <1>2, <1>3 DEF ClockStep

LEMMA CoversOut ==
    ASSUME Clocks, NEW w \in Workers, UNCHANGED issuingVars \/ ForgetAttempt(w), charge' = charge,
           step'[w] = "off", pc'[w] \notin {"fill", "await"}
    PROVE  ClockStep(w)
  <1>1. Clocks' /\ UNCHANGED <<time, lead, auths>>
    BY ClockStill, Forgotten DEF issuingVars
  <1>2. \A v \in Workers \ {w} : excluded'[v] = excluded[v] /\ since'[v] = since[v]
    BY Forgotten DEF issuingVars
  <1>3. Covered(w)'
    BY DEF Covered, Listing, Loaded
  <1>. QED
    BY <1>1, <1>2, <1>3 DEF ClockStep

Books == Clocks /\ (\A w \in Workers : Covered(w)) /\ OursTrue

LEMMA BooksAlone ==
    ASSUME Everywhere, Books, rail' = rail, NEW w \in Workers, Alone(w), ClockStep(w)
    PROVE  Books'
  <1>1. ASSUME NEW v \in Workers \ {w} PROVE Covered(v)'
    <2>1. Listing(v)' => Listing(v)
      BY DEF Listing, OnIssuing, RailOf, Alone
    <2>. QED
      BY <2>1, CoveredKept DEF Books, Alone, ClockStep, Clocks, IssuingTypeOK
  <1>2. OursTrue'
    BY DEF Books, OursTrue, OneIssued, ClockStep
  <1>. QED
    BY <1>1, <1>2 DEF Books, ClockStep

LEMMA BooksBefore ==
    ASSUME Everywhere, Shape, Books, rail' = rail, NEW w \in Workers,
           Begin(w) \/ Outside(w) \/ AskLink(w)
    PROVE  Books'
  <1>1. CASE Begin(w)
    <2>1. charge' = charge /\ pc'[w] \notin {"fill", "await"} /\ step'[w] \in {"off", "session"}
      <3>1. pc[w] = "validate" /\ charge' = charge /\ pc'[w] \in {"browse", "error"}
        BY <1>1 DEF Begin, PrepareAgain, At, Goto, Raise, merchantVars, Everywhere, TypedWorkers, TypeOK
      <3>2. step[w] = "off"
        BY <3>1 DEF Shape, Placed, Out, Inside
      <3>. QED
        BY <1>1, <3>1, <3>2 DEF Begin, StartRun, Idle, attemptVars, browserVars, Everywhere,
           AttemptTypeOK, BrowserTypeOK
    <2>2. UNCHANGED issuingVars
      BY <1>1 DEF Begin, Idle, attemptVars
    <2>3. ~Listing(w)'
      BY <2>1 DEF Listing, Loaded
    <2>. QED
      BY <1>1, <2>1, <2>2, <2>3, CoversQuiet, ShapeBegin, BooksAlone DEF Books
  <1>2. CASE Outside(w)
    <2>1. pc'[w] \notin {"fill", "await"} /\ charge' = charge
      <3>1. pc \in [Workers -> Stages]
        BY DEF Everywhere, TypedWorkers, TypeOK
      <3>2. CASE Claim(w)
        <4>1. pc[w] = "idle" /\ charge' = charge /\ (pc' = pc \/ Goto(w, "prepare"))
          BY <3>2 DEF Claim, At, workerVars, merchantVars
        <4>. QED
          BY <3>1, <4>1 DEF Goto
      <3>3. CASE Prepare(w) \/ AcquireCardLock(w) \/ FailBeforeSubmission(w)
        BY <3>1, <3>3 DEF Prepare, AcquireCardLock, FailBeforeSubmission, Raise, Goto, merchantVars
      <3>4. CASE Settle(w)
        <4>1. charge' = charge /\ (Goto(w, "release") \/ Goto(w, "error"))
          BY <3>4 DEF Settle, Raise, merchantVars
        <4>. QED
          BY <3>1, <4>1 DEF Goto
      <3>5. CASE HandleError(w) \/ HandlingFails(w) \/ Release(w)
        <4>1. charge' = charge /\ \E stage \in {"again", "release", "idle"} : Goto(w, stage)
          BY <3>5 DEF HandleError, HandlingFails, RaiseAgain, Release, LeaveClaim, merchantVars
        <4>. QED
          BY <3>1, <4>1 DEF Goto
      <3>. QED
        BY <1>2, <3>2, <3>3, <3>4, <3>5 DEF Outside
    <2>2. UNCHANGED issuingVars /\ step'[w] = "off"
      BY <1>2, ShapeOutside DEF Outside, Idle, attemptVars, Out
    <2>. QED
      BY <1>2, <2>1, <2>2, CoversOut, ShapeOutside, BooksAlone DEF Books
  <1>3. CASE AskLink(w)
    <2>1. UNCHANGED issuingVars /\ charge' = charge /\ Alone(w) /\ job' = job
      BY <1>3, Asked DEF AskLink
    <2>2. ~OnIssuing(w) /\ pc[w] = "browse"
      <3>1. pc[w] = "browse" /\ ask[w] # "off"
        BY <1>3 DEF AskLink, Look, Create, RequestApproval, Record, WaitForApproval, LinkFails,
           Asking, At
      <3>2. OnLink(w)
        BY <3>1 DEF Shape, Placed, Out
      <3>. QED
        BY <3>1, <3>2 DEF OnLink, OnIssuing, LinkRails
    <2>3. ~Listing(w)'
      BY <2>1, <2>2 DEF Listing, OnIssuing, RailOf
    <2>4. pc'[w] \notin {"fill", "await"}
      <3>1. pc' = pc \/ Goto(w, "error")
        BY <1>3 DEF AskLink, Look, Create, RequestApproval, Record, WaitForApproval, LinkFails,
           GiveUp, Raise, workerVars
      <3>. QED
        BY <2>2, <3>1 DEF Goto, Everywhere, TypedWorkers, TypeOK
    <2>. QED
      BY <2>1, <2>3, <2>4, CoversQuiet, BooksAlone DEF Books
  <1>. QED
    BY <1>1, <1>2, <1>3

LEMMA BooksRun ==
    ASSUME Everywhere, Shape, Books, rail' = rail, NEW w \in Workers,
           Browse(w) \/ Load(w) \/ FailEarly(w)
    PROVE  Books'
  <1>1. CASE FailEarly(w)
    <2>1. step'[w] = "off" /\ pc'[w] = "error" /\ charge' = charge
      BY <1>1 DEF FailEarly, BrowserFails, FreezeTooLate, CloseBrowser, Raise, Goto, merchantVars,
         Everywhere, TypedWorkers, TypeOK, AttemptTypeOK, BrowserTypeOK
    <2>2. UNCHANGED issuingVars \/ ForgetAttempt(w)
      BY <1>1 DEF FailEarly, EndIssuing
    <2>. QED
      BY <1>1, <2>1, <2>2, CoversOut, ShapeFailEarly, BooksAlone DEF Books
  <1>2. CASE Browse(w) \/ Load(w)
    <2>1. UNCHANGED issuingVars /\ charge' = charge /\ pc' = pc /\ Alone(w) /\ job' = job
      BY <1>2, BrowseRefines, ShapeBrowse DEF Browse, Load, vars, workerVars, merchantVars
    <2>. DEFINE Unlisted == {"off", "session", "open", "verify", "map", "resolve", "snapshot"}
    <2>2. ASSUME NEW from, NEW to, BrowserStep(w, from, to), OnIssuing(w),
                 to \in Unlisted \/ from \notin Unlisted
          PROVE  step'[w] \in Steps \ Unlisted => step[w] \in Steps \ Unlisted
      BY <2>2 DEF BrowserStep, Everywhere, AttemptTypeOK, BrowserTypeOK
    <2>3. OnIssuing(w) => (step'[w] \in Steps \ Unlisted => step[w] \in Steps \ Unlisted)
      <3>1. CASE StartSession(w) \/ OpenPage(w) \/ MapForm(w) \/ FreezeForm(w) \/ Load(w)
                 \/ Recheck(w) \/ RefreshControls(w)
        BY <2>2, <3>1 DEF StartSession, OpenPage, MapForm, FreezeForm, Load, LoadCard, Recheck,
           RefreshControls
      <3>2. CASE VerifyCart(w) \/ ResolveControls(w) \/ Preflight(w)
        BY <2>2, <3>2 DEF VerifyCart, ResolveControls, Preflight, OnIssuing, MappedRails
      <3>. QED
        BY <1>2, <3>1, <3>2 DEF Browse
    <2>4. Listing(w)' => Listing(w)
      BY <2>1, <2>3 DEF Listing, OnIssuing, RailOf, Steps, Loaded
    <2>. QED
      BY <2>1, <2>4, CoversQuiet, BooksAlone DEF Books
  <1>. QED
    BY <1>1, <1>2

\* What is on the list before the submission is excluded, or too old to be
\* asked for after it.
LEMMA BooksSnapshot ==
    ASSUME Everywhere, Shape, Books, rail' = rail, NEW w \in Workers, Snapshot(w)
    PROVE  Books'
  <1>1. /\ Alone(w) /\ job' = job /\ charge' = charge /\ pc' = pc /\ pc[w] = "browse"
    BY BrowseRefines, ShapeBrowse DEF vars, workerVars, merchantVars, At
  <1>2. /\ excluded' = [excluded EXCEPT ![w] = CreatedFrom(WorkerTime)]
        /\ UNCHANGED <<time, lead, auths, since>>
    BY DEF Snapshot, TakeSnapshot
  <1>3. excluded' \in [Workers -> SUBSET auths] /\ excluded'[w] = CreatedFrom(WorkerTime)
    BY <1>2 DEF CreatedFrom, Books, Clocks, IssuingTypeOK
  <1>4. Clocks'
    BY <1>2, <1>3 DEF Books, Clocks, IssuingTypeOK
  <1>5. ASSUME NEW a \in auths PROVE a \in excluded'[w] \/ a.at < WorkerTime'
    <2>1. a.at \in Nat /\ lead \in Nat /\ time \in Nat /\ WorkerTime' = WorkerTime
      BY <1>2, LeadsAssumption DEF Books, Clocks, IssuingTypeOK, Authorizations, WorkerTime
    <2>2. a.at >= WorkerTime \/ a.at < WorkerTime
      BY <2>1 DEF WorkerTime
    <2>. QED
      BY <1>3, <2>1, <2>2 DEF CreatedFrom
  <1>6. Covered(w)'
    BY <1>1, <1>2, <1>5 DEF Covered
  <1>. QED
    BY <1>1, <1>2, <1>4, <1>6, BooksAlone DEF ClockStep, Books, Clocks, IssuingTypeOK

LEMMA BooksMark ==
    ASSUME Everywhere, Shape, Books, rail' = rail, NEW w \in Workers, Mark(w)
    PROVE  Books'
  <1>1. /\ Alone(w) /\ job' = job /\ charge' = charge /\ step[w] = "mark"
    BY MarkRefines, ShapeMark DEF Submit, FailBeforeSubmission, merchantVars
  <1>2. pc'[w] = "error" => step'[w] = "off"
    BY DEF Mark, MarkRun, CloseBrowser, Goto, Everywhere, TypedWorkers, TypeOK, AttemptTypeOK,
       BrowserTypeOK
  <1>3. CASE pc'[w] = "error"
    BY <1>1, <1>2, <1>3, CoversOut, BooksAlone DEF Mark, EndIssuing, Books
  <1>4. CASE pc'[w] # "error" /\ ~OnIssuing(w)
    <2>1. UNCHANGED issuingVars /\ ~Listing(w)'
      BY <1>1, <1>4 DEF Mark, Listing, OnIssuing, RailOf
    <2>2. Clocks' /\ Covered(w)'
      BY <2>1, ClockStill DEF Covered, Books
    <2>. QED
      BY <1>1, <2>1, <2>2, BooksAlone DEF ClockStep, issuingVars
  <1>5. CASE pc'[w] # "error" /\ OnIssuing(w)
    <2>1. since' = [since EXCEPT ![w] = WorkerTime] /\ UNCHANGED <<time, lead, auths, excluded>>
      BY <1>5 DEF Mark, NoteSubmission
    <2>2. WorkerTime \in Nat /\ WorkerTime' = WorkerTime
      <3>1. lead \in Nat /\ time \in Nat /\ time >= 1
        BY LeadsAssumption DEF Books, Clocks, IssuingTypeOK
      <3>. QED
        BY <2>1, <3>1 DEF WorkerTime
    <2>3. since' \in [Workers -> Nat] /\ since'[w] = WorkerTime
      BY <2>1, <2>2 DEF Books, Clocks, IssuingTypeOK
    <2>4. Clocks'
      BY <2>1, <2>3 DEF Books, Clocks, IssuingTypeOK
    <2>5. Listing(w)
      BY <1>1, <1>5 DEF Listing, Loaded
    <2>6. Covered(w)'
      BY <2>1, <2>2, <2>3, <2>5 DEF Covered, Books
    <2>. QED
      BY <1>1, <2>1, <2>4, <2>6, BooksAlone DEF ClockStep, Books, Clocks, IssuingTypeOK
  <1>. QED
    BY <1>3, <1>4, <1>5

LEMMA BooksAfter ==
    ASSUME Everywhere, Shape, Books, rail' = rail, NEW w \in Workers,
           Fill(w) \/ ReadResult(w) \/ FindAuthorization(w) \/ VerifyIntent(w)
    PROVE  Books'
  <1>. USE DEF Everywhere, TypedWorkers, TypeOK, AttemptTypeOK, BrowserTypeOK
  <1>1. charge' = charge
    BY FillRefines DEF FillAndClick, ReadResult, FindAuthorization, VerifyIntent, vars, merchantVars
  <1>2. CASE Fill(w)
    <2>1. Alone(w) /\ job' = job /\ pc[w] = "fill"
      BY <1>2, ShapeFill
    <2>2. CASE pc'[w] = "error"
      <3>1. CloseBrowser(w) /\ EndIssuing(w)
        BY <1>2, <2>1, <2>2 DEF Fill, CheckField, TypeField, ClickPay, FillFails, Goto, workerVars
      <3>. QED
        BY <1>1, <2>1, <2>2, <3>1, CoversOut, BooksAlone DEF EndIssuing, CloseBrowser, Books
    <2>3. CASE pc'[w] # "error"
      <3>1. UNCHANGED issuingVars
        BY <1>2, <2>3 DEF Fill
      <3>2. Listing(w)' => Listing(w)
        BY <2>1 DEF Listing, OnIssuing, RailOf
      <3>. QED
        BY <1>1, <2>1, <3>1, <3>2, CoversQuiet, BooksAlone DEF Books
    <2>. QED
      BY <2>2, <2>3
  <1>3. CASE ReadResult(w)
    <2>1. Alone(w) /\ job' = job /\ pc[w] = "await"
      BY <1>3, ShapeReadResult
    <2>2. CloseBrowser(w)
      BY <1>3 DEF ReadResult, TakePageResult, LeavePage, ResultFails
    <2>3. CASE UNCHANGED issuingVars
      <3>1. Listing(w)' => Listing(w)
        BY <2>1 DEF Listing, OnIssuing, RailOf
      <3>. QED
        BY <1>1, <2>1, <2>3, <3>1, CoversQuiet, BooksAlone DEF Books
    <2>4. CASE ForgetAttempt(w) /\ pc'[w] \notin {"fill", "await"}
      BY <1>1, <2>1, <2>2, <2>4, CoversOut, BooksAlone DEF CloseBrowser, Books
    <2>5. CASE TakePageResult(w)
      BY <2>3, <2>5 DEF TakePageResult
    <2>6. CASE LeavePage(w)
      BY <2>3, <2>4, <2>6 DEF LeavePage, Conclude, Goto
    <2>7. CASE ResultFails(w)
      BY <2>3, <2>4, <2>7 DEF ResultFails, EndIssuing, Conclude, Raise, Goto
    <2>. QED
      BY <1>3, <2>5, <2>6, <2>7 DEF ReadResult
  <1>4. CASE FindAuthorization(w) \/ VerifyIntent(w)
    <2>1. Alone(w) /\ job' = job /\ step'[w] = "off"
      BY <1>4, ShapeAnswers DEF browserVars
    <2>2. pc'[w] \notin {"fill", "await"}
      BY <1>4 DEF FindAuthorization, VerifyIntent, Conclude, Raise, Goto
    <2>3. UNCHANGED issuingVars \/ ForgetAttempt(w)
      BY <1>4 DEF FindAuthorization, VerifyIntent, Idle, attemptVars
    <2>. QED
      BY <1>1, <2>1, <2>2, <2>3, CoversOut, BooksAlone DEF Books
  <1>. QED
    BY <1>2, <1>3, <1>4

\* A new authorization: of this checkout, or of a time nobody has listed yet.
LEMMA BooksGrow ==
    ASSUME Clocks, NEW own \in BOOLEAN, NEW approved \in BOOLEAN, Authorize(own, approved),
           UNCHANGED <<time, lead, excluded, since, rail, job, pc, step>>,
           \A w \in Workers : Covered(w), own \/ \A w \in Workers : ~Listing(w)
    PROVE  /\ Clocks' /\ \A w \in Workers : Covered(w)'
           /\ \A a \in auths' : a \in auths \/ (a.ours = own /\ a.approved = approved)
  <1>. DEFINE new == [id |-> Cardinality(auths) + 1, at |-> time, ours |-> own, approved |-> approved]
  <1>1. auths' = auths \cup {new}
    BY DEF Authorize
  <1>2. new \in Authorizations
    <2>1. Cardinality(auths) \in Nat /\ time \in Nat
      BY FS_CardinalityType DEF Clocks, IssuingTypeOK
    <2>. QED
      BY <2>1 DEF Authorizations
  <1>3. IsFiniteSet(auths')
    BY <1>1, FS_AddElement DEF Clocks
  <1>4. Clocks'
    BY <1>1, <1>2, <1>3 DEF Clocks, IssuingTypeOK
  <1>5. \A a \in auths' : a \in auths \/ (a.ours = own /\ a.approved = approved)
    BY <1>1
  <1>6. ASSUME NEW w \in Workers PROVE Covered(w)'
    <2>1. Listing(w)' = Listing(w) /\ WorkerTime' = WorkerTime
      BY DEF Listing, OnIssuing, RailOf, WorkerTime
    <2>2. Listing(w) => own
      OBVIOUS
    <2>. QED
      BY <1>5, <2>1, <2>2 DEF Covered
  <1>. QED
    BY <1>4, <1>5, <1>6

LEMMA BooksStill ==
    ASSUME Everywhere, Books, UNCHANGED <<lead, auths, excluded, since, rail, charge>>,
           UNCHANGED <<job, pc, step>>, time' \in Nat, time' >= time
    PROVE  Books'
  <1>1. Clocks'
    BY DEF Books, Clocks, IssuingTypeOK
  <1>2. \A v \in Workers : Covered(v)'
    BY CoveredKept DEF Books, Listing, OnIssuing, RailOf
  <1>3. OursTrue'
    BY DEF Books, OursTrue, OneIssued
  <1>. QED
    BY <1>1, <1>2, <1>3 DEF Books

LEMMA BooksSettle ==
    ASSUME Everywhere, Books, NEW e \in Executions, Settles(e)
    PROVE  Books'
  <1>1. PICK decision \in {"charged", "declined"} :
            charge[e] = "none" /\ charge' = [charge EXCEPT ![e] = decision]
    BY DEF Settles, MerchantSettles
  <1>2. charge'[e] = decision /\ \A d \in Executions \ {e} : charge'[d] = charge[d]
    BY <1>1 DEF Everywhere, TypedWorkers, TypeOK
  <1>3. UNCHANGED <<time, lead, excluded, since, rail, job, pc, step>>
    BY DEF Settles, MerchantSettles, workerVars, browserVars, issuingVars
  <1>4. OursTrue
    BY DEF Books
  <1>5. time \in Nat /\ time' \in Nat /\ time' >= time
    BY <1>3 DEF Books, Clocks, IssuingTypeOK
  <1>6. OneIssued => \A a \in auths : ~(a.ours /\ rail[e] = "issuing")
    BY <1>1, <1>4 DEF OursTrue
  <1>7. CASE auths' = auths
    <2>1. OursTrue'
      BY <1>2, <1>3, <1>4, <1>6, <1>7 DEF OursTrue, OneIssued
    <2>2. Clocks'
      BY <1>3, <1>7 DEF Books, Clocks, IssuingTypeOK
    <2>3. \A v \in Workers : Covered(v)'
      BY <1>3, <1>5, <1>7, CoveredKept DEF Books, Listing, OnIssuing, RailOf
    <2>. QED
      BY <2>1, <2>2, <2>3 DEF Books
  <1>8. CASE rail[e] = "issuing" /\ Authorize(TRUE, charge'[e] = "charged")
    <2>1. /\ Clocks' /\ \A w \in Workers : Covered(w)'
          /\ \A a \in auths' : a \in auths \/ (a.ours = TRUE /\ a.approved = (charge'[e] = "charged"))
      BY <1>3, <1>8, BooksGrow DEF Books
    <2>2. OursTrue'
      <3>. SUFFICES ASSUME OneIssued, NEW a \in auths', NEW d \in Executions, a.ours,
                           rail[d] = "issuing"
                    PROVE  charge'[d] = IF a.approved THEN "charged" ELSE "declined"
        BY <1>3 DEF OursTrue, OneIssued
      <3>1. d = e /\ a \notin auths
        BY <1>6, <1>8 DEF OneIssued
      <3>. QED
        BY <1>2, <2>1, <3>1
    <2>. QED
      BY <2>1, <2>2 DEF Books
  <1>. QED
    BY <1>7, <1>8 DEF Settles, issuingVars

LEMMA BooksSurroundings ==
    ASSUME Everywhere, Shape, Books, rail' = rail, Surroundings
    PROVE  Books'
  <1>0. time \in Nat /\ time >= time
    BY DEF Books, Clocks, IssuingTypeOK
  <1>1. ASSUME NEW w \in Workers, Die(w) PROVE Books'
    <2>1. Alone(w)
      BY <1>1 DEF Die, Crash, LeaveClaim, Goto, CloseBrowser, StopAsking, Alone,
         Everywhere, TypedWorkers, TypeOK, AttemptTypeOK, BrowserTypeOK, LinkTypeOK
    <2>2. pc'[w] = "idle" /\ step'[w] = "off" /\ charge' = charge /\ ForgetAttempt(w)
      BY <1>1 DEF Die, Crash, LeaveClaim, Goto, CloseBrowser, merchantVars,
         Everywhere, TypedWorkers, TypeOK, AttemptTypeOK, BrowserTypeOK
    <2>. QED
      BY <2>1, <2>2, CoversOut, BooksAlone DEF Books
  <1>2. CASE UNCHANGED <<issuingVars, charge, job, pc, step>>
    BY <1>0, <1>2, BooksStill DEF issuingVars
  <1>3. ASSUME NEW w \in Workers, PageMoves(w) PROVE Books'
    BY <1>2, <1>3 DEF PageMoves, Reprice, Rerender, Frame, workerVars, merchantVars
  <1>4. CASE RowsMove
    BY <1>2, <1>4, RowsMoveAlone DEF attemptVars, browserVars, workerVars, merchantVars
  <1>5. ASSUME NEW c \in Cards, LockDrops(c) /\ Idle PROVE Books'
    BY <1>2, <1>5 DEF LockDrops, Idle, attemptVars, browserVars, merchantVars
  <1>6. CASE LinkMoves
    BY <1>2, <1>6 DEF LinkMoves, LateCreate, OwnerDecides, Expires, browserVars, workerVars,
       merchantVars
  <1>7. CASE Tick /\ UNCHANGED browserVars
    BY <1>0, <1>7, BooksStill DEF Tick, browserVars, workerVars, merchantVars
  <1>8. CASE OtherUse /\ (\A w \in Workers : step[w] \in {"off", "snapshot"} /\ pc[w] \notin Sent)
             /\ UNCHANGED browserVars
    <2>1. PICK approved \in BOOLEAN : Authorize(FALSE, approved)
      BY <1>8 DEF OtherUse
    <2>2. \A w \in Workers : ~Listing(w)
      BY <1>8 DEF Listing, Loaded, Sent
    <2>3. UNCHANGED <<time, lead, excluded, since, rail, job, pc, step, charge>>
      BY <1>8 DEF OtherUse, browserVars, workerVars, merchantVars
    <2>4. /\ Clocks' /\ \A w \in Workers : Covered(w)'
          /\ \A a \in auths' : a \in auths \/ (a.ours = FALSE /\ a.approved = approved)
      BY <2>1, <2>2, <2>3, BooksGrow DEF Books
    <2>5. OursTrue'
      BY <2>3, <2>4 DEF OursTrue, OneIssued, Books
    <2>. QED
      BY <2>4, <2>5 DEF Books
  <1>. QED
    BY <1>1, <1>3, <1>4, <1>5, <1>6, <1>7, <1>8, BooksSettle DEF Surroundings, IssuingMoves

LEMMA BooksNext == Everywhere /\ Shape /\ Books /\ [AttemptNext]_allVars => Books'
  <1>. SUFFICES ASSUME Everywhere, Shape, Books, [AttemptNext]_allVars PROVE Books'
    OBVIOUS
  <1>1. rail' = rail
    BY RailKept
  <1>2. CASE UNCHANGED allVars
    <2>1. time \in Nat /\ time >= time
      BY DEF Books, Clocks, IssuingTypeOK
    <2>. QED
      BY <1>2, <2>1, BooksStill DEF allVars, vars, workerVars, merchantVars, attemptVars, browserVars,
         issuingVars
  <1>. QED
    BY <1>1, <1>2, BooksBefore, BooksRun, BooksSnapshot, BooksMark, BooksAfter, BooksSurroundings
       DEF AttemptNext, AttemptStep

\* One new authorization is this checkout's, so its word is the payment's.
LEMMA VerdictsFit ==
    ASSUME Everywhere, Books, OneIssued, NEW w \in Workers, FindAuthorization(w)
    PROVE  VerdictFits(w)
  <1>1. pc[w] = "await" /\ OnIssuing(w) /\ job[w] \in Executions
    BY DEF FindAuthorization, At, Everywhere, TypedWorkers, WorkersBusy
  <1>2. ASSUME NEW a \in auths, a \in Exact(w)
        PROVE  charge[job[w]] = IF a.approved THEN "charged" ELSE "declined"
    <2>1. a.at \in Nat /\ since[w] \in Nat
      BY DEF Books, Clocks, IssuingTypeOK, Authorizations
    <2>2. a \notin excluded[w] /\ a.at >= since[w]
      BY <1>2 DEF Exact, CreatedFrom
    <2>3. ~(a.at < since[w])
      BY <2>1, <2>2
    <2>4. a.ours
      BY <1>1, <2>2, <2>3 DEF Books, Covered, Listing
    <2>. QED
      BY <1>1, <2>4 DEF Books, OursTrue, OnIssuing, RailOf
  <1>3. \A a \in Exact(w) : a \in auths
    BY DEF Exact, CreatedFrom
  <1>4. Verdict(w) = "approved" => charge[job[w]] = "charged"
    BY <1>2, <1>3 DEF Verdict
  <1>5. Verdict(w) = "declined" => charge[job[w]] = "declined"
    BY <1>2, <1>3 DEF Verdict
  <1>. QED
    BY <1>4, <1>5 DEF VerdictFits

-----------------------------------------------------------------------------
(* The inductive invariant, and what follows from it.                        *)

Attempting == Everywhere /\ Shape /\ Runs /\ Links /\ Books

LEMMA AttemptingInit == AttemptInit => Attempting
  <1>. SUFFICES ASSUME AttemptInit PROVE Attempting
    OBVIOUS
  <1>1. TypedWorkers
    BY TypedInit DEF AttemptInit
  <1>2. BrowserTypeOK /\ Runs
    <2>1. BrowserTypeOK
      BY DEF AttemptInit, BrowserInit, BrowserTypeOK, Steps, NoPage, NoForm, Origins
    <2>2. \A w \in Workers : RunOK(w)
      BY DEF AttemptInit, BrowserInit, RunOK, Rechecked, Refreshed, Mapped, Loaded
    <2>. QED
      BY <2>1, <2>2 DEF Runs, CardOnlyAtPaymentOrigin, AttemptInit, BrowserInit
  <1>3. Shape
    BY DEF AttemptInit, BrowserInit, LinkInit, Shape, Placed, Out
  <1>4. Links /\ LinkTypeOK
    <2>. USE DEF AttemptInit, LinkInit
    <2>1. StoreTypes
      BY DEF StoreTypes, NoRequest, Active, AtMostOne
    <2>2. \A r \in Requests : link[r] = NoRequest
      OBVIOUS
    <2>3. \A e \in Executions : RequestsFor(e) = {}
      BY <2>2, WorkersAssumption DEF RequestsFor, NoRequest
    <2>4. Store
      BY <2>1, <2>2, <2>3 DEF Store, NoRequest, OneRequestPays, ReportsTrue, AtMostOne
    <2>5. AskTypes
      BY DEF AskTypes, Asks, AtMostOne
    <2>6. \A w \in Workers : Linked(w)
      BY DEF Linked
    <2>. QED
      BY <2>1, <2>4, <2>5, <2>6 DEF Links, LinkTypeOK, StoreTypes, AskTypes
  <1>5. Books
    <2>1. Clocks
      BY FS_EmptySet DEF AttemptInit, IssuingInit, Clocks, IssuingTypeOK
    <2>. QED
      BY <2>1 DEF Books, Covered, OursTrue, AttemptInit, IssuingInit
  <1>. QED
    BY <1>1, <1>2, <1>3, <1>4, <1>5 DEF Attempting, Everywhere, AttemptTypeOK, Books, Clocks

LEMMA AttemptingNext == Attempting /\ [AttemptNext]_allVars => Attempting'
  <1>. SUFFICES ASSUME Attempting, [AttemptNext]_allVars PROVE Attempting'
    OBVIOUS
  <1>. USE DEF Attempting
  <1>1. TypedWorkers'
    BY TypedAttempt DEF Everywhere
  <1>2. Shape'
    BY ShapeNext
  <1>3. Runs' /\ BrowserTypes'
    BY RunsNext
  <1>4. Links'
    BY LinksNext
  <1>5. Books'
    BY BooksNext
  <1>6. BrowserTypeOK'
    BY <1>2, <1>3 DEF BrowserTypes, BrowserTypeOK, Shape, Placed, Out, Inside
  <1>7. LinkTypeOK'
    BY <1>4 DEF Links, Store, StoreTypes, AskTypes, LinkTypeOK
  <1>. QED
    BY <1>1, <1>2, <1>3, <1>4, <1>5, <1>6, <1>7 DEF Everywhere, AttemptTypeOK, Books, Clocks

LEMMA AttemptInductive == AttemptSpec => []Attempting
  BY AttemptingInit, AttemptingNext, PTL DEF AttemptSpec

\* Every state of an attempt is one of the declared shapes.
THEOREM AttemptTypeCorrect == AttemptSpec => []AttemptTypeOK
  <1>1. Attempting => AttemptTypeOK
    BY DEF Attempting, Everywhere
  <1>. QED
    BY <1>1, AttemptInductive, PTL

\* However the page moves while a worker types, card data reaches documents of
\* the payment origins only, on every rail.
THEOREM CardStaysAtPaymentOrigin == AttemptSpec => []CardOnlyAtPaymentOrigin
  <1>1. Attempting => CardOnlyAtPaymentOrigin
    BY DEF Attempting, Runs
  <1>. QED
    BY <1>1, AttemptInductive, PTL

\* A worker that is about to type or to click verified the total and resolved
\* its controls after it had loaded the card.
THEOREM ChecksFollowLoad == AttemptSpec => []CheckedAfterLoad
  <1>1. Attempting => CheckedAfterLoad
    BY DEF Attempting, Runs, RunOK, CheckedAfterLoad, Rechecked, Refreshed, Loaded
  <1>. QED
    BY <1>1, AttemptInductive, PTL

\* A stored card is loaded for the map that is frozen on the row, and stays so
\* while other attempts of the same checkout come and go.
THEOREM MapStaysFrozen == AttemptSpec => []MapFrozenBeforeCard
  <1>1. Attempting => MapFrozenBeforeCard
    BY DEF Attempting, Runs, RunOK, MapFrozenBeforeCard, Mapped
  <1>. QED
    BY <1>1, AttemptInductive, PTL

\* The card of one spend request pays, the one the row names, whatever
\* attempts and late calls make of the others.
THEOREM PaidByOneRequest == AttemptSpec => []OneRequestPays
  <1>1. Attempting => OneRequestPays
    BY DEF Attempting, Links, Store
  <1>. QED
    BY <1>1, AttemptInductive, PTL

\* A checkout whose creates all had the card's lock and a waiting caller has
\* one spend request at most.
THEOREM AskedOnce == AttemptSpec => []NoSecondRequest
  <1>1. ASSUME NEW S, AtMostOne(S) PROVE Cardinality(S) <= 1
    <2>1. CASE S = {}
      BY <2>1, FS_EmptySet
    <2>2. CASE S # {}
      <3>1. PICK x \in S : S = {x}
        BY <1>1, <2>2 DEF AtMostOne
      <3>2. Cardinality({x}) = 1
        BY FS_Singleton
      <3>. QED
        BY <3>1, <3>2
    <2>. QED
      BY <2>1, <2>2
  <1>2. Attempting => NoSecondRequest
    BY <1>1 DEF Attempting, Links, Store, NoSecondRequest
  <1>. QED
    BY <1>2, AttemptInductive, PTL

\* What Link is told of a checkout is true of it.
THEOREM LinkIsToldTheTruth == AttemptSpec => []ReportsTrue
  <1>1. Attempting => ReportsTrue
    BY DEF Attempting, Links, Store
  <1>. QED
    BY <1>1, AttemptInductive, PTL

\* With at most one checkout on the Issuing rail, every attempt of every rail
\* is an attempt of CheckoutWorker, so that what is proved of that one holds
\* of the seven.  Two checkouts of one card and amount can be taken for each
\* other's, which is why the premise is there.
THEOREM AttemptsKeepWorker == AttemptSpec /\ OneIssued => KeepsWorker
  <1>1. AttemptInit => Init
    BY DEF AttemptInit
  <1>2. OneIssued /\ [AttemptNext]_allVars => OneIssued'
    BY RailKept DEF OneIssued
  <1>3. Attempting /\ OneIssued /\ [AttemptNext]_allVars => [Next]_vars
    <2>. SUFFICES ASSUME Attempting, OneIssued, [AttemptNext]_allVars PROVE [Next]_vars
      OBVIOUS
    <2>1. CASE UNCHANGED allVars
      BY <2>1 DEF allVars
    <2>2. ASSUME NEW w \in Workers, FindAuthorization(w) PROVE Next
      <3>1. Observe(w)
        BY <2>2, VerdictsFit, FindAuthorizationRefines DEF Attempting
      <3>. QED
        BY <3>1 DEF Next, WorkerStep
    <2>3. CASE AttemptNext
      BY <2>2, <2>3, AttemptRefines DEF Attempting, Everywhere
    <2>. QED
      BY <2>1, <2>3
  <1>. QED
    BY <1>1, <1>2, <1>3, AttemptInductive, PTL DEF AttemptSpec, KeepsWorker, Spec

\* With at most one checkout on the Issuing rail, the attempts of all seven rails
\* keep what the owner and the agent are promised.
THEOREM AttemptsKeepPromise == AttemptSpec /\ OneIssued => KeepsPromise
  BY AttemptsKeepWorker, PromiseKept DEF KeepsWorker

-----------------------------------------------------------------------------
(* One click, without the premise: an authorization taken for another       *)
(* checkout's spoils the outcome that is reported, never the submission.    *)

USE DEF Errors, Outcomes, Critical, Sent, Terminal, Unresolved, Status, Leases, ErrorCodes

\* What the clicks need of the rows and the workers, and nothing of evidence.
Clicking ==
    /\ SubmissionOwned
    /\ \A e \in Executions :
          /\ exec[e].submitted => exec[e].status # "absent"
          /\ clicks[e] > 0 => exec[e].submitted
          /\ clicks[e] <= 1

\* A row stays, and stays as submitted as it was.
RowsPersist ==
    \A e \in Executions :
        /\ exec'[e].submitted = exec[e].submitted
        /\ exec[e].status # "absent" => exec'[e].status # "absent"

\* No worker gets past mark_submitted, and none back to the click.
NobodySubmits ==
    \A w \in Workers :
        pc'[w] \in Sent =>
            /\ pc[w] \in Sent /\ job'[w] = job[w]
            /\ pc'[w] = "fill" => pc[w] = "fill"

LEMMA PersistRow ==
    ASSUME NEW e \in Executions, NEW status \in Status \ {"absent"}, NEW lease,
           RowBecomes(e, status, lease)
    PROVE  RowsPersist
  BY DEF RowBecomes, Others, RowsPersist

LEMMA PersistSettle ==
    ASSUME TypedWorkers, NEW w \in Workers, Settle(w)
    PROVE  RowsPersist
  <1>1. PICK e \in Executions : e = job[w] /\ note[w] \in Outcomes /\ DbTypeOK
    BY DEF Settle, At, TypedWorkers, WorkersBusy, TypeOK
  <1>2. CASE UNCHANGED dbVars
    BY <1>2 DEF dbVars, RowsPersist
  <1>3. CASE RecordPurchase(e)
    BY <1>1, <1>3, RecordPurchaseRow, PersistRow
  <1>4. CASE note[w] # "approved" /\ SetTerminal(e, TerminalFor(note[w]), CodeFor(note[w]))
    <2>1. TerminalFor(note[w]) \in Status \ {"absent"}
      BY <1>1, <1>4 DEF TerminalFor
    <2>. QED
      BY <1>1, <1>4, <2>1, SetTerminalRow, PersistRow
  <1>. QED
    BY <1>1, <1>2, <1>3, <1>4 DEF Settle, Succeed, SucceedRaises, FinishTerminal

LEMMA PersistHandleError ==
    ASSUME TypedWorkers, NEW w \in Workers, HandleError(w)
    PROVE  RowsPersist
  <1>1. PICK e \in Executions : e = job[w] /\ DbTypeOK
    BY DEF HandleError, At, TypedWorkers, WorkersBusy, TypeOK
  <1>2. CASE UNCHANGED dbVars
    BY <1>2 DEF dbVars, RowsPersist
  <1>3. ASSUME NEW code, NEW status \in {"failed", "outcome_unknown"},
               SetTerminal(e, status, code)
        PROVE  RowsPersist
    BY <1>1, <1>3, SetTerminalRow, PersistRow
  <1>4. ASSUME NEW code, Requeue(e, code) PROVE RowsPersist
    BY <1>1, <1>4, RequeueRow, PersistRow DEF Requeue
  <1>. QED
    BY <1>1, <1>2, <1>3, <1>4 DEF HandleError, FinishTerminal, RetryOrFail

LEMMA PersistClaim ==
    ASSUME TypedWorkers, NEW w \in Workers, Claim(w)
    PROVE  RowsPersist
  <1>1. DbTypeOK
    BY DEF TypedWorkers, TypeOK
  <1>2. PICK e \in Executions : ClaimSubmitted(e) \/ ClaimExhausted(e) \/ ClaimAttempt(e)
    BY DEF Claim
  <1>3. ASSUME NEW code, NEW status \in {"failed", "outcome_unknown"},
               SetTerminal(e, status, code)
        PROVE  RowsPersist
    BY <1>1, <1>3, SetTerminalRow, PersistRow
  <1>4. CASE ClaimAttempt(e)
    BY <1>1, <1>4, ClaimAttemptRow, PersistRow
  <1>. QED
    BY <1>2, <1>3, <1>4 DEF ClaimSubmitted, ClaimExhausted

LEMMA PersistLease ==
    ASSUME TypedWorkers, NEW e \in Executions, NEW lease,
           exec' = [exec EXCEPT ![e].lease = lease]
    PROVE  RowsPersist
  BY LeaseRow DEF RowBecomes, Others, RowsPersist, TypedWorkers, TypeOK

\* A step that neither marks nor clicks.
LEMMA ClickingKept ==
    ASSUME TypedWorkers, Clicking, clicks' = clicks, RowsPersist, NobodySubmits
    PROVE  Clicking'
  <1>1. \A w \in Workers : pc'[w] \in Sent => job[w] \in Executions
    BY DEF TypedWorkers, WorkersBusy, NobodySubmits, Sent
  <1>2. SubmissionOwned'
    BY <1>1 DEF Clicking, SubmissionOwned, RowsPersist, NobodySubmits
  <1>. QED
    BY <1>2 DEF Clicking, RowsPersist

LEMMA ClickingQueue ==
    ASSUME TypedWorkers, Clicking, NEW e \in Executions, Approve(e)
    PROVE  Clicking'
  <1>1. UNCHANGED <<pc, job, clicks>> /\ exec[e].status = "absent"
    BY DEF Approve, QueueCheckoutExecution, workerVars, merchantVars
  <1>2. exec'[e].status = "queued" /\ ~exec'[e].submitted /\ Others(e)
    BY QueueRow DEF Approve, TypedWorkers, TypeOK
  <1>3. ~exec[e].submitted
    BY <1>1 DEF Clicking
  <1>4. \A w \in Workers : pc[w] \in Sent => job[w] \in Executions /\ job[w] # e
    BY <1>3 DEF Clicking, SubmissionOwned, TypedWorkers, WorkersBusy, Sent
  <1>5. SubmissionOwned'
    BY <1>1, <1>2, <1>4 DEF Clicking, SubmissionOwned, Others
  <1>. QED
    BY <1>1, <1>2, <1>3, <1>5 DEF Clicking, Others

LEMMA ClickingSubmit ==
    ASSUME TypedWorkers, Clicking, NEW w \in Workers, Submit(w)
    PROVE  Clicking'
  <1>1. PICK e \in Executions : e = job[w] /\ clicks' = clicks
    BY DEF Submit, At, TypedWorkers, WorkersBusy, merchantVars
  <1>2. CASE MarkSubmitted(job[w])
    <2>1. clicks[e] = 0 /\ \A d \in Executions : clicks[d] \in Nat
      BY <1>1, <1>2 DEF MarkSubmitted, Clicking, TypedWorkers, TypeOK
    <2>2. exec'[e].status = "running" /\ exec'[e].submitted /\ Others(e)
      BY <1>1, <1>2, MarkSubmittedRow DEF TypedWorkers, TypeOK
    <2>3. SubmissionOwned'
      BY <1>1, <1>2, <2>1, OwnedAfterSubmit DEF Clicking
    <2>. QED
      BY <1>1, <2>1, <2>2, <2>3 DEF Clicking, Others
  <1>3. CASE UNCHANGED dbVars /\ \E error \in Errors : Raise(w, error)
    <2>1. NobodySubmits
      BY <1>3 DEF NobodySubmits, Submit, Raise, Goto, TypedWorkers, TypeOK
    <2>2. RowsPersist
      BY <1>3 DEF RowsPersist, dbVars
    <2>. QED
      BY <1>1, <2>1, <2>2, ClickingKept
  <1>. QED
    BY <1>2, <1>3 DEF Submit

LEMMA ClickingFill ==
    ASSUME TypedWorkers, Clicking, NEW w \in Workers, FillAndClick(w)
    PROVE  Clicking'
  <1>1. PICK e \in Executions : e = job[w] /\ exec' = exec
    BY DEF FillAndClick, At, TypedWorkers, WorkersBusy, dbVars
  <1>2. exec[e].submitted /\ clicks[e] = 0
    BY <1>1 DEF FillAndClick, At, Clicking, SubmissionOwned
  <1>3. clicks'[e] \in {0, 1} /\ \A d \in Executions \ {e} : clicks'[d] = clicks[d]
    BY <1>1, <1>2 DEF FillAndClick, TypedWorkers, TypeOK
  <1>4. SubmissionOwned'
    BY OwnedAfterClick DEF Clicking
  <1>. QED
    BY <1>1, <1>2, <1>3, <1>4 DEF Clicking

LEMMA ClickingWorker ==
    ASSUME TypedWorkers, Clicking, NEW w \in Workers, WorkerStep(w) \/ FindAuthorization(w)
    PROVE  Clicking'
  <1>1. CASE Submit(w) \/ FillAndClick(w)
    BY <1>1, ClickingSubmit, ClickingFill
  <1>2. CASE ~Submit(w) /\ ~FillAndClick(w)
    <2>1. clicks' = clicks
      BY <1>2 DEF WorkerStep, Claim, Prepare, AcquireCardLock, PrepareAgain,
         FailBeforeSubmission, Observe, Settle, HandleError, HandlingFails, Release, LeaveClaim,
         FindAuthorization, merchantVars
    <2>2. NobodySubmits
      BY <1>2 DEF NobodySubmits, WorkerStep, Claim, Prepare, AcquireCardLock, PrepareAgain,
         FailBeforeSubmission, Observe, Settle, HandleError, HandlingFails, RaiseAgain, Release,
         LeaveClaim, FindAuthorization, Conclude, At, Goto, Raise, workerVars, TypedWorkers, TypeOK
    <2>3. RowsPersist
      <3>1. CASE UNCHANGED dbVars
        BY <3>1 DEF RowsPersist, dbVars
      <3>. QED
        BY <1>2, <3>1, PersistClaim, PersistSettle, PersistHandleError
        DEF WorkerStep, Prepare, AcquireCardLock, PrepareAgain, FailBeforeSubmission, Observe,
            HandlingFails, Release, LeaveClaim, FindAuthorization
    <2>. QED
      BY <2>1, <2>2, <2>3, ClickingKept
  <1>. QED
    BY <1>1, <1>2

LEMMA ClickingDisturbed ==
    ASSUME TypedWorkers, Clicking, Disturbance
    PROVE  Clicking'
  <1>1. ASSUME NEW e \in Executions, Approve(e) PROVE Clicking'
    BY <1>1, ClickingQueue
  <1>2. CASE ~ \E e \in Executions : Approve(e)
    <2>1. clicks' = clicks
      BY <1>2 DEF Disturbance, Crash, LeaveClaim, Heartbeat, LeaseExpires, Reconcile,
         MerchantSettles, LockDrops, ChangeUsable, merchantVars
    <2>2. NobodySubmits
      BY <1>2 DEF NobodySubmits, Disturbance, Crash, LeaveClaim, Goto, Heartbeat, LeaseExpires,
         Reconcile, MerchantSettles, LockDrops, ChangeUsable, workerVars, TypedWorkers, TypeOK
    <2>3. RowsPersist
      <3>1. CASE exec' = exec
        BY <3>1 DEF RowsPersist
      <3>2. ASSUME NEW w \in Workers, Heartbeat(w) PROVE RowsPersist
        <4>1. PICK e \in Executions : e = job[w]
          BY <3>2 DEF Heartbeat, At, TypedWorkers, WorkersBusy
        <4>. QED
          BY <3>2, <4>1, PersistLease DEF Heartbeat, RenewLease
      <3>3. ASSUME NEW e \in Executions, LeaseExpires(e) \/ Reconcile(e) PROVE RowsPersist
        BY <3>3, PersistLease, RecordPurchaseRow, PersistRow
        DEF LeaseExpires, Reconcile, ReconcileHostedSucceeded, TypedWorkers, TypeOK
      <3>. QED
        BY <1>2, <3>1, <3>2, <3>3
        DEF Disturbance, Crash, LeaveClaim, MerchantSettles, LockDrops, ChangeUsable, dbVars
    <2>. QED
      BY <2>1, <2>2, <2>3, ClickingKept
  <1>. QED
    BY <1>1, <1>2

\* On every rail, and with any number of checkouts on the Issuing one, the pay
\* button is pressed at most once for an approved purchase.
THEOREM AttemptsClickOnce == AttemptSpec => []AtMostOneClick
  <1>1. AttemptInit => Clicking
    BY DEF AttemptInit, Init, DbInit, NoRow, Clicking, SubmissionOwned
  <1>2. Attempting /\ Clicking /\ [AttemptNext]_allVars => Clicking'
    <2>. SUFFICES ASSUME Attempting, Clicking, [AttemptNext]_allVars PROVE Clicking'
      OBVIOUS
    <2>1. TypedWorkers
      BY DEF Attempting, Everywhere
    <2>2. CASE UNCHANGED vars
      <3>1. UNCHANGED <<exec, pc, job, clicks>>
        BY <2>2 DEF vars, dbVars, workerVars, merchantVars
      <3>. QED
        BY <3>1 DEF Clicking, SubmissionOwned
    <2>3. CASE Next
      BY <2>1, <2>3, ClickingWorker, ClickingDisturbed DEF Next
    <2>4. CASE UNCHANGED allVars
      BY <2>2, <2>4 DEF allVars
    <2>. QED
      BY <2>1, <2>2, <2>3, <2>4, AttemptRefines, ClickingWorker
  <1>3. Clicking => AtMostOneClick
    BY DEF Clicking, AtMostOneClick
  <1>. QED
    BY <1>1, <1>2, <1>3, AttemptInductive, PTL DEF AttemptSpec
=============================================================================
