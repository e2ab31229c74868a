--------------------------- MODULE CheckoutAttempt ---------------------------
(***************************************************************************)
(* CheckoutWorker._execute_context: the attempt inside the card lock, for  *)
(* every payment provider, put together from the browser run, the spend    *)
(* request at Link and the authorizations of Issuing.                      *)
(*                                                                         *)
(* CheckoutWorker leaves open how an attempt fails before its submission   *)
(* and on what evidence it reports an outcome.  Here both are what the     *)
(* code of the seven rails does, and CheckoutWorker's Spec is a property.  *)
(***************************************************************************)
EXTENDS BrowserRun, LinkSpendRequest, IssuingAuthorization

\* Bounds for TLC: all rails and all workers are the system as it is.
CONSTANTS
    MovingOn,       \* rails whose pages move after they were opened
    OpenPages,      \* how many runs may be open when a page moves
    WithdrawnOn,    \* rails whose card the owner withdraws and gives back
    DroppedOn       \* rails where the connection of the card lock can die

attemptVars == <<browserVars, linkVars, issuingVars>>
allVars == <<vars, attemptVars>>

Idle == UNCHANGED attemptVars

AttemptTypeOK == BrowserTypeOK /\ LinkTypeOK /\ IssuingTypeOK

AttemptInit ==
    /\ Init /\ BrowserInit /\ LinkInit /\ IssuingInit
    /\ (\A e \in Executions : rail[e] # "issuing") => \A hour \in Leads : lead <= hour

OnLink(w)    == RailOf(w) \in LinkRails
OnIssuing(w) == RailOf(w) = "issuing"

\* The attempt's locals go out of scope.
EndIssuing(w) == IF OnIssuing(w) THEN ForgetAttempt(w) ELSE UNCHANGED issuingVars
EndLink(w)    == StopAsking(w) /\ UNCHANGED <<link, recorded, late, astray>>

-----------------------------------------------------------------------------
(* Before the submission. *)

\* _execute_context chooses the rail; Link's begin with the spend request.
Begin(w) ==
    /\ PrepareAgain(w)
    /\ IF pc'[w] # "browse" THEN Idle
       ELSE /\ StartRun(w, IF OnLink(w) THEN "off" ELSE "session")
            /\ IF OnLink(w) THEN StartAsking(w) ELSE UNCHANGED linkVars
            /\ UNCHANGED issuingVars

\* Everything outside the attempt is CheckoutWorker's.
Outside(w) ==
    /\ \/ Claim(w) \/ Prepare(w) \/ AcquireCardLock(w)
       \/ pc[w] # "browse" /\ FailBeforeSubmission(w)
       \/ Settle(w) \/ HandleError(w) \/ HandlingFails(w) \/ Release(w)
    /\ Idle

\* _ensure_link_request and wait_for_approval.
AskLink(w) ==
    /\ \/ Look(w) \/ Create(w) \/ RequestApproval(w) \/ Record(w)
       \/ WaitForApproval(w) \/ LinkFails(w)
    /\ IF ask'[w] = "ready" THEN StartRun(w, "session") ELSE UNCHANGED browserVars
    /\ UNCHANGED issuingVars

\* The run up to the card, and from the card to the submission.
Browse(w) ==
    /\ \/ StartSession(w) \/ OpenPage(w) \/ VerifyCart(w) \/ MapForm(w) \/ ResolveControls(w)
       \/ Preflight(w) \/ FreezeForm(w) \/ Recheck(w) \/ RefreshControls(w)
    /\ UNCHANGED <<linkVars, issuingVars>>

\* prepare_submission of the issuing rail.
Snapshot(w) ==
    /\ BrowserStep(w, "snapshot", "preflight")
    /\ TakeSnapshot(w)
    /\ UNCHANGED <<page, handles, form, frozen, linkVars>>

\* load_card: Link's is asked for, and looked at again; the others are read
\* from Issuing, from the sandbox's table, or from the database and the relay.
Load(w) ==
    /\ LoadCard(w)
    /\ IF OnLink(w) THEN RetrieveCard(w) ELSE UNCHANGED linkVars
    /\ UNCHANGED issuingVars

FailEarly(w) ==
    /\ BrowserFails(w) \/ FreezeTooLate(w)
    /\ EndLink(w) /\ EndIssuing(w)

Mark(w) ==
    /\ MarkRun(w)
    /\ IF pc'[w] = "error" THEN EndLink(w) /\ EndIssuing(w)
       ELSE /\ IF OnIssuing(w) THEN NoteSubmission(w) ELSE UNCHANGED issuingVars
            /\ UNCHANGED linkVars

-----------------------------------------------------------------------------
(* After it. *)

\* Link is told of an attempt that its CheckoutError ends, not of one that
\* another exception does.
Abandon(w) == IF OnLink(w) THEN Report(w, "abandoned") \/ EndLink(w) ELSE EndLink(w)

Fill(w) ==
    /\ CheckField(w) \/ TypeField(w) \/ ClickPay(w) \/ FillFails(w)
    /\ IF pc'[w] = "error" THEN Abandon(w) /\ EndIssuing(w)
       ELSE UNCHANGED <<linkVars, issuingVars>>

Conclude(w, outcome) ==
    /\ Goto(w, "settle")
    /\ note' = [note EXCEPT ![w] = outcome]

\* _wait_for_result: the merchant's markers.  A success is only shown for a
\* payment, a decline only for a refusal.
MarkersShow(w) ==
    {shown \in {"approved", "declined", "action_required"} :
        /\ shown = "approved" => charge[job[w]] = "charged"
        /\ shown = "declined" => charge[job[w]] = "declined"}

\* _wait_for_hosted_test_result: the landing server's page says nothing but
\* that the session was paid.
HostedShows(w) == {shown \in {"approved"} : charge[job[w]] = "charged"}

PageShows(w) == IF RailOf(w) \in HostedRails THEN HostedShows(w) ELSE MarkersShow(w)

\* Mutant of ReportFor: what is not a decline is a success.
ReportForAny(outcome) == IF outcome = "declined" THEN "blocked" ELSE "success"

\* What Link is told of an outcome read from the page.
ReportFor(outcome) ==
    CASE outcome = "approved" -> "success"
      [] outcome \in {"declined", "action_required"} -> "blocked"

\* The rails that take the page's word.  A success without an order reference
\* is good enough for Link, whose reference is the request's id.
TakePageResult(w) ==
    /\ RailOf(w) \in {"direct", "link"} \cup HostedRails
    /\ \E shown \in PageShows(w) :
          \/ /\ Conclude(w, shown)
             /\ IF OnLink(w) THEN Report(w, ReportFor(shown)) ELSE EndLink(w)
          \/ /\ RailOf(w) = "direct" /\ shown = "approved"
             /\ Conclude(w, "unknown")
             /\ EndLink(w)
    /\ CloseBrowser(w)
    /\ UNCHANGED issuingVars

\* The rails that ask the provider: the page only tells a challenge (issuing)
\* or the payment intent to ask for (demo).
LeavePage(w) ==
    /\ RailOf(w) \in {"issuing", "demo"}
    /\ \E shown \in PageShows(w) :
          \/ /\ OnIssuing(w) => shown # "action_required"
             /\ UNCHANGED <<workerVars, issuingVars>>
          \/ /\ OnIssuing(w) /\ shown = "action_required"
             /\ Conclude(w, shown) /\ UNCHANGED <<job, lock>> /\ ForgetAttempt(w)
          \/ /\ ~OnIssuing(w)
             /\ Raise(w, "unknown") /\ UNCHANGED <<job, lock, issuingVars>>
    /\ CloseBrowser(w)
    /\ UNCHANGED linkVars

\* No marker in time, a page at a foreign origin, a browser that is gone.
ResultFails(w) ==
    /\ CloseBrowser(w)
    /\ IF RailOf(w) \in DirectRails \cup HostedRails
       THEN \/ Conclude(w, "unknown") /\ Abandon(w)
            \/ Raise(w, "retryable") /\ EndLink(w)
       ELSE \/ \E error \in {"unknown", "fatal"} : Raise(w, error) /\ Abandon(w)
            \/ Raise(w, "retryable") /\ EndLink(w)
    /\ EndIssuing(w)

ReadResult(w) ==
    /\ At(w, "await")
    /\ step[w] = "result"
    /\ \/ TakePageResult(w) /\ UNCHANGED <<job, lock>>
       \/ LeavePage(w)
       \/ ResultFails(w) /\ UNCHANGED <<job, lock>>
    /\ UNCHANGED <<dbVars, merchantVars>>

\* _reconcile_authorization: polls until the list holds one new record, or
\* until its deadline.
FindAuthorization(w) ==
    /\ At(w, "await")
    /\ step[w] = "off" /\ OnIssuing(w)
    /\ \E outcome \in {Verdict(w), "unknown"} : Conclude(w, outcome)
    /\ ForgetAttempt(w)
    /\ UNCHANGED <<dbVars, merchantVars, job, lock, browserVars, linkVars>>

\* verify_payment_intent: one look at the intent made for this execution.
IntentShows(w) ==
    CASE charge[job[w]] = "charged"  -> {"approved"}
      [] charge[job[w]] = "declined" -> {"declined"}
      [] charge[job[w]] = "none"     -> {"action_required", "unknown"}

VerifyIntent(w) ==
    /\ At(w, "await")
    /\ step[w] = "off" /\ RailOf(w) = "demo"
    /\ (\E outcome \in IntentShows(w) : Conclude(w, outcome)) \/ Raise(w, "unknown")
    /\ Idle
    /\ UNCHANGED <<dbVars, merchantVars, job, lock>>

-----------------------------------------------------------------------------
(* Everything else. *)

\* The process dies; a link-cli it started may live on.
Die(w) ==
    /\ Crash(w)
    /\ CloseBrowser(w) /\ StopAsking(w) /\ CutOff(w) /\ ForgetAttempt(w)
    /\ UNCHANGED <<link, recorded, astray>>

\* A payment by an Issuing card leaves an authorization, unless it was the
\* merchant who refused.
Settles(e) ==
    /\ MerchantSettles(e)
    /\ IF rail[e] = "issuing"
       THEN /\ \/ Authorize(TRUE, charge'[e] = "charged")
               \/ charge'[e] = "declined" /\ UNCHANGED auths
            /\ UNCHANGED <<time, lead, excluded, since>>
       ELSE UNCHANGED issuingVars
    /\ UNCHANGED <<browserVars, linkVars>>

\* The clock and other uses of an Issuing card, from the listing on: nobody
\* looks at either before.  Assumed, as README 301-303 demands it: no other use
\* of the same amount between the listing and the end of the attempt.
IssuingMoves ==
    /\ \E w \in Workers : At(w, "browse") /\ OnIssuing(w) /\ step[w] \in {"snapshot", "load", "mark"}
    /\ Tick \/ (OtherUse /\ \A w \in Workers : step[w] \in {"off", "snapshot"} /\ pc[w] \notin Sent)
    /\ UNCHANGED <<browserVars, linkVars>>

LinkMoves ==
    /\ \/ \E e \in Executions : LateCreate(e)
       \/ \E r \in Requests : OwnerDecides(r) \/ Expires(r)
    /\ UNCHANGED <<browserVars, issuingVars>>

PageMoves(w) ==
    /\ step[w] # "off" => RailOf(w) \in MovingOn
    /\ Cardinality({v \in Workers : step[v] # "off"}) <= OpenPages
    /\ Reprice(w) \/ Rerender(w)
    /\ UNCHANGED <<linkVars, issuingVars>>

\* The owner, the heartbeat and the clock write to the rows.
RowsMove ==
    /\ \/ \E e \in Executions : Approve(e) \/ LeaseExpires(e) \/ Reconcile(e)
       \/ \E w \in Workers : Heartbeat(w)
       \/ \E c \in Cards : ChangeUsable(c) /\ \A e \in Executions : rail[e] \in WithdrawnOn
    /\ Idle

Surroundings ==
    \/ \E w \in Workers : Die(w) \/ PageMoves(w)
    \/ \E e \in Executions : Settles(e)
    \/ \E c \in Cards : LockDrops(c) /\ Idle /\ \A e \in Executions : rail[e] \in DroppedOn
    \/ RowsMove
    \/ IssuingMoves \/ LinkMoves

AttemptStep(w) ==
    \/ Begin(w) \/ Outside(w) \/ AskLink(w) \/ Browse(w) \/ Snapshot(w) \/ Load(w)
    \/ FailEarly(w) \/ Mark(w) \/ Fill(w) \/ ReadResult(w)
    \/ FindAuthorization(w) \/ VerifyIntent(w)

AttemptNext == Surroundings \/ \E w \in Workers : AttemptStep(w)

AttemptSpec == AttemptInit /\ [][AttemptNext]_allVars

-----------------------------------------------------------------------------

\* Every rail's attempt is one of CheckoutWorker's: it fails before the
\* submission only as that says, submits once, and reports an approval or a
\* decline only on evidence of it.
KeepsWorker == Spec

=============================================================================
