----------------------------- MODULE BrowserRun -----------------------------
(***************************************************************************)
(* BrowserbaseCheckout.run: one attempt on the merchant's page, from the   *)
(* browser session to the click on the pay button.                         *)
(*                                                                         *)
(* Between any two calls to the browser the merchant's page may change:    *)
(* its total, the frame that holds the card controls, the controls         *)
(* themselves.  The code therefore checks the page, loads the card, checks *)
(* again and resolves the controls again before it records the submission. *)
(* The actions are those of CheckoutWorker's stages "browse" and "fill".   *)
(***************************************************************************)
EXTENDS CheckoutWorker

CONSTANT FormMaps   \* selector maps the form mapper can come back with

ASSUME FormMapsAssumption == "none" \notin FormMaps

VARIABLES
    rail,     \* provider and kind of adapter each checkout was approved with
    step,     \* the next call of the run each worker is in
    page,     \* the page it has open: origin of the card frame, and its total
    handles,  \* the card and submit controls it has resolved
    form,     \* the form map it uses, and whether this run made it
    frozen,   \* checkout_executions.resolved_form_config
    typed     \* origins of the documents card data was typed into

browserVars == <<rail, step, page, handles, form, frozen, typed>>

Rails       == {"direct", "direct_hosted", "issuing", "link", "link_hosted",
                "demo", "demo_hosted"}
DirectRails == {"direct", "direct_hosted"}
LinkRails   == {"link", "link_hosted"}
HostedRails == {"direct_hosted", "link_hosted", "demo_hosted"}
MappedRails == {"direct", "link"}   \* payment_form_strategy "browserbase_ai"

\* Steps once the card is in memory, and once it was checked that the total
\* and the controls are those of the page the card is meant for.
Filling == {"check", "type"}
Loaded  == {"recheck", "refresh", "mark", "click", "result"} \cup Filling
Steps   == {"off", "session", "open", "verify", "map", "resolve", "snapshot", "preflight",
            "freeze", "load"} \cup Loaded
Rechecked == Loaded \ {"recheck"}
Refreshed == Rechecked \ {"refresh"}

Origins == {"payment", "merchant", "resource"}   \* what the request guard lets in
Ages    == {"early", "late"}                     \* before or after the last check

NoPage == [frame |-> "payment", total |-> "approved"]
NoForm == [map |-> "none", new |-> FALSE]

BrowserTypeOK ==
    /\ rail \in [Executions -> Rails]
    /\ step \in [Workers -> Steps]
    /\ page \in [Workers -> [frame : Origins, total : {"approved"} \cup Ages]]
    /\ handles \in [Workers -> {"none", "attached"} \cup Ages]
    /\ form \in [Workers -> [map : FormMaps \cup {"none"}, new : BOOLEAN]]
    /\ frozen \in [Executions -> FormMaps \cup {"none"}]
    /\ typed \subseteq Origins
    /\ \A w \in Workers : step[w] # "off" => pc[w] \in {"browse", "fill", "await"}

BrowserInit ==
    /\ rail \in [Executions -> Rails]
    /\ step = [w \in Workers |-> "off"]
    /\ page = [w \in Workers |-> NoPage]
    /\ handles = [w \in Workers |-> "none"]
    /\ form = [w \in Workers |-> NoForm]
    /\ frozen = [e \in Executions |-> "none"]
    /\ typed = {}

RailOf(w) == rail[job[w]]

-----------------------------------------------------------------------------
(* The checks. *)

\* _validate_page: the page and all its frames are at permitted origins.
PageValid(w) == page[w].frame \in {"payment", "merchant"}

\* _verify_item and _verify_total: the approved item at the approved total.
CartVerified(w) == page[w].total = "approved"

\* Mutant of PaymentFrame: what is allowed for the submit control.
MerchantFrameToo(w) == page[w].frame \in {"payment", "merchant"}

\* _validate_frame_origin with the payment origins: where card data may go.
PaymentFrame(w) == page[w].frame = "payment"

-----------------------------------------------------------------------------
(* Up to the submission. *)

BrowserStep(w, from, to) ==
    /\ At(w, "browse")
    /\ step[w] = from
    /\ step' = [step EXCEPT ![w] = to]
    /\ UNCHANGED <<dbVars, workerVars, merchantVars, rail, typed>>

\* The context of prepare carries the form map frozen by an earlier attempt.
StartRun(w, first) ==
    /\ step' = [step EXCEPT ![w] = first]
    /\ form' = [form EXCEPT ![w] = [map |-> frozen[job[w]], new |-> FALSE]]
    /\ UNCHANGED <<rail, page, handles, frozen, typed>>

\* create_session, and on_session_started: recorded on a running row only.
StartSession(w) ==
    /\ BrowserStep(w, "session", "open")
    /\ exec[job[w]].status = "running"
    /\ UNCHANGED <<page, handles, form, frozen>>

\* The browser is connected and guarded, and the checkout page loaded: what it
\* shows is the merchant's choice.
OpenPage(w) ==
    /\ BrowserStep(w, "open", "verify")
    /\ \E frame \in Origins, total \in {"approved", "early"} :
          page' = [page EXCEPT ![w] = [frame |-> frame, total |-> total]]
    /\ UNCHANGED <<handles, form, frozen>>

VerifyCart(w) ==
    /\ BrowserStep(w, "verify", IF RailOf(w) \in MappedRails THEN "map" ELSE "resolve")
    /\ PageValid(w) /\ CartVerified(w)
    /\ UNCHANGED <<page, handles, form, frozen>>

\* map_payment_form: a language model names the controls one by one.
Discover(w) ==
    \E map \in FormMaps : form' = [form EXCEPT ![w] = [map |-> map, new |-> TRUE]]

\* _validate_discovered_form: each control of the map is a single visible one
\* of its kind, those of the card in a payment frame.
DiscoveredFormValid(w) == PaymentFrame(w)

\* The frozen map, or a new one.
MapForm(w) ==
    /\ BrowserStep(w, "map", "resolve")
    /\ IF form[w].map # "none" THEN UNCHANGED form ELSE Discover(w)
    /\ DiscoveredFormValid(w)
    /\ UNCHANGED <<page, handles, frozen>>

\* _unique_visible and _resolve_handle, for the card fields in payment frames: a
\* control counts once its frame was looked at again after it was taken.
Resolve(w) ==
    /\ PaymentFrame(w)
    /\ handles' = [handles EXCEPT ![w] = "attached"]

\* _fill_billing, the submit control and _resolve_card_fields.
ResolveControls(w) ==
    /\ BrowserStep(w, "resolve", IF RailOf(w) = "issuing" THEN "snapshot" ELSE "preflight")
    /\ Resolve(w)
    /\ UNCHANGED <<page, form, frozen>>

\* The checks after prepare_submission.  Only the stored cards' rail passes
\* on_form_mapped, and only a map of this run is frozen.
Preflight(w) ==
    /\ BrowserStep(w, "preflight",
                   IF RailOf(w) = "direct" /\ form[w].new THEN "freeze" ELSE "load")
    /\ PageValid(w) /\ CartVerified(w)
    /\ handles[w] = "attached"
    /\ UNCHANGED <<page, handles, form, frozen>>

\* Mutant of FreezeForm: the map frozen by another attempt is replaced.
FreezeFormAgain(w) ==
    /\ BrowserStep(w, "freeze", "load")
    /\ exec[job[w]].status = "running" /\ ~exec[job[w]].submitted
    /\ frozen' = [frozen EXCEPT ![job[w]] = form[w].map]
    /\ UNCHANGED <<page, handles, form>>

\* record_resolved_form_config, when it does not raise.
FreezeForm(w) ==
    /\ BrowserStep(w, "freeze", "load")
    /\ exec[job[w]].status = "running" /\ ~exec[job[w]].submitted
    /\ frozen[job[w]] \in {"none", form[w].map}
    /\ frozen' = [frozen EXCEPT ![job[w]] = form[w].map]
    /\ UNCHANGED <<page, handles, form>>

\* load_card, whatever the provider has to be asked for it.
LoadCard(w) ==
    /\ BrowserStep(w, "load", "recheck")
    /\ UNCHANGED <<page, handles, form, frozen>>

\* Mutant of Recheck: the page was verified before the card was loaded.
RecheckSkipped(w) ==
    /\ BrowserStep(w, "recheck", "refresh")
    /\ UNCHANGED <<page, handles, form, frozen>>

Recheck(w) ==
    /\ BrowserStep(w, "recheck", "refresh")
    /\ PageValid(w) /\ CartVerified(w)
    /\ UNCHANGED <<page, handles, form, frozen>>

\* "Never reuse element handles across that boundary": a fresh set of controls.
RefreshControls(w) ==
    /\ BrowserStep(w, "refresh", "mark")
    /\ Resolve(w)
    /\ UNCHANGED <<page, form, frozen>>

-----------------------------------------------------------------------------
(* Leaving the run: the browser is closed, the session released. *)

CloseBrowser(w) ==
    /\ step' = [step EXCEPT ![w] = "off"]
    /\ page' = [page EXCEPT ![w] = NoPage]
    /\ handles' = [handles EXCEPT ![w] = "none"]
    /\ form' = [form EXCEPT ![w] = NoForm]
    /\ UNCHANGED <<rail, frozen, typed>>

\* A stored card's security code is spent once it is loaded: from there on a
\* failure before submission is final, whatever it was.
ReportedAs(w, error) ==
    IF RailOf(w) \in DirectRails /\ step[w] \in Loaded THEN "fatal" ELSE error

\* A check fails, the page or the session breaks, a provider refuses.
BrowserFails(w) ==
    /\ At(w, "browse")
    /\ step[w] # "off"
    /\ \E error \in {"retryable", "fatal"} : Raise(w, ReportedAs(w, error))
    /\ CloseBrowser(w)
    /\ UNCHANGED <<dbVars, merchantVars, job, lock>>

\* record_resolved_form_config on a row that another attempt has submitted.
FreezeTooLate(w) ==
    /\ At(w, "browse")
    /\ step[w] = "freeze"
    /\ exec[job[w]].status = "running" /\ exec[job[w]].submitted
    /\ Raise(w, "unknown")
    /\ CloseBrowser(w)
    /\ UNCHANGED <<dbVars, merchantVars, job, lock>>

\* mark_submitted, the callback between the last check and the first key.
MarkRun(w) ==
    /\ step[w] = "mark"
    /\ \/ /\ MarkSubmitted(job[w])
          /\ \/ /\ Goto(w, "fill") /\ UNCHANGED note
                /\ step' = [step EXCEPT ![w] = "check"]
                /\ UNCHANGED <<rail, page, handles, form, frozen, typed>>
             \/ Raise(w, ReportedAs(w, "retryable")) /\ CloseBrowser(w)
       \/ /\ ~Valid(job[w])
          /\ Raise(w, "fatal") /\ CloseBrowser(w)
          /\ UNCHANGED dbVars
       \/ /\ Valid(job[w]) /\ exec[job[w]].submitted
          /\ Raise(w, IF RailOf(w) \in DirectRails THEN "fatal" ELSE "unknown")
          /\ CloseBrowser(w)
          /\ UNCHANGED dbVars
    /\ At(w, "browse")
    /\ UNCHANGED <<merchantVars, job, lock>>

-----------------------------------------------------------------------------
(* Past the submission. *)

FillStep(w, from, to) ==
    /\ step[w] = from
    /\ step' = [step EXCEPT ![w] = to]

FillFrame == UNCHANGED <<dbVars, workerVars, merchantVars, rail, page, handles, form, frozen>>

\* _fill_resolved_card, one field after the other: the frame of the control is
\* looked at, and the browser asked to type.
CheckField(w) ==
    /\ At(w, "fill")
    /\ FillStep(w, "check", "type")
    /\ PaymentFrame(w)
    /\ FillFrame /\ UNCHANGED typed

\* It types into the document that the control is part of by now, and goes on to
\* the next field or, past the last one, to the click.  A control that was replaced
\* takes the text without anybody reading it, or throws.
TypeField(w) ==
    /\ At(w, "fill")
    /\ FillStep(w, "type", "check") \/ FillStep(w, "type", "click")
    /\ typed' = IF handles[w] = "attached" THEN typed \cup {page[w].frame} ELSE typed
    /\ FillFrame

\* The click: on a replaced control it throws, and if it throws it may have
\* reached the merchant all the same.
ClickPay(w) ==
    /\ At(w, "fill")
    /\ step[w] = "click"
    /\ \/ /\ handles[w] = "attached"
          /\ clicks' = [clicks EXCEPT ![job[w]] = @ + 1]
          /\ \/ /\ Goto(w, "await") /\ UNCHANGED note
                /\ step' = [step EXCEPT ![w] = "result"]
                /\ UNCHANGED <<rail, page, handles, form, frozen, typed>>
             \/ Raise(w, "unknown") /\ CloseBrowser(w)
       \/ /\ Raise(w, "unknown") /\ CloseBrowser(w)
          /\ UNCHANGED clicks
    /\ UNCHANGED <<dbVars, charge, job, lock>>

\* A check or the typing fails.  The rails that catch a CheckoutError past the submission
\* finish the row as unknown at once; that transaction can fail as well.
FillFails(w) ==
    /\ At(w, "fill")
    /\ step[w] \in Filling
    /\ Raise(w, "retryable")
          \/ Raise(w, IF RailOf(w) \in HostedRails \cup DirectRails THEN "unknown" ELSE "fatal")
    /\ CloseBrowser(w)
    /\ UNCHANGED <<dbVars, merchantVars, job, lock>>

-----------------------------------------------------------------------------
(* The merchant's page. *)

Frame(w) == UNCHANGED <<dbVars, workerVars, merchantVars, rail, step, form, frozen, typed>>

AgeSince(w, checked) == IF step[w] \in checked THEN "late" ELSE "early"

\* The merchant shows another total or item.
Reprice(w) ==
    /\ step[w] \notin {"off", "session", "open", "result"}
    /\ page[w].total = "approved"
    /\ page' = [page EXCEPT ![w].total = AgeSince(w, Rechecked)]
    /\ UNCHANGED handles /\ Frame(w)

\* The form is rendered again, or its frame goes to another permitted origin:
\* either way the controls that were resolved are no longer those of the page.
Rerender(w) ==
    /\ step[w] \notin {"off", "session", "open", "result"}
    /\ \E frame \in Origins : page' = [page EXCEPT ![w].frame = frame]
    /\ handles' = [handles EXCEPT ![w] = IF @ = "attached" THEN AgeSince(w, Refreshed) ELSE @]
    /\ Frame(w)

-----------------------------------------------------------------------------
(* Properties. *)

\* Card data is only typed into documents of the adapter's payment origins,
\* whatever the page does between the calls of the run, the one that looks at a
\* control's frame and the one that types into the control among them.
CardOnlyAtPaymentOrigin == typed \subseteq {"payment"}

\* After the submission was recorded the worker holds controls it resolved, and
\* looks at a total it verified, after the card was loaded: what is wrong then
\* went wrong in the window between that check and the click, not before.
CheckedAfterLoad ==
    \A w \in Workers :
        step[w] \in Filling \cup {"click"} =>
            /\ page[w].total # "early"
            /\ handles[w] \in {"attached", "late"}

\* README: "validated selectors are frozen".  A stored card is loaded only
\* when the map the run uses is the one recorded on the row, and that one is
\* never replaced by a later or a concurrent attempt.
MapFrozenBeforeCard ==
    \A w \in Workers :
        (pc[w] \in {"browse", "fill", "await"} /\ step[w] \in Loaded /\ RailOf(w) = "direct")
            => frozen[job[w]] = form[w].map /\ form[w].map # "none"

=============================================================================
