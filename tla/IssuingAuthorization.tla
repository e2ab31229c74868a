------------------------ MODULE IssuingAuthorization ------------------------
(***************************************************************************)
(* StripeIssuingGateway: which authorization is this checkout's.           *)
(*                                                                         *)
(* An authorization carries no execution id.  The worker lists the card's  *)
(* authorizations just before the submission, and takes as its own the     *)
(* only one of the approved amount that is new since.  Times are whole     *)
(* seconds, of two clocks that need not agree: the worker's and Stripe's.  *)
(***************************************************************************)
EXTENDS CheckoutWorker

CONSTANTS
    Leads,      \* seconds by which the worker's clock may be ahead of Stripe's, plus one
    MaxTime,    \* bound on the seconds that pass
    MaxUses     \* bound on other uses of the card for the same amount

ASSUME LeadsAssumption == Leads \subseteq Nat

VARIABLES
    time,       \* Stripe's clock
    lead,       \* how far the worker's clock is off
    auths,      \* the card's authorizations of the approved amount
    excluded,   \* what each worker listed before its submission
    since       \* submitted_at of each worker's attempt

issuingVars == <<time, lead, auths, excluded, since>>

Authorizations == [id : Nat, at : Nat, ours : BOOLEAN, approved : BOOLEAN]

IssuingTypeOK ==
    /\ time \in Nat
    /\ lead \in Leads
    /\ auths \subseteq Authorizations
    /\ excluded \in [Workers -> SUBSET auths]
    /\ since \in [Workers -> Nat]

\* Stripe's clock starts at one, the worker's anywhere around it.
IssuingInit ==
    /\ time = 1
    /\ lead \in Leads
    /\ auths = {}
    /\ excluded = [w \in Workers |-> {}]
    /\ since = [w \in Workers |-> 0]

WorkerTime == time + lead - 1

\* The records asked for: created[gte].
CreatedFrom(moment) == {a \in auths : a.at >= moment}

Authorize(ours, approved) ==
    auths' = auths \cup {[id |-> Cardinality(auths) + 1, at |-> time,
                          ours |-> ours, approved |-> approved]}

-----------------------------------------------------------------------------

Tick ==
    /\ time < MaxTime
    /\ time' = time + 1
    /\ UNCHANGED <<dbVars, workerVars, merchantVars, lead, auths, excluded, since>>

\* The owner or another merchant uses the card for the same amount.
OtherUse ==
    /\ Cardinality({a \in auths : ~a.ours}) < MaxUses
    /\ \E approved \in BOOLEAN : Authorize(FALSE, approved)
    /\ UNCHANGED <<dbVars, workerVars, merchantVars, time, lead, excluded, since>>

\* Mutant of TakeSnapshot: nothing is listed.
TakeSnapshotEmpty(w) ==
    /\ excluded' = [excluded EXCEPT ![w] = {}]
    /\ UNCHANGED <<time, lead, auths, since>>

\* snapshot_authorization_ids, from the worker's present second on.
TakeSnapshot(w) ==
    /\ excluded' = [excluded EXCEPT ![w] = CreatedFrom(WorkerTime)]
    /\ UNCHANGED <<time, lead, auths, since>>

\* mark_submitted returns the time it wrote.
NoteSubmission(w) ==
    /\ since' = [since EXCEPT ![w] = WorkerTime]
    /\ UNCHANGED <<time, lead, auths, excluded>>

ForgetAttempt(w) ==
    /\ excluded' = [excluded EXCEPT ![w] = {}]
    /\ since' = [since EXCEPT ![w] = 0]
    /\ UNCHANGED <<time, lead, auths>>

\* find_authorization: exactly one new record, or no answer.
Exact(w) == CreatedFrom(since[w]) \ excluded[w]

Verdict(w) ==
    IF \E a \in Exact(w) : Exact(w) = {a} /\ a.approved THEN "approved"
    ELSE IF \E a \in Exact(w) : Exact(w) = {a} THEN "declined"
    ELSE "unknown"

=============================================================================
