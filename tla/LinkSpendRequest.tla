-------------------------- MODULE LinkSpendRequest --------------------------
(***************************************************************************)
(* StripeLinkGateway: the spend request at Stripe Link that stands for a   *)
(* checkout, and the worker's calls of link-cli about it.                  *)
(*                                                                         *)
(* The request is created before it is recorded on the execution's row, so *)
(* an attempt that is cut short leaves it to be found by the next one: by  *)
(* the recorded id, or by the execution id in the request's metadata.      *)
(***************************************************************************)
EXTENDS CheckoutWorker

CONSTANT Requests   \* ids Link can give to a spend request

VARIABLES
    link,      \* the spend requests at Link
    recorded,  \* provider_request_id of each row, as a set of at most one
    ask,       \* the next call about the request each worker is to make
    mine,      \* the request it is about, as a set of at most one
    late,      \* executions with a create that outlived its caller
    astray     \* executions with a create made without the card's lock

linkVars == <<link, recorded, ask, mine, late, astray>>

Active   == {"created", "pending_approval", "approved"}   \* LINK_ACTIVE_STATUSES
Asks     == {"off", "look", "create", "approve", "record", "wait", "ready"}
Reports  == {"success", "blocked", "abandoned"}

\* exact: does the record show what the execution was approved for, field for
\* field.  used: its card was handed out.  reported: outcomes Link was told.
NoRequest == [status |-> "absent", for |-> None, exact |-> FALSE,
              used |-> FALSE, reported |-> {}]

AtMostOne(set) == \A r, s \in set : r = s

LinkTypeOK ==
    /\ link \in [Requests -> [status : Active \cup {"absent", "closed"},
                              for : Executions \cup {None}, exact : BOOLEAN,
                              used : BOOLEAN, reported : SUBSET Reports]]
    /\ recorded \in [Executions -> SUBSET Requests]
    /\ ask \in [Workers -> Asks]
    /\ mine \in [Workers -> SUBSET Requests]
    /\ \A e \in Executions : AtMostOne(recorded[e])
    /\ \A w \in Workers : AtMostOne(mine[w])
    /\ late \subseteq Executions
    /\ astray \subseteq Executions

LinkInit ==
    /\ link = [r \in Requests |-> NoRequest]
    /\ recorded = [e \in Executions |-> {}]
    /\ ask = [w \in Workers |-> "off"]
    /\ mine = [w \in Workers |-> {}]
    /\ late = {}
    /\ astray = {}

RequestsFor(e) == {r \in Requests : link[r].for = e}
Unused == {r \in Requests : link[r].status = "absent"}

Asking(w, call) == At(w, "browse") /\ ask[w] = call

-----------------------------------------------------------------------------
(* ensure_spend_request. *)

\* prepare's context carries the request id recorded on the row.
StartAsking(w) ==
    /\ ask' = [ask EXCEPT ![w] = "look"]
    /\ mine' = [mine EXCEPT ![w] = recorded[job[w]]]
    /\ UNCHANGED <<link, recorded, late, astray>>

StopAsking(w) ==
    /\ ask' = [ask EXCEPT ![w] = "off"]
    /\ mine' = [mine EXCEPT ![w] = {}]

GiveUp(w, error) ==
    /\ Raise(w, error)
    /\ StopAsking(w)
    /\ UNCHANGED <<dbVars, merchantVars, job, lock>>

\* Mutant of Listed: requests that were denied or have expired are not listed.
ListedActive(e) == {r \in RequestsFor(e) : link[r].status \in Active}

\* spend-request list --include-history, by agpay_execution_id.
Listed(e) == RequestsFor(e)

\* The one request to go on with: that of the row, or the one that is listed.
Found(w) == IF mine[w] # {} THEN mine[w] ELSE Listed(job[w])

\* What _validate_exact_request and _spend_request accept.
Acceptable(r) == link[r].exact /\ link[r].status \in Active

\* Retrieve by id, or list; several, another or a closed one ends the attempt.
Look(w) ==
    /\ Asking(w, "look")
    /\ \/ /\ Found(w) = {}
          /\ ask' = [ask EXCEPT ![w] = "create"]
          /\ UNCHANGED <<workerVars, dbVars, merchantVars, mine>>
       \/ \E r \in Found(w) :
             /\ Found(w) = {r}
             /\ Acceptable(r)
             /\ mine' = [mine EXCEPT ![w] = {r}]
             /\ ask' = [ask EXCEPT ![w] =
                           IF link[r].status = "created" THEN "approve" ELSE "record"]
             /\ UNCHANGED <<workerVars, dbVars, merchantVars>>
       \/ /\ Found(w) # {}
          /\ ~ \E r \in Found(w) : Found(w) = {r} /\ Acceptable(r)
          /\ GiveUp(w, "fatal")
    /\ UNCHANGED <<link, recorded, late, astray>>

\* --request-approval may have come into effect or not.
NewRequest(r, e, exact) ==
    \E status \in {"created", "pending_approval"} :
        link' = [link EXCEPT ![r] = [NoRequest EXCEPT !.status = status, !.for = e,
                                                      !.exact = exact]]

\* spend-request create.  Only an exact answer is accepted; the request is
\* there whatever becomes of the answer.
Create(w) ==
    /\ Asking(w, "create")
    /\ \E r \in Unused, exact \in BOOLEAN :
          /\ NewRequest(r, job[w], exact)
          /\ \/ /\ exact
                /\ mine' = [mine EXCEPT ![w] = {r}]
                /\ ask' = [ask EXCEPT ![w] = "record"]
                /\ UNCHANGED <<workerVars, dbVars, merchantVars>>
             \/ GiveUp(w, "fatal")
    /\ astray' = IF lock[CardOf[job[w]]] = w THEN astray ELSE astray \cup {job[w]}
    /\ UNCHANGED <<recorded, late>>

\* The call was sent, and nobody waits for its effect any more.
CutOff(w) ==
    late' \in IF ask[w] = "create" THEN {late, late \cup {job[w]}} ELSE {late}

\* Link comes round to a create whose caller is gone.
LateCreate(e) ==
    /\ e \in late
    /\ late' = late \ {e}
    /\ \E r \in Unused : NewRequest(r, e, TRUE)
    /\ astray' = astray \cup {e}
    /\ UNCHANGED <<dbVars, workerVars, merchantVars, recorded, ask, mine>>

\* spend-request request-approval, for a request found as "created"; the
\* answer may be lost after the owner has been asked.
RequestApproval(w) ==
    /\ Asking(w, "approve")
    /\ \E r \in mine[w] :
          link' = [link EXCEPT ![r].status = IF @ = "created" THEN "pending_approval" ELSE @]
    /\ \/ /\ ask' = [ask EXCEPT ![w] = "record"]
          /\ UNCHANGED <<workerVars, dbVars, merchantVars, mine>>
       \/ GiveUp(w, "fatal")
    /\ UNCHANGED <<recorded, late, astray>>

\* Mutant of Record: the request of this attempt replaces the recorded one.
RecordAgain(w) ==
    /\ Asking(w, "record")
    /\ exec[job[w]].status = "running"
    /\ recorded' = [recorded EXCEPT ![job[w]] = mine[w]]
    /\ ask' = [ask EXCEPT ![w] = "wait"]
    /\ UNCHANGED <<link, mine, late, astray, workerVars, dbVars, merchantVars>>

\* record_provider_request: the first one stays; another is a payment nobody
\* can account for.
Record(w) ==
    /\ Asking(w, "record")
    /\ exec[job[w]].status = "running"
    /\ \/ /\ recorded[job[w]] \in {{}, mine[w]}
          /\ recorded' = [recorded EXCEPT ![job[w]] = mine[w]]
          /\ ask' = [ask EXCEPT ![w] = "wait"]
          /\ UNCHANGED <<mine, workerVars, dbVars, merchantVars>>
       \/ /\ recorded[job[w]] \notin {{}, mine[w]}
          /\ GiveUp(w, "unknown")
          /\ UNCHANGED recorded
    /\ UNCHANGED <<link, late, astray>>

\* wait_for_approval, polling until its deadline.
WaitForApproval(w) ==
    /\ Asking(w, "wait")
    /\ \E r \in mine[w] :
          \/ /\ link[r].status = "approved"
             /\ ask' = [ask EXCEPT ![w] = "ready"]
             /\ UNCHANGED <<workerVars, dbVars, merchantVars, mine>>
          \/ link[r].status \in Active \ {"approved"} /\ GiveUp(w, "retryable")
          \/ link[r].status \notin Active /\ GiveUp(w, "fatal")
    /\ UNCHANGED <<link, recorded, late, astray>>

\* link-cli fails or is killed at its timeout, the method or the row has
\* changed, the database is away.  Only polling is repeated by a new attempt,
\* and what is not an error of link-cli.
LinkFails(w) ==
    /\ At(w, "browse")
    /\ ask[w] \in Asks \ {"off", "ready"}
    /\ \/ GiveUp(w, "retryable") /\ UNCHANGED late
       \/ GiveUp(w, "fatal") /\ CutOff(w)
    /\ UNCHANGED <<link, recorded, astray>>

-----------------------------------------------------------------------------
(* The card of the request, and what Link is told. *)

\* retrieve_card: looks at the request again before it takes the card.
RetrieveCard(w) ==
    /\ ask[w] = "ready"
    /\ \E r \in mine[w] :
          /\ Acceptable(r) /\ link[r].status = "approved"
          /\ link' = [link EXCEPT ![r].used = TRUE]
    /\ UNCHANGED <<recorded, ask, mine, late, astray>>

\* report_outcome, best effort, and the attempt's last word to Link.
Report(w, outcome) ==
    /\ \E r \in mine[w] :
          \/ link' = [link EXCEPT ![r].reported = @ \cup {outcome}]
          \/ UNCHANGED link
    /\ StopAsking(w)
    /\ UNCHANGED <<recorded, late, astray>>

-----------------------------------------------------------------------------
(* The owner, in the Link application. *)

OwnerDecides(r) ==
    /\ link[r].status = "pending_approval"
    /\ \E answer \in {"approved", "closed"} : link' = [link EXCEPT ![r].status = answer]
    /\ UNCHANGED <<dbVars, workerVars, merchantVars, recorded, ask, mine, late, astray>>

\* A request expires or is withdrawn.
Expires(r) ==
    /\ link[r].status \in Active
    /\ link' = [link EXCEPT ![r].status = "closed"]
    /\ UNCHANGED <<dbVars, workerVars, merchantVars, recorded, ask, mine, late, astray>>

-----------------------------------------------------------------------------
(* Properties. *)

\* All attempts of a checkout pay with the card of one spend request, the one
\* recorded on its row, and that one shows exactly what was approved.
OneRequestPays ==
    \A r \in Requests :
        link[r].used => recorded[link[r].for] = {r} /\ link[r].exact

\* The owner is asked once per checkout: a second spend request takes a create
\* made after the card lock was lost, or one that outlived its caller.
NoSecondRequest ==
    \A e \in Executions \ astray : Cardinality(RequestsFor(e)) <= 1

\* Link is told of a success only when the merchant has charged the card, and
\* of any outcome only about a request whose card was handed out.
ReportsTrue ==
    \A r \in Requests :
        /\ "success" \in link[r].reported => charge[link[r].for] = "charged"
        /\ link[r].reported # {} => link[r].used

=============================================================================
