------------------------------ MODULE CvcRelay ------------------------------
(***************************************************************************)
(* The security code of a stored direct card on its way from the owner's   *)
(* approval to the browser.                                                *)
(*                                                                         *)
(* The approve endpoint flushes an execution row, puts the code into the   *)
(* memory of a worker process through a Unix socket, and only then commits *)
(* the row; a worker takes the code out just before it submits.  The       *)
(* request and its answer can be lost, the API and the worker can stop at  *)
(* any point, a commit can fail after it was made, codes expire, and a     *)
(* worker process that starts decides first whether the socket is live and *)
(* takes the socket's path afterwards.                                     *)
(*                                                                         *)
(* Each approval here is one request to the endpoint: it has an execution  *)
(* row and a code of its own.                                              *)
(***************************************************************************)
EXTENDS Naturals, FiniteSets

CONSTANTS
    Approvals,     \* approve requests, each with its execution row and its code
    Hosts,         \* worker processes
    None,
    MaxAttempts    \* settings.checkout_max_attempts

ASSUME HostsAssumption == None \notin Hosts /\ None \notin Approvals
ASSUME AttemptsAssumption == MaxAttempts \in Nat \ {0}

VARIABLES
    host,      \* what each worker process is doing
    path,      \* the process listening on the socket path, or None
    held,      \* the broker's _entries in each process
    wire,      \* the process a put request is under way to
    api,       \* how far each request has come
    row,       \* the phase of each execution's committed row
    attempts,  \* its attempt_count
    job,       \* the execution each process works on
    stage,     \* how far that attempt has come
    used,      \* how often a code was handed to a browser run
    spoiled    \* did a code expire, or its process stop, before it was taken

relayVars == <<host, path, held, wire>>
apiVars   == <<api>>
rowVars   == <<row, attempts>>
workVars  == <<job, stage>>
ghostVars == <<used, spoiled>>
vars == <<relayVars, apiVars, rowVars, workVars, ghostVars>>

\* "codeless" is failed with card_security_code_unavailable; "settled" stands for
\* every end of a row that was submitted, and for outcome_unknown.
Ended == {"codeless", "failed", "settled"}
Phase == {"absent", "queued", "running", "paying"} \cup Ended

TypeOK ==
    /\ host \in [Hosts -> {"down", "starting", "up", "closing"}]
    /\ path \in Hosts \cup {None}
    /\ held \in [Hosts -> [Approvals -> {"none", "fresh", "expired"}]]
    /\ wire \in [Approvals -> Hosts \cup {None}]
    /\ api \in [Approvals -> {"idle", "flushed", "sending", "staged",
                              "undo", "confirmed", "refused"}]
    /\ row \in [Approvals -> Phase]
    /\ attempts \in [Approvals -> 0..MaxAttempts]
    /\ job \in [Hosts -> Approvals \cup {None}]
    /\ stage \in [Hosts -> {"idle", "browse", "loaded", "sent"}]
    /\ used \in [Approvals -> Nat]
    /\ spoiled \in [Approvals -> BOOLEAN]

Empty == [a \in Approvals |-> "none"]

Init ==
    /\ host = [p \in Hosts |-> "down"]
    /\ path = None
    /\ held = [p \in Hosts |-> Empty]
    /\ wire = [a \in Approvals |-> None]
    /\ api = [a \in Approvals |-> "idle"]
    /\ row = [a \in Approvals |-> "absent"]
    /\ attempts = [a \in Approvals |-> 0]
    /\ job = [p \in Hosts |-> None]
    /\ stage = [p \in Hosts |-> "idle"]
    /\ used = [a \in Approvals |-> 0]
    /\ spoiled = [a \in Approvals |-> FALSE]

-----------------------------------------------------------------------------
(* The broker's life in a worker process. *)

\* start, up to the decision that nobody answers at the path; a process that
\* finds a live socket raises and stays down.
StartCheck(p) ==
    /\ host[p] = "down"
    /\ path = None
    /\ host' = [host EXCEPT ![p] = "starting"]
    /\ UNCHANGED <<path, held, wire, apiVars, rowVars, workVars, ghostVars>>

\* start, from there: whatever is at the path by now is unlinked and the path
\* bound again.
StartListen(p) ==
    /\ host[p] = "starting"
    /\ host' = [host EXCEPT ![p] = "up"]
    /\ path' = p
    /\ UNCHANGED <<held, wire, apiVars, rowVars, workVars, ghostVars>>

\* Everything process p knows is gone, with every code in it and every request
\* on the way to it.
Forget(p) ==
    /\ held' = [held EXCEPT ![p] = Empty]
    /\ spoiled' = [a \in Approvals |-> spoiled[a] \/ held[p][a] # "none"]
    /\ path' = IF path = p THEN None ELSE path

\* close, after run_forever has returned: entries are cleared and the socket
\* closed, and requests already accepted are still answered.
Close(p) ==
    /\ host[p] = "up"
    /\ job[p] = None
    /\ host' = [host EXCEPT ![p] = "closing"]
    /\ Forget(p)
    /\ UNCHANGED <<wire, apiVars, rowVars, workVars, used>>

\* The process ends, at any point of its life; the row keeps its phase.
Die(p) ==
    /\ host[p] # "down"
    /\ host' = [host EXCEPT ![p] = "down"]
    /\ Forget(p)
    /\ wire' = [a \in Approvals |-> IF wire[a] = p THEN None ELSE wire[a]]
    /\ job' = [job EXCEPT ![p] = None]
    /\ stage' = [stage EXCEPT ![p] = "idle"]
    /\ UNCHANGED <<apiVars, rowVars, used>>

\* _prune, called by put and take only.
Pruned(p) == [a \in Approvals |-> IF held[p][a] = "expired" THEN "none" ELSE held[p][a]]

\* ttl_seconds have passed since the put.
Expire(p, a) ==
    /\ held[p][a] = "fresh"
    /\ held' = [held EXCEPT ![p][a] = "expired"]
    /\ spoiled' = [spoiled EXCEPT ![a] = TRUE]
    /\ UNCHANGED <<host, path, wire, apiVars, rowVars, workVars, used>>

-----------------------------------------------------------------------------
(* The approve endpoint. *)

Reply(a, state) == api' = [api EXCEPT ![a] = state]

\* The row is inserted and flushed in the request's transaction.
Flush(a) ==
    /\ api[a] = "idle"
    /\ Reply(a, "flushed")
    /\ UNCHANGED <<relayVars, rowVars, workVars, ghostVars>>

\* cvc_client.put connects and writes its request.
SendPut(a) ==
    /\ api[a] = "flushed"
    /\ path # None
    /\ Reply(a, "sending")
    /\ wire' = [wire EXCEPT ![a] = path]
    /\ UNCHANGED <<host, path, held, rowVars, workVars, ghostVars>>

\* _put at the worker; its answer may get lost.
PutArrives(a) ==
    /\ wire[a] # None
    /\ held' = [held EXCEPT ![wire[a]] = [Pruned(wire[a]) EXCEPT ![a] = "fresh"]]
    /\ wire' = [wire EXCEPT ![a] = None]
    /\ \/ api[a] = "sending" /\ Reply(a, "staged")
       \/ UNCHANGED api
    /\ UNCHANGED <<host, path, rowVars, workVars, ghostVars>>

\* Mutant of PutFails: the error of the relay is swallowed.
PutFailsSilently(a) ==
    /\ api[a] \in {"flushed", "sending"}
    /\ Reply(a, "staged")
    /\ UNCHANGED <<relayVars, rowVars, workVars, ghostVars>>

\* No connection or no answer in time: rollback and 503, while the request may
\* still arrive.
PutFails(a) ==
    /\ api[a] \in {"flushed", "sending"}
    /\ Reply(a, "refused")
    /\ UNCHANGED <<relayVars, rowVars, workVars, ghostVars>>

\* Mutant of Commit: the row is committed before the code is put.
CommitEarly(a) ==
    /\ api[a] \in {"flushed", "staged"}
    /\ \/ /\ row' = [row EXCEPT ![a] = "queued"]
          /\ \E state \in {"confirmed", "undo"} : Reply(a, state)
       \/ Reply(a, "undo") /\ UNCHANGED row
    /\ UNCHANGED <<relayVars, attempts, workVars, ghostVars>>

\* db.commit, which can raise with the row committed or not.
Commit(a) ==
    /\ api[a] = "staged"
    /\ \/ /\ row' = [row EXCEPT ![a] = "queued"]
          /\ \E state \in {"confirmed", "undo"} : Reply(a, state)
       \/ Reply(a, "undo") /\ UNCHANGED row
    /\ UNCHANGED <<relayVars, attempts, workVars, ghostVars>>

\* cvc_client.discard after a commit that raised; it swallows its own errors.
Discard(a) ==
    /\ api[a] = "undo"
    /\ Reply(a, "refused")
    /\ \/ /\ path # None
          /\ held' = [held EXCEPT ![path][a] = "none"]
       \/ UNCHANGED held
    /\ UNCHANGED <<host, path, wire, rowVars, workVars, ghostVars>>

\* The API process dies with the request open.
ApiDies(a) ==
    /\ api[a] \in {"flushed", "sending", "staged", "undo"}
    /\ Reply(a, "refused")
    /\ UNCHANGED <<relayVars, rowVars, workVars, ghostVars>>

-----------------------------------------------------------------------------
(* The worker on its way through an attempt. *)

Leave(p) ==
    /\ job' = [job EXCEPT ![p] = None]
    /\ stage' = [stage EXCEPT ![p] = "idle"]

\* The phase an error leaves a row in: ended rows stay, submitted ones become
\* unknown, the others as given.
After(a, phase) ==
    row' = [row EXCEPT ![a] =
        IF @ \in Ended THEN @ ELSE IF @ = "paying" THEN "settled" ELSE phase]

\* Mutant of Claimable: leases that ran out are not looked at.
ClaimableQueuedOnly(a) == row[a] = "queued"

\* Waiting, or running under a lease that has run out, as it may at any time.
Claimable(a) == row[a] \in {"queued", "running", "paying"}

\* claim_next: an attempt, or the end of a row that was submitted or has used up
\* its attempts.
Claim(p) ==
    /\ host[p] = "up"
    /\ job[p] = None
    /\ \E a \in Approvals :
          /\ Claimable(a)
          /\ IF row[a] # "paying" /\ attempts[a] < MaxAttempts
             THEN /\ row' = [row EXCEPT ![a] = "running"]
                  /\ attempts' = [attempts EXCEPT ![a] = @ + 1]
                  /\ job' = [job EXCEPT ![p] = a]
                  /\ stage' = [stage EXCEPT ![p] = "browse"]
             ELSE After(a, "failed") /\ UNCHANGED <<attempts, workVars>>
    /\ UNCHANGED <<relayVars, apiVars, ghostVars>>

\* Anything that goes wrong before the card is loaded.
FailBeforeLoad(p) ==
    /\ stage[p] = "browse"
    /\ \/ /\ attempts[job[p]] < MaxAttempts
          /\ After(job[p], "queued")
       \/ After(job[p], "failed")
       \/ After(job[p], "settled")
    /\ Leave(p)
    /\ UNCHANGED <<relayVars, apiVars, attempts, ghostVars>>

\* load_card takes the code out of the broker's memory.
TakeCode(p) ==
    /\ stage[p] = "browse"
    /\ held[p][job[p]] = "fresh"
    /\ held' = [held EXCEPT ![p] = [Pruned(p) EXCEPT ![job[p]] = "none"]]
    /\ used' = [used EXCEPT ![job[p]] = @ + 1]
    /\ stage' = [stage EXCEPT ![p] = "loaded"]
    /\ UNCHANGED <<host, path, wire, apiVars, rowVars, job, spoiled>>

\* load_card finds no code: no attempt can mend that.
CodeUnavailable(p) ==
    /\ stage[p] = "browse"
    /\ held[p][job[p]] # "fresh"
    /\ held' = [held EXCEPT ![p] = Pruned(p)]
    /\ After(job[p], "codeless")
    /\ Leave(p)
    /\ UNCHANGED <<host, path, wire, apiVars, attempts, ghostVars>>

\* Anything that goes wrong between loading the card and mark_submitted.
FailLoaded(p) ==
    /\ stage[p] = "loaded"
    /\ After(job[p], "codeless")
    /\ Leave(p)
    /\ UNCHANGED <<relayVars, apiVars, attempts, ghostVars>>

\* Mutant of Submit: the row is marked before the code is loaded.
SubmitUnloaded(p) ==
    /\ stage[p] \in {"browse", "loaded"}
    /\ row[job[p]] = "running"
    /\ row' = [row EXCEPT ![job[p]] = "paying"]
    /\ stage' = [stage EXCEPT ![p] = "sent"]
    /\ UNCHANGED <<relayVars, apiVars, attempts, job, ghostVars>>

\* mark_submitted: only a running row can be submitted, and only once.
Submit(p) ==
    /\ stage[p] = "loaded"
    /\ row[job[p]] = "running"
    /\ row' = [row EXCEPT ![job[p]] = "paying"]
    /\ stage' = [stage EXCEPT ![p] = "sent"]
    /\ UNCHANGED <<relayVars, apiVars, attempts, job, ghostVars>>

\* The outcome of the submitted payment is committed, or a lost acknowledgement
\* of mark_submitted is handled.
Settle(p) ==
    /\ stage[p] = "sent"
    /\ After(job[p], "settled")
    /\ Leave(p)
    /\ UNCHANGED <<relayVars, apiVars, attempts, ghostVars>>

-----------------------------------------------------------------------------

WorkerStep(p) ==
    \/ Claim(p) \/ FailBeforeLoad(p) \/ TakeCode(p) \/ CodeUnavailable(p)
    \/ FailLoaded(p) \/ Submit(p) \/ Settle(p)

ApiStep(a) ==
    \/ Flush(a) \/ SendPut(a) \/ PutArrives(a) \/ PutFails(a)
    \/ Commit(a) \/ Discard(a) \/ ApiDies(a)

Next ==
    \/ \E p \in Hosts : StartCheck(p) \/ StartListen(p) \/ Close(p) \/ Die(p) \/ WorkerStep(p)
    \/ \E a \in Approvals : ApiStep(a)
    \/ \E p \in Hosts, a \in Approvals : Expire(p, a)

Spec == Init /\ [][Next]_vars

-----------------------------------------------------------------------------
(* Properties. *)

\* The processes that hold the code of an approval, and those it has not expired in.
Kept(a) == {p \in Hosts : held[p][a] # "none"}
Fresh(a) == {p \in Hosts : held[p][a] = "fresh"}

\* A code is handed to a browser run at most once, only for an approval that was
\* committed, and nothing is submitted without one: take pops the entry, put
\* comes before the commit, load_card before mark_submitted.
CodeSpentOnce ==
    \A a \in Approvals :
        /\ used[a] <= 1
        /\ used[a] > 0 => row[a] # "absent"
        /\ row[a] = "paying" => used[a] = 1

\* A code whose put was answered is in the memory of a process, unless it was used,
\* expired, or went down with its process: no late request, pruning, discard or
\* second process loses the code of an approval that is, or is about to be, confirmed.
ConfirmedIsServed ==
    \A a \in Approvals :
        api[a] \in {"staged", "confirmed"} => used[a] = 1 \/ spoiled[a] \/ Fresh(a) # {}

\* A row that has ended stays as it is, whatever the processes that still work on it
\* do and whatever is left of its code in their memories, where it is kept until
\* another request prunes it.
EndedStaysEnded ==
    [][\A a \in Approvals : row[a] \in Ended => row'[a] = row[a]]_vars

\* cvc_broker.py on start: "Never unlink it merely because that process has a
\* different token"; a live socket keeps its path until its process lets go.
LiveSocketStays ==
    [][\A p \in Hosts : (path = p /\ host'[p] = "up") => path' = p]_vars

-----------------------------------------------------------------------------
(* The inductive invariant. *)

\* A code is in one place at most: with the owner, on the wire, in one process's
\* memory, or used.
CodeInOnePlace ==
    \A a \in Approvals :
        /\ used[a] \in {0, 1}
        /\ api[a] \in {"idle", "flushed"} => wire[a] = None /\ Kept(a) = {} /\ used[a] = 0
        /\ wire[a] # None => Kept(a) = {} /\ used[a] = 0
        /\ used[a] = 1 => Kept(a) = {}
        /\ \A p, q \in Kept(a) : p = q

\* Nothing is committed before the put was answered; processes work on committed
\* rows only; a browser run past load_card has used the code.
RowsFollow ==
    /\ \A a \in Approvals :
          /\ api[a] \in {"idle", "flushed", "sending", "staged"} => row[a] = "absent"
          /\ row[a] = "absent" => used[a] = 0
          /\ row[a] = "paying" => used[a] = 1
    /\ \A p \in Hosts :
          /\ stage[p] # "idle" => job[p] \in Approvals /\ row[job[p]] # "absent"
          /\ stage[p] \in {"loaded", "sent"} => used[job[p]] = 1

IInv == TypeOK /\ CodeInOnePlace /\ RowsFollow

-----------------------------------------------------------------------------
(* The abstract specification, and progress. *)

WhereOf(a) ==
    CASE used[a] > 0                             -> "spent"
      [] wire[a] # None \/ Fresh(a) # {}         -> "relay"
      [] api[a] \in {"idle", "flushed"}          -> "owner"
      [] OTHER                                   -> "gone"

OneTime == INSTANCE OneTimeCode
           WITH where    <- [a \in Approvals |-> WhereOf(a)],
                approved <- [a \in Approvals |-> row[a] # "absent"]

\* The relay and the endpoint implement OneTimeCode.
KeepsOneTime == OneTime!Spec

\* A supervisor starts processes again, a start gets through and a process stays
\* up for a step over and over; one that closes ends; requests end.
Fairness ==
    /\ \A p \in Hosts :
          /\ WF_vars(StartCheck(p)) /\ SF_vars(StartListen(p)) /\ SF_vars(WorkerStep(p))
          /\ WF_vars(host[p] = "closing" /\ Die(p))
    /\ \A a \in Approvals : WF_vars(ApiStep(a))

FairSpec == Spec /\ Fairness

\* Every committed approval ends, whether or not its code is there to pay with.
EveryApprovalEnds ==
    \A a \in Approvals : row[a] \notin {"absent"} \cup Ended ~> row[a] \in Ended

=============================================================================
