-------------------------- MODULE CheckoutEventFeed --------------------------
(***************************************************************************)
(* The feed from which one agent learns how its checkouts ended.           *)
(*                                                                         *)
(* The transaction that ends an execution inserts an event, whose cursor   *)
(* the database draws from a sequence at the insertion; the event becomes  *)
(* visible when that transaction commits.  The agent asks for the events   *)
(* after the last cursor it was given.  Whether an event can become        *)
(* visible behind that cursor depends on the row locks the transactions    *)
(* hold on the agent: a success locks the agent's row FOR UPDATE while it  *)
(* validates the execution, any other ending touches that row only when    *)
(* the event's foreign key is checked.                                     *)
(*                                                                         *)
(* Sessions are the workers' and the API's database sessions; all the      *)
(* executions belong to one agent.                                         *)
(***************************************************************************)
EXTENDS Integers, FiniteSets

CONSTANTS
    Sessions,
    Executions,
    None,
    PageLimit,     \* the limit of a page
    MaxCursor      \* bounds how many cursors are drawn

ASSUME SessionsAssumption == None \notin Sessions /\ None \notin Executions
ASSUME PageAssumption == PageLimit \in Nat \ {0} /\ MaxCursor \in Nat

VARIABLES
    status,     \* of each execution, as committed
    doing,      \* the execution whose row each session has locked, or None
    outcome,    \* the status its transaction is about to write
    stage,      \* how far the transaction has come
    cursor,     \* the cursor of its event, once inserted
    next,       \* the sequence of checkout_events.cursor
    feed,       \* the committed events
    position,   \* the agent's after_cursor
    seen        \* the events the agent was given

txnVars == <<doing, outcome, stage, cursor>>
vars == <<status, txnVars, next, feed, position, seen>>

\* "unknown" is outcome_unknown; "failed" stands for action_required as well, which
\* nothing reconciles either.
Outcomes == {"failed", "unknown", "succeeded"}
Events == [cursor : 1..MaxCursor, execution : Executions, outcome : Outcomes]
Stages == {"idle", "validating", "validated", "ending", "inserted", "checking", "checked"}

TypeOK ==
    /\ status \in [Executions -> {"running"} \cup Outcomes]
    /\ doing \in [Sessions -> Executions \cup {None}]
    /\ outcome \in [Sessions -> Outcomes]
    /\ stage \in [Sessions -> Stages]
    /\ cursor \in [Sessions -> 0..MaxCursor]
    /\ next \in 1..MaxCursor + 1
    /\ feed \in SUBSET Events
    /\ IsFiniteSet(feed)
    /\ position \in 0..MaxCursor
    /\ seen \in SUBSET feed

Init ==
    /\ status = [e \in Executions |-> "running"]
    /\ doing = [s \in Sessions |-> None]
    /\ outcome = [s \in Sessions |-> "failed"]
    /\ stage = [s \in Sessions |-> "idle"]
    /\ cursor = [s \in Sessions |-> 0]
    /\ next = 1
    /\ feed = {}
    /\ position = 0
    /\ seen = {}

-----------------------------------------------------------------------------
(* Locks on the agent's row. *)

\* FOR UPDATE, held from the validation of a success to its end.
HoldsAgent(s) == stage[s] \in {"validated", "inserted"}

\* FOR KEY SHARE, held from the foreign key check to the end.
SharesAgent(s) == stage[s] = "checked"

-----------------------------------------------------------------------------
(* The transaction that ends an execution. *)

\* Mutant of Begin: the execution's row is read without a lock.
BeginUnlocked(s, e, o) ==
    /\ stage[s] = "idle"
    /\ status[e] = "running" \/ (status[e] = "unknown" /\ o = "succeeded")
    /\ doing' = [doing EXCEPT ![s] = e]
    /\ outcome' = [outcome EXCEPT ![s] = o]
    /\ stage' = [stage EXCEPT ![s] = IF o = "succeeded" THEN "validating" ELSE "ending"]
    /\ UNCHANGED <<status, cursor, next, feed, position, seen>>

\* The execution's row is locked and its status found fit: a worker ends a running
\* execution, the owner's reconciliation turns an unresolved one into a success.
Begin(s, e, o) ==
    /\ stage[s] = "idle"
    /\ \A t \in Sessions : doing[t] # e
    /\ status[e] = "running" \/ (status[e] = "unknown" /\ o = "succeeded")
    /\ doing' = [doing EXCEPT ![s] = e]
    /\ outcome' = [outcome EXCEPT ![s] = o]
    /\ stage' = [stage EXCEPT ![s] = IF o = "succeeded" THEN "validating" ELSE "ending"]
    /\ UNCHANGED <<status, cursor, next, feed, position, seen>>

\* Mutant of LockAgent: the agent is read without a lock.
ReadAgent(s) ==
    /\ stage[s] = "validating"
    /\ stage' = [stage EXCEPT ![s] = "validated"]
    /\ UNCHANGED <<status, doing, outcome, cursor, next, feed, position, seen>>

\* A success locks the agent's row, together with the cart item and the method.
LockAgent(s) ==
    /\ stage[s] = "validating"
    /\ \A t \in Sessions : ~HoldsAgent(t) /\ ~SharesAgent(t)
    /\ stage' = [stage EXCEPT ![s] = "validated"]
    /\ UNCHANGED <<status, doing, outcome, cursor, next, feed, position, seen>>

\* The event is inserted and draws its cursor.
Insert(s) ==
    /\ next <= MaxCursor
    /\ \/ stage[s] = "validated" /\ stage' = [stage EXCEPT ![s] = "inserted"]
       \/ stage[s] = "ending" /\ stage' = [stage EXCEPT ![s] = "checking"]
    /\ cursor' = [cursor EXCEPT ![s] = next]
    /\ next' = next + 1
    /\ UNCHANGED <<status, doing, outcome, feed, position, seen>>

\* The foreign key of the inserted event: waits for a FOR UPDATE on the agent.
CheckKey(s) ==
    /\ stage[s] = "checking"
    /\ \A t \in Sessions : ~HoldsAgent(t)
    /\ stage' = [stage EXCEPT ![s] = "checked"]
    /\ UNCHANGED <<status, doing, outcome, cursor, next, feed, position, seen>>

\* The session forgets its transaction.
End(s) ==
    /\ doing' = [doing EXCEPT ![s] = None]
    /\ outcome' = [outcome EXCEPT ![s] = "failed"]
    /\ stage' = [stage EXCEPT ![s] = "idle"]
    /\ cursor' = [cursor EXCEPT ![s] = 0]
    /\ UNCHANGED <<next, position, seen>>

EventOf(s) == [cursor |-> cursor[s], execution |-> doing[s], outcome |-> outcome[s]]

Commit(s) ==
    /\ stage[s] \in {"inserted", "checked"}
    /\ status' = [status EXCEPT ![doing[s]] = outcome[s]]
    /\ feed' = feed \cup {EventOf(s)}
    /\ End(s)

\* A failed validation, a conflict, a lost connection: a drawn cursor is not
\* given back.
Rollback(s) ==
    /\ stage[s] # "idle"
    /\ End(s)
    /\ UNCHANGED <<status, feed>>

-----------------------------------------------------------------------------
(* The agent. *)

Before(c) == {q \in feed : position < q.cursor /\ q.cursor < c}

\* The first PageLimit events after the position.
Page == {r \in feed : position < r.cursor /\ Cardinality(Before(r.cursor)) < PageLimit}

\* Mutant of Poll: next_cursor is the newest cursor of the feed.
PollNewest ==
    /\ \E r \in feed :
          /\ position < r.cursor
          /\ \A q \in feed : q.cursor <= r.cursor
          /\ position' = r.cursor
    /\ seen' = seen \cup Page
    /\ UNCHANGED <<status, txnVars, next, feed>>

\* list_checkout_events; a request whose answer is lost is repeated unchanged.
Poll ==
    /\ \E r \in Page :
          /\ \A q \in Page : q.cursor <= r.cursor
          /\ position' = r.cursor
    /\ seen' = seen \cup Page
    /\ UNCHANGED <<status, txnVars, next, feed>>

-----------------------------------------------------------------------------

Next ==
    \/ \E s \in Sessions :
          \/ \E e \in Executions, o \in Outcomes : Begin(s, e, o)
          \/ LockAgent(s) \/ Insert(s) \/ CheckKey(s) \/ Commit(s) \/ Rollback(s)
    \/ Poll

Spec == Init /\ [][Next]_vars

-----------------------------------------------------------------------------
(* Properties. *)

\* README: "Agents learn terminal managed-checkout outcomes through their
\* tenant-scoped cursor event feed": no event is behind the agent's position
\* without having been given to it.
NothingSkipped == \A r \in feed : r.cursor <= position => r \in seen

\* However many workers and reconciliations write at once, a success is never
\* behind the agent's position unseen: its transaction holds the agent's row from
\* before the cursor is drawn, and whoever draws a later one needs that row too.
NoSuccessSkipped ==
    \A r \in feed : (r.outcome = "succeeded" /\ r.cursor <= position) => r \in seen

\* An execution that ended unresolved and was reconciled appears in the feed in
\* that order, and an execution ends in no two other ways: both transactions lock
\* the execution's row before they draw a cursor.
OutcomesInOrder ==
    \A r, q \in feed :
        (r.execution = q.execution /\ r.cursor < q.cursor) =>
            r.outcome = "unknown" /\ q.outcome = "succeeded"

-----------------------------------------------------------------------------
(* The inductive invariant. *)

Open(s) == stage[s] \in {"inserted", "checking", "checked"}

\* FOR UPDATE excludes every other lock on the agent; a success holds it.
AgentRowLocked ==
    /\ \A s, t \in Sessions : HoldsAgent(s) /\ s # t => ~HoldsAgent(t) /\ ~SharesAgent(t)
    /\ \A s \in Sessions :
          outcome[s] = "succeeded" => stage[s] \notin {"ending", "checking", "checked"}

\* Cursors are drawn once, in order, and a position was given out.
CursorsDrawn ==
    /\ \A r \in feed : r.cursor < next
    /\ position = 0 \/ \E r \in feed : r.cursor = position
    /\ \A s \in Sessions : Open(s) =>
          cursor[s] \in 1..next - 1 /\ \A r \in feed : r.cursor # cursor[s]
    /\ \A s, t \in Sessions : (Open(s) /\ Open(t) /\ s # t) => cursor[s] # cursor[t]

\* Nothing that is visible has a later cursor than a success that is not yet.
SuccessAhead ==
    \A s \in Sessions : stage[s] = "inserted" => \A r \in feed : r.cursor < cursor[s]

\* One transaction at a time on an execution, for an ending its row allows; the
\* feed tells what the row says.
RowsLocked ==
    /\ \A s \in Sessions : stage[s] = "idle" <=> doing[s] = None
    /\ \A s, t \in Sessions : (doing[s] = doing[t] /\ doing[s] # None) => s = t
    /\ \A s \in Sessions : doing[s] # None =>
          status[doing[s]] = "running" \/ (status[doing[s]] = "unknown" /\ outcome[s] = "succeeded")
    /\ \A r \in feed : \/ status[r.execution] = r.outcome
                       \/ status[r.execution] = "succeeded" /\ r.outcome = "unknown"
    /\ \A s \in Sessions, r \in feed :
          (Open(s) /\ doing[s] = r.execution) => r.cursor < cursor[s]
    /\ \A r, q \in feed : (r.execution = q.execution /\ r.outcome = q.outcome) => r = q

IInv ==
    /\ TypeOK /\ AgentRowLocked /\ CursorsDrawn /\ SuccessAhead /\ RowsLocked
    /\ NoSuccessSkipped /\ OutcomesInOrder

-----------------------------------------------------------------------------
(* Progress. *)

\* The agent asks again and again.
FairSpec == Spec /\ WF_vars(Poll)

\* Whatever ends at the same time, the agent learns of every success.
SuccessesLearned ==
    \A r \in Events : (r \in feed /\ r.outcome = "succeeded") ~> r \in seen

=============================================================================
