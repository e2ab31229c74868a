-------------------------- MODULE ProposalApproval --------------------------
(***************************************************************************)
(* How a proposal of one agent is decided: by the agent's payment rule in  *)
(* the request that makes it, or by the owner, who approves it with a      *)
(* method or cancels it; and, for proposals without a managed checkout,    *)
(* how the agent reports the purchase.  Meanwhile the owner changes rules, *)
(* assigns and withdraws methods.                                          *)
(*                                                                         *)
(* A request is a database transaction of several statements.  Some of its *)
(* rows it locks, others it only reads; the model has one step per         *)
(* statement after which another request can get in between.               *)
(***************************************************************************)
EXTENDS FiniteSets

CONSTANTS
    Items, Methods, Rules,
    Sessions,     \* requests being served
    None,
    Managed,      \* the items proposed with a checkout adapter and URL
    Supported,    \* the methods a managed checkout accepts
    Direct,       \* those of them that are stored direct cards
    Recurring,    \* the items with a billing period
    OverLimit,    \* the items above, or in another currency than, any threshold
    Modes         \* the modes rules are given here

AllModes == {"always", "never", "subscriptions_only", "above_amount",
             "subscriptions_or_above_amount"}

ASSUME SetsAssumption ==
    /\ Managed \subseteq Items /\ Recurring \subseteq Items /\ OverLimit \subseteq Items
    /\ Supported \subseteq Methods /\ Direct \subseteq Supported
    /\ Modes \subseteq AllModes /\ Modes # {}
    /\ None \notin Items \cup Methods \cup Rules \cup Sessions

VARIABLES
    mode,      \* of each rule set
    link,      \* the agent's payment_rule_set_id
    active,    \* the active methods
    assigned,  \* the methods assigned to the agent
    status,    \* of each cart item; "absent" until it is proposed
    chosen,    \* its selected method
    queued,    \* the items with an execution row
    buyer,     \* who recorded its purchase
    stage,     \* how far each request has come
    on,        \* the item it is about
    pick,      \* the method it is about
    seen,      \* the agent's rule when the request authenticated
    holds      \* the methods whose rows it has locked

catalog == <<mode, link, active, assigned>>
rows    == <<status, chosen, queued, buyer>>
reqVars == <<stage, on, pick, seen, holds>>
vars == <<catalog, rows, reqVars>>

Stages == {"idle", "proposing", "ruled", "chosen", "deciding", "locked", "checked",
           "assigning", "completing"}

TypeOK ==
    /\ mode \in [Rules -> Modes]
    /\ link \in Rules \cup {None}
    /\ active \subseteq Methods /\ assigned \subseteq Methods
    /\ status \in [Items -> {"absent", "proposed", "approved", "cancelled", "purchased"}]
    /\ chosen \in [Items -> Methods \cup {None}]
    /\ queued \subseteq Items
    /\ buyer \in [Items -> {"nobody", "agent", "worker"}]
    /\ stage \in [Sessions -> Stages]
    /\ on \in [Sessions -> Items \cup {None}]
    /\ pick \in [Sessions -> Methods \cup {None}]
    /\ seen \in [Sessions -> Rules \cup {None}]
    /\ holds \in [Sessions -> SUBSET Methods]

Init ==
    /\ mode \in [Rules -> Modes]
    /\ link = None
    /\ active = Methods
    /\ assigned = {}
    /\ status = [i \in Items |-> "absent"]
    /\ chosen = [i \in Items |-> None]
    /\ queued = {}
    /\ buyer = [i \in Items |-> "nobody"]
    /\ stage = [s \in Sessions |-> "idle"]
    /\ on = [s \in Sessions |-> None]
    /\ pick = [s \in Sessions |-> None]
    /\ seen = [s \in Sessions |-> None]
    /\ holds = [s \in Sessions |-> {}]

-----------------------------------------------------------------------------
(* Row locks. *)

\* FOR UPDATE on a cart item, and on an item that is not there yet its creation.
ItemLocked(i) == \E s \in Sessions : on[s] = i

\* FOR UPDATE on a rule set, from its evaluation to the end of a proposal.
RuleLocked(r) == \E s \in Sessions : stage[s] \in {"ruled", "chosen"} /\ seen[s] = r

\* FOR UPDATE on a method.
MethodLocked(m) == \E s \in Sessions : m \in holds[s]

\* FOR UPDATE on an assignment: by the candidates of a proposal, which are joined
\* with their assignments, and by queue_checkout_execution.
AssignmentLocked(m) ==
    \E s \in Sessions :
        /\ m \in holds[s]
        /\ stage[s] = "chosen" \/ (stage[s] = "checked" /\ on[s] \in Managed)

\* The request moves on.
Goto(s, next) == stage' = [stage EXCEPT ![s] = next]

\* The request is over and its locks are gone.
Release(s) ==
    /\ Goto(s, "idle")
    /\ on' = [on EXCEPT ![s] = None]
    /\ pick' = [pick EXCEPT ![s] = None]
    /\ seen' = [seen EXCEPT ![s] = None]
    /\ holds' = [holds EXCEPT ![s] = {}]

-----------------------------------------------------------------------------
(* A proposal. *)

\* requires_human_approval.
NeedsHuman(m, i) ==
    \/ m = "always"
    \/ m \in {"subscriptions_only", "subscriptions_or_above_amount"} /\ i \in Recurring
    \/ m \in {"above_amount", "subscriptions_or_above_amount"} /\ i \in OverLimit

\* The agent is authenticated; its row is not locked and not read again.
ProposeStart(s, i) ==
    /\ stage[s] = "idle"
    /\ status[i] = "absent"
    /\ ~ItemLocked(i)
    /\ Goto(s, "proposing")
    /\ on' = [on EXCEPT ![s] = i]
    /\ seen' = [seen EXCEPT ![s] = link]
    /\ UNCHANGED <<catalog, rows, pick, holds>>

\* The rule set is locked and evaluated.
Evaluate(s) ==
    /\ stage[s] = "proposing"
    /\ ~RuleLocked(seen[s])
    /\ IF seen[s] = None \/ NeedsHuman(mode[seen[s]], on[s])
       THEN Goto(s, "chosen")
       ELSE Goto(s, "ruled")
    /\ UNCHANGED <<catalog, rows, on, pick, seen, holds>>

\* The candidate methods are locked, and the first that a checkout of the item can
\* be queued on is chosen; a managed item finds one only among the supported, and
\* none if those are quarantined or expired.
Candidates == (active \cap assigned) \ Direct

ChooseMethod(s) ==
    /\ stage[s] = "ruled"
    /\ \A m \in Candidates : ~MethodLocked(m)
    /\ Goto(s, "chosen")
    /\ holds' = [holds EXCEPT ![s] = Candidates]
    /\ \/ \E m \in Candidates :
             /\ on[s] \in Managed => m \in Supported /\ on[s] \notin Recurring
             /\ pick' = [pick EXCEPT ![s] = m]
       \/ /\ on[s] \in Managed \/ Candidates = {}
          /\ UNCHANGED pick
    /\ UNCHANGED <<catalog, rows, on, seen>>

\* The item is stored, approved with the method and queued, or left to the owner.
ProposeCommit(s) ==
    /\ stage[s] = "chosen"
    /\ status' = [status EXCEPT ![on[s]] = IF pick[s] = None THEN "proposed" ELSE "approved"]
    /\ chosen' = [chosen EXCEPT ![on[s]] = pick[s]]
    /\ queued' = IF pick[s] # None /\ on[s] \in Managed THEN queued \cup {on[s]} ELSE queued
    /\ Release(s)
    /\ UNCHANGED <<catalog, buyer>>

-----------------------------------------------------------------------------
(* The owner's decision. *)

\* Mutant of ApproveStart: the item is read without a lock.
ApproveStartUnlocked(s, i, m) ==
    /\ stage[s] = "idle"
    /\ status[i] = "proposed"
    /\ Goto(s, "deciding")
    /\ on' = [on EXCEPT ![s] = i]
    /\ pick' = [pick EXCEPT ![s] = m]
    /\ UNCHANGED <<catalog, rows, seen, holds>>

\* approve: the item is locked and must be proposed.
ApproveStart(s, i, m) ==
    /\ stage[s] = "idle"
    /\ status[i] = "proposed"
    /\ ~ItemLocked(i)
    /\ Goto(s, "deciding")
    /\ on' = [on EXCEPT ![s] = i]
    /\ pick' = [pick EXCEPT ![s] = m]
    /\ UNCHANGED <<catalog, rows, seen, holds>>

\* Mutant of LockMethod: the method is read without a lock.
ReadMethod(s) ==
    /\ stage[s] = "deciding"
    /\ pick[s] \in active
    /\ Goto(s, "locked")
    /\ UNCHANGED <<catalog, rows, on, pick, seen, holds>>

\* The method is locked and must be active.
LockMethod(s) ==
    /\ stage[s] = "deciding"
    /\ ~MethodLocked(pick[s])
    /\ pick[s] \in active
    /\ Goto(s, "locked")
    /\ holds' = [holds EXCEPT ![s] = {pick[s]}]
    /\ UNCHANGED <<catalog, rows, on, pick, seen>>

\* The assignment is read and, for a managed item, locked; direct cards and
\* unsupported methods are refused where they do not belong.
CheckAssignment(s) ==
    /\ stage[s] = "locked"
    /\ pick[s] \in assigned
    /\ on[s] \in Managed => pick[s] \in Supported /\ on[s] \notin Recurring
    /\ pick[s] \in Direct => on[s] \in Managed
    /\ Goto(s, "checked")
    /\ UNCHANGED <<catalog, rows, on, pick, seen, holds>>

ApproveCommit(s) ==
    /\ stage[s] = "checked"
    /\ status' = [status EXCEPT ![on[s]] = "approved"]
    /\ chosen' = [chosen EXCEPT ![on[s]] = pick[s]]
    /\ queued' = IF on[s] \in Managed THEN queued \cup {on[s]} ELSE queued
    /\ Release(s)
    /\ UNCHANGED <<catalog, buyer>>

\* cancel: one lock, one check, one commit.
Cancel(i) ==
    /\ status[i] = "proposed"
    /\ ~ItemLocked(i)
    /\ status' = [status EXCEPT ![i] = "cancelled"]
    /\ UNCHANGED <<catalog, chosen, queued, buyer, reqVars>>

\* A request that is refused, fails or loses its connection is rolled back.
Abort(s) ==
    /\ stage[s] # "idle"
    /\ Release(s)
    /\ UNCHANGED <<catalog, rows>>

-----------------------------------------------------------------------------
(* The purchase. *)

\* Mutant of CompleteStart: the check for an execution is missing.
CompleteStartManaged(s, i) ==
    /\ stage[s] = "idle"
    /\ ~ItemLocked(i)
    /\ status[i] = "approved"
    /\ chosen[i] \in active \cap assigned
    /\ Goto(s, "completing")
    /\ on' = [on EXCEPT ![s] = i]
    /\ UNCHANGED <<catalog, rows, pick, seen, holds>>

\* complete_purchase: the item is locked, its method and assignment are read.
CompleteStart(s, i) ==
    /\ stage[s] = "idle"
    /\ ~ItemLocked(i)
    /\ i \notin queued
    /\ status[i] = "approved"
    /\ chosen[i] \in active \cap assigned
    /\ Goto(s, "completing")
    /\ on' = [on EXCEPT ![s] = i]
    /\ UNCHANGED <<catalog, rows, pick, seen, holds>>

CompleteCommit(s) ==
    /\ stage[s] = "completing"
    /\ status' = [status EXCEPT ![on[s]] = "purchased"]
    /\ buyer' = [buyer EXCEPT ![on[s]] = "agent"]
    /\ Release(s)
    /\ UNCHANGED <<catalog, chosen, queued>>

\* A worker records the purchase of a managed item (CheckoutRepository has the
\* whole of it).
WorkerBuys(i) ==
    /\ i \in queued
    /\ status[i] = "approved"
    /\ ~ItemLocked(i)
    /\ status' = [status EXCEPT ![i] = "purchased"]
    /\ buyer' = [buyer EXCEPT ![i] = "worker"]
    /\ UNCHANGED <<catalog, chosen, queued, reqVars>>

-----------------------------------------------------------------------------
(* The owner's settings. *)

\* Mutant of UpdateRule: the rule set is updated without waiting for its lock.
UpdateRuleUnlocked(r, md, mine) ==
    /\ mode' = [mode EXCEPT ![r] = md]
    /\ link' = IF mine THEN r ELSE IF link = r THEN None ELSE link
    /\ UNCHANGED <<active, assigned, rows, reqVars>>

\* update_payment_rule_set: the rule's mode, and whether the agent is under it.
UpdateRule(r, md, mine) ==
    /\ ~RuleLocked(r)
    /\ mode' = [mode EXCEPT ![r] = md]
    /\ link' = IF mine THEN r ELSE IF link = r THEN None ELSE link
    /\ UNCHANGED <<active, assigned, rows, reqVars>>

\* disable_payment_method, of an active method or again of a disabled one: the
\* update waits for the method's lock, and the assignments there are then are
\* deleted.
Disable(m) ==
    /\ ~MethodLocked(m)
    /\ active' = active \ {m}
    /\ assigned' = assigned \ {m}
    /\ UNCHANGED <<mode, link, rows, reqVars>>

\* assign_payment_method, up to its reads: nothing is locked.
AssignStart(s, m) ==
    /\ stage[s] = "idle"
    /\ m \in active
    /\ m \notin assigned
    /\ Goto(s, "assigning")
    /\ pick' = [pick EXCEPT ![s] = m]
    /\ UNCHANGED <<catalog, rows, on, seen, holds>>

\* Its insertion; the foreign key check waits for a FOR UPDATE on the method. A
\* second insertion is a conflict.
AssignCommit(s) ==
    /\ stage[s] = "assigning"
    /\ ~MethodLocked(pick[s])
    /\ pick[s] \notin assigned
    /\ assigned' = assigned \cup {pick[s]}
    /\ Release(s)
    /\ UNCHANGED <<mode, link, active, rows>>

\* Mutant of Unassign: the deletion does not wait.
UnassignUnlocked(m) ==
    /\ m \in assigned
    /\ assigned' = assigned \ {m}
    /\ UNCHANGED <<mode, link, active, rows, reqVars>>

Unassign(m) ==
    /\ m \in assigned
    /\ ~AssignmentLocked(m)
    /\ assigned' = assigned \ {m}
    /\ UNCHANGED <<mode, link, active, rows, reqVars>>

-----------------------------------------------------------------------------

Next ==
    \/ \E s \in Sessions :
          \/ Evaluate(s) \/ ChooseMethod(s) \/ ProposeCommit(s)
          \/ LockMethod(s) \/ CheckAssignment(s) \/ ApproveCommit(s)
          \/ CompleteCommit(s) \/ AssignCommit(s) \/ Abort(s)
          \/ \E i \in Items :
                \/ ProposeStart(s, i) \/ CompleteStart(s, i)
                \/ \E m \in Methods : ApproveStart(s, i, m)
          \/ \E m \in Methods : AssignStart(s, m)
    \/ \E i \in Items : Cancel(i) \/ WorkerBuys(i)
    \/ \E m \in Methods : Disable(m) \/ Unassign(m)
    \/ \E r \in Rules, md \in Modes, mine \in BOOLEAN : UpdateRule(r, md, mine)

Spec == Init /\ [][Next]_vars

-----------------------------------------------------------------------------
(* Properties. *)

\* A decision is made once: an approved item keeps its method and can only be
\* purchased, a cancelled one stays so, however many approvals, cancellations and
\* reports are served at once; every one of them locks the item before it looks.
KeepsDecision ==
    \A i \in Items :
        /\ status[i] = "approved" => status'[i] \in {"approved", "purchased"}
        /\ status[i] \in {"approved", "purchased"} => chosen'[i] = chosen[i]
        /\ status[i] \in {"cancelled", "purchased"} => status'[i] = status[i]

DecisionStands == [][KeepsDecision]_vars

\* When the approval of a managed item is committed, its method is active,
\* assigned to the agent and one a managed checkout accepts, whatever the owner
\* does to methods and assignments meanwhile.
ApprovesSoundly ==
    \A i \in Managed :
        (status[i] # "approved" /\ status'[i] = "approved") =>
            chosen'[i] \in Supported \cap active' \cap assigned'

ManagedApprovedSoundly == [][ApprovesSoundly]_vars

\* Only an approved managed item has an execution, and the purchase of a managed
\* item is recorded by a worker, that of another item by the agent.  README: agents
\* "cannot self-report completion for those requests".
ManagedByWorkers ==
    \A i \in Items :
        /\ i \in queued <=> (i \in Managed /\ status[i] \in {"approved", "purchased"})
        /\ buyer[i] = "agent" => i \notin Managed
        /\ buyer[i] = "worker" => i \in Managed

ByRule(i) == status[i] = "absent" /\ status'[i] = "approved"

\* What is approved without the owner is approved under a rule set that lets it
\* pass when the approval is committed, with a method that needs no security code.
ObeysRule ==
    \A i \in Items : ByRule(i) =>
        /\ chosen'[i] \notin Direct
        /\ \E s \in Sessions :
              on[s] = i /\ seen[s] \in Rules /\ ~NeedsHuman(mode'[seen[s]], i)

RuleLetsPass == [][ObeysRule]_vars

-----------------------------------------------------------------------------
(* The inductive invariant. *)

\* Locked rows have one holder.
OneHolder ==
    \A s, t \in Sessions : s # t =>
        /\ holds[s] \cap holds[t] = {}
        /\ on[s] = on[t] => on[s] = None

\* What a request has read of the rows it locked still holds.
RequestsFit ==
    \A s \in Sessions :
        /\ stage[s] \in {"idle", "assigning"} <=> on[s] = None
        /\ stage[s] = "idle" => holds[s] = {} /\ pick[s] = None
        /\ stage[s] \in {"proposing", "ruled", "chosen"} => status[on[s]] = "absent"
        /\ stage[s] \in {"proposing", "ruled"} => pick[s] = None
        /\ stage[s] \in {"deciding", "locked", "checked"} =>
              status[on[s]] = "proposed" /\ pick[s] \in Methods
        /\ stage[s] \in {"locked", "checked"} => pick[s] \in holds[s] \cap active
        /\ (stage[s] = "checked" /\ on[s] \in Managed) => pick[s] \in Supported \cap assigned
        /\ stage[s] = "completing" => status[on[s]] = "approved" /\ on[s] \notin queued
        /\ stage[s] = "assigning" => pick[s] \in Methods /\ holds[s] = {}

\* A request that goes past its rule set without the owner has one that lets it.
RulesFit ==
    \A s \in Sessions :
        /\ (stage[s] = "ruled" \/ (stage[s] = "chosen" /\ pick[s] # None)) =>
              seen[s] \in Rules /\ ~NeedsHuman(mode[seen[s]], on[s])
        /\ (stage[s] = "chosen" /\ pick[s] # None) =>
              /\ pick[s] \in (holds[s] \cap active \cap assigned) \ Direct
              /\ on[s] \in Managed => pick[s] \in Supported

\* A method is chosen exactly for what is approved.
ChosenFits ==
    \A i \in Items : chosen[i] # None <=> status[i] \in {"approved", "purchased"}

IInv == TypeOK /\ OneHolder /\ RequestsFit /\ RulesFit /\ ChosenFits /\ ManagedByWorkers

=============================================================================
