----------------------------- MODULE OneTimeCode -----------------------------
(***************************************************************************)
(* What an owner who types a card's security code into an approval may     *)
(* count on: the code leaves the owner before the approval takes effect,   *)
(* and is spent at most once, for a purchase that was really approved.  It *)
(* can be lost on the way, but never comes back.                           *)
(***************************************************************************)
CONSTANT Approvals

VARIABLES
    where,     \* "owner", "relay", "spent" or "gone"
    approved   \* has the approval taken effect

vars == <<where, approved>>

Init ==
    /\ where = [a \in Approvals |-> "owner"]
    /\ approved = [a \in Approvals |-> FALSE]

Move(a, from, to) ==
    /\ where[a] = from
    /\ where' = [where EXCEPT ![a] = to]
    /\ UNCHANGED approved

HandOver(a) == Move(a, "owner", "relay")
Spend(a)    == approved[a] /\ Move(a, "relay", "spent")

\* What stops a worker process takes every code it keeps with it.
Lose(S) ==
    /\ \A a \in S : where[a] \in {"owner", "relay"}
    /\ where' = [a \in Approvals |-> IF a \in S THEN "gone" ELSE where[a]]
    /\ UNCHANGED approved

Approve(a) ==
    /\ ~approved[a]
    /\ where[a] \in {"relay", "gone"}
    /\ approved' = [approved EXCEPT ![a] = TRUE]
    /\ UNCHANGED where

Next ==
    \/ \E a \in Approvals : HandOver(a) \/ Spend(a) \/ Approve(a)
    \/ \E S \in SUBSET Approvals : Lose(S)

Spec == Init /\ [][Next]_vars
=============================================================================
