---------------------------- MODULE AgentPairing ----------------------------
(***************************************************************************)
(* One agent's credentials: the owner hands out pairing codes and revokes, *)
(* the agent redeems a code for an API key.                                *)
(*                                                                         *)
(* The handshake locks the agent's row before it looks at it.  The owner's *)
(* two requests read the row, decide, and write it later without a lock;   *)
(* and they write only what differs from what they read, because the ORM   *)
(* leaves an assignment that changes nothing out of the UPDATE.            *)
(***************************************************************************)
EXTENDS Integers, FiniteSets

CONSTANTS
    Requests,   \* the owner's requests being served
    None,
    MaxTokens   \* bounds the codes and the keys that are made

ASSUME TokensAssumption == MaxTokens \in Nat \ {0} /\ None \notin Nat

VARIABLES
    row,        \* the agent's row
    codes,      \* how many pairing codes were made; the codes are 1..codes
    keys,       \* how many API keys were made
    aged,       \* the codes whose time is up
    request,    \* what each of the owner's requests is doing
    view,       \* the row as it read it
    redeemed    \* how often each code was redeemed

vars == <<row, codes, keys, aged, request, view, redeemed>>

Token == 1..MaxTokens
Row == [status : {"pending", "active", "revoked"},
        code : Token \cup {None},
        key : Token \cup {None}]

TypeOK ==
    /\ row \in Row
    /\ codes \in Token
    /\ keys \in 0..MaxTokens
    /\ aged \subseteq 1..codes
    /\ request \in [Requests -> {"none", "rotate", "revoke"}]
    /\ view \in [Requests -> Row]
    /\ redeemed \in [Token -> Nat]

\* create_agent.
Created == [status |-> "pending", code |-> 1, key |-> None]

Init ==
    /\ row = Created
    /\ codes = 1
    /\ keys = 0
    /\ aged = {}
    /\ request = [r \in Requests |-> "none"]
    /\ view = [r \in Requests |-> Created]
    /\ redeemed = [t \in Token |-> 0]

-----------------------------------------------------------------------------
(* The owner. *)

\* rotate_pairing_token and revoke_agent read the row; a revoked agent ends both.
Read(r, kind) ==
    /\ request[r] = "none"
    /\ row.status # "revoked"
    /\ request' = [request EXCEPT ![r] = kind]
    /\ view' = [view EXCEPT ![r] = row]
    /\ UNCHANGED <<row, codes, keys, aged, redeemed>>

\* The UPDATE of a unit of work: the columns that differ from what was read.
Flush(r, new) ==
    row' = [status |-> IF new.status = view[r].status THEN row.status ELSE new.status,
            code |-> IF new.code = view[r].code THEN row.code ELSE new.code,
            key |-> IF new.key = view[r].key THEN row.key ELSE new.key]

\* The request is over.
Finish(r) ==
    /\ request' = [request EXCEPT ![r] = "none"]
    /\ view' = [view EXCEPT ![r] = Created]

\* Mutant of Rotate: the key stays in the row.
RotateKeepsKey(r) ==
    /\ request[r] = "rotate"
    /\ codes < MaxTokens
    /\ codes' = codes + 1
    /\ Flush(r, [status |-> "pending", code |-> codes', key |-> view[r].key])
    /\ Finish(r)
    /\ UNCHANGED <<keys, aged, redeemed>>

\* The rest of rotate_pairing_token: a new code, no key, pending.
Rotate(r) ==
    /\ request[r] = "rotate"
    /\ codes < MaxTokens
    /\ codes' = codes + 1
    /\ Flush(r, [status |-> "pending", code |-> codes', key |-> None])
    /\ Finish(r)
    /\ UNCHANGED <<keys, aged, redeemed>>

\* The rest of revoke_agent.
Revoke(r) ==
    /\ request[r] = "revoke"
    /\ Flush(r, [status |-> "revoked", code |-> None, key |-> None])
    /\ Finish(r)
    /\ UNCHANGED <<codes, keys, aged, redeemed>>

\* A request that dies before it commits.
Abandon(r) ==
    /\ request[r] # "none"
    /\ Finish(r)
    /\ UNCHANGED <<row, codes, keys, aged, redeemed>>

-----------------------------------------------------------------------------
(* The agent. *)

\* Mutant of Handshake: the code stays in the row.
HandshakeKept(c) ==
    /\ row.code = c
    /\ row.status # "revoked"
    /\ c \notin aged
    /\ keys < MaxTokens
    /\ keys' = keys + 1
    /\ row' = [row EXCEPT !.status = "active", !.key = keys']
    /\ redeemed' = [redeemed EXCEPT ![c] = @ + 1]
    /\ UNCHANGED <<codes, aged, request, view>>

\* handshake, under a lock on the row from its first statement to its commit.
Handshake(c) ==
    /\ row.code = c
    /\ row.status # "revoked"
    /\ c \notin aged
    /\ keys < MaxTokens
    /\ keys' = keys + 1
    /\ row' = [status |-> "active", code |-> None, key |-> keys']
    /\ redeemed' = [redeemed EXCEPT ![c] = @ + 1]
    /\ UNCHANGED <<codes, aged, request, view>>

\* pairing_expires_at passes.
Age(c) ==
    /\ c \notin aged
    /\ aged' = aged \cup {c}
    /\ UNCHANGED <<row, codes, keys, request, view, redeemed>>

-----------------------------------------------------------------------------

Next ==
    \/ \E r \in Requests :
          \/ \E kind \in {"rotate", "revoke"} : Read(r, kind)
          \/ Rotate(r) \/ Revoke(r) \/ Abandon(r)
    \/ \E c \in 1..codes : Handshake(c) \/ Age(c)

Spec == Init /\ [][Next]_vars

-----------------------------------------------------------------------------
(* Properties. *)

\* A pairing code is redeemed at most once, whatever the owner's stale writes put
\* back into the row the handshake locks and clears.
CodeRedeemedOnce == \A c \in Token : redeemed[c] <= 1

\* An agent that waits to be paired has no key, though a rotation writes each of
\* status and key only if it differs from a row it read long ago.  (A revoked
\* agent may keep one: a revocation that read the row before the handshake leaves
\* the key alone, and only the status keeps it out.)
PendingHasNoKey == row.status = "pending" => row.key = None

\* A revoked agent comes back only as one that waits to be paired, with a code made
\* after its revocation and without a key: no code and no key of before it lets the
\* agent in again, however stale the rotation that brings it back.
RevivedOnlyByNewCode ==
    [][(row.status = "revoked" /\ row'.status # "revoked") =>
          /\ row'.status = "pending"
          /\ row'.key = None
          /\ row'.code = codes' /\ codes' > codes]_vars

\* agent-actions.tsx, on revoking: "the current API cannot restore a revoked agent."
RevokedForGood == [][row.status = "revoked" => row'.status = "revoked"]_vars

\* The inductive invariant: codes and keys in the row and in the views were made,
\* an active agent has a key and a pending one has none, no request goes on with
\* a revoked agent, and a redeemed code is gone from the row for good.
IInv ==
    /\ TypeOK
    /\ \A v \in {row} \cup {view[r] : r \in Requests} :
          /\ v.code \in (1..codes) \cup {None}
          /\ v.status = "active" => v.key # None
          /\ v.status = "pending" => v.key = None
    /\ \A r \in Requests : view[r].status # "revoked"
    /\ \A c \in Token : /\ c > codes => redeemed[c] = 0
                        /\ redeemed[c] <= 1
                        /\ redeemed[c] > 0 => row.code # c

=============================================================================
