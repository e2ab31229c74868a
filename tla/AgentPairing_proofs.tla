------------------------ MODULE AgentPairing_proofs ------------------------
(***************************************************************************)
(* Proofs about AgentPairing.                                              *)
(*                                                                         *)
(* A redeemed code cannot come back into the row: a stale write puts there *)
(* a code just made, or None, or leaves what the handshake left.  A stale  *)
(* rotation makes the agent pending only if it read it active, hence with  *)
(* a key, and then it removes the key too.                                 *)
(***************************************************************************)
EXTENDS AgentPairing, TLAPS

\* The first state satisfies the inductive invariant.
LEMMA InitIInv == Init => IInv
<1> USE TokensAssumption
<1> SUFFICES ASSUME Init PROVE IInv
  OBVIOUS
<1>1. TypeOK
  BY DEF Init, TypeOK, Row, Token, Created
<1>2. QED
  BY <1>1 DEF Init, IInv, Token, Created

\* What the columns of a row can hold.
LEMMA RowFields ==
    ASSUME NEW v, v \in Row
    PROVE  /\ v.status \in {"pending", "active", "revoked"}
           /\ v.code \in Token \cup {None}
           /\ v.key \in Token \cup {None}
  BY DEF Row

\* The owner reads the row.
LEMMA ReadKeeps ==
    ASSUME IInv, NEW r \in Requests, NEW kind \in {"rotate", "revoke"}, Read(r, kind)
    PROVE  IInv'
<1> USE TokensAssumption DEF Read
<1>1. TypeOK'
  BY DEF IInv, TypeOK, Row, Token
<1>2. QED
  BY <1>1 DEF IInv, TypeOK, Token

\* The owner's rotation is written.
LEMMA RotateKeeps ==
    ASSUME IInv, NEW r \in Requests, Rotate(r)
    PROVE  IInv'
<1> USE TokensAssumption DEF Rotate, Flush, Finish
<1>1. /\ row \in Row /\ view[r] \in Row
      /\ codes \in Token /\ codes' \in Token /\ codes' = codes + 1
  BY DEF IInv, TypeOK, Token
<1>2. /\ row'.status = IF view[r].status = "pending" THEN row.status ELSE "pending"
      /\ row'.key = IF view[r].key = None THEN row.key ELSE None
      /\ row'.code = codes'
      /\ row' \in Row
  <2>1. view[r].code # codes'
    BY <1>1 DEF IInv, Token
  <2>2. row' = [status |-> IF view[r].status = "pending" THEN row.status ELSE "pending",
                code |-> codes',
                key |-> IF view[r].key = None THEN row.key ELSE None]
    BY <1>1, <2>1
  <2>3. QED
    BY <1>1, <2>2, RowFields DEF Row
<1>3. TypeOK'
  BY <1>1, <1>2 DEF IInv, TypeOK, Row, Token, Created
<1>4. redeemed' = redeemed /\ redeemed[codes'] = 0
  BY <1>1 DEF IInv, Token
<1>5. QED
  BY <1>1, <1>2, <1>3, <1>4, RowFields DEF IInv, TypeOK, Token, Created

\* The owner's revocation is written.
LEMMA RevokeKeeps ==
    ASSUME IInv, NEW r \in Requests, Revoke(r)
    PROVE  IInv'
<1> USE TokensAssumption DEF Revoke, Flush, Finish
<1>1. row \in Row /\ view[r] \in Row /\ codes \in Token
  BY DEF IInv, TypeOK
<1>2. /\ row'.status = "revoked"
      /\ row'.key \in {row.key, None}
      /\ row'.code \in {row.code, None}
      /\ row' \in Row
  <2>1. view[r].status # "revoked"
    BY DEF IInv
  <2>2. QED
    BY <1>1, <2>1, RowFields DEF Row
<1>3. /\ view' = [view EXCEPT ![r] = Created] /\ redeemed' = redeemed /\ codes' = codes
      /\ request' = [request EXCEPT ![r] = "none"] /\ keys' = keys /\ aged' = aged
  OBVIOUS
<1>4. TypeOK'
  BY <1>1, <1>2, <1>3 DEF IInv, TypeOK, Row, Token, Created
<1>5. \A v \in {view'[q] : q \in Requests} :
         /\ v.code \in (1..codes) \cup {None}
         /\ v.status = "active" => v.key # None
         /\ v.status = "pending" => v.key = None
         /\ v.status # "revoked"
  BY <1>1, <1>3 DEF IInv, TypeOK, Token, Created
<1>6. row'.code \in (1..codes) \cup {None}
  BY <1>2 DEF IInv
<1>7. \A c \in Token : redeemed[c] > 0 => row'.code # c
  BY <1>2 DEF IInv, Token
<1>8. QED
  BY <1>2, <1>3, <1>4, <1>5, <1>6, <1>7 DEF IInv

\* A request gives up.
LEMMA AbandonKeeps ==
    ASSUME IInv, NEW r \in Requests, Abandon(r)
    PROVE  IInv'
<1> USE TokensAssumption DEF Abandon, Finish
<1>1. TypeOK'
  BY DEF IInv, TypeOK, Row, Token, Created
<1>2. QED
  BY <1>1 DEF IInv, TypeOK, Token, Created

\* A code is redeemed.
LEMMA HandshakeKeeps ==
    ASSUME IInv, NEW c \in 1..codes, Handshake(c)
    PROVE  IInv'
<1> USE TokensAssumption DEF Handshake
<1>1. TypeOK'
  BY DEF IInv, TypeOK, Row, Token
<1>2. redeemed[c] = 0
  BY DEF IInv, TypeOK, Token
<1>3. QED
  BY <1>1, <1>2 DEF IInv, TypeOK, Token

\* A code runs out.
LEMMA AgeKeeps ==
    ASSUME IInv, NEW c \in 1..codes, Age(c)
    PROVE  IInv'
  BY DEF Age, IInv, TypeOK

\* Every step preserves the inductive invariant.
LEMMA NextIInv == IInv /\ [Next]_vars => IInv'
<1> SUFFICES ASSUME IInv, [Next]_vars PROVE IInv'
  OBVIOUS
<1>1. ASSUME NEW r \in Requests, NEW kind \in {"rotate", "revoke"}, Read(r, kind)
      PROVE  IInv'
  BY <1>1, ReadKeeps
<1>2. ASSUME NEW r \in Requests, Rotate(r) PROVE IInv'
  BY <1>2, RotateKeeps
<1>3. ASSUME NEW r \in Requests, Revoke(r) PROVE IInv'
  BY <1>3, RevokeKeeps
<1>4. ASSUME NEW r \in Requests, Abandon(r) PROVE IInv'
  BY <1>4, AbandonKeeps
<1>5. ASSUME NEW c \in 1..codes, Handshake(c) PROVE IInv'
  BY <1>5, HandshakeKeeps
<1>6. ASSUME NEW c \in 1..codes, Age(c) PROVE IInv'
  BY <1>6, AgeKeeps
<1>7. CASE UNCHANGED vars
  BY <1>7 DEF vars, IInv, TypeOK
<1>8. QED
  BY <1>1, <1>2, <1>3, <1>4, <1>5, <1>6, <1>7 DEF Next

\* The inductive invariant holds for any number of requests, codes and keys.
THEOREM PairingInductive == Spec => []IInv
<1>1. QED
  BY InitIInv, NextIInv, PTL DEF Spec

\* No code is redeemed twice, however the owner's unlocked requests interleave
\* with handshakes.
THEOREM RedeemedOnce == Spec => []CodeRedeemedOnce
<1>1. IInv => CodeRedeemedOnce
  BY DEF IInv, CodeRedeemedOnce
<1>2. QED
  BY <1>1, PairingInductive, PTL

\* An agent that waits to be paired has no key.
THEOREM PendingIsKeyless == Spec => []PendingHasNoKey
<1>1. IInv => PendingHasNoKey
  BY DEF IInv, PendingHasNoKey
<1>2. QED
  BY <1>1, PairingInductive, PTL

\* A rotation that brings a revoked agent back read it while it was active, so
\* that it writes all three columns.
LEMMA RotateRevives ==
    ASSUME IInv, NEW r \in Requests, Rotate(r), row.status = "revoked", row'.status # "revoked"
    PROVE  /\ row'.status = "pending" /\ row'.key = None
           /\ row'.code = codes' /\ codes' > codes
<1>1. /\ codes \in Nat /\ codes' = codes + 1 /\ None \notin Nat
      /\ view[r].code \in (1..codes) \cup {None}
      /\ view[r].status \in {"pending", "active"}
      /\ view[r].status = "active" => view[r].key # None
  <2>1. view[r] \in Row
    BY DEF IInv, TypeOK
  <2>. QED
    BY <2>1, RowFields, TokensAssumption DEF IInv, TypeOK, Token, Rotate
<1>2. codes' # view[r].code /\ codes' > codes
  BY <1>1
<1>3. row' = [status |-> IF "pending" = view[r].status THEN row.status ELSE "pending",
              code |-> IF codes' = view[r].code THEN row.code ELSE codes',
              key |-> IF None = view[r].key THEN row.key ELSE None]
  BY DEF Rotate, Flush
<1>4. view[r].status = "active"
  BY <1>1, <1>3
<1>5. QED
  BY <1>1, <1>2, <1>3, <1>4

\* A revoked agent comes back only to be paired anew.
THEOREM RevivedByNewCode == Spec => RevivedOnlyByNewCode
<1>1. IInv /\ [Next]_vars =>
         [(row.status = "revoked" /\ row'.status # "revoked") =>
             /\ row'.status = "pending"
             /\ row'.key = None
             /\ row'.code = codes' /\ codes' > codes]_vars
  <2> SUFFICES ASSUME IInv, [Next]_vars, row.status = "revoked", row'.status # "revoked"
               PROVE  /\ row'.status = "pending" /\ row'.key = None
                      /\ row'.code = codes' /\ codes' > codes
    OBVIOUS
  <2>1. ASSUME NEW r \in Requests, Rotate(r)
        PROVE  /\ row'.status = "pending" /\ row'.key = None
               /\ row'.code = codes' /\ codes' > codes
    BY <2>1, RotateRevives
  <2>2. ASSUME NEW r \in Requests, Revoke(r) PROVE FALSE
    <3>1. row'.status = IF "revoked" = view[r].status THEN row.status ELSE "revoked"
      BY <2>2 DEF Revoke, Flush
    <3>2. QED
      BY <3>1
  <2>3. ASSUME row' = row PROVE FALSE
    BY <2>3
  <2>4. QED
    BY <2>1, <2>2, <2>3 DEF Next, Read, Abandon, Handshake, Age, vars
<1>2. QED
  BY <1>1, PairingInductive, PTL DEF Spec, RevivedOnlyByNewCode
=============================================================================
