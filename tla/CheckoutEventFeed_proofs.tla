---------------------- MODULE CheckoutEventFeed_proofs ----------------------
(***************************************************************************)
(* Proofs about CheckoutEventFeed, for any number of sessions, executions  *)
(* and cursors.                                                            *)
(***************************************************************************)
EXTENDS CheckoutEventFeed, FiniteSetTheorems, TLAPS

USE SessionsAssumption, PageAssumption

-----------------------------------------------------------------------------
(* Types. *)

LEMMA TypeInit == Init => TypeOK
<1> SUFFICES ASSUME Init PROVE TypeOK
    OBVIOUS
<1>1. feed \in SUBSET Events /\ seen \in SUBSET feed
    BY DEF Init
<1>2. IsFiniteSet(feed)
    BY FS_EmptySet DEF Init
<1> QED
    BY <1>1, <1>2 DEF Init, TypeOK, Outcomes, Stages

\* The event of an open transaction is one of Events.
LEMMA EventTyped ==
    ASSUME TypeOK, NEW s \in Sessions, doing[s] \in Executions, cursor[s] \in 1..MaxCursor
    PROVE  EventOf(s) \in Events
BY DEF TypeOK, EventOf, Events

LEMMA TypeStep ==
    ASSUME TypeOK, CursorsDrawn, RowsLocked, [Next]_vars
    PROVE  TypeOK'
<1> USE DEF Outcomes, Stages
<1>1. ASSUME NEW s \in Sessions, NEW e \in Executions, NEW o \in Outcomes, Begin(s, e, o)
      PROVE  TypeOK'
    BY <1>1 DEF Begin, TypeOK
<1>2. ASSUME NEW s \in Sessions, LockAgent(s)
      PROVE  TypeOK'
    BY <1>2 DEF LockAgent, TypeOK
<1>3. ASSUME NEW s \in Sessions, Insert(s)
      PROVE  TypeOK'
    BY <1>3 DEF Insert, TypeOK
<1>4. ASSUME NEW s \in Sessions, CheckKey(s)
      PROVE  TypeOK'
    BY <1>4 DEF CheckKey, TypeOK
<1>5. ASSUME NEW s \in Sessions, Commit(s)
      PROVE  TypeOK'
    <2>1. doing[s] \in Executions /\ cursor[s] \in 1..MaxCursor
        BY <1>5 DEF Commit, RowsLocked, CursorsDrawn, Open, TypeOK
    <2>2. feed' \in SUBSET Events /\ IsFiniteSet(feed')
        BY <1>5, <2>1, EventTyped, FS_AddElement DEF Commit, TypeOK
    <2>3. seen' \in SUBSET feed'
        BY <1>5 DEF Commit, End, TypeOK
    <2> QED
        BY <1>5, <2>1, <2>2, <2>3 DEF Commit, End, TypeOK
<1>6. ASSUME NEW s \in Sessions, Rollback(s)
      PROVE  TypeOK'
    BY <1>6 DEF Rollback, End, TypeOK
<1>7. CASE Poll
    <2>1. position' \in 0..MaxCursor
        BY <1>7 DEF Poll, Page, TypeOK, Events
    <2> QED
        BY <1>7, <2>1 DEF Poll, Page, txnVars, TypeOK
<1>8. CASE UNCHANGED vars
    BY <1>8 DEF vars, txnVars, TypeOK
<1> QED
    BY <1>1, <1>2, <1>3, <1>4, <1>5, <1>6, <1>7, <1>8 DEF Next

-----------------------------------------------------------------------------
(* What a page leaves behind. *)

\* A page holds everything between the old position and the new one: LIMIT cuts
\* the later cursors off.
LEMMA PageIsPrefix ==
    ASSUME TypeOK, NEW r \in Page, NEW q \in feed, position < q.cursor, q.cursor <= r.cursor
    PROVE  q \in Page
<1>1. Before(q.cursor) \subseteq Before(r.cursor)
    <2>1. q.cursor \in Int /\ r.cursor \in Int /\ \A x \in feed : x.cursor \in Int
        BY DEF Page, TypeOK, Events
    <2> QED
        BY <2>1 DEF Before
<1>2. IsFiniteSet(Before(r.cursor))
    BY FS_Subset DEF Before, TypeOK
<1>3. Cardinality(Before(q.cursor)) <= Cardinality(Before(r.cursor))
    BY <1>1, <1>2, FS_Subset
<1>4. Cardinality(Before(q.cursor)) \in Nat /\ Cardinality(Before(r.cursor)) \in Nat
    BY <1>1, <1>2, FS_Subset, FS_CardinalityType
<1> QED
    BY <1>3, <1>4 DEF Page

\* Nothing visible is passed over by a poll.
LEMMA PollSkipsNothing ==
    ASSUME TypeOK, Poll, NEW q \in feed, q.cursor <= position'
    PROVE  q.cursor <= position \/ q \in seen'
<1>1. PICK r \in Page : position' = r.cursor
    BY DEF Poll
<1>2. q.cursor \in Int /\ position \in Int
    BY DEF TypeOK, Events
<1>3. CASE position < q.cursor
    BY <1>1, <1>3, PageIsPrefix DEF Poll
<1> QED
    BY <1>2, <1>3

-----------------------------------------------------------------------------
(* The inductive invariant. *)

\* Locks on the agent exclude each other as PostgreSQL has it.
LEMMA AgentRowStep ==
    ASSUME TypeOK, AgentRowLocked, TypeOK', [Next]_vars
    PROVE  AgentRowLocked'
<1> USE DEF TypeOK, Outcomes, Stages, AgentRowLocked, HoldsAgent, SharesAgent, Open
<1>1. ASSUME NEW s \in Sessions, NEW e \in Executions, NEW o \in Outcomes, Begin(s, e, o)
      PROVE  AgentRowLocked'
    BY <1>1 DEF Begin
<1>2. ASSUME NEW s \in Sessions, LockAgent(s)
      PROVE  AgentRowLocked'
    BY <1>2 DEF LockAgent
<1>3. ASSUME NEW s \in Sessions, Insert(s)
      PROVE  AgentRowLocked'
    BY <1>3 DEF Insert
<1>4. ASSUME NEW s \in Sessions, CheckKey(s)
      PROVE  AgentRowLocked'
    BY <1>4 DEF CheckKey
<1>5. ASSUME NEW s \in Sessions, Commit(s)
      PROVE  AgentRowLocked'
    BY <1>5 DEF Commit, End, EventOf
<1>6. ASSUME NEW s \in Sessions, Rollback(s)
      PROVE  AgentRowLocked'
    BY <1>6 DEF Rollback, End
<1>7. CASE Poll
    BY <1>7 DEF Poll, txnVars
<1>8. CASE UNCHANGED vars
    BY <1>8 DEF vars, txnVars
<1> QED
    BY <1>1, <1>2, <1>3, <1>4, <1>5, <1>6, <1>7, <1>8 DEF Next

\* Cursors come from the sequence, once each.
LEMMA CursorsStep ==
    ASSUME TypeOK, CursorsDrawn, TypeOK', [Next]_vars
    PROVE  CursorsDrawn'
<1> USE DEF TypeOK, Outcomes, Stages, CursorsDrawn, Open, Events
<1>1. ASSUME NEW s \in Sessions, NEW e \in Executions, NEW o \in Outcomes, Begin(s, e, o)
      PROVE  CursorsDrawn'
    BY <1>1 DEF Begin
<1>2. ASSUME NEW s \in Sessions, LockAgent(s)
      PROVE  CursorsDrawn'
    BY <1>2 DEF LockAgent
<1>3. ASSUME NEW s \in Sessions, Insert(s)
      PROVE  CursorsDrawn'
    BY <1>3 DEF Insert
<1>4. ASSUME NEW s \in Sessions, CheckKey(s)
      PROVE  CursorsDrawn'
    BY <1>4 DEF CheckKey
<1>5. ASSUME NEW s \in Sessions, Commit(s)
      PROVE  CursorsDrawn'
    BY <1>5 DEF Commit, End, EventOf
<1>6. ASSUME NEW s \in Sessions, Rollback(s)
      PROVE  CursorsDrawn'
    BY <1>6 DEF Rollback, End
<1>7. CASE Poll
    BY <1>7 DEF Poll, txnVars
<1>8. CASE UNCHANGED vars
    BY <1>8 DEF vars, txnVars
<1> QED
    BY <1>1, <1>2, <1>3, <1>4, <1>5, <1>6, <1>7, <1>8 DEF Next

\* A success that is not visible yet has a later cursor than anything that is.
LEMMA AheadStep ==
    ASSUME TypeOK, AgentRowLocked, CursorsDrawn, SuccessAhead, TypeOK', [Next]_vars
    PROVE  SuccessAhead'
<1> USE DEF TypeOK, Outcomes, Stages, SuccessAhead, AgentRowLocked, CursorsDrawn, HoldsAgent, SharesAgent, Open, Events
<1>1. ASSUME NEW s \in Sessions, NEW e \in Executions, NEW o \in Outcomes, Begin(s, e, o)
      PROVE  SuccessAhead'
    BY <1>1 DEF Begin
<1>2. ASSUME NEW s \in Sessions, LockAgent(s)
      PROVE  SuccessAhead'
    BY <1>2 DEF LockAgent
<1>3. ASSUME NEW s \in Sessions, Insert(s)
      PROVE  SuccessAhead'
    BY <1>3 DEF Insert
<1>4. ASSUME NEW s \in Sessions, CheckKey(s)
      PROVE  SuccessAhead'
    BY <1>4 DEF CheckKey
<1>5. ASSUME NEW s \in Sessions, Commit(s)
      PROVE  SuccessAhead'
    BY <1>5 DEF Commit, End, EventOf
<1>6. ASSUME NEW s \in Sessions, Rollback(s)
      PROVE  SuccessAhead'
    BY <1>6 DEF Rollback, End
<1>7. CASE Poll
    BY <1>7 DEF Poll, txnVars
<1>8. CASE UNCHANGED vars
    BY <1>8 DEF vars, txnVars
<1> QED
    BY <1>1, <1>2, <1>3, <1>4, <1>5, <1>6, <1>7, <1>8 DEF Next

\* The execution row is locked for the time of its transaction.
LEMMA RowsStep ==
    ASSUME TypeOK, CursorsDrawn, RowsLocked, TypeOK', [Next]_vars
    PROVE  RowsLocked'
<1> USE DEF TypeOK, Outcomes, Stages, RowsLocked, CursorsDrawn, Open, Events
<1>1. ASSUME NEW s \in Sessions, NEW e \in Executions, NEW o \in Outcomes, Begin(s, e, o)
      PROVE  RowsLocked'
    BY <1>1 DEF Begin
<1>2. ASSUME NEW s \in Sessions, LockAgent(s)
      PROVE  RowsLocked'
    BY <1>2 DEF LockAgent
<1>3. ASSUME NEW s \in Sessions, Insert(s)
      PROVE  RowsLocked'
    BY <1>3 DEF Insert
<1>4. ASSUME NEW s \in Sessions, CheckKey(s)
      PROVE  RowsLocked'
    BY <1>4 DEF CheckKey
<1>5. ASSUME NEW s \in Sessions, Commit(s)
      PROVE  RowsLocked'
    BY <1>5 DEF Commit, End, EventOf
<1>6. ASSUME NEW s \in Sessions, Rollback(s)
      PROVE  RowsLocked'
    BY <1>6 DEF Rollback, End
<1>7. CASE Poll
    BY <1>7 DEF Poll, txnVars
<1>8. CASE UNCHANGED vars
    BY <1>8 DEF vars, txnVars
<1> QED
    BY <1>1, <1>2, <1>3, <1>4, <1>5, <1>6, <1>7, <1>8 DEF Next

\* Two events of one execution.
LEMMA OrderStep ==
    ASSUME TypeOK, CursorsDrawn, RowsLocked, OutcomesInOrder, TypeOK', [Next]_vars
    PROVE  OutcomesInOrder'
<1> USE DEF TypeOK, Outcomes, Stages, OutcomesInOrder, RowsLocked, CursorsDrawn, Open, Events
<1>1. ASSUME NEW s \in Sessions, NEW e \in Executions, NEW o \in Outcomes, Begin(s, e, o)
      PROVE  OutcomesInOrder'
    BY <1>1 DEF Begin
<1>2. ASSUME NEW s \in Sessions, LockAgent(s)
      PROVE  OutcomesInOrder'
    BY <1>2 DEF LockAgent
<1>3. ASSUME NEW s \in Sessions, Insert(s)
      PROVE  OutcomesInOrder'
    BY <1>3 DEF Insert
<1>4. ASSUME NEW s \in Sessions, CheckKey(s)
      PROVE  OutcomesInOrder'
    BY <1>4 DEF CheckKey
<1>5. ASSUME NEW s \in Sessions, Commit(s)
      PROVE  OutcomesInOrder'
    BY <1>5 DEF Commit, End, EventOf
<1>6. ASSUME NEW s \in Sessions, Rollback(s)
      PROVE  OutcomesInOrder'
    BY <1>6 DEF Rollback, End
<1>7. CASE Poll
    BY <1>7 DEF Poll, txnVars
<1>8. CASE UNCHANGED vars
    BY <1>8 DEF vars, txnVars
<1> QED
    BY <1>1, <1>2, <1>3, <1>4, <1>5, <1>6, <1>7, <1>8 DEF Next

\* A success joins the feed beyond the position.
LEMMA SkippedStep ==
    ASSUME TypeOK, AgentRowLocked, CursorsDrawn, SuccessAhead, NoSuccessSkipped, TypeOK', [Next]_vars
    PROVE  NoSuccessSkipped'
<1> USE DEF TypeOK, Outcomes, Stages, NoSuccessSkipped, SuccessAhead, AgentRowLocked, CursorsDrawn, HoldsAgent, SharesAgent, Open, Events
<1>1. ASSUME NEW s \in Sessions, NEW e \in Executions, NEW o \in Outcomes, Begin(s, e, o)
      PROVE  NoSuccessSkipped'
    BY <1>1 DEF Begin
<1>2. ASSUME NEW s \in Sessions, LockAgent(s)
      PROVE  NoSuccessSkipped'
    BY <1>2 DEF LockAgent
<1>3. ASSUME NEW s \in Sessions, Insert(s)
      PROVE  NoSuccessSkipped'
    BY <1>3 DEF Insert
<1>4. ASSUME NEW s \in Sessions, CheckKey(s)
      PROVE  NoSuccessSkipped'
    BY <1>4 DEF CheckKey
<1>5. ASSUME NEW s \in Sessions, Commit(s)
      PROVE  NoSuccessSkipped'
    BY <1>5 DEF Commit, End, EventOf
<1>6. ASSUME NEW s \in Sessions, Rollback(s)
      PROVE  NoSuccessSkipped'
    BY <1>6 DEF Rollback, End
<1>7. CASE Poll
    BY <1>7, PollSkipsNothing DEF Poll
<1>8. CASE UNCHANGED vars
    BY <1>8 DEF vars, txnVars
<1> QED
    BY <1>1, <1>2, <1>3, <1>4, <1>5, <1>6, <1>7, <1>8 DEF Next

LEMMA InitGood == Init => IInv
<1> SUFFICES ASSUME Init PROVE IInv
    OBVIOUS
<1>1. TypeOK
    BY TypeInit
<1> QED
    BY <1>1 DEF Init, IInv, AgentRowLocked, CursorsDrawn, SuccessAhead, RowsLocked,
                NoSuccessSkipped, OutcomesInOrder, HoldsAgent, SharesAgent, Open

LEMMA InvStep == IInv /\ [Next]_vars => IInv'
<1> SUFFICES ASSUME IInv, [Next]_vars PROVE IInv'
    OBVIOUS
<1>1. TypeOK'
    BY TypeStep DEF IInv
<1> QED
    BY <1>1, AgentRowStep, CursorsStep, AheadStep, RowsStep, OrderStep, SkippedStep DEF IInv

\* The inductive invariant: locks on the agent's row, cursors and rows agree, for
\* any number of sessions that end executions of one agent.
THEOREM FeedInductive == Spec => []IInv
<1> QED
    BY InitGood, InvStep, PTL DEF Spec

\* A success is never passed over by the agent's position.
THEOREM SuccessesReachAgent == Spec => []NoSuccessSkipped
<1>1. IInv => NoSuccessSkipped
    BY DEF IInv
<1> QED
    BY <1>1, FeedInductive, PTL

\* The events of an execution appear in the order of what happened to it.
THEOREM EventsInOrder == Spec => []OutcomesInOrder
<1>1. IInv => OutcomesInOrder
    BY DEF IInv
<1> QED
    BY <1>1, FeedInductive, PTL
=============================================================================
