---------------------- MODULE ProposalApproval_proofs ----------------------
(***************************************************************************)
(* Proofs about ProposalApproval, for any number of items, methods, rules  *)
(* and requests served at once.                                            *)
(***************************************************************************)
EXTENDS ProposalApproval, TLAPS

USE SetsAssumption

\* Types.
LEMMA TypeStep ==
    ASSUME TypeOK, RequestsFit, [Next]_vars
    PROVE  TypeOK'
<1> USE DEF catalog, rows, reqVars, Goto, TypeOK, RequestsFit, Stages
<1>1. ASSUME NEW s \in Sessions, NEW i \in Items, ProposeStart(s, i)
      PROVE  TypeOK'
    BY <1>1 DEF ProposeStart
<1>2. ASSUME NEW s \in Sessions, Evaluate(s)
      PROVE  TypeOK'
    BY <1>2 DEF Evaluate
<1>3. ASSUME NEW s \in Sessions, ChooseMethod(s)
      PROVE  TypeOK'
    BY <1>3 DEF ChooseMethod, Candidates
<1>4. ASSUME NEW s \in Sessions, ProposeCommit(s)
      PROVE  TypeOK'
    BY <1>4 DEF ProposeCommit, Release
<1>5. ASSUME NEW s \in Sessions, NEW i \in Items, NEW m \in Methods, ApproveStart(s, i, m)
      PROVE  TypeOK'
    BY <1>5 DEF ApproveStart
<1>6. ASSUME NEW s \in Sessions, LockMethod(s)
      PROVE  TypeOK'
    BY <1>6 DEF LockMethod
<1>7. ASSUME NEW s \in Sessions, CheckAssignment(s)
      PROVE  TypeOK'
    BY <1>7 DEF CheckAssignment
<1>8. ASSUME NEW s \in Sessions, ApproveCommit(s)
      PROVE  TypeOK'
    BY <1>8 DEF ApproveCommit, Release
<1>9. ASSUME NEW i \in Items, Cancel(i)
      PROVE  TypeOK'
    BY <1>9 DEF Cancel
<1>10. ASSUME NEW s \in Sessions, Abort(s)
      PROVE  TypeOK'
    BY <1>10 DEF Abort, Release
<1>11. ASSUME NEW s \in Sessions, NEW i \in Items, CompleteStart(s, i)
      PROVE  TypeOK'
    BY <1>11 DEF CompleteStart
<1>12. ASSUME NEW s \in Sessions, CompleteCommit(s)
      PROVE  TypeOK'
    BY <1>12 DEF CompleteCommit, Release
<1>13. ASSUME NEW i \in Items, WorkerBuys(i)
      PROVE  TypeOK'
    BY <1>13 DEF WorkerBuys
<1>14. ASSUME NEW r \in Rules, NEW md \in Modes, NEW mine \in BOOLEAN, UpdateRule(r, md, mine)
      PROVE  TypeOK'
    BY <1>14 DEF UpdateRule
<1>15. ASSUME NEW m \in Methods, Disable(m)
      PROVE  TypeOK'
    BY <1>15 DEF Disable
<1>16. ASSUME NEW s \in Sessions, NEW m \in Methods, AssignStart(s, m)
      PROVE  TypeOK'
    BY <1>16 DEF AssignStart
<1>17. ASSUME NEW s \in Sessions, AssignCommit(s)
      PROVE  TypeOK'
    BY <1>17 DEF AssignCommit, Release
<1>18. ASSUME NEW m \in Methods, Unassign(m)
      PROVE  TypeOK'
    BY <1>18 DEF Unassign
<1>19. CASE UNCHANGED vars
    BY <1>19 DEF vars
<1> QED
    BY <1>1, <1>2, <1>3, <1>4, <1>5, <1>6, <1>7, <1>8, <1>9, <1>10, <1>11, <1>12, <1>13, <1>14, <1>15, <1>16, <1>17, <1>18, <1>19 DEF Next

\* Locked rows have one holder.
LEMMA HolderStep ==
    ASSUME TypeOK, OneHolder, RequestsFit, [Next]_vars
    PROVE  OneHolder'
<1> USE DEF catalog, rows, reqVars, Goto, TypeOK, OneHolder, RequestsFit, ItemLocked, MethodLocked, Stages
<1>1. ASSUME NEW s \in Sessions, NEW i \in Items, ProposeStart(s, i)
      PROVE  OneHolder'
    BY <1>1 DEF ProposeStart
<1>2. ASSUME NEW s \in Sessions, Evaluate(s)
      PROVE  OneHolder'
    BY <1>2 DEF Evaluate
<1>3. ASSUME NEW s \in Sessions, ChooseMethod(s)
      PROVE  OneHolder'
    BY <1>3 DEF ChooseMethod, Candidates
<1>4. ASSUME NEW s \in Sessions, ProposeCommit(s)
      PROVE  OneHolder'
    BY <1>4 DEF ProposeCommit, Release
<1>5. ASSUME NEW s \in Sessions, NEW i \in Items, NEW m \in Methods, ApproveStart(s, i, m)
      PROVE  OneHolder'
    BY <1>5 DEF ApproveStart
<1>6. ASSUME NEW s \in Sessions, LockMethod(s)
      PROVE  OneHolder'
    BY <1>6 DEF LockMethod
<1>7. ASSUME NEW s \in Sessions, CheckAssignment(s)
      PROVE  OneHolder'
    BY <1>7 DEF CheckAssignment
<1>8. ASSUME NEW s \in Sessions, ApproveCommit(s)
      PROVE  OneHolder'
    BY <1>8 DEF ApproveCommit, Release
<1>9. ASSUME NEW i \in Items, Cancel(i)
      PROVE  OneHolder'
    BY <1>9 DEF Cancel
<1>10. ASSUME NEW s \in Sessions, Abort(s)
      PROVE  OneHolder'
    BY <1>10 DEF Abort, Release
<1>11. ASSUME NEW s \in Sessions, NEW i \in Items, CompleteStart(s, i)
      PROVE  OneHolder'
    BY <1>11 DEF CompleteStart
<1>12. ASSUME NEW s \in Sessions, CompleteCommit(s)
      PROVE  OneHolder'
    BY <1>12 DEF CompleteCommit, Release
<1>13. ASSUME NEW i \in Items, WorkerBuys(i)
      PROVE  OneHolder'
    BY <1>13 DEF WorkerBuys
<1>14. ASSUME NEW r \in Rules, NEW md \in Modes, NEW mine \in BOOLEAN, UpdateRule(r, md, mine)
      PROVE  OneHolder'
    BY <1>14 DEF UpdateRule
<1>15. ASSUME NEW m \in Methods, Disable(m)
      PROVE  OneHolder'
    BY <1>15 DEF Disable
<1>16. ASSUME NEW s \in Sessions, NEW m \in Methods, AssignStart(s, m)
      PROVE  OneHolder'
    BY <1>16 DEF AssignStart
<1>17. ASSUME NEW s \in Sessions, AssignCommit(s)
      PROVE  OneHolder'
    BY <1>17 DEF AssignCommit, Release
<1>18. ASSUME NEW m \in Methods, Unassign(m)
      PROVE  OneHolder'
    BY <1>18 DEF Unassign
<1>19. CASE UNCHANGED vars
    BY <1>19 DEF vars
<1> QED
    BY <1>1, <1>2, <1>3, <1>4, <1>5, <1>6, <1>7, <1>8, <1>9, <1>10, <1>11, <1>12, <1>13, <1>14, <1>15, <1>16, <1>17, <1>18, <1>19 DEF Next

\* Nobody changes what a request has locked.
LEMMA RequestsStep ==
    ASSUME TypeOK, OneHolder, RequestsFit, ManagedByWorkers, [Next]_vars
    PROVE  RequestsFit'
<1> USE DEF catalog, rows, reqVars, Goto, TypeOK, OneHolder, RequestsFit, ManagedByWorkers, ItemLocked, MethodLocked, AssignmentLocked, Stages
<1>1. ASSUME NEW s \in Sessions, NEW i \in Items, ProposeStart(s, i)
      PROVE  RequestsFit'
    BY <1>1 DEF ProposeStart
<1>2. ASSUME NEW s \in Sessions, Evaluate(s)
      PROVE  RequestsFit'
    BY <1>2 DEF Evaluate
<1>3. ASSUME NEW s \in Sessions, ChooseMethod(s)
      PROVE  RequestsFit'
    BY <1>3 DEF ChooseMethod, Candidates
<1>4. ASSUME NEW s \in Sessions, ProposeCommit(s)
      PROVE  RequestsFit'
    BY <1>4 DEF ProposeCommit, Release
<1>5. ASSUME NEW s \in Sessions, NEW i \in Items, NEW m \in Methods, ApproveStart(s, i, m)
      PROVE  RequestsFit'
    BY <1>5 DEF ApproveStart
<1>6. ASSUME NEW s \in Sessions, LockMethod(s)
      PROVE  RequestsFit'
    BY <1>6 DEF LockMethod
<1>7. ASSUME NEW s \in Sessions, CheckAssignment(s)
      PROVE  RequestsFit'
    BY <1>7 DEF CheckAssignment
<1>8. ASSUME NEW s \in Sessions, ApproveCommit(s)
      PROVE  RequestsFit'
    BY <1>8 DEF ApproveCommit, Release
<1>9. ASSUME NEW i \in Items, Cancel(i)
      PROVE  RequestsFit'
    BY <1>9 DEF Cancel
<1>10. ASSUME NEW s \in Sessions, Abort(s)
      PROVE  RequestsFit'
    BY <1>10 DEF Abort, Release
<1>11. ASSUME NEW s \in Sessions, NEW i \in Items, CompleteStart(s, i)
      PROVE  RequestsFit'
    BY <1>11 DEF CompleteStart
<1>12. ASSUME NEW s \in Sessions, CompleteCommit(s)
      PROVE  RequestsFit'
    BY <1>12 DEF CompleteCommit, Release
<1>13. ASSUME NEW i \in Items, WorkerBuys(i)
      PROVE  RequestsFit'
    BY <1>13 DEF WorkerBuys
<1>14. ASSUME NEW r \in Rules, NEW md \in Modes, NEW mine \in BOOLEAN, UpdateRule(r, md, mine)
      PROVE  RequestsFit'
    BY <1>14 DEF UpdateRule
<1>15. ASSUME NEW m \in Methods, Disable(m)
      PROVE  RequestsFit'
    BY <1>15 DEF Disable
<1>16. ASSUME NEW s \in Sessions, NEW m \in Methods, AssignStart(s, m)
      PROVE  RequestsFit'
    BY <1>16 DEF AssignStart
<1>17. ASSUME NEW s \in Sessions, AssignCommit(s)
      PROVE  RequestsFit'
    BY <1>17 DEF AssignCommit, Release
<1>18. ASSUME NEW m \in Methods, Unassign(m)
      PROVE  RequestsFit'
    BY <1>18 DEF Unassign
<1>19. CASE UNCHANGED vars
    BY <1>19 DEF vars
<1> QED
    BY <1>1, <1>2, <1>3, <1>4, <1>5, <1>6, <1>7, <1>8, <1>9, <1>10, <1>11, <1>12, <1>13, <1>14, <1>15, <1>16, <1>17, <1>18, <1>19 DEF Next

\* Nobody changes a rule set under evaluation, or the candidates.
LEMMA RulesStep ==
    ASSUME TypeOK, OneHolder, RequestsFit, RulesFit, [Next]_vars
    PROVE  RulesFit'
<1> USE DEF catalog, rows, reqVars, Goto, TypeOK, OneHolder, RequestsFit, RulesFit, ItemLocked, RuleLocked, MethodLocked, AssignmentLocked, NeedsHuman, Stages
<1>1. ASSUME NEW s \in Sessions, NEW i \in Items, ProposeStart(s, i)
      PROVE  RulesFit'
    BY <1>1 DEF ProposeStart
<1>2. ASSUME NEW s \in Sessions, Evaluate(s)
      PROVE  RulesFit'
    BY <1>2 DEF Evaluate
<1>3. ASSUME NEW s \in Sessions, ChooseMethod(s)
      PROVE  RulesFit'
    BY <1>3 DEF ChooseMethod, Candidates
<1>4. ASSUME NEW s \in Sessions, ProposeCommit(s)
      PROVE  RulesFit'
    BY <1>4 DEF ProposeCommit, Release
<1>5. ASSUME NEW s \in Sessions, NEW i \in Items, NEW m \in Methods, ApproveStart(s, i, m)
      PROVE  RulesFit'
    BY <1>5 DEF ApproveStart
<1>6. ASSUME NEW s \in Sessions, LockMethod(s)
      PROVE  RulesFit'
    BY <1>6 DEF LockMethod
<1>7. ASSUME NEW s \in Sessions, CheckAssignment(s)
      PROVE  RulesFit'
    BY <1>7 DEF CheckAssignment
<1>8. ASSUME NEW s \in Sessions, ApproveCommit(s)
      PROVE  RulesFit'
    BY <1>8 DEF ApproveCommit, Release
<1>9. ASSUME NEW i \in Items, Cancel(i)
      PROVE  RulesFit'
    BY <1>9 DEF Cancel
<1>10. ASSUME NEW s \in Sessions, Abort(s)
      PROVE  RulesFit'
    BY <1>10 DEF Abort, Release
<1>11. ASSUME NEW s \in Sessions, NEW i \in Items, CompleteStart(s, i)
      PROVE  RulesFit'
    BY <1>11 DEF CompleteStart
<1>12. ASSUME NEW s \in Sessions, CompleteCommit(s)
      PROVE  RulesFit'
    BY <1>12 DEF CompleteCommit, Release
<1>13. ASSUME NEW i \in Items, WorkerBuys(i)
      PROVE  RulesFit'
    BY <1>13 DEF WorkerBuys
<1>14. ASSUME NEW r \in Rules, NEW md \in Modes, NEW mine \in BOOLEAN, UpdateRule(r, md, mine)
      PROVE  RulesFit'
    BY <1>14 DEF UpdateRule
<1>15. ASSUME NEW m \in Methods, Disable(m)
      PROVE  RulesFit'
    BY <1>15 DEF Disable
<1>16. ASSUME NEW s \in Sessions, NEW m \in Methods, AssignStart(s, m)
      PROVE  RulesFit'
    BY <1>16 DEF AssignStart
<1>17. ASSUME NEW s \in Sessions, AssignCommit(s)
      PROVE  RulesFit'
    BY <1>17 DEF AssignCommit, Release
<1>18. ASSUME NEW m \in Methods, Unassign(m)
      PROVE  RulesFit'
    BY <1>18 DEF Unassign
<1>19. CASE UNCHANGED vars
    BY <1>19 DEF vars
<1> QED
    BY <1>1, <1>2, <1>3, <1>4, <1>5, <1>6, <1>7, <1>8, <1>9, <1>10, <1>11, <1>12, <1>13, <1>14, <1>15, <1>16, <1>17, <1>18, <1>19 DEF Next

\* A method and a decision come together.
LEMMA ChosenStep ==
    ASSUME TypeOK, RequestsFit, ChosenFits, [Next]_vars
    PROVE  ChosenFits'
<1> USE DEF catalog, rows, reqVars, Goto, TypeOK, RequestsFit, ChosenFits, Stages
<1>1. ASSUME NEW s \in Sessions, NEW i \in Items, ProposeStart(s, i)
      PROVE  ChosenFits'
    BY <1>1 DEF ProposeStart
<1>2. ASSUME NEW s \in Sessions, Evaluate(s)
      PROVE  ChosenFits'
    BY <1>2 DEF Evaluate
<1>3. ASSUME NEW s \in Sessions, ChooseMethod(s)
      PROVE  ChosenFits'
    BY <1>3 DEF ChooseMethod, Candidates
<1>4. ASSUME NEW s \in Sessions, ProposeCommit(s)
      PROVE  ChosenFits'
    BY <1>4 DEF ProposeCommit, Release
<1>5. ASSUME NEW s \in Sessions, NEW i \in Items, NEW m \in Methods, ApproveStart(s, i, m)
      PROVE  ChosenFits'
    BY <1>5 DEF ApproveStart
<1>6. ASSUME NEW s \in Sessions, LockMethod(s)
      PROVE  ChosenFits'
    BY <1>6 DEF LockMethod
<1>7. ASSUME NEW s \in Sessions, CheckAssignment(s)
      PROVE  ChosenFits'
    BY <1>7 DEF CheckAssignment
<1>8. ASSUME NEW s \in Sessions, ApproveCommit(s)
      PROVE  ChosenFits'
    BY <1>8 DEF ApproveCommit, Release
<1>9. ASSUME NEW i \in Items, Cancel(i)
      PROVE  ChosenFits'
    BY <1>9 DEF Cancel
<1>10. ASSUME NEW s \in Sessions, Abort(s)
      PROVE  ChosenFits'
    BY <1>10 DEF Abort, Release
<1>11. ASSUME NEW s \in Sessions, NEW i \in Items, CompleteStart(s, i)
      PROVE  ChosenFits'
    BY <1>11 DEF CompleteStart
<1>12. ASSUME NEW s \in Sessions, CompleteCommit(s)
      PROVE  ChosenFits'
    BY <1>12 DEF CompleteCommit, Release
<1>13. ASSUME NEW i \in Items, WorkerBuys(i)
      PROVE  ChosenFits'
    BY <1>13 DEF WorkerBuys
<1>14. ASSUME NEW r \in Rules, NEW md \in Modes, NEW mine \in BOOLEAN, UpdateRule(r, md, mine)
      PROVE  ChosenFits'
    BY <1>14 DEF UpdateRule
<1>15. ASSUME NEW m \in Methods, Disable(m)
      PROVE  ChosenFits'
    BY <1>15 DEF Disable
<1>16. ASSUME NEW s \in Sessions, NEW m \in Methods, AssignStart(s, m)
      PROVE  ChosenFits'
    BY <1>16 DEF AssignStart
<1>17. ASSUME NEW s \in Sessions, AssignCommit(s)
      PROVE  ChosenFits'
    BY <1>17 DEF AssignCommit, Release
<1>18. ASSUME NEW m \in Methods, Unassign(m)
      PROVE  ChosenFits'
    BY <1>18 DEF Unassign
<1>19. CASE UNCHANGED vars
    BY <1>19 DEF vars
<1> QED
    BY <1>1, <1>2, <1>3, <1>4, <1>5, <1>6, <1>7, <1>8, <1>9, <1>10, <1>11, <1>12, <1>13, <1>14, <1>15, <1>16, <1>17, <1>18, <1>19 DEF Next

\* Executions and purchases.
LEMMA WorkersStep ==
    ASSUME TypeOK, RequestsFit, ManagedByWorkers, ChosenFits, [Next]_vars
    PROVE  ManagedByWorkers'
<1> USE DEF catalog, rows, reqVars, Goto, TypeOK, RequestsFit, ManagedByWorkers, ChosenFits, Stages
<1>1. ASSUME NEW s \in Sessions, NEW i \in Items, ProposeStart(s, i)
      PROVE  ManagedByWorkers'
    BY <1>1 DEF ProposeStart
<1>2. ASSUME NEW s \in Sessions, Evaluate(s)
      PROVE  ManagedByWorkers'
    BY <1>2 DEF Evaluate
<1>3. ASSUME NEW s \in Sessions, ChooseMethod(s)
      PROVE  ManagedByWorkers'
    BY <1>3 DEF ChooseMethod, Candidates
<1>4. ASSUME NEW s \in Sessions, ProposeCommit(s)
      PROVE  ManagedByWorkers'
    BY <1>4 DEF ProposeCommit, Release
<1>5. ASSUME NEW s \in Sessions, NEW i \in Items, NEW m \in Methods, ApproveStart(s, i, m)
      PROVE  ManagedByWorkers'
    BY <1>5 DEF ApproveStart
<1>6. ASSUME NEW s \in Sessions, LockMethod(s)
      PROVE  ManagedByWorkers'
    BY <1>6 DEF LockMethod
<1>7. ASSUME NEW s \in Sessions, CheckAssignment(s)
      PROVE  ManagedByWorkers'
    BY <1>7 DEF CheckAssignment
<1>8. ASSUME NEW s \in Sessions, ApproveCommit(s)
      PROVE  ManagedByWorkers'
    BY <1>8 DEF ApproveCommit, Release
<1>9. ASSUME NEW i \in Items, Cancel(i)
      PROVE  ManagedByWorkers'
    BY <1>9 DEF Cancel
<1>10. ASSUME NEW s \in Sessions, Abort(s)
      PROVE  ManagedByWorkers'
    BY <1>10 DEF Abort, Release
<1>11. ASSUME NEW s \in Sessions, NEW i \in Items, CompleteStart(s, i)
      PROVE  ManagedByWorkers'
    BY <1>11 DEF CompleteStart
<1>12. ASSUME NEW s \in Sessions, CompleteCommit(s)
      PROVE  ManagedByWorkers'
    BY <1>12 DEF CompleteCommit, Release
<1>13. ASSUME NEW i \in Items, WorkerBuys(i)
      PROVE  ManagedByWorkers'
    BY <1>13 DEF WorkerBuys
<1>14. ASSUME NEW r \in Rules, NEW md \in Modes, NEW mine \in BOOLEAN, UpdateRule(r, md, mine)
      PROVE  ManagedByWorkers'
    BY <1>14 DEF UpdateRule
<1>15. ASSUME NEW m \in Methods, Disable(m)
      PROVE  ManagedByWorkers'
    BY <1>15 DEF Disable
<1>16. ASSUME NEW s \in Sessions, NEW m \in Methods, AssignStart(s, m)
      PROVE  ManagedByWorkers'
    BY <1>16 DEF AssignStart
<1>17. ASSUME NEW s \in Sessions, AssignCommit(s)
      PROVE  ManagedByWorkers'
    BY <1>17 DEF AssignCommit, Release
<1>18. ASSUME NEW m \in Methods, Unassign(m)
      PROVE  ManagedByWorkers'
    BY <1>18 DEF Unassign
<1>19. CASE UNCHANGED vars
    BY <1>19 DEF vars
<1> QED
    BY <1>1, <1>2, <1>3, <1>4, <1>5, <1>6, <1>7, <1>8, <1>9, <1>10, <1>11, <1>12, <1>13, <1>14, <1>15, <1>16, <1>17, <1>18, <1>19 DEF Next

LEMMA InitGood == Init => IInv
BY DEF Init, IInv, TypeOK, OneHolder, RequestsFit, RulesFit, ChosenFits, ManagedByWorkers, Stages

LEMMA InvStep == IInv /\ [Next]_vars => IInv'
<1> SUFFICES ASSUME IInv, [Next]_vars PROVE IInv'
    OBVIOUS
<1> QED
    BY TypeStep, HolderStep, RequestsStep, RulesStep, ChosenStep, WorkersStep DEF IInv

\* The inductive invariant: whatever a request has read of the rows it locked still
\* holds when it commits.
THEOREM ApprovalInductive == Spec => []IInv
<1> QED
    BY InitGood, InvStep, PTL DEF Spec

\* Workers record the purchases of managed items, the agent those of the others.
THEOREM AgentReportsNoManaged == Spec => []ManagedByWorkers
<1>1. IInv => ManagedByWorkers
    BY DEF IInv
<1> QED
    BY <1>1, ApprovalInductive, PTL

-----------------------------------------------------------------------------
(* Action properties. *)

\* A step that decides an item starts from one that is not decided.
LEMMA DecisionStep ==
    ASSUME IInv, [Next]_vars
    PROVE  KeepsDecision
<1> USE DEF catalog, rows, reqVars, Goto, IInv, TypeOK, RequestsFit, KeepsDecision
<1>1. ASSUME NEW s \in Sessions, NEW i \in Items, ProposeStart(s, i)
      PROVE  KeepsDecision
    BY <1>1 DEF ProposeStart
<1>2. ASSUME NEW s \in Sessions, Evaluate(s)
      PROVE  KeepsDecision
    BY <1>2 DEF Evaluate
<1>3. ASSUME NEW s \in Sessions, ChooseMethod(s)
      PROVE  KeepsDecision
    BY <1>3 DEF ChooseMethod, Candidates
<1>4. ASSUME NEW s \in Sessions, ProposeCommit(s)
      PROVE  KeepsDecision
    BY <1>4 DEF ProposeCommit, Release
<1>5. ASSUME NEW s \in Sessions, NEW i \in Items, NEW m \in Methods, ApproveStart(s, i, m)
      PROVE  KeepsDecision
    BY <1>5 DEF ApproveStart
<1>6. ASSUME NEW s \in Sessions, LockMethod(s)
      PROVE  KeepsDecision
    BY <1>6 DEF LockMethod
<1>7. ASSUME NEW s \in Sessions, CheckAssignment(s)
      PROVE  KeepsDecision
    BY <1>7 DEF CheckAssignment
<1>8. ASSUME NEW s \in Sessions, ApproveCommit(s)
      PROVE  KeepsDecision
    BY <1>8 DEF ApproveCommit, Release
<1>9. ASSUME NEW i \in Items, Cancel(i)
      PROVE  KeepsDecision
    BY <1>9 DEF Cancel
<1>10. ASSUME NEW s \in Sessions, Abort(s)
      PROVE  KeepsDecision
    BY <1>10 DEF Abort, Release
<1>11. ASSUME NEW s \in Sessions, NEW i \in Items, CompleteStart(s, i)
      PROVE  KeepsDecision
    BY <1>11 DEF CompleteStart
<1>12. ASSUME NEW s \in Sessions, CompleteCommit(s)
      PROVE  KeepsDecision
    BY <1>12 DEF CompleteCommit, Release
<1>13. ASSUME NEW i \in Items, WorkerBuys(i)
      PROVE  KeepsDecision
    BY <1>13 DEF WorkerBuys
<1>14. ASSUME NEW r \in Rules, NEW md \in Modes, NEW mine \in BOOLEAN, UpdateRule(r, md, mine)
      PROVE  KeepsDecision
    BY <1>14 DEF UpdateRule
<1>15. ASSUME NEW m \in Methods, Disable(m)
      PROVE  KeepsDecision
    BY <1>15 DEF Disable
<1>16. ASSUME NEW s \in Sessions, NEW m \in Methods, AssignStart(s, m)
      PROVE  KeepsDecision
    BY <1>16 DEF AssignStart
<1>17. ASSUME NEW s \in Sessions, AssignCommit(s)
      PROVE  KeepsDecision
    BY <1>17 DEF AssignCommit, Release
<1>18. ASSUME NEW m \in Methods, Unassign(m)
      PROVE  KeepsDecision
    BY <1>18 DEF Unassign
<1>19. CASE UNCHANGED vars
    BY <1>19 DEF vars
<1> QED
    BY <1>1, <1>2, <1>3, <1>4, <1>5, <1>6, <1>7, <1>8, <1>9, <1>10, <1>11, <1>12, <1>13, <1>14, <1>15, <1>16, <1>17, <1>18, <1>19 DEF Next

\* A step that approves a managed item has its method and assignment locked.
LEMMA ApprovalStep ==
    ASSUME IInv, [Next]_vars
    PROVE  ApprovesSoundly
<1> USE DEF catalog, rows, reqVars, Goto, IInv, TypeOK, RequestsFit, RulesFit, ApprovesSoundly
<1>1. ASSUME NEW s \in Sessions, NEW i \in Items, ProposeStart(s, i)
      PROVE  ApprovesSoundly
    BY <1>1 DEF ProposeStart
<1>2. ASSUME NEW s \in Sessions, Evaluate(s)
      PROVE  ApprovesSoundly
    BY <1>2 DEF Evaluate
<1>3. ASSUME NEW s \in Sessions, ChooseMethod(s)
      PROVE  ApprovesSoundly
    BY <1>3 DEF ChooseMethod, Candidates
<1>4. ASSUME NEW s \in Sessions, ProposeCommit(s)
      PROVE  ApprovesSoundly
    BY <1>4 DEF ProposeCommit, Release
<1>5. ASSUME NEW s \in Sessions, NEW i \in Items, NEW m \in Methods, ApproveStart(s, i, m)
      PROVE  ApprovesSoundly
    BY <1>5 DEF ApproveStart
<1>6. ASSUME NEW s \in Sessions, LockMethod(s)
      PROVE  ApprovesSoundly
    BY <1>6 DEF LockMethod
<1>7. ASSUME NEW s \in Sessions, CheckAssignment(s)
      PROVE  ApprovesSoundly
    BY <1>7 DEF CheckAssignment
<1>8. ASSUME NEW s \in Sessions, ApproveCommit(s)
      PROVE  ApprovesSoundly
    BY <1>8 DEF ApproveCommit, Release
<1>9. ASSUME NEW i \in Items, Cancel(i)
      PROVE  ApprovesSoundly
    BY <1>9 DEF Cancel
<1>10. ASSUME NEW s \in Sessions, Abort(s)
      PROVE  ApprovesSoundly
    BY <1>10 DEF Abort, Release
<1>11. ASSUME NEW s \in Sessions, NEW i \in Items, CompleteStart(s, i)
      PROVE  ApprovesSoundly
    BY <1>11 DEF CompleteStart
<1>12. ASSUME NEW s \in Sessions, CompleteCommit(s)
      PROVE  ApprovesSoundly
    BY <1>12 DEF CompleteCommit, Release
<1>13. ASSUME NEW i \in Items, WorkerBuys(i)
      PROVE  ApprovesSoundly
    BY <1>13 DEF WorkerBuys
<1>14. ASSUME NEW r \in Rules, NEW md \in Modes, NEW mine \in BOOLEAN, UpdateRule(r, md, mine)
      PROVE  ApprovesSoundly
    BY <1>14 DEF UpdateRule
<1>15. ASSUME NEW m \in Methods, Disable(m)
      PROVE  ApprovesSoundly
    BY <1>15 DEF Disable
<1>16. ASSUME NEW s \in Sessions, NEW m \in Methods, AssignStart(s, m)
      PROVE  ApprovesSoundly
    BY <1>16 DEF AssignStart
<1>17. ASSUME NEW s \in Sessions, AssignCommit(s)
      PROVE  ApprovesSoundly
    BY <1>17 DEF AssignCommit, Release
<1>18. ASSUME NEW m \in Methods, Unassign(m)
      PROVE  ApprovesSoundly
    BY <1>18 DEF Unassign
<1>19. CASE UNCHANGED vars
    BY <1>19 DEF vars
<1> QED
    BY <1>1, <1>2, <1>3, <1>4, <1>5, <1>6, <1>7, <1>8, <1>9, <1>10, <1>11, <1>12, <1>13, <1>14, <1>15, <1>16, <1>17, <1>18, <1>19 DEF Next

\* A step that approves an item at its proposal has its rule set locked.
LEMMA RuleStep ==
    ASSUME IInv, [Next]_vars
    PROVE  ObeysRule
<1> USE DEF catalog, rows, reqVars, Goto, IInv, TypeOK, RequestsFit, RulesFit, ByRule, ObeysRule
<1>1. ASSUME NEW s \in Sessions, NEW i \in Items, ProposeStart(s, i)
      PROVE  ObeysRule
    BY <1>1 DEF ProposeStart
<1>2. ASSUME NEW s \in Sessions, Evaluate(s)
      PROVE  ObeysRule
    BY <1>2 DEF Evaluate
<1>3. ASSUME NEW s \in Sessions, ChooseMethod(s)
      PROVE  ObeysRule
    BY <1>3 DEF ChooseMethod, Candidates
<1>4. ASSUME NEW s \in Sessions, ProposeCommit(s)
      PROVE  ObeysRule
    BY <1>4 DEF ProposeCommit, Release
<1>5. ASSUME NEW s \in Sessions, NEW i \in Items, NEW m \in Methods, ApproveStart(s, i, m)
      PROVE  ObeysRule
    BY <1>5 DEF ApproveStart
<1>6. ASSUME NEW s \in Sessions, LockMethod(s)
      PROVE  ObeysRule
    BY <1>6 DEF LockMethod
<1>7. ASSUME NEW s \in Sessions, CheckAssignment(s)
      PROVE  ObeysRule
    BY <1>7 DEF CheckAssignment
<1>8. ASSUME NEW s \in Sessions, ApproveCommit(s)
      PROVE  ObeysRule
    BY <1>8 DEF ApproveCommit, Release
<1>9. ASSUME NEW i \in Items, Cancel(i)
      PROVE  ObeysRule
    BY <1>9 DEF Cancel
<1>10. ASSUME NEW s \in Sessions, Abort(s)
      PROVE  ObeysRule
    BY <1>10 DEF Abort, Release
<1>11. ASSUME NEW s \in Sessions, NEW i \in Items, CompleteStart(s, i)
      PROVE  ObeysRule
    BY <1>11 DEF CompleteStart
<1>12. ASSUME NEW s \in Sessions, CompleteCommit(s)
      PROVE  ObeysRule
    BY <1>12 DEF CompleteCommit, Release
<1>13. ASSUME NEW i \in Items, WorkerBuys(i)
      PROVE  ObeysRule
    BY <1>13 DEF WorkerBuys
<1>14. ASSUME NEW r \in Rules, NEW md \in Modes, NEW mine \in BOOLEAN, UpdateRule(r, md, mine)
      PROVE  ObeysRule
    BY <1>14 DEF UpdateRule
<1>15. ASSUME NEW m \in Methods, Disable(m)
      PROVE  ObeysRule
    BY <1>15 DEF Disable
<1>16. ASSUME NEW s \in Sessions, NEW m \in Methods, AssignStart(s, m)
      PROVE  ObeysRule
    BY <1>16 DEF AssignStart
<1>17. ASSUME NEW s \in Sessions, AssignCommit(s)
      PROVE  ObeysRule
    BY <1>17 DEF AssignCommit, Release
<1>18. ASSUME NEW m \in Methods, Unassign(m)
      PROVE  ObeysRule
    BY <1>18 DEF Unassign
<1>19. CASE UNCHANGED vars
    BY <1>19 DEF vars
<1> QED
    BY <1>1, <1>2, <1>3, <1>4, <1>5, <1>6, <1>7, <1>8, <1>9, <1>10, <1>11, <1>12, <1>13, <1>14, <1>15, <1>16, <1>17, <1>18, <1>19 DEF Next

\* A decision is made once.
THEOREM DecisionsStand == Spec => DecisionStands
<1> QED
    BY ApprovalInductive, DecisionStep, PTL DEF Spec, DecisionStands

\* A managed item is approved with a method that is fit at the commit.
THEOREM ApprovedSoundly == Spec => ManagedApprovedSoundly
<1> QED
    BY ApprovalInductive, ApprovalStep, PTL DEF Spec, ManagedApprovedSoundly

\* Nothing is approved without the owner against the rule set that was evaluated.
THEOREM RulesObeyed == Spec => RuleLetsPass
<1> QED
    BY ApprovalInductive, RuleStep, PTL DEF Spec, RuleLetsPass
=============================================================================
