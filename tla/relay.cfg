SPECIFICATION FairSpec
CONSTANTS
  Approvals = {a1}
  Hosts = {p1, p2, p3}
  None = None
  MaxAttempts = 2
INVARIANT CodeSpentOnce
INVARIANT ConfirmedIsServed
PROPERTY KeepsOneTime
PROPERTY EveryApprovalEnds
CHECK_DEADLOCK FALSE
