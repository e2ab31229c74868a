SPECIFICATION FairSpec
CONSTANTS
  Sessions = {s1, s2, s3}
  Executions = {e1, e2}
  None = None
  PageLimit = 1
  MaxCursor = 4
INVARIANT NoSuccessSkipped
INVARIANT OutcomesInOrder
PROPERTY SuccessesLearned
CHECK_DEADLOCK FALSE
