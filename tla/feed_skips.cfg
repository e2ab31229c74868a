SPECIFICATION Spec
CONSTANTS
  Sessions = {s1, s2}
  Executions = {e1, e2}
  None = None
  PageLimit = 2
  MaxCursor = 2
SYMMETRY FeedSymmetry
INVARIANT NothingSkipped
CHECK_DEADLOCK FALSE
