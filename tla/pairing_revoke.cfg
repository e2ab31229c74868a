SPECIFICATION Spec
CONSTANTS
  Requests = {r1, r2}
  None = None
  MaxTokens = 3
PROPERTY RevokedForGood
CHECK_DEADLOCK FALSE
