SPECIFICATION Spec
CONSTANTS
  Requests = {r1, r2, r3}
  None = None
  MaxTokens = 4
SYMMETRY RequestSymmetry
INVARIANT CodeRedeemedOnce
INVARIANT PendingHasNoKey
PROPERTY RevivedOnlyByNewCode
CHECK_DEADLOCK FALSE
