SPECIFICATION Spec
CONSTANTS
  Items = {bike, book, song}
  Methods = {issuing, direct}
  Rules = {r1}
  Sessions = {s1, s2, s3}
  None = None
  Managed = {bike, song}
  Supported = {issuing, direct}
  Direct = {direct}
  Recurring = {song}
  OverLimit = {bike}
  Modes = {"above_amount", "never"}
SYMMETRY SessionSymmetry
INVARIANT ManagedByWorkers
INVARIANT IInv
PROPERTY DecisionStands
PROPERTY ManagedApprovedSoundly
PROPERTY RuleLetsPass
CHECK_DEADLOCK FALSE
