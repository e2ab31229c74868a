SPECIFICATION Spec
CONSTANTS
  Approvals = {a1}
  Hosts = {p1, p2}
  None = None
  MaxAttempts = 1
PROPERTY LiveSocketStays
CHECK_DEADLOCK FALSE
