SPECIFICATION AttemptSpec
CONSTANTS
  Executions = {1}
  Cards = {"c1"}
  CardOf <- OneCard
  References = {1}
  ReferenceOf <- OneReference
  HostedCards = {"c1"}
  MaxAttempts = 2
  Workers = {w1, w2}
  None = None
  LockMayDrop = TRUE
  FormMaps = {m1, m2}
  Requests = {r1, r2}
  Leads = {0, 2}
  MaxTime = 2
  MaxUses = 1
  MovingOn = {"direct", "demo_hosted"}
  OpenPages = 1
  WithdrawnOn = {"direct", "demo"}
  DroppedOn = {"direct", "link"}
SYMMETRY Symmetry
INVARIANT CardOnlyAtPaymentOrigin
INVARIANT CheckedAfterLoad
INVARIANT MapFrozenBeforeCard
INVARIANT OneRequestPays
INVARIANT NoSecondRequest
INVARIANT ReportsTrue
PROPERTY KeepsWorker
CHECK_DEADLOCK FALSE
