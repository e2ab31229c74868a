SPECIFICATION FairSpec
CONSTANTS
  Executions = {1, 2, 3}
  Cards = {"c1"}
  CardOf <- OneCard
  References = {1, 2}
  ReferenceOf <- Sessions
  HostedCards = {"c1"}
  MaxAttempts = 2
  r1 = r1
  r2 = r2
  v1 = v1
  a1 = a1
  Requests = {r1, r2}
  Validations = {v1}
  Approvals = {a1}
  Subject <- SubjectOf
  AgentOf <- OneAgent
INVARIANT BookedOnce
INVARIANT SuccessWhole
INVARIANT RefusedOnlyIfBooked
INVARIANT OnlyWorkersDeadlock
PROPERTY EveryCallEnds
PROPERTY KeepsRepository
CHECK_DEADLOCK FALSE
