SPECIFICATION FairSpec
CONSTANTS
  Executions = {1}
  Cards = {"c1"}
  CardOf <- OneCard
  References = {1, 2}
  ReferenceOf <- SharedReference
  HostedCards = {"c1"}
  MaxAttempts = 3
  Workers = {w1, w2}
  None = None
  LockMayDrop = TRUE
PROPERTY EveryCheckoutEnds
PROPERTY RowsWindDown
