SPECIFICATION Spec
CONSTANTS
  Executions = {1, 2}
  Cards = {"c1"}
  CardOf <- OneCard
  References = {1, 2}
  ReferenceOf <- SharedReference
  HostedCards = {"c1"}
  MaxAttempts = 2
  Workers = {w1, w2}
  None = None
  LockMayDrop = FALSE
SYMMETRY WorkerSymmetry
INVARIANT IInv
INVARIANT AtMostOneClick
INVARIANT ChargeNeverDenied
INVARIANT PurchaseBacked
INVARIANT TransientErrorsRetried
INVARIANT CardSerialized
INVARIANT CardLockServes
INVARIANT ChargedUnknownReconcilable
PROPERTY TerminalIsFinal
PROPERTY KeepsPromise
