\* One invocation; a broker port that sends each request once.
CONSTANTS
  Record = {r1, r2}
  Reference = {r1, r2}
  OrderId = {o1, o2, o3}
  Invocation = {p1}
  RefOf <- OwnReference
  Proposed = 3
  MaxAttempts = 1
  BrokerRejects = TRUE
  MaxFaults = 2
  NoRecord = NoRecord
  NoOrder = NoOrder
SYMMETRY Symmetries
SPECIFICATION Spec
INVARIANT TypeOK
INVARIANT NoDuplicateSubmission
INVARIANT RowOwnsItsOrder
INVARIANT RowNeverAheadOfBroker
INVARIANT Agreement
PROPERTY OnlyOperatorLeavesAmbiguous
PROPERTY ReconciledIsFinal
PROPERTY ImplementsContract
