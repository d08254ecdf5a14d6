\* Two invocations run at the same time on one record.
CONSTANTS
  Record = {r1}
  Reference = {r1}
  OrderId = {o1, o2}
  Invocation = {p1, p2}
  RefOf <- OwnReference
  Proposed = 2
  MaxAttempts = 1
  BrokerRejects = FALSE
  MaxFaults = 0
  NoRecord = NoRecord
  NoOrder = NoOrder
SPECIFICATION Spec
INVARIANT NoDuplicateSubmission
