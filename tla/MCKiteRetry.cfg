\* One record; submit_order may send the request twice.
CONSTANTS
  Record = {r1}
  Reference = {r1}
  OrderId = {o1, o2}
  Invocation = {p1}
  RefOf <- OwnReference
  Proposed = 2
  MaxAttempts = 2
  BrokerRejects = FALSE
  MaxFaults = 2
  NoRecord = NoRecord
  NoOrder = NoOrder
SPECIFICATION Spec
INVARIANT NoDuplicateSubmission
