\* A broker that may reject an order it had acknowledged.
CONSTANTS
  Record = {r1}
  Reference = {r1}
  OrderId = {o1}
  Invocation = {p1}
  RefOf <- OwnReference
  Proposed = 2
  MaxAttempts = 1
  BrokerRejects = TRUE
  MaxFaults = 1
  NoRecord = NoRecord
  NoOrder = NoOrder
SPECIFICATION FairSpec
PROPERTY RejectedOrdersAreReconciled
