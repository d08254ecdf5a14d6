\* Liveness: two records of one invocation, faults that stop.
CONSTANTS
  Record = {r1, r2}
  Reference = {r1, r2}
  OrderId = {o1, o2, o3}
  Invocation = {p1}
  RefOf <- OwnReference
  Proposed = 1
  MaxAttempts = 1
  BrokerRejects = FALSE
  MaxFaults = 3
  NoRecord = NoRecord
  NoOrder = NoOrder
SPECIFICATION FairSpec
PROPERTY EverySubmissionSettles
