\* Two records over two cycles a day, two faults: a lost save can meet a failed
\* load, a failed pass before the purge, or the death of the process.
SPECIFICATION ProgramSpec
CONSTANTS
  Executions = 2
  Proposed = 2
  Price = 2
  Fee = 1
  StartingCash = 7
  DelayedPolls = 1
  MaxCalls = 3
  MaxPerSweep = 1
  CyclesPerDay = 2
  MaxFaults = 2
  MaxTries = 2
INVARIANTS
  BooksBalance
  OverdraftNeedsOverlap
  ForgottenOnlyAfterLostSave
  AuditTrailComplete
  RecoveryIsReal
PROPERTIES
  PurgeOnlyReconciled
  ImplementsContract
  EveryRecordSettles
