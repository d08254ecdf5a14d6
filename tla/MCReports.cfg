\* One record, whose cycle is cut short by one failure and which is filled by a
\* later sweep, is enough.
SPECIFICATION ProgramSpec
CONSTANTS
  Executions = 1
  Proposed = 2
  Price = 2
  Fee = 1
  StartingCash = 7
  DelayedPolls = 1
  MaxCalls = 4
  MaxPerSweep = 2
  CyclesPerDay = 1
  MaxFaults = 1
  MaxTries = 2
INVARIANT ReportsLatestTruth
