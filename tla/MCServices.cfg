SPECIFICATION Spec
CONSTANTS
  LastDay = 2
  Calls <- MCCalls
  MaxRuns = 2
  MaxForced = 1
  MaxMishaps = 1
  Universe = {"A", "B", "C"}
  Holdings = {"A"}
  Unknown = Unknown
  Overrides <- MCOverrides
  MinAum = 1
  MinHistory = 1
  MinObservations = 1
  Symbols <- MCSymbols
  Classes = {"equity", "gold", "bond"}
  Unclassified = Unclassified
  ClassMaps <- MCClassMaps
  InverseVols <- MCInverseVols
  Whole = 40000
  Constraints <- MCConstraints
  ClampTolerance = 16
  DriftTolerance = 2000
  MaxDrawdown = 25
  Drawdowns = {25, 40}
  Portfolios <- MCPortfolios
  PriceLists <- MCPriceLists
  Existing = 500
  Contributions = {0, 100, 300}
  BufferPct = 3
  FlatCost = 1
  CostPct = 5
  Threads = {t1, t2}
  CallCost = 2
  Buckets = {"per_second", "per_minute"}
  Rate <- MCRate
  Capacity <- MCCapacity
  MaxAttempts = 2
  MaxDelay = 1
  LastTick = 6
  Messages = {m1, m2, m3}
  NoMessage = NoMessage
  MaxJobs = 2
  MaxLapses = 5
  Invocations = {i1, i2, i3}
  Nobody = Nobody
  MaxClaimAge = 2
  LastTime = 4
  Writers = {w1, w2}
  Names = {"api_key", "access_token"}
  Values = {v1, v2}
  NoValue = NoValue
  Required <- MCRequired
  MaxSets = 3
  MaxBreaks = 1
  References = {"r1", "r2"}
  NoReference = NoReference
  TagOf <- MCTagOf
  OrderSize = 2
  PostAttempts = 2
  MaxOrders = 2
  MaxSlips = 2
  CurveValues = {3, 4, 5}
  Gaps = {1, 3}
  MaxPoints = 5
  MinDrawdownPct = 25
  WindowDays = 3
  Traded = {"A", "B"}
  Tokens = {k1, k2}
  NoToken = NoToken
  MaxChanges = 3
  MaxSpills = 1
  LifeTime = 2
  LastHour = 4
  NoBundle = NoBundle
  Stocks = {"A", "B"}
  StockPrices = {1, 3}
  StockQuantities = {1, 2}
  InitialCash = 7
  MaxTrades = 4
  Environments = {"paper", "live", "production", "staging"}
  Sections = {"app", "data_engine", "database", "secrets", "logging"}
  Defaults <- MCDefaults
  Null = Null
  Installed <- MCInstalled
  Layers <- MCLayers
  Exports <- MCExports
  Credentials = {"telegram", "kite", "access_token"}
  MaxEdits = 2
  MaxStarts = 2
INVARIANTS
  ServedDataIsSound
  ReplacementsRestOnEvidence
  TargetsCappedAndInvested
  OrdersFit
  BudgetsKept
  NoticesAccountedFor
  OneWorksAtATime
  SecretsAreServedRight
  OpenOrdersAreOurs
  ReportMatchesCurve
  TokensInUseAreCurrent
  ProfitIsExplained
  StartsAreReproducible
CHECK_DEADLOCK FALSE
