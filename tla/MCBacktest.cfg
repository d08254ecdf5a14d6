\* Two orders over five dates of two symbols: a partial fill, a sale across
\* two lots, a split in between and a date on which one symbol has no bar.
\* A run ends with its data, so it may stop.
SPECIFICATION Spec
CONSTANTS
  Symbol = {"A", "B"}
  Bars <- MCBars
  Intents <- MCIntents
  Dividend = 1
  Ratio = 2
  Capital = 24
  FlatFee = 1
  Rate <- MCRate
  ExpiryDays = 2
  StaleDays = 1
  LastDate = 4
  MaxGap = 2
  MaxActions = 2
  MaxOrders = 2
INVARIANTS
  NoLookAhead
  EquityExplained
  BuysAreFunded
  EveryUnitAccounted
CHECK_DEADLOCK FALSE
