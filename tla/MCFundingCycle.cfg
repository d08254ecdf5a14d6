\* A caller that confirms in time, a port that returns Command members, one
\* command waiting at a time.
CONSTANTS
  LastMonth = 2
  LastDay = 2
  ReminderDay = 2
  MaxCommands = 1
  EnumCommands = TRUE
  ConfirmsInTime = TRUE
  NoState = NoState
SPECIFICATION FundingFairSpec
INVARIANT FundingTypeOK
INVARIANT NoMonthSkipped
INVARIANT EffectsAtMostOnce
INVARIANT CommandsAreObeyed
PROPERTY DoneMonthStaysDone
PROPERTY FundedMonthIsInvested
