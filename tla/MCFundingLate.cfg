\* An outcome may be confirmed after the next daily run.
CONSTANTS
  LastMonth = 2
  LastDay = 2
  ReminderDay = 2
  MaxCommands = 1
  EnumCommands = TRUE
  ConfirmsInTime = FALSE
  NoState = NoState
SPECIFICATION Spec
INVARIANT NoMonthSkipped
