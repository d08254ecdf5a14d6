\* The Telegram port, whose commands are texts.
CONSTANTS
  LastMonth = 2
  LastDay = 2
  ReminderDay = 2
  MaxCommands = 1
  EnumCommands = FALSE
  ConfirmsInTime = TRUE
  NoState = NoState
SPECIFICATION Spec
INVARIANT CommandsAreObeyed
