---------------------------- MODULE FundingCycle ----------------------------
(***************************************************************************)
(* The daily funding cycle of the strategy engine: StrategyEngine's        *)
(* run_daily_cycle and confirm_cycle_outcome, its execution policies and   *)
(* StrategyStateStore.  One run is a short-lived process: it loads the     *)
(* state, applies the operator's commands, decides, saves (checkpoint 1),  *)
(* performs the side effects it decided on, and proposes orders.  The      *)
(* pipeline that submits a proposal and confirms its outcome is external.  *)
(***************************************************************************)
EXTENDS Integers, Sequences

CONSTANTS
  LastMonth,       \* months of the calendar, 1..LastMonth
  LastDay,         \* days of a month, 1..LastDay
  ReminderDay,     \* reminder_day of RecurringMonthlyPolicy
  MaxCommands,     \* bound on the commands waiting at the notification port
  EnumCommands,    \* TRUE if poll_commands() returns Command members, FALSE if texts
  ConfirmsInTime,  \* TRUE if an outcome is confirmed before the next daily run
  NoState

ASSUME CalendarAssumption == LastMonth \in Nat \ {0} /\ LastDay \in Nat \ {0}
ASSUME ReminderAssumption == ReminderDay \in Nat
ASSUME CommandsAssumption == MaxCommands \in Nat
ASSUME OptionsAssumption == EnumCommands \in BOOLEAN /\ ConfirmsInTime \in BOOLEAN

VARIABLES
  policy,     \* the execution policy of this deployment
  row,        \* strategy_engine_state, the one row of the state store
  pc,         \* where the run is: "idle" between runs
  mem,        \* the run's StrategyEngineState
  pool,       \* the policy returned the confirmed pool
  duties,     \* PendingSideEffects not performed yet
  heard,      \* what the run's poll_commands() returned
  inbox,      \* commands the notification port still delivers
  told,       \* history: what the commands of all saved runs amount to
  today,      \* as_of_date
  funded,     \* the broker's available cash is positive
  open,       \* cycle_ids proposed and waiting for submission
  submitted,  \* cycle_ids whose orders were submitted successfully
  due,        \* outcomes the pipeline has still to confirm
  done        \* history: how often each side effect was performed for a month

run      == <<pc, mem, pool, duties, heard>>
pipeline == <<open, submitted, due>>
vars     == <<policy, row, pc, mem, pool, duties, heard, inbox, told, today, funded,
              open, submitted, due, done>>

Month   == 1..LastMonth
Policy  == {"recurring_monthly", "lump_sum"}
Command == {"PAUSE", "RESUME", "DISCONTINUE"}
Effect  == {"contribution", "reminder"}

State == [month : Month, funding : {"AWAITING_FUNDS", "EXECUTING", "IDLE"},
          reminded : BOOLEAN, paused : BOOLEAN, discontinued : BOOLEAN]

ASSUME NoStateAssumption == NoState \notin State

\* A state of the current month with nothing done yet.
Fresh(paused, discontinued) ==
  [month |-> today.month, funding |-> "AWAITING_FUNDS", reminded |-> FALSE,
   paused |-> paused, discontinued |-> discontinued]

Init ==
  /\ policy \in Policy
  /\ row = NoState
  /\ pc = "idle" /\ mem = NoState /\ pool = FALSE /\ duties = {} /\ heard = <<>>
  /\ inbox = <<>>
  /\ told = [paused |-> FALSE, discontinued |-> FALSE]
  /\ today = [month |-> 1, day |-> 1]
  /\ funded = FALSE
  /\ open = {} /\ submitted = {} /\ due = {}
  /\ done = [e \in Effect |-> [m \in Month |-> 0]]

-----------------------------------------------------------------------------
(* run_daily_cycle.                                                        *)

Says(commands, c) == \E i \in DOMAIN commands : commands[i] = c

\* The commands in the order given: the last of PAUSE and RESUME counts.
After(s, commands) ==
  [s EXCEPT !.paused =
              \/ \E i \in DOMAIN commands :
                   /\ commands[i] = "PAUSE"
                   /\ \A j \in DOMAIN commands : j > i => commands[j] # "RESUME"
              \/ @ /\ ~Says(commands, "RESUME"),
            !.discontinued = @ \/ Says(commands, "DISCONTINUE")]

\* command == Command.PAUSE holds of no text.
Recognised(commands) == IF EnumCommands THEN commands ELSE <<>>

\* _apply_pending_commands: with no command an absent state stays absent.
ApplyCommands(s, commands) ==
  IF commands = <<>> THEN s
  ELSE After(IF s = NoState THEN Fresh(FALSE, FALSE) ELSE s, Recognised(commands))

\* Load the state and poll the commands, none if the poll fails.  A process
\* that ends forgets the offset of its poll: what it was given comes again.
Load ==
  /\ pc = "idle"
  /\ ConfirmsInTime => open = {} /\ due = {}
  /\ heard' \in {inbox, <<>>}
  /\ mem' = ApplyCommands(row, heard')
  /\ pc' = "loaded"
  /\ UNCHANGED <<policy, row, pool, duties, inbox, told, today, funded, pipeline, done>>

MonthBegins(s) ==
  s = NoState \/ (policy = "recurring_monthly" /\ s.month # today.month)

\* Mutant of StateOfMonth: a new month forgets that the engine was paused.
StateOfMonthForgetsPause(s) ==
  IF MonthBegins(s) THEN Fresh(FALSE, FALSE) ELSE s

\* run_cycle's rollover: PAUSE and DISCONTINUE outlive the month.
StateOfMonth(s) ==
  IF ~MonthBegins(s) THEN s
  ELSE IF s = NoState THEN Fresh(FALSE, FALSE)
  ELSE Fresh(s.paused, s.discontinued)

\* Mutant of ChecksFunds: a month already done is funded again.
ChecksFundsAgain(s) == ~s.discontinued /\ ~s.paused

\* Mutant of ChecksFunds: a cycle already executing is left to itself.
ChecksFundsOnlyAwaiting(s) == ~s.discontinued /\ ~s.paused /\ s.funding = "AWAITING_FUNDS"

\* run_cycle asks for the pool: not discontinued, not paused, not idle.
ChecksFunds(s) == ~s.discontinued /\ ~s.paused /\ s.funding # "IDLE"

Reminds(s) ==
  /\ policy = "recurring_monthly"
  /\ ChecksFunds(s) /\ ~funded /\ ~s.reminded
  /\ today.day >= ReminderDay

\* Mutant of Decided: the reminder is not recorded in the state.
DecidedWithoutReminder(s) ==
  [s EXCEPT !.funding = IF ChecksFunds(s) /\ funded THEN "EXECUTING" ELSE @]

\* The state run_cycle returns.
Decided(s) ==
  [s EXCEPT !.funding  = IF ChecksFunds(s) /\ funded THEN "EXECUTING" ELSE @,
            !.reminded = @ \/ Reminds(s)]

\* execution_policy.run_cycle and checkpoint 1: saved before any side effect.
Checkpoint ==
  /\ pc = "loaded"
  /\ LET s == StateOfMonth(mem) IN
       /\ mem' = Decided(s)
       /\ pool' = (ChecksFunds(s) /\ funded)
       /\ duties' = {e \in Effect :
            \/ e = "contribution" /\ MonthBegins(mem) /\ policy = "recurring_monthly"
            \/ e = "reminder" /\ Reminds(s)}
  /\ row' = mem'
  /\ told' = After(told, heard) /\ heard' = <<>>
  /\ pc' = "saved"
  /\ UNCHANGED <<policy, inbox, today, funded, pipeline, done>>

\* notify_expected_contribution, then the reminder.
Perform(e) ==
  /\ pc = "saved" /\ e \in duties
  /\ e = "reminder" => "contribution" \notin duties
  /\ duties' = duties \ {e}
  /\ done' = [done EXCEPT ![e][mem.month] = @ + 1]
  /\ UNCHANGED <<policy, row, pc, mem, pool, heard, inbox, told, today, funded, pipeline>>

\* The process ends, and its memory with it.
EndRun ==
  /\ pc' = "idle" /\ mem' = NoState /\ pool' = FALSE /\ duties' = {} /\ heard' = <<>>
  /\ UNCHANGED <<policy, inbox, told, today, done>>

Returning == pc = "saved" /\ duties = {}

\* No pool, or not a trading day: nothing is proposed.
ReturnWithoutOrders ==
  /\ Returning
  /\ EndRun
  /\ UNCHANGED <<row, funded, pipeline>>

\* Mutant of ProposeOrders: the month is done as soon as orders are computed.
ProposeAndFinish ==
  /\ Returning /\ pool
  /\ open' = open \cup {mem.month}
  /\ row' = [mem EXCEPT !.funding = "IDLE"]
  /\ EndRun
  /\ UNCHANGED <<funded, submitted, due>>

\* Orders were produced, under the month's cycle_id: the state stays EXECUTING.
ProposeOrders ==
  /\ Returning /\ pool
  /\ open' = open \cup {mem.month}
  /\ EndRun
  /\ UNCHANGED <<row, funded, submitted, due>>

\* Mutant of MarkComplete: it writes a value FundingState(...) cannot read.
MarkCompleteUnknown(s, ordersProduced) ==
  [s EXCEPT !.funding = IF ordersProduced THEN "COMPLETE" ELSE "AWAITING_FUNDS"]

\* mark_cycle_complete, the same in both policies.
MarkComplete(s, ordersProduced) ==
  [s EXCEPT !.funding = IF ordersProduced THEN "IDLE" ELSE "AWAITING_FUNDS"]

\* The pool buys nothing: completed here, as nobody will confirm it.
NothingToBuy ==
  /\ Returning /\ pool
  /\ row' = MarkComplete(mem, FALSE)
  /\ EndRun
  /\ UNCHANGED <<funded, pipeline>>

\* The process dies, or a call of the run raises.
Crash ==
  /\ pc # "idle"
  /\ EndRun
  /\ UNCHANGED <<row, funded, pipeline>>

-----------------------------------------------------------------------------
(* The caller: cycle_id is its idempotency key.                            *)

\* The orders of cycle c are submitted; if they were before, it only says so.
Submit(c) ==
  /\ c \in open
  /\ open' = open \ {c}
  /\ submitted' = submitted \cup {c}
  /\ due' = due \cup {[cycle |-> c, ok |-> TRUE]}
  /\ UNCHANGED <<policy, row, run, inbox, told, today, funded, done>>

\* The orders are refused, expire or are cancelled.
Fail(c) ==
  /\ c \in open \ submitted
  /\ open' = open \ {c}
  /\ due' = due \cup {[cycle |-> c, ok |-> FALSE]}
  /\ UNCHANGED <<policy, row, run, inbox, told, today, funded, submitted, done>>

\* confirm_cycle_outcome: loads, marks and saves whatever month the row is at.
\* A caller may repeat a confirmation.
Confirm(o) ==
  /\ o \in due
  /\ due' \in {due, due \ {o}}
  /\ row' = IF row = NoState THEN row ELSE MarkComplete(row, o.ok)
  /\ UNCHANGED <<policy, run, inbox, told, today, funded, open, submitted, done>>

\* The caller dies with the results it had not dealt with.
LoseResults ==
  /\ open # {} \/ due # {}
  /\ open' = {} /\ due' = {}
  /\ UNCHANGED <<policy, row, run, inbox, told, today, funded, submitted, done>>

-----------------------------------------------------------------------------
(* The world: the calendar, the broker's cash, the operator.               *)

\* A run does not last past midnight.
Tomorrow ==
  /\ pc = "idle"
  /\ \/ today.day < LastDay /\ today' = [today EXCEPT !.day = @ + 1]
     \/ /\ today.day = LastDay /\ today.month < LastMonth
        /\ today' = [month |-> today.month + 1, day |-> 1]
  /\ UNCHANGED <<policy, row, run, inbox, told, funded, pipeline, done>>

CashChanges ==
  /\ funded' \in BOOLEAN
  /\ UNCHANGED <<policy, row, run, inbox, told, today, pipeline, done>>

SendCommand(c) ==
  /\ Len(inbox) < MaxCommands
  /\ inbox' = Append(inbox, c)
  /\ UNCHANGED <<policy, row, run, told, today, funded, pipeline, done>>

\* The port gives up its oldest command: acknowledged, or too old.
ForgetCommand ==
  /\ pc = "idle" /\ inbox # <<>>
  /\ inbox' = Tail(inbox)
  /\ UNCHANGED <<policy, row, run, told, today, funded, pipeline, done>>

Run ==
  \/ Load \/ Checkpoint
  \/ \E e \in Effect : Perform(e)
  \/ ReturnWithoutOrders \/ ProposeOrders \/ NothingToBuy
  \/ Crash

Caller ==
  \/ \E c \in Month : Submit(c) \/ Fail(c)
  \/ \E o \in due : Confirm(o)
  \/ LoseResults

World == Tomorrow \/ CashChanges \/ ForgetCommand \/ \E c \in Command : SendCommand(c)

Next == Run \/ Caller \/ World

Spec == Init /\ [][Next]_vars
=============================================================================
