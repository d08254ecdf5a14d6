--------------------------- MODULE PaperSession ---------------------------
(***************************************************************************)
(* ExtendedPaperTradingSession: one process that runs the order pipeline   *)
(* day after day against the PaperBrokerPort it owns.  A day is a restart  *)
(* or none, the cycles, a sweep of the outstanding records, a              *)
(* reconciliation, and now and then a purge of the broker's memory and the *)
(* archiving of events and cycle log.  The paper broker moves an order     *)
(* only when it is polled.  Every save, load and query may raise, and the  *)
(* process may die: then a new session starts on the same database, with a *)
(* new, empty broker.                                                      *)
(***************************************************************************)
EXTENDS Integers, FiniteSetsExt, OrderLifecycle

CONSTANTS
  Executions,    \* number of records; ids are 1..Executions, in sorted order
  Proposed,      \* quantity_proposed
  Price,         \* limit_price
  Fee,           \* transaction cost per unit: checked by verify(), not charged
  StartingCash,
  DelayedPolls,  \* delayed_fill_poll_count
  MaxCalls,      \* process_order calls per cycle
  MaxPerSweep,   \* records one sweep looks at
  CyclesPerDay,
  MaxFaults      \* bound on injected failures and deaths of the process

ASSUME SessionAssumption ==
  /\ Executions \in Nat /\ Proposed \in Nat \ {0} /\ Price \in Nat \ {0}
  /\ Fee \in Nat /\ StartingCash \in Nat /\ DelayedPolls \in Nat
  /\ MaxCalls \in Nat \ {0} /\ MaxPerSweep \in Nat \ {0}
  /\ CyclesPerDay \in Nat /\ MaxFaults \in Nat

VARIABLES
  row,          \* execution_history
  book,         \* the broker's _orders; a record never has more than one
  cash,         \* the broker's _cash
  outstanding,  \* SessionState.outstanding_execution_ids
  pc,           \* where run() is
  purpose,      \* why reconcile() runs: restart, scheduled or purge
  todo,         \* what the sweep or the reconciliation still has to look at
  slot,         \* cycles begun today
  caller,       \* who called process_order: cycle or sweep
  held, mem,    \* the record it was given, as it is in memory
  calls,        \* process_order calls made for it in this cycle
  events,       \* records with an event: [live, archived]
  log,          \* cycle_log entries: [live, archived, executed], archived
                \* counts lines and executed is what the entry says
  placed,       \* history: records whose order the broker took
  bygone,       \* history: records of sessions that died
  unsaved,      \* history: records that lost a save
  overlap,      \* history: an order was approved while another was unpaid
  faults

session == <<outstanding, pc, purpose, todo, slot, caller, held, mem, calls>>
audit   == <<events, log>>
history == <<placed, bygone, unsaved, overlap>>
vars    == <<row, book, cash, session, audit, history, faults>>

Execution == 1..Executions
Nobody == 0

\* What an accepted order does when polled.  ORDER_EXPIRED differs from
\* ORDER_CANCELLED in its event only; the other scenarios are never accepted.
Scenario == {"IMMEDIATE_FILL", "PARTIAL_FILL", "DELAYED_FILL", "ORDER_CANCELLED"}

Row == [status : Status \cup {"ABSENT"}, sent : BOOLEAN,
        final : 0..Proposed, executed : 0..Proposed]
NoRow == [status |-> "ABSENT", sent |-> FALSE, final |-> 0, executed |-> 0]

PaperOrder == [scenario : Scenario, state : {"PENDING", "PARTIALLY_FILLED", "FILLED", "CANCELLED"},
               quantity : 1..Proposed, executed : 0..Proposed, polls : 0..DelayedPolls]
NoOrder == [state |-> "NONE"]

Settled == Terminal \cup {"RECONCILED"}

Init ==
  /\ row = [e \in Execution |-> NoRow]
  /\ book = [e \in Execution |-> NoOrder]
  /\ cash = StartingCash
  /\ outstanding = {} /\ todo = {}
  /\ pc = "dawn" /\ purpose = "scheduled" /\ slot = 0
  /\ caller = "cycle" /\ held = Nobody /\ mem = NoRow /\ calls = 0
  /\ events = [live |-> {}, archived |-> {}]
  /\ log = [live |-> {}, archived |-> [e \in Execution |-> 0],
            executed |-> [e \in Execution |-> 0]]
  /\ placed = {} /\ bygone = {} /\ unsaved = {} /\ overlap = FALSE
  /\ faults = 0

Fault == faults < MaxFaults /\ faults' = faults + 1

-----------------------------------------------------------------------------
(* PaperBrokerPort.                                                        *)

Open(e) == book[e].state \in Live

Filled(o, quantity) == [o EXCEPT !.state = "FILLED", !.executed = @ + quantity]

\* get_order_status: the order after one poll.
Polled(o) ==
  CASE o.state \in {"FILLED", "CANCELLED"} -> o
    [] o.state \in Live /\ o.scenario = "IMMEDIATE_FILL" -> Filled(o, o.quantity)
    [] o.state = "PENDING" /\ o.scenario = "PARTIAL_FILL" ->
         [o EXCEPT !.state = "PARTIALLY_FILLED", !.executed = Max({1, o.quantity \div 2})]
    [] o.state = "PARTIALLY_FILLED" -> Filled(o, o.quantity - o.executed)
    [] o.state \in Live /\ o.scenario = "DELAYED_FILL" ->
         IF o.polls >= DelayedPolls THEN Filled(o, o.quantity)
         ELSE [o EXCEPT !.polls = @ + 1]
    [] o.state \in Live /\ o.scenario = "ORDER_CANCELLED" -> [o EXCEPT !.state = "CANCELLED"]

\* Polling charges what the poll filled: _fill and _partial_fill.
GetOrderStatus(e) ==
  /\ book' = [book EXCEPT ![e] = Polled(@)]
  /\ cash' = cash - Price * (book'[e].executed - book[e].executed)

-----------------------------------------------------------------------------
(* SubmissionOrchestrator.process_order on the record in memory.           *)

Calling(S) == pc = "call" /\ mem.status \in S

\* The record was changed in memory; the save that follows works or raises,
\* and only then does the database keep the old row.
Save(rec) ==
  /\ mem' = rec
  /\ \/ /\ row' = [row EXCEPT ![held] = rec]
        /\ pc' = "called" /\ UNCHANGED <<unsaved, faults>>
     \/ /\ Fault /\ pc' = "raised"
        /\ unsaved' = unsaved \cup {held} /\ UNCHANGED row
  /\ UNCHANGED <<outstanding, purpose, todo, slot, caller, held, calls, audit, bygone>>

\* Mutant of Affordable: the cost is left out and the budget is not a limit.
AffordableIgnoresCash == Proposed

\* VerificationService._affordable_quantity, capped at the proposed quantity.
Affordable == Max({q \in 0..Proposed : q = 0 \/ q * (Price + Fee) <= cash})

\* An approved quantity not paid yet.
Unpaid(e) == Open(e) \/ row[e].status = "VERIFIED"

VerifyApproved ==
  /\ Calling({"PROPOSAL"}) /\ Affordable > 0
  /\ Save([mem EXCEPT !.status = "VERIFIED", !.final = Affordable])
  /\ overlap' = (overlap \/ \E e \in Execution \ {held} : Unpaid(e))
  /\ UNCHANGED <<book, cash, placed>>

\* Compliance, market depth, spread, or no cash for one unit.
VerifyRejected ==
  /\ Calling({"PROPOSAL"})
  /\ Save([mem EXCEPT !.status = "FAILED"])
  /\ UNCHANGED <<book, cash, placed, overlap>>

\* The compliance check or the quotes raise before anything changed.
VerifyRaises ==
  /\ Calling({"PROPOSAL"}) /\ Fault /\ pc' = "raised"
  /\ UNCHANGED <<row, book, cash, outstanding, purpose, todo, slot, caller, held, mem,
                 calls, audit, history>>

\* ORDER_REJECTED and the communication scenarios raise without an order.
SubmitRaises ==
  /\ pc = "placing" /\ pc' = "raised"
  /\ UNCHANGED <<row, book, cash, outstanding, purpose, todo, slot, caller, held, mem,
                 calls, audit, history, faults>>

\* Mutant of SubmitIntent: the intent is not made durable before the call.
SubmitUnsaved ==
  /\ Calling({"VERIFIED"})
  /\ mem' = [mem EXCEPT !.status = "SUBMITTED"] /\ pc' = "placing"
  /\ UNCHANGED <<row, book, cash, outstanding, purpose, todo, slot, caller, held, calls, audit,
                 history, faults>>

\* _do_submit's first save.
SubmitIntent ==
  /\ Calling({"VERIFIED"})
  /\ mem' = [mem EXCEPT !.status = "SUBMITTED"]
  /\ \/ row' = [row EXCEPT ![held] = mem'] /\ pc' = "placing" /\ UNCHANGED <<unsaved, faults>>
     \/ Fault /\ pc' = "raised" /\ unsaved' = unsaved \cup {held} /\ UNCHANGED row
  /\ UNCHANGED <<book, cash, outstanding, purpose, todo, slot, caller, held, calls, audit,
                 placed, bygone, overlap>>

\* submit_order keeps the order; _do_submit's second save follows.
SubmitAccepted(scenario) ==
  /\ pc = "placing"
  /\ book' = [book EXCEPT ![held] =
       [scenario |-> scenario, state |-> "PENDING", executed |-> 0, polls |-> 0,
        quantity |-> IF mem.final = 0 THEN Proposed ELSE mem.final]]
  /\ placed' = placed \cup {held}
  /\ Save([mem EXCEPT !.status = "PENDING", !.sent = TRUE])
  /\ UNCHANGED <<cash, overlap>>

\* _do_poll.  The broker moves even when the save that follows raises.
Poll ==
  /\ Calling(Live)
  /\ IF book[held] = NoOrder
       THEN /\ pc' = "raised"
            /\ UNCHANGED <<row, book, cash, outstanding, purpose, todo, slot, caller, held,
                           mem, calls, audit, bygone, unsaved, faults>>
       ELSE /\ GetOrderStatus(held)
            /\ IF book'[held].state = mem.status
                 THEN /\ pc' = "called"
                      /\ UNCHANGED <<row, outstanding, purpose, todo, slot, caller, held,
                                     mem, calls, audit, bygone, unsaved, faults>>
                 ELSE Save([mem EXCEPT !.status = book'[held].state,
                                       !.executed = book'[held].executed])
  /\ UNCHANGED <<placed, overlap>>

\* SUBMITTED and AMBIGUOUS belong to reconciliation and to the operator.
LeaveRecord ==
  /\ Calling({"SUBMITTED", "AMBIGUOUS", "RECONCILED"}) /\ pc' = "called"
  /\ UNCHANGED <<row, book, cash, outstanding, purpose, todo, slot, caller, held, mem,
                 calls, audit, history, faults>>

ProcessOrder ==
  \/ VerifyApproved \/ VerifyRejected \/ VerifyRaises
  \/ SubmitIntent \/ SubmitRaises
  \/ \E scenario \in Scenario : SubmitAccepted(scenario)
  \/ Poll \/ LeaveRecord

-----------------------------------------------------------------------------
(* _process_one_cycle.                                                     *)

\* A proposal is saved, its first event is recorded, the calls begin.
StartCycle(e) ==
  /\ pc = "cycles" /\ slot < CyclesPerDay /\ row[e] = NoRow
  /\ slot' = slot + 1
  /\ mem' = [NoRow EXCEPT !.status = "PROPOSAL"]
  /\ row' = [row EXCEPT ![e] = mem']
  /\ held' = e /\ caller' = "cycle" /\ calls' = 1 /\ pc' = "call"
  /\ events' = [events EXCEPT !.live = @ \cup {e}]
  /\ UNCHANGED <<book, cash, outstanding, purpose, todo, log, history, faults>>

\* That first save raises: the cycle is silently skipped.
SkipCycle ==
  /\ pc = "cycles" /\ slot < CyclesPerDay /\ Fault
  /\ slot' = slot + 1
  /\ UNCHANGED <<row, book, cash, outstanding, pc, purpose, todo, caller, held, mem, calls,
                 audit, history>>

\* Mutant of CycleOver: one call too many.
CycleOverLate ==
  pc = "raised" \/ (pc = "called" /\ (mem.status \in Terminal \/ calls > MaxCalls))

\* The loop breaks on an exception or a terminal record, or is exhausted.
CycleOver == pc = "raised" \/ (pc = "called" /\ (mem.status \in Terminal \/ calls = MaxCalls))

CallAgain ==
  /\ caller = "cycle" /\ pc = "called" /\ ~CycleOver
  /\ calls' = calls + 1 /\ pc' = "call"
  /\ UNCHANGED <<row, book, cash, outstanding, purpose, todo, slot, caller, held, mem, audit,
                 history, faults>>

LetGo == held' = Nobody /\ mem' = NoRow /\ calls' = 0 /\ caller' = "cycle"

\* Mutant of FinishCycle: a record whose last call raised is not followed up.
FinishForgetsRaised ==
  /\ caller = "cycle" /\ CycleOver
  /\ log' = [log EXCEPT !.live = @ \cup {held}, !.executed[held] = mem.executed]
  /\ outstanding' = IF mem.status \in Settled \/ pc = "raised"
                    THEN outstanding \ {held} ELSE outstanding \cup {held}
  /\ LetGo /\ pc' = "cycles"
  /\ UNCHANGED <<row, book, cash, purpose, todo, slot, events, history, faults>>

\* The log entry and the follow-up go by the record in memory, saved or not.
FinishCycle ==
  /\ caller = "cycle" /\ CycleOver
  /\ log' = [log EXCEPT !.live = @ \cup {held}, !.executed[held] = mem.executed]
  /\ outstanding' = IF mem.status \in Settled
                    THEN outstanding \ {held} ELSE outstanding \cup {held}
  /\ LetGo /\ pc' = "cycles"
  /\ UNCHANGED <<row, book, cash, purpose, todo, slot, events, history, faults>>

-----------------------------------------------------------------------------
(* sweep_outstanding.  The resolved ids are discarded as they are found:   *)
(* nothing reads the set before the sweep is over.                         *)

\* sorted(...)[:max_per_sweep]
FirstOf(S) == {e \in S : Cardinality({d \in S : d < e}) < MaxPerSweep}

BeginSweep ==
  /\ pc = "cycles" /\ (slot = CyclesPerDay \/ \A e \in Execution : row[e] # NoRow)
  /\ todo' = FirstOf(outstanding) /\ pc' = "sweep"
  /\ UNCHANGED <<row, book, cash, outstanding, purpose, slot, caller, held, mem, calls, audit,
                 history, faults>>

SweepLoad ==
  /\ pc = "sweep" /\ todo # {}
  /\ held' = Min(todo) /\ mem' = row[Min(todo)] /\ todo' = todo \ {Min(todo)}
  /\ caller' = "sweep" /\ pc' = "call"
  /\ UNCHANGED <<row, book, cash, outstanding, purpose, slot, calls, audit, history, faults>>

SweepLoadRaises ==
  /\ pc = "sweep" /\ todo # {} /\ Fault
  /\ todo' = todo \ {Min(todo)}
  /\ UNCHANGED <<row, book, cash, outstanding, pc, purpose, slot, caller, held, mem, calls,
                 audit, history>>

\* Mutant of SweepNext: an id whose row reconciliation closed stays in the set.
SweepKeepsClosed ==
  /\ caller = "sweep" /\ pc \in {"called", "raised"}
  /\ outstanding' = IF pc = "called" /\ mem.status \in Settled \ {"RECONCILED"}
                    THEN outstanding \ {held} ELSE outstanding
  /\ LetGo /\ pc' = "sweep"
  /\ UNCHANGED <<row, book, cash, purpose, todo, slot, audit, history, faults>>

SweepNext ==
  /\ caller = "sweep" /\ pc \in {"called", "raised"}
  /\ outstanding' = IF pc = "called" /\ mem.status \in Settled
                    THEN outstanding \ {held} ELSE outstanding
  /\ LetGo /\ pc' = "sweep"
  /\ UNCHANGED <<row, book, cash, purpose, todo, slot, audit, history, faults>>

EndSweep ==
  /\ pc = "sweep" /\ todo = {}
  /\ purpose' = "scheduled" /\ pc' = "listing"
  /\ UNCHANGED <<row, book, cash, outstanding, todo, slot, caller, held, mem, calls, audit,
                 history, faults>>

-----------------------------------------------------------------------------
(* ReconciliationService.reconcile.  Nothing else runs meanwhile, so the   *)
(* rows and the open orders it works on are the current ones.              *)

LoadUnresolved ==
  /\ pc = "listing" /\ pc' = "reconciling"
  /\ todo' = {e \in Execution :
                row[e].status \notin Unsent \cup {"ABSENT", "AMBIGUOUS", "RECONCILED"}}
  /\ UNCHANGED <<row, book, cash, outstanding, purpose, slot, caller, held, mem, calls, audit,
                 history, faults>>

Reconciling(e) == pc = "reconciling" /\ e \in todo

Checked(e) ==
  /\ todo' = todo \ {e}
  /\ UNCHANGED <<outstanding, pc, purpose, slot, caller, held, mem, calls, audit, history,
                 faults>>

\* FAILED with no id: nothing was ever asked of the broker.
ConfirmUnsubmitted(e) ==
  /\ Reconciling(e) /\ row[e].status = "FAILED" /\ ~row[e].sent
  /\ row' = [row EXCEPT ![e].status = "RECONCILED"]
  /\ Checked(e) /\ UNCHANGED <<book, cash>>

\* An open order carries the record's reference: its id was lost with a save.
AdoptByReference(e) ==
  /\ Reconciling(e) /\ row[e].status # "FAILED" /\ ~row[e].sent /\ Open(e)
  /\ row' = [row EXCEPT ![e].sent = TRUE, ![e].status = book[e].state,
                        ![e].executed = book[e].executed]
  /\ Checked(e) /\ UNCHANGED <<book, cash>>

EscalateToAmbiguous(e) ==
  /\ Reconciling(e) /\ row[e].status = "SUBMITTED" /\ ~row[e].sent /\ ~Open(e)
  /\ row' = [row EXCEPT ![e].status = "AMBIGUOUS"]
  /\ Checked(e) /\ UNCHANGED <<book, cash>>

\* Still open, or flagged because the broker has no record of the id.
LeaveRow(e) ==
  /\ Reconciling(e) /\ row[e].sent /\ (Open(e) \/ book[e] = NoOrder)
  /\ Checked(e) /\ UNCHANGED <<row, book, cash>>

ConfirmTerminal(e) ==
  /\ Reconciling(e) /\ row[e].sent /\ book[e].state = row[e].status /\ ~Open(e)
  /\ row' = [row EXCEPT ![e].status = "RECONCILED"]
  /\ Checked(e) /\ UNCHANGED <<book, cash>>

\* Mutant of AdoptBrokerState: the executed quantity is not adopted.
AdoptStateOnly(e) ==
  /\ Reconciling(e) /\ row[e].sent
  /\ book[e] # NoOrder /\ ~Open(e) /\ book[e].state # row[e].status
  /\ row' = [row EXCEPT ![e].status = "RECONCILED"]
  /\ Checked(e) /\ UNCHANGED <<book, cash>>

\* The broker closed the order and the row missed it.
AdoptBrokerState(e) ==
  /\ Reconciling(e) /\ row[e].sent
  /\ book[e] # NoOrder /\ ~Open(e) /\ book[e].state # row[e].status
  /\ row' = [row EXCEPT ![e].status = "RECONCILED", ![e].executed = book[e].executed,
                        ![e].final = IF book[e].executed = 0 THEN @ ELSE book[e].executed]
  /\ Checked(e) /\ UNCHANGED <<book, cash>>

\* Mutant of PassOver: the purge does not wait for a pass that succeeded.
PassOverAlwaysPurges(ok) ==
  CASE purpose = "restart"   -> "cycles"
    [] purpose = "scheduled" -> "evening"
    [] purpose = "purge"     -> "purging"
    [] OTHER                 -> IF ok THEN "confirmed" ELSE "unconfirmed"

\* Where run() goes when the pass is over, or was ended by an exception.  The
\* passes of a harness hand it their result.
PassOver(ok) ==
  CASE purpose = "restart"   -> "cycles"
    [] purpose = "scheduled" -> "evening"
    [] purpose = "purge"     -> IF ok THEN "purging" ELSE "archiving"
    [] OTHER                 -> IF ok THEN "confirmed" ELSE "unconfirmed"

\* Only a harness asks afterwards what the pass was for.
ForgetPurpose ==
  purpose' = IF purpose \in {"restart", "purge"} THEN "scheduled" ELSE purpose

EndReconcile ==
  /\ pc = "reconciling" /\ todo = {}
  /\ pc' = PassOver(TRUE) /\ ForgetPurpose
  /\ UNCHANGED <<row, book, cash, outstanding, todo, slot, caller, held, mem, calls, audit,
                 history, faults>>

\* load_unresolved_records or a save raises.
ReconcileRaises ==
  /\ pc = "listing" \/ (pc = "reconciling" /\ todo # {})
  /\ Fault /\ pc' = PassOver(FALSE) /\ ForgetPurpose /\ todo' = {}
  /\ UNCHANGED <<row, book, cash, outstanding, slot, caller, held, mem, calls, audit, history>>

Reconcile ==
  \/ LoadUnresolved \/ EndReconcile \/ ReconcileRaises
  \/ \E e \in Execution :
       \/ ConfirmUnsubmitted(e) \/ AdoptByReference(e) \/ EscalateToAmbiguous(e)
       \/ LeaveRow(e) \/ ConfirmTerminal(e) \/ AdoptBrokerState(e)

-----------------------------------------------------------------------------
(* run(): the day.                                                         *)

\* _restart reopens the store and reconciles; broker and state live on.
Dawn(restart) ==
  /\ pc = "dawn" /\ slot' = 0
  /\ IF restart THEN pc' = "listing" /\ purpose' = "restart"
                ELSE pc' = "cycles" /\ UNCHANGED purpose
  /\ UNCHANGED <<row, book, cash, outstanding, todo, caller, held, mem, calls, audit, history,
                 faults>>

\* Every purge_every_n_days, any cadence.
Evening(purge) ==
  /\ pc = "evening"
  /\ IF purge THEN pc' = "listing" /\ purpose' = "purge"
              ELSE pc' = "dawn" /\ UNCHANGED purpose
  /\ UNCHANGED <<row, book, cash, outstanding, todo, slot, caller, held, mem, calls, audit,
                 history, faults>>

\* purge_terminal_orders with no age: every terminal order is dropped.
PurgeTerminalOrders == book' = [e \in Execution |-> IF Open(e) THEN book[e] ELSE NoOrder]

Purge ==
  /\ pc = "purging" /\ pc' = "archiving"
  /\ PurgeTerminalOrders
  /\ UNCHANGED <<row, cash, outstanding, purpose, todo, slot, caller, held, mem, calls, audit,
                 history, faults>>

\* archive_and_clear.
ArchiveEvents ==
  /\ pc = "archiving" /\ pc' = "trimming"
  /\ events' = [live |-> {}, archived |-> events.archived \cup events.live]
  /\ UNCHANGED <<row, book, cash, outstanding, purpose, todo, slot, caller, held, mem, calls,
                 log, history, faults>>

\* Mutant of ArchiveLog: the list is archived and not cleared.
ArchiveLogKeeps ==
  /\ pc = "trimming" /\ pc' = "dawn"
  /\ log' = [log EXCEPT !.archived =
                 [e \in Execution |-> @[e] + IF e \in log.live THEN 1 ELSE 0]]
  /\ UNCHANGED <<row, book, cash, outstanding, purpose, todo, slot, caller, held, mem, calls,
                 events, history, faults>>

\* archive_and_trim.
ArchiveLog ==
  /\ pc = "trimming" /\ pc' = "dawn"
  /\ log' = [log EXCEPT !.live = {}, !.archived =
                 [e \in Execution |-> @[e] + IF e \in log.live THEN 1 ELSE 0]]
  /\ UNCHANGED <<row, book, cash, outstanding, purpose, todo, slot, caller, held, mem, calls,
                 events, history, faults>>

\* The process dies; a new session opens the same database and archives.
Die ==
  /\ Fault
  /\ bygone' = {e \in Execution : row[e] # NoRow}
  /\ book' = [e \in Execution |-> NoOrder] /\ cash' = StartingCash
  /\ outstanding' = {} /\ todo' = {} /\ slot' = 0
  /\ pc' = "dawn" /\ purpose' = "scheduled" /\ LetGo
  /\ events' = [events EXCEPT !.live = {}] /\ log' = [log EXCEPT !.live = {}]
  /\ overlap' = FALSE
  /\ UNCHANGED <<row, placed, unsaved>>

Step ==
  \/ \E e \in Execution : StartCycle(e)
  \/ SkipCycle \/ CallAgain \/ FinishCycle
  \/ ProcessOrder
  \/ BeginSweep \/ SweepLoad \/ SweepLoadRaises \/ SweepNext \/ EndSweep
  \/ Reconcile
  \/ \E due \in BOOLEAN : Dawn(due) \/ Evening(due)
  \/ Purge \/ ArchiveEvents \/ ArchiveLog

Next == Step \/ Die

Spec == Init /\ [][Next]_vars
=============================================================================
