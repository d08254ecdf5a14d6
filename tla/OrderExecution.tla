-------------------------- MODULE OrderExecution --------------------------
(***************************************************************************)
(* The order-execution core: SubmissionOrchestrator, ReconciliationService *)
(* and ExecutionStateStore against a broker that may accept an order and   *)
(* lose the answer.  An invocation is one process (a runner or a session): *)
(* it reconciles on start-up, then works on one record at a time, holding  *)
(* it in memory between process_order() calls.  A failed save or a failed  *)
(* broker query raises; every caller then drops the in-memory record, so   *)
(* that outcome is the step Abandon.                                       *)
(***************************************************************************)
EXTENDS Integers, OrderLifecycle

CONSTANTS
  Record,         \* execution_id values
  OrderId,        \* broker_order_id values
  Reference,      \* values of the pair (cycle_id, symbol)
  RefOf,          \* the pair each record carries; immutable columns of its row
  Invocation,     \* processes that may run this code
  Proposed,       \* quantity_proposed, the same for every record
  MaxAttempts,    \* HTTP attempts in one submit_order: 1 on paper, 3 on Kite
  BrokerRejects,  \* TRUE if the broker can end an accepted order as FAILED (Kite)
  MaxFaults,      \* bound on crashes and on failed submit attempts
  NoRecord, NoOrder

ASSUME QuantityAssumption == Proposed \in Nat \ {0}
ASSUME AttemptsAssumption == MaxAttempts \in Nat \ {0}
ASSUME FaultsAssumption   == MaxFaults \in Nat
ASSUME RejectsAssumption  == BrokerRejects \in BOOLEAN
ASSUME ReferenceAssumption == RefOf \in [Record -> Reference]

VARIABLES
  db,        \* execution_history: one row per record
  pc,        \* where each invocation is
  held,      \* the record an invocation is working on, or NoRecord
  mem,       \* that record as the invocation has it in memory
  attempt,   \* HTTP attempts made by the submit_order under way
  loaded,    \* rows reconcile() still has to look at, as it loaded them
  opened,    \* reconcile()'s snapshot of get_open_orders()
  orders,    \* the broker's order book
  accepted,  \* history: every order the broker ever took for a record
  faults     \* crashes and failed submit attempts so far

local  == <<held, mem, attempt, loaded, opened>>
broker == <<orders, accepted>>
vars   == <<db, pc, held, mem, attempt, loaded, opened, orders, accepted, faults>>

Row == [status : Status \cup {"ABSENT"}, brokerId : OrderId \cup {NoOrder},
        executed : 0..Proposed, final : 0..Proposed]

Order == [ref : Reference, state : BrokerStatus, quantity : 1..Proposed,
          executed : 0..Proposed]

ASSUME NullAssumption ==
  NoRecord \notin Record /\ NoOrder \notin OrderId /\ NoOrder \notin Order

NoRow == [status |-> "ABSENT", brokerId |-> NoOrder, executed |-> 0, final |-> 0]

NoRows   == [r \in Record |-> NoRow]
NoOrders == [o \in OrderId |-> NoOrder]

\* Mutant of OpenOrders: cancelled orders are still listed as open.
OpenOrdersKeepCancelled ==
  [o \in OrderId |-> IF orders[o] # NoOrder /\ orders[o].state # "FILLED"
                     THEN orders[o] ELSE NoOrder]

\* get_open_orders(): both brokers leave out FILLED and CANCELLED only.
OpenOrders ==
  [o \in OrderId |-> IF orders[o] # NoOrder /\ orders[o].state \notin {"FILLED", "CANCELLED"}
                     THEN orders[o] ELSE NoOrder]

Init ==
  /\ db = NoRows
  /\ pc = [p \in Invocation |-> "down"]
  /\ held = [p \in Invocation |-> NoRecord]
  /\ mem = [p \in Invocation |-> NoRow]
  /\ attempt = [p \in Invocation |-> 0]
  /\ loaded = [p \in Invocation |-> NoRows]
  /\ opened = [p \in Invocation |-> NoOrders]
  /\ orders = NoOrders
  /\ accepted = [r \in Record |-> {}]
  /\ faults = 0

-----------------------------------------------------------------------------
(* Callers: taking a record into memory and letting go of it.              *)

Idle(p) == pc[p] = "ready" /\ held[p] = NoRecord

\* A caller builds a PROPOSAL and saves it before anything else.
CreateProposal(p, r) ==
  /\ Idle(p) /\ db[r] = NoRow
  /\ mem' = [mem EXCEPT ![p] = [NoRow EXCEPT !.status = "PROPOSAL"]]
  /\ db' = [db EXCEPT ![r] = mem'[p]]
  /\ held' = [held EXCEPT ![p] = r]
  /\ UNCHANGED <<pc, attempt, loaded, opened, broker, faults>>

\* sweep_outstanding: load_execution_record, to give the record another pass.  The
\* code takes only ids its session still remembers; here any row may be taken, by
\* any process, which only adds behaviours (PaperSession has the ids themselves).
TakeRecord(p, r) ==
  /\ Idle(p) /\ db[r] # NoRow
  /\ held' = [held EXCEPT ![p] = r]
  /\ mem' = [mem EXCEPT ![p] = db[r]]
  /\ UNCHANGED <<db, pc, attempt, loaded, opened, broker, faults>>

\* The poll budget is spent, or process_order() raised before its save.
Abandon(p) ==
  /\ pc[p] = "ready" /\ held[p] # NoRecord
  /\ held' = [held EXCEPT ![p] = NoRecord]
  /\ mem' = [mem EXCEPT ![p] = NoRow]
  /\ UNCHANGED <<db, pc, attempt, loaded, opened, broker, faults>>

-----------------------------------------------------------------------------
(* SubmissionOrchestrator.process_order, on the record held in memory.     *)

Processing(p, s) == pc[p] = "ready" /\ held[p] # NoRecord /\ mem[p].status = s

\* transition_to ... save_execution_record of the record held by p.
SaveHeld(p, row) ==
  /\ mem' = [mem EXCEPT ![p] = row]
  /\ db' = [db EXCEPT ![held[p]] = row]
  /\ UNCHANGED <<held, attempt, loaded, opened, broker, faults>>

\* Mutant of VerifyApproved: one unit too many is approved.
VerifyApprovedOneMore(p, quantity) ==
  /\ Processing(p, "PROPOSAL")
  /\ SaveHeld(p, [mem[p] EXCEPT !.status = "VERIFIED", !.final = quantity + 1])
  /\ UNCHANGED pc

\* _do_verify, approved: the quantity may be reduced.
VerifyApproved(p, quantity) ==
  /\ Processing(p, "PROPOSAL")
  /\ SaveHeld(p, [mem[p] EXCEPT !.status = "VERIFIED", !.final = quantity])
  /\ UNCHANGED pc

\* _do_verify, rejected.
VerifyRejected(p) ==
  /\ Processing(p, "PROPOSAL")
  /\ SaveHeld(p, [mem[p] EXCEPT !.status = "FAILED"])
  /\ UNCHANGED pc

\* Mutant of SubmitIntent: the intent is not saved before the call.
SubmitUnsaved(p) ==
  /\ Processing(p, "VERIFIED")
  /\ mem' = [mem EXCEPT ![p].status = "SUBMITTED"]
  /\ pc' = [pc EXCEPT ![p] = "submitting"]
  /\ UNCHANGED <<db, held, attempt, loaded, opened, broker, faults>>

\* Mutant of SubmitIntent: an AMBIGUOUS record is retried automatically.
SubmitAlsoAmbiguous(p) ==
  /\ Processing(p, "VERIFIED") \/ Processing(p, "AMBIGUOUS")
  /\ SaveHeld(p, [mem[p] EXCEPT !.status = "SUBMITTED"])
  /\ pc' = [pc EXCEPT ![p] = "submitting"]

\* _do_submit up to its first save: the intent is durable before the call.
SubmitIntent(p) ==
  /\ Processing(p, "VERIFIED")
  /\ SaveHeld(p, [mem[p] EXCEPT !.status = "SUBMITTED"])
  /\ pc' = [pc EXCEPT ![p] = "submitting"]

\* quantity_final or quantity_proposed
OrderQuantity(row) == IF row.final = 0 THEN Proposed ELSE row.final

\* The broker takes one more order for record r.
Place(r, o, quantity) ==
  /\ orders[o] = NoOrder
  /\ orders' = [orders EXCEPT ![o] = [ref |-> RefOf[r], state |-> "PENDING",
                                      quantity |-> quantity, executed |-> 0]]
  /\ accepted' = [accepted EXCEPT ![r] = @ \cup {o}]

\* submit_order raised: the record stays SUBMITTED and the caller drops it.
GiveUpSubmitting(p) ==
  /\ pc' = [pc EXCEPT ![p] = "ready"]
  /\ held' = [held EXCEPT ![p] = NoRecord]
  /\ mem' = [mem EXCEPT ![p] = NoRow]
  /\ attempt' = [attempt EXCEPT ![p] = 0]

\* retry_with_backoff after a retryable error: try again or give up.
RetryOrGiveUp(p) ==
  /\ faults < MaxFaults /\ faults' = faults + 1
  /\ IF attempt[p] + 1 < MaxAttempts
       THEN attempt' = [attempt EXCEPT ![p] = @ + 1] /\ UNCHANGED <<pc, held, mem>>
       ELSE GiveUpSubmitting(p)
  /\ UNCHANGED <<db, loaded, opened>>

\* submit_order returned an id: it is in memory, not yet saved.
SubmitAcknowledged(p, o) ==
  /\ pc[p] = "submitting"
  /\ Place(held[p], o, OrderQuantity(mem[p]))
  /\ mem' = [mem EXCEPT ![p] = [@ EXCEPT !.brokerId = o, !.status = "PENDING"]]
  /\ pc' = [pc EXCEPT ![p] = "acknowledged"]
  /\ attempt' = [attempt EXCEPT ![p] = 0]
  /\ UNCHANGED <<db, held, loaded, opened, faults>>

\* The broker took the order and the answer was lost.
SubmitUnanswered(p, o) ==
  /\ pc[p] = "submitting"
  /\ Place(held[p], o, OrderQuantity(mem[p]))
  /\ RetryOrGiveUp(p)

\* The request never reached the broker.
SubmitNotReceived(p) ==
  /\ pc[p] = "submitting"
  /\ RetryOrGiveUp(p)
  /\ UNCHANGED broker

\* The broker refused the request: never retried.
SubmitRefused(p) ==
  /\ pc[p] = "submitting"
  /\ faults < MaxFaults /\ faults' = faults + 1
  /\ GiveUpSubmitting(p)
  /\ UNCHANGED <<db, loaded, opened, broker>>

\* _do_submit's second save succeeds ...
RecordPending(p) ==
  /\ pc[p] = "acknowledged"
  /\ SaveHeld(p, mem[p])
  /\ pc' = [pc EXCEPT ![p] = "ready"]

\* ... or raises, and the id the broker gave is lost with the record.
LoseAcknowledgement(p) ==
  /\ pc[p] = "acknowledged"
  /\ faults < MaxFaults /\ faults' = faults + 1
  /\ GiveUpSubmitting(p)
  /\ UNCHANGED <<db, loaded, opened, broker>>

\* _do_poll when the broker's state differs and the table allows the change;
\* a forbidden change raises (Abandon), an equal state changes nothing.
Poll(p) ==
  /\ \E s \in Live : Processing(p, s)
  /\ mem[p].brokerId # NoOrder
  /\ LET o == orders[mem[p].brokerId] IN
       /\ o.state # mem[p].status
       /\ o.state \in Transitions[mem[p].status]
       /\ SaveHeld(p, [mem[p] EXCEPT !.status = o.state, !.executed = o.executed])
  /\ UNCHANGED pc

-----------------------------------------------------------------------------
(* ReconciliationService.reconcile, one step per read or save.             *)

\* Mutant of LoadUnresolved: RECONCILED rows are looked at again.
LoadAlsoReconciled(p) ==
  /\ pc[p] = "down" \/ Idle(p)
  /\ pc' = [pc EXCEPT ![p] = "listing"]
  /\ loaded' = [loaded EXCEPT ![p] =
       [r \in Record |->
          IF db[r].status \in Unsent \cup {"ABSENT", "AMBIGUOUS"} THEN NoRow ELSE db[r]]]
  /\ UNCHANGED <<db, held, mem, attempt, opened, broker, faults>>

\* load_unresolved_records and the filter to relevant rows: on start-up
\* (mandatory) and on a schedule.
LoadUnresolved(p) ==
  /\ pc[p] = "down" \/ Idle(p)
  /\ pc' = [pc EXCEPT ![p] = "listing"]
  /\ loaded' = [loaded EXCEPT ![p] =
       [r \in Record |->
          IF db[r].status \in Unsent \cup {"ABSENT", "AMBIGUOUS", "RECONCILED"}
          THEN NoRow ELSE db[r]]]
  /\ UNCHANGED <<db, held, mem, attempt, opened, broker, faults>>

\* get_open_orders(), once for the whole pass.
ListOpenOrders(p) ==
  /\ pc[p] = "listing"
  /\ opened' = [opened EXCEPT ![p] = OpenOrders]
  /\ pc' = [pc EXCEPT ![p] = "reconciling"]
  /\ UNCHANGED <<db, held, mem, attempt, loaded, broker, faults>>

Reconciling(p, r) == pc[p] = "reconciling" /\ loaded[p][r] # NoRow

\* Mutant of Matches: any open order is taken for the record's own.
MatchesAny(p, r) == {o \in OrderId : opened[p][o] # NoOrder}

\* Orders of the snapshot that carry r's client_reference and symbol.
Matches(p, r) == {o \in OrderId : opened[p][o] # NoOrder /\ opened[p][o].ref = RefOf[r]}

Checked(p, r) == loaded' = [loaded EXCEPT ![p][r] = NoRow]

SaveLoaded(p, r, row) ==
  /\ db' = [db EXCEPT ![r] = row]
  /\ Checked(p, r)
  /\ UNCHANGED <<pc, held, mem, attempt, opened, broker, faults>>

\* FAILED with no id: nothing was ever asked of the broker.
ConfirmUnsubmitted(p, r) ==
  /\ Reconciling(p, r)
  /\ loaded[p][r].status = "FAILED" /\ loaded[p][r].brokerId = NoOrder
  /\ SaveLoaded(p, r, [loaded[p][r] EXCEPT !.status = "RECONCILED"])

\* No id: adopt an open order that carries the record's reference.
AdoptByReference(p, r) ==
  /\ Reconciling(p, r)
  /\ loaded[p][r].status # "FAILED" /\ loaded[p][r].brokerId = NoOrder
  /\ \E o \in Matches(p, r) :
       SaveLoaded(p, r, [loaded[p][r] EXCEPT !.brokerId = o, !.status = opened[p][o].state,
                                             !.executed = opened[p][o].executed])

\* Mutant of EscalateToAmbiguous: the policy before DDR-001, back to VERIFIED.
RevertToVerified(p, r) ==
  /\ Reconciling(p, r)
  /\ loaded[p][r].status = "SUBMITTED" /\ loaded[p][r].brokerId = NoOrder
  /\ Matches(p, r) = {}
  /\ SaveLoaded(p, r, [loaded[p][r] EXCEPT !.status = "VERIFIED"])

\* No id and no open match: never retried, handed to the operator.
EscalateToAmbiguous(p, r) ==
  /\ Reconciling(p, r)
  /\ loaded[p][r].status = "SUBMITTED" /\ loaded[p][r].brokerId = NoOrder
  /\ Matches(p, r) = {}
  /\ SaveLoaded(p, r, [loaded[p][r] EXCEPT !.status = "AMBIGUOUS"])

\* get_order_status of an order that is not among the open ones.
ClosedAtBroker(p, r) ==
  /\ Reconciling(p, r)
  /\ loaded[p][r].brokerId # NoOrder
  /\ opened[p][loaded[p][r].brokerId] = NoOrder

\* Broker and row agree on a terminal state.
ConfirmTerminal(p, r) ==
  /\ ClosedAtBroker(p, r)
  /\ loaded[p][r].status \in Terminal
  /\ orders[loaded[p][r].brokerId].state = loaded[p][r].status
  /\ SaveLoaded(p, r, [loaded[p][r] EXCEPT !.status = "RECONCILED"])

\* Mutant of AdoptBrokerState: the executed quantity is not adopted.
AdoptStateOnly(p, r) ==
  /\ ClosedAtBroker(p, r)
  /\ LET o == orders[loaded[p][r].brokerId] IN
       /\ o.state # loaded[p][r].status
       /\ SaveLoaded(p, r,
            [loaded[p][r] EXCEPT
               !.status = IF o.state \in Terminal THEN "RECONCILED" ELSE o.state])

\* Broker and row differ: the broker's view wins.
AdoptBrokerState(p, r) ==
  /\ ClosedAtBroker(p, r)
  /\ LET o == orders[loaded[p][r].brokerId] IN
       /\ o.state # loaded[p][r].status
       /\ SaveLoaded(p, r,
            [loaded[p][r] EXCEPT
               !.final = IF o.executed = 0 THEN @ ELSE o.executed,
               !.executed = o.executed,
               !.status = IF o.state \in Terminal THEN "RECONCILED" ELSE o.state])

\* Still open, the broker did not answer for the id, or only an alert is due.
LeaveUnchanged(p, r) ==
  /\ Reconciling(p, r)
  /\ \/ loaded[p][r].brokerId # NoOrder
     \/ loaded[p][r].status \notin {"FAILED", "SUBMITTED"} /\ Matches(p, r) = {}
  /\ Checked(p, r)
  /\ UNCHANGED <<db, pc, held, mem, attempt, opened, broker, faults>>

\* The pass is over, or get_open_orders or a save raised and ended it early.
EndReconcile(p) ==
  /\ pc[p] \in {"listing", "reconciling"}
  /\ pc' = [pc EXCEPT ![p] = "ready"]
  /\ loaded' = [loaded EXCEPT ![p] = NoRows]
  /\ opened' = [opened EXCEPT ![p] = NoOrders]
  /\ UNCHANGED <<db, held, mem, attempt, broker, faults>>

-----------------------------------------------------------------------------
(* resolve_ambiguous_execution, by an operator who follows the report's    *)
(* recommended actions and states what the broker's own records show.      *)

Resolve(r, row) ==
  /\ db[r].status = "AMBIGUOUS"
  /\ row.status \in Transitions["AMBIGUOUS"]
  /\ db' = [db EXCEPT ![r] = row]
  /\ UNCHANGED <<pc, local, broker, faults>>

\* Found at the broker: its state, id and executed quantity are given.
OperatorFinds(r, o) ==
  /\ o \in accepted[r]
  /\ Resolve(r, [db[r] EXCEPT !.status = orders[o].state, !.brokerId = o,
                              !.executed = orders[o].executed])

\* Not found anywhere: released for a retry, or given up.
OperatorRulesOut(r, target) ==
  /\ accepted[r] = {}
  /\ target \in {"VERIFIED", "FAILED", "RECONCILED"}
  /\ Resolve(r, [db[r] EXCEPT !.status = target])

OperatorResolves(r) ==
  \/ \E o \in OrderId : OperatorFinds(r, o)
  \/ \E target \in Status : OperatorRulesOut(r, target)

-----------------------------------------------------------------------------
(* The broker's own progress, and crashes.                                 *)

BrokerMoves(o, state, executed) ==
  /\ orders[o] # NoOrder /\ orders[o].state \in Live
  /\ orders' = [orders EXCEPT ![o].state = state, ![o].executed = executed]
  /\ UNCHANGED <<db, pc, local, accepted, faults>>

PartialFill(o, executed) ==
  /\ orders[o] # NoOrder
  /\ orders[o].executed < executed /\ executed < orders[o].quantity
  /\ BrokerMoves(o, "PARTIALLY_FILLED", executed)

Fill(o) == BrokerMoves(o, "FILLED", orders[o].quantity)

\* Cancelled by the exchange, by risk control or by the end of the day.
Cancel(o) == BrokerMoves(o, "CANCELLED", orders[o].executed)

\* Kite's REJECTED, reported as FAILED, for an order it had acknowledged.
Reject(o) ==
  /\ BrokerRejects
  /\ orders[o] # NoOrder /\ orders[o].state = "PENDING"
  /\ BrokerMoves(o, "FAILED", orders[o].executed)

\* The process dies: only the database and the broker survive.
Crash(p) ==
  /\ pc[p] # "down"
  /\ faults < MaxFaults /\ faults' = faults + 1
  /\ pc' = [pc EXCEPT ![p] = "down"]
  /\ held' = [held EXCEPT ![p] = NoRecord]
  /\ mem' = [mem EXCEPT ![p] = NoRow]
  /\ attempt' = [attempt EXCEPT ![p] = 0]
  /\ loaded' = [loaded EXCEPT ![p] = NoRows]
  /\ opened' = [opened EXCEPT ![p] = NoOrders]
  /\ UNCHANGED <<db, broker>>

-----------------------------------------------------------------------------
ProcessOrder(p) ==
  \/ \E quantity \in 1..Proposed : VerifyApproved(p, quantity)
  \/ VerifyRejected(p)
  \/ SubmitIntent(p)
  \/ \E o \in OrderId : SubmitAcknowledged(p, o) \/ SubmitUnanswered(p, o)
  \/ SubmitNotReceived(p)
  \/ SubmitRefused(p)
  \/ RecordPending(p)
  \/ LoseAcknowledgement(p)
  \/ Poll(p)

ReconcileRecord(p, r) ==
  \/ ConfirmUnsubmitted(p, r)
  \/ AdoptByReference(p, r)
  \/ EscalateToAmbiguous(p, r)
  \/ ConfirmTerminal(p, r)
  \/ AdoptBrokerState(p, r)
  \/ LeaveUnchanged(p, r)

Reconcile(p) ==
  \/ LoadUnresolved(p)
  \/ ListOpenOrders(p)
  \/ \E r \in Record : ReconcileRecord(p, r)
  \/ EndReconcile(p)

Invoke(p) ==
  \/ \E r \in Record : CreateProposal(p, r) \/ TakeRecord(p, r)
  \/ Abandon(p)
  \/ ProcessOrder(p)
  \/ Reconcile(p)
  \/ Crash(p)

BrokerStep(o) ==
  \/ \E executed \in 1..Proposed : PartialFill(o, executed)
  \/ Fill(o)
  \/ Cancel(o)
  \/ Reject(o)

Next ==
  \/ \E p \in Invocation : Invoke(p)
  \/ \E r \in Record : OperatorResolves(r)
  \/ \E o \in OrderId : BrokerStep(o)

Spec == Init /\ [][Next]_vars
=============================================================================
