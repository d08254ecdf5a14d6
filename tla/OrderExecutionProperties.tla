--------------------- MODULE OrderExecutionProperties ---------------------
(***************************************************************************)
(* What OrderExecution is checked against: its type, its safety            *)
(* invariants, what no step may do, what must eventually happen, and the   *)
(* contract of SubmissionContract that it implements.                      *)
(***************************************************************************)
EXTENDS OrderExecution

\* Every variable keeps the shape its code gives it.
TypeOK ==
  /\ db \in [Record -> Row]
  /\ pc \in [Invocation -> {"down", "ready", "submitting", "acknowledged",
                            "listing", "reconciling"}]
  /\ held \in [Invocation -> Record \cup {NoRecord}]
  /\ mem \in [Invocation -> Row]
  /\ attempt \in [Invocation -> 0..(MaxAttempts - 1)]
  /\ loaded \in [Invocation -> [Record -> Row]]
  /\ opened \in [Invocation -> [OrderId -> Order \cup {NoOrder}]]
  /\ orders \in [OrderId -> Order \cup {NoOrder}]
  /\ accepted \in [Record -> SUBSET OrderId]
  /\ faults \in 0..MaxFaults

-----------------------------------------------------------------------------
(* Safety.                                                                 *)

\* The broker never takes two orders for one execution record: a crash, a
\* lost answer, a reconciliation and an operator's release never add up to a
\* second automated submission (DDR-001).
NoDuplicateSubmission ==
  \A r \in Record : \A a, b \in accepted[r] : a = b

\* An order the broker took is never one the database knows nothing of: the
\* row had left PROPOSAL and VERIFIED, durably, before the call, and no later
\* save puts it back.
NoOrderBehindUnsentRow ==
  \A r \in Record : accepted[r] # {} => db[r].status \notin Unsent \cup {"ABSENT"}

\* The id a row carries is of an order the broker took for that very record:
\* adoption by (client_reference, symbol) never steals another record's order.
RowOwnsItsOrder ==
  \A r \in Record : db[r].brokerId # NoOrder => db[r].brokerId \in accepted[r]

\* The local row is never ahead of the broker, and a fill it reports was made:
\* polls, stale snapshots and adoptions only ever copy what the broker said; and
\* a record is closed only when its order is over and its quantity adopted.
RowNeverAheadOfBroker ==
  \A r \in Record : db[r].brokerId # NoOrder =>
    LET o == orders[db[r].brokerId] IN
      /\ o # NoOrder
      /\ db[r].executed <= o.executed
      /\ db[r].status \in Terminal =>
           o.state = db[r].status /\ o.executed = db[r].executed
      /\ db[r].status = "PARTIALLY_FILLED" => o.state # "PENDING"
      /\ db[r].status = "RECONCILED" =>
           o.state \in Terminal /\ o.executed = db[r].executed

\* The broker is only ever asked while the row says SUBMITTED: a crash at any
\* point of the call finds the intent in the database.
IntentIsDurable ==
  \A p \in Invocation :
    pc[p] \in {"submitting", "acknowledged"} => db[held[p]].status = "SUBMITTED"

-----------------------------------------------------------------------------
(* Memory and database: the strengthening the proofs rest on.              *)

\* An invocation holds a record only between its passes of reconcile(), and
\* what it holds is the row as saved: only a record that waited for the
\* operator, and the acknowledged order not saved yet, may differ.
HeldAgrees(p) ==
  /\ pc[p] \in {"down", "listing", "reconciling"} => held[p] = NoRecord
  /\ pc[p] = "ready" /\ held[p] # NoRecord =>
       mem[p] = db[held[p]] \/ mem[p].status = "AMBIGUOUS"
  /\ pc[p] = "acknowledged" => mem[p].status = "PENDING" /\ mem[p].brokerId # NoOrder

\* reconcile() saves over rows it loaded earlier: none of them has changed.
LoadedAgrees(p) ==
  /\ pc[p] \notin {"listing", "reconciling"} => loaded[p] = NoRows
  /\ \A r \in Record : loaded[p][r] # NoRow =>
       /\ loaded[p][r] = db[r]
       /\ db[r].status \notin Unsent \cup {"ABSENT", "AMBIGUOUS", "RECONCILED"}

\* A row carries no id before the broker acknowledged an order for it.
IdsComeLast ==
  \A r \in Record :
    db[r].status \in Unsent \cup {"ABSENT", "SUBMITTED", "AMBIGUOUS"} => db[r].brokerId = NoOrder

\* With one invocation at a time nothing is saved over a row that changed since
\* it was read, from process_order's memory or from reconcile()'s list.
Agreement ==
  /\ NoOrderBehindUnsentRow
  /\ IntentIsDurable
  /\ IdsComeLast
  /\ \A p \in Invocation : HeldAgrees(p) /\ LoadedAgrees(p)

-----------------------------------------------------------------------------
(* What no step may do.                                                    *)

\* AMBIGUOUS is terminal for automation: only the operator's call changes such
\* a row (models.py, DDR-001).
OnlyOperatorLeavesAmbiguous ==
  [][\A r \in Record :
       db[r].status = "AMBIGUOUS" /\ db'[r] # db[r] => OperatorResolves(r)]_vars

\* A closed record is never reopened or rewritten: no late poll, stale snapshot
\* or restarted invocation touches a RECONCILED row.
ReconciledIsFinal ==
  [][\A r \in Record : db[r].status = "RECONCILED" => db'[r] = db[r]]_vars

-----------------------------------------------------------------------------
(* Liveness, under the fairness the callers' schedules give.               *)

\* Scheduled reconciliations keep coming, every step under way ends, failed saves
\* and queries (Abandon, EndReconcile) do not recur for ever, and the broker ends
\* every order.  Nothing is assumed of the operator, nor of the sweeps: the ids a
\* sweep would take again are in the memory of a process that may die.
Fairness ==
  /\ \A p \in Invocation :
       /\ SF_vars(LoadUnresolved(p))
       /\ SF_vars(ListOpenOrders(p))
       /\ WF_vars(EndReconcile(p))
       /\ WF_vars(Abandon(p))
       /\ WF_vars(\E o \in OrderId : SubmitAcknowledged(p, o))
       /\ WF_vars(RecordPending(p))
       /\ \A r \in Record :
            /\ SF_vars(ConfirmUnsubmitted(p, r) \/ AdoptByReference(p, r)
                         \/ EscalateToAmbiguous(p, r))
            /\ SF_vars(ConfirmTerminal(p, r) \/ AdoptBrokerState(p, r))
  /\ \A o \in OrderId : WF_vars(Fill(o) \/ Cancel(o))

FairSpec == Spec /\ Fairness

\* Every record whose submission was intended, or that was refused before it, is
\* eventually closed, or waits for the operator: the scheduled reconciliations
\* alone see to it, whatever died or was lost on the way.  (A row still PROPOSAL or
\* VERIFIED is nobody's once its process has died: reconcile() skips it.)
EverySubmissionSettles ==
  \A r \in Record :
    db[r].status \notin Unsent \cup {"ABSENT"} ~> db[r].status \in {"RECONCILED", "AMBIGUOUS"}

\* A record whose terminal outcome is FAILED is confirmed with the broker and
\* closed (PHASE7_Objectives.md, section 4).
RejectedOrdersAreReconciled ==
  \A r \in Record :
    (db[r].brokerId # NoOrder /\ orders[db[r].brokerId].state = "FAILED")
      ~> db[r].status = "RECONCILED"

-----------------------------------------------------------------------------
(* The contract this design implements.                                    *)

\* SUBMITTED and everything after it is under way; FAILED without an id was
\* never asked of the broker.
StageOf(row) ==
  CASE row.status \in Unsent \cup {"ABSENT"}                   -> "planned"
    [] row.status = "AMBIGUOUS"                                -> "doubtful"
    [] row.status = "RECONCILED"                               -> "closed"
    [] row.status = "FAILED" /\ row.brokerId = NoOrder         -> "closed"
    [] OTHER                                                   -> "intended"

Contract == INSTANCE SubmissionContract
              WITH stage <- [r \in Record |-> StageOf(db[r])], placed <- accepted

\* Every step of the code is a step of the contract, or invisible to it.
ImplementsContract == Contract!Spec
=============================================================================
