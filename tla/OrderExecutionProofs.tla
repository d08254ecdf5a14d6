----------------------- MODULE OrderExecutionProofs -----------------------
(***************************************************************************)
(* Proofs about OrderExecution for every set of records, orders and        *)
(* references, every quantity and every number of faults.                  *)
(***************************************************************************)
EXTENDS OrderExecutionProperties, TLAPS

-----------------------------------------------------------------------------
(* Type correctness.  Polls and reconciliation read orders[row.brokerId],  *)
(* so the type of what they copy depends on every id in use being one of   *)
(* an order the broker has; and submit_order reads the held record.        *)

\* An id kept in a row, a snapshot or the history is of an order in the
\* broker's book.
Known(row) == row.brokerId # NoOrder => orders[row.brokerId] # NoOrder

IdsAreKnown ==
  /\ \A r \in Record : Known(db[r])
  /\ \A p \in Invocation : Known(mem[p])
  /\ \A p \in Invocation : \A r \in Record : Known(loaded[p][r])
  /\ \A p \in Invocation : \A o \in OrderId : opened[p][o] # NoOrder => orders[o] # NoOrder
  /\ \A r \in Record : \A o \in accepted[r] : orders[o] # NoOrder

\* submit_order and the save after it are about a record.
SubmittingHolds ==
  \A p \in Invocation : pc[p] \in {"submitting", "acknowledged"} => held[p] \in Record

TypeInv == TypeOK /\ IdsAreKnown /\ SubmittingHolds

USE DEF Status, Unsent, Terminal, Live, BrokerStatus

LEMMA NoRowType == NoRow \in Row
BY QuantityAssumption DEF NoRow, Row

LEMMA TypeInit == Init => TypeInv
<1> SUFFICES ASSUME Init PROVE TypeInv
  OBVIOUS
<1>1. NoRow \in Row /\ NoRow.brokerId = NoOrder
  BY NoRowType DEF NoRow
<1>2. TypeOK
  BY <1>1, AttemptsAssumption, FaultsAssumption DEF Init, TypeOK, NoRows, NoOrders
<1>3. IdsAreKnown
  BY <1>1 DEF Init, IdsAreKnown, Known, NoRows, NoOrders
<1>4. SubmittingHolds
  BY DEF Init, SubmittingHolds
<1> QED BY <1>2, <1>3, <1>4 DEF TypeInv

\* A row that is well typed may be saved, kept or loaded.
LEMMA TypeCallers ==
  ASSUME TypeInv, NEW p \in Invocation, NEW r \in Record,
         CreateProposal(p, r) \/ TakeRecord(p, r)
  PROVE  TypeInv'
<1> USE DEF TypeInv, TypeOK, IdsAreKnown, SubmittingHolds, Known, broker, Idle
<1>0. NoRow \in Row /\ NoRow.brokerId = NoOrder
  BY NoRowType DEF NoRow
<1>1. CASE CreateProposal(p, r)
  <2>1. [NoRow EXCEPT !.status = "PROPOSAL"] \in Row
        /\ [NoRow EXCEPT !.status = "PROPOSAL"].brokerId = NoOrder
    BY <1>0 DEF NoRow, Row
  <2> QED BY <1>1, <2>1 DEF CreateProposal
<1>2. CASE TakeRecord(p, r)
  BY <1>2 DEF TakeRecord
<1> QED BY <1>1, <1>2

LEMMA TypeAbandon ==
  ASSUME TypeInv, NEW p \in Invocation, Abandon(p)
  PROVE  TypeInv'
<1>1. NoRow \in Row /\ NoRow.brokerId = NoOrder
  BY NoRowType DEF NoRow
<1> QED BY <1>1 DEF Abandon, TypeInv, TypeOK, IdsAreKnown, SubmittingHolds, Known, broker

\* Saving the held record, once the saved row is well typed and its id known.
LEMMA TypeSaveHeld ==
  ASSUME TypeInv, NEW p \in Invocation, NEW row \in Row,
         row.brokerId # NoOrder => orders[row.brokerId] # NoOrder,
         SaveHeld(p, row),
         pc' = pc \/ (\E s \in {"ready", "submitting"} :
                        pc' = [pc EXCEPT ![p] = s] /\ (s = "submitting" => held[p] \in Record))
  PROVE  TypeInv'
<1> USE DEF TypeInv, TypeOK, IdsAreKnown, SubmittingHolds, Known, broker, SaveHeld
<1>1. db' \in [Record -> Row] /\ mem' \in [Invocation -> Row]
  OBVIOUS
<1>2. TypeOK'
  <2>1. pc' \in [Invocation -> {"down", "ready", "submitting", "acknowledged",
                               "listing", "reconciling"}]
    OBVIOUS
  <2>2. UNCHANGED <<held, attempt, loaded, opened, orders, accepted, faults>>
    OBVIOUS
  <2> QED BY <1>1, <2>1, <2>2
<1>3. IdsAreKnown'
  OBVIOUS
<1>4. SubmittingHolds'
  OBVIOUS
<1> QED BY <1>2, <1>3, <1>4

\* The steps of process_order that save: verification, intent, PENDING, polls.
LEMMA TypeSaves ==
  ASSUME TypeInv, NEW p \in Invocation,
         \/ \E quantity \in 1..Proposed : VerifyApproved(p, quantity)
         \/ VerifyRejected(p)
         \/ SubmitIntent(p)
         \/ RecordPending(p)
         \/ Poll(p)
  PROVE  TypeInv'
<1>0. /\ mem[p] \in Row /\ held[p] \in Record \cup {NoRecord}
      /\ mem[p].brokerId # NoOrder => orders[mem[p].brokerId] # NoOrder
  BY DEF TypeInv, TypeOK, IdsAreKnown, Known
<1>1. ASSUME NEW quantity \in 1..Proposed, VerifyApproved(p, quantity)
      PROVE  TypeInv'
  <2>0. quantity \in 0..Proposed
    BY QuantityAssumption
  <2>1. /\ [mem[p] EXCEPT !.status = "VERIFIED", !.final = quantity] \in Row
        /\ [mem[p] EXCEPT !.status = "VERIFIED", !.final = quantity].brokerId = mem[p].brokerId
    BY <1>0, <2>0 DEF Row
  <2> QED BY <1>0, <1>1, <2>1, TypeSaveHeld DEF VerifyApproved
<1>2. CASE VerifyRejected(p)
  <2>1. /\ [mem[p] EXCEPT !.status = "FAILED"] \in Row
        /\ [mem[p] EXCEPT !.status = "FAILED"].brokerId = mem[p].brokerId
    BY <1>0 DEF Row
  <2> QED BY <1>0, <1>2, <2>1, TypeSaveHeld DEF VerifyRejected
<1>3. CASE SubmitIntent(p)
  <2>1. /\ [mem[p] EXCEPT !.status = "SUBMITTED"] \in Row
        /\ [mem[p] EXCEPT !.status = "SUBMITTED"].brokerId = mem[p].brokerId
    BY <1>0 DEF Row
  <2>2. held[p] \in Record
    BY <1>0, <1>3 DEF SubmitIntent, Processing
  <2> QED BY <1>0, <1>3, <2>1, <2>2, TypeSaveHeld DEF SubmitIntent
<1>4. CASE RecordPending(p)
  BY <1>0, <1>4, TypeSaveHeld DEF RecordPending
<1>5. CASE Poll(p)
  <2> DEFINE o == orders[mem[p].brokerId]
             row == [mem[p] EXCEPT !.status = o.state, !.executed = o.executed]
  <2>1. o \in Order
    BY <1>0, <1>5 DEF Poll, TypeInv, TypeOK, Row
  <2>2. row \in Row /\ row.brokerId = mem[p].brokerId
    BY <1>0, <2>1 DEF Row, Order
  <2>3. SaveHeld(p, row) /\ pc' = pc
    BY <1>5 DEF Poll
  <2> QED BY <1>0, <2>2, <2>3, TypeSaveHeld
<1> QED BY <1>1, <1>2, <1>3, <1>4, <1>5

\* One more order in the book: it is well typed, and no order disappears.
LEMMA TypePlace ==
  ASSUME TypeInv, NEW p \in Invocation, NEW o \in OrderId,
         pc[p] = "submitting", Place(held[p], o, OrderQuantity(mem[p]))
  PROVE  /\ orders' \in [OrderId -> Order \cup {NoOrder}]
         /\ orders'[o] # NoOrder
         /\ \A a \in OrderId : orders[a] # NoOrder => orders'[a] # NoOrder
         /\ accepted' \in [Record -> SUBSET OrderId]
         /\ \A q \in Record : \A a \in accepted'[q] : orders'[a] # NoOrder
<1>1. held[p] \in Record /\ mem[p] \in Row
  BY DEF TypeInv, TypeOK, SubmittingHolds
<1>2. OrderQuantity(mem[p]) \in 1..Proposed
  BY <1>1, QuantityAssumption DEF OrderQuantity, Row
<1>3. [ref |-> RefOf[held[p]], state |-> "PENDING",
       quantity |-> OrderQuantity(mem[p]), executed |-> 0] \in Order
  BY <1>1, <1>2, ReferenceAssumption, QuantityAssumption DEF Order
<1>4. /\ orders' \in [OrderId -> Order \cup {NoOrder}]
      /\ orders'[o] # NoOrder
      /\ \A a \in OrderId : orders[a] # NoOrder => orders'[a] # NoOrder
      /\ accepted' \in [Record -> SUBSET OrderId]
  BY <1>1, <1>3, NullAssumption DEF Place, TypeInv, TypeOK
<1>5. \A q \in Record : \A a \in accepted'[q] : a \in accepted[q] \/ a = o
  BY DEF Place, TypeInv, TypeOK
<1> QED BY <1>4, <1>5 DEF TypeInv, TypeOK, IdsAreKnown

\* submit_order fails: retry, or let go of the record; nothing else moves.
LEMMA TypeGiveUp ==
  ASSUME TypeInv, NEW p \in Invocation, GiveUpSubmitting(p),
         UNCHANGED <<db, loaded, opened>>, faults' \in 0..MaxFaults,
         orders' \in [OrderId -> Order \cup {NoOrder}],
         \A a \in OrderId : orders[a] # NoOrder => orders'[a] # NoOrder,
         accepted' \in [Record -> SUBSET OrderId],
         \A q \in Record : \A a \in accepted'[q] : orders'[a] # NoOrder
  PROVE  TypeInv'
<1> USE DEF TypeInv, TypeOK, IdsAreKnown, SubmittingHolds, Known, GiveUpSubmitting
<1>1. NoRow \in Row /\ NoRow.brokerId = NoOrder
  BY NoRowType DEF NoRow
<1>2. TypeOK'
  BY <1>1, AttemptsAssumption
<1>3. IdsAreKnown'
  BY <1>1 DEF Row
<1>4. SubmittingHolds'
  OBVIOUS
<1> QED BY <1>2, <1>3, <1>4

LEMMA TypeRetry ==
  ASSUME TypeInv, NEW p \in Invocation, RetryOrGiveUp(p),
         orders' \in [OrderId -> Order \cup {NoOrder}],
         \A a \in OrderId : orders[a] # NoOrder => orders'[a] # NoOrder,
         accepted' \in [Record -> SUBSET OrderId],
         \A q \in Record : \A a \in accepted'[q] : orders'[a] # NoOrder
  PROVE  TypeInv'
<1>1. faults' \in 0..MaxFaults /\ UNCHANGED <<db, loaded, opened>>
  BY FaultsAssumption DEF RetryOrGiveUp, TypeInv, TypeOK
<1>2. CASE attempt[p] + 1 < MaxAttempts
  <2>1. attempt' = [attempt EXCEPT ![p] = @ + 1] /\ UNCHANGED <<pc, held, mem>>
    BY <1>2 DEF RetryOrGiveUp
  <2>2. attempt[p] + 1 \in 0..(MaxAttempts - 1)
    BY <1>2, AttemptsAssumption DEF TypeInv, TypeOK
  <2>3. TypeOK'
    BY <1>1, <2>1, <2>2 DEF TypeInv, TypeOK
  <2>4. IdsAreKnown' /\ SubmittingHolds'
    BY <1>1, <2>1 DEF TypeInv, TypeOK, IdsAreKnown, Known, SubmittingHolds, Row
  <2> QED BY <2>3, <2>4 DEF TypeInv
<1>3. CASE ~(attempt[p] + 1 < MaxAttempts)
  BY <1>1, <1>3, TypeGiveUp DEF RetryOrGiveUp
<1> QED BY <1>2, <1>3

\* The steps around submit_order.
LEMMA TypeSubmission ==
  ASSUME TypeInv, NEW p \in Invocation,
         \/ \E o \in OrderId : SubmitAcknowledged(p, o) \/ SubmitUnanswered(p, o)
         \/ SubmitNotReceived(p)
         \/ SubmitRefused(p)
         \/ LoseAcknowledgement(p)
  PROVE  TypeInv'
<1>0. ASSUME faults < MaxFaults, faults' = faults + 1
      PROVE  faults' \in 0..MaxFaults
  BY <1>0, FaultsAssumption DEF TypeInv, TypeOK
<1>1. ASSUME UNCHANGED broker
      PROVE  /\ orders' \in [OrderId -> Order \cup {NoOrder}]
             /\ \A a \in OrderId : orders[a] # NoOrder => orders'[a] # NoOrder
             /\ accepted' \in [Record -> SUBSET OrderId]
             /\ \A q \in Record : \A a \in accepted'[q] : orders'[a] # NoOrder
  BY <1>1 DEF broker, TypeInv, TypeOK, IdsAreKnown
<1>2. ASSUME NEW o \in OrderId, SubmitAcknowledged(p, o)
      PROVE  TypeInv'
  <2> DEFINE row == [mem[p] EXCEPT !.brokerId = o, !.status = "PENDING"]
  <2>1. /\ orders' \in [OrderId -> Order \cup {NoOrder}]
        /\ orders'[o] # NoOrder
        /\ \A a \in OrderId : orders[a] # NoOrder => orders'[a] # NoOrder
        /\ accepted' \in [Record -> SUBSET OrderId]
        /\ \A q \in Record : \A a \in accepted'[q] : orders'[a] # NoOrder
    BY <1>2, TypePlace DEF SubmitAcknowledged
  <2>0. mem[p] \in Row
    BY DEF TypeInv, TypeOK
  <2>2. row \in Row /\ row.brokerId = o
    BY <2>0 DEF Row
  <2>3. mem' = [mem EXCEPT ![p] = row]
    BY <1>2 DEF SubmitAcknowledged
  <2>4. /\ pc' = [pc EXCEPT ![p] = "acknowledged"] /\ pc[p] = "submitting"
        /\ attempt' = [attempt EXCEPT ![p] = 0]
        /\ UNCHANGED <<db, held, loaded, opened, faults>>
    BY <1>2 DEF SubmitAcknowledged
  <2> HIDE DEF row
  <2>5. TypeOK'
    BY <2>1, <2>2, <2>3, <2>4, AttemptsAssumption DEF TypeInv, TypeOK
  <2>6. IdsAreKnown'
    BY <2>1, <2>2, <2>3, <2>4 DEF TypeInv, TypeOK, IdsAreKnown, Known, Row
  <2>7. SubmittingHolds'
    BY <2>4 DEF TypeInv, TypeOK, SubmittingHolds
  <2> QED BY <2>5, <2>6, <2>7 DEF TypeInv
<1>3. ASSUME NEW o \in OrderId, SubmitUnanswered(p, o)
      PROVE  TypeInv'
  BY <1>3, TypePlace, TypeRetry DEF SubmitUnanswered
<1>4. CASE SubmitNotReceived(p)
  BY <1>1, <1>4, TypeRetry DEF SubmitNotReceived
<1>5. CASE SubmitRefused(p)
  BY <1>0, <1>1, <1>5, TypeGiveUp DEF SubmitRefused
<1>6. CASE LoseAcknowledgement(p)
  BY <1>0, <1>1, <1>6, TypeGiveUp DEF LoseAcknowledgement
<1> QED BY <1>2, <1>3, <1>4, <1>5, <1>6

\* A loaded row leaves the list; the row saved for it is well typed and known.
LEMMA TypeSaveLoaded ==
  ASSUME TypeInv, NEW p \in Invocation, NEW r \in Record, NEW row \in Row,
         row.brokerId # NoOrder => orders[row.brokerId] # NoOrder,
         SaveLoaded(p, r, row)
  PROVE  TypeInv'
<1>1. NoRow \in Row /\ NoRow.brokerId = NoOrder
  BY NoRowType DEF NoRow
<1>2. /\ db' = [db EXCEPT ![r] = row]
      /\ loaded' = [loaded EXCEPT ![p][r] = NoRow]
      /\ UNCHANGED <<pc, held, mem, attempt, opened, broker, faults>>
  BY DEF SaveLoaded, Checked
<1>3. TypeOK'
  BY <1>1, <1>2 DEF TypeInv, TypeOK, broker
<1>4. IdsAreKnown'
  <2>1. \A q \in Record : Known(db[q])'
    BY <1>2 DEF TypeInv, TypeOK, IdsAreKnown, Known, broker
  <2>2. \A i \in Invocation : Known(mem[i])'
    BY <1>2 DEF TypeInv, TypeOK, IdsAreKnown, Known, broker
  <2>3. \A i \in Invocation : \A q \in Record : Known(loaded[i][q])'
    BY <1>1, <1>2 DEF TypeInv, TypeOK, IdsAreKnown, Known, broker
  <2>4. \A i \in Invocation : \A o \in OrderId : opened[i][o] # NoOrder => orders[o] # NoOrder
    BY DEF TypeInv, IdsAreKnown
  <2> QED BY <1>2, <2>1, <2>2, <2>3, <2>4 DEF TypeInv, IdsAreKnown, broker
<1>5. SubmittingHolds'
  BY <1>2 DEF TypeInv, SubmittingHolds
<1> QED BY <1>3, <1>4, <1>5 DEF TypeInv

\* The steps of reconcile on one record.
LEMMA TypeReconcileRecord ==
  ASSUME TypeInv, NEW p \in Invocation, NEW r \in Record, ReconcileRecord(p, r)
  PROVE  TypeInv'
<1> DEFINE old == loaded[p][r]
<1>0. /\ old \in Row
      /\ old.brokerId # NoOrder => orders[old.brokerId] # NoOrder
  BY DEF TypeInv, TypeOK, IdsAreKnown, Known
<1> HIDE DEF old
<1>1. ASSUME NEW s \in Status
      PROVE  /\ [old EXCEPT !.status = s] \in Row
             /\ [old EXCEPT !.status = s].brokerId = old.brokerId
  BY <1>0 DEF Row
<1>2. CASE ConfirmUnsubmitted(p, r)
  <2>1. SaveLoaded(p, r, [old EXCEPT !.status = "RECONCILED"])
    BY <1>2 DEF ConfirmUnsubmitted, old
  <2> QED BY <1>0, <1>1, <2>1, TypeSaveLoaded
<1>3. CASE AdoptByReference(p, r)
  <2>1. PICK o \in Matches(p, r) :
          SaveLoaded(p, r, [old EXCEPT !.brokerId = o, !.status = opened[p][o].state,
                                       !.executed = opened[p][o].executed])
    BY <1>3 DEF AdoptByReference, old
  <2>2. /\ o \in OrderId /\ orders[o] # NoOrder
        /\ opened[p][o] \in Order
    BY DEF Matches, TypeInv, TypeOK, IdsAreKnown
  <2> DEFINE row == [old EXCEPT !.brokerId = o, !.status = opened[p][o].state,
                                !.executed = opened[p][o].executed]
  <2>3. row \in Row /\ row.brokerId = o
    BY <1>0, <2>2 DEF Row, Order
  <2> HIDE DEF row
  <2>4. SaveLoaded(p, r, row)
    BY <2>1 DEF row
  <2> QED BY <2>2, <2>3, <2>4, TypeSaveLoaded
<1>4. CASE EscalateToAmbiguous(p, r)
  <2>1. SaveLoaded(p, r, [old EXCEPT !.status = "AMBIGUOUS"])
    BY <1>4 DEF EscalateToAmbiguous, old
  <2> QED BY <1>0, <1>1, <2>1, TypeSaveLoaded
<1>5. CASE ConfirmTerminal(p, r)
  <2>1. SaveLoaded(p, r, [old EXCEPT !.status = "RECONCILED"])
    BY <1>5 DEF ConfirmTerminal, old
  <2> QED BY <1>0, <1>1, <2>1, TypeSaveLoaded
<1>6. CASE AdoptBrokerState(p, r)
  <2> DEFINE o   == orders[old.brokerId]
             row == [old EXCEPT
                       !.final = IF o.executed = 0 THEN @ ELSE o.executed,
                       !.executed = o.executed,
                       !.status = IF o.state \in Terminal THEN "RECONCILED" ELSE o.state]
  <2>1. SaveLoaded(p, r, row) /\ old.brokerId # NoOrder
    BY <1>6 DEF AdoptBrokerState, ClosedAtBroker, old
  <2>2. o \in Order
    BY <1>0, <2>1 DEF Row, TypeInv, TypeOK
  <2>3. o.executed \in 0..Proposed /\ o.state \in BrokerStatus
    BY <2>2 DEF Order
  <2>4. row \in Row /\ row.brokerId = old.brokerId
    BY <1>0, <2>3 DEF Row
  <2> HIDE DEF row
  <2> QED BY <1>0, <2>1, <2>4, TypeSaveLoaded
<1>7. CASE LeaveUnchanged(p, r)
  <2>1. NoRow \in Row /\ NoRow.brokerId = NoOrder
    BY NoRowType DEF NoRow
  <2>2. /\ loaded' = [loaded EXCEPT ![p][r] = NoRow]
        /\ UNCHANGED <<db, pc, held, mem, attempt, opened, broker, faults>>
    BY <1>7 DEF LeaveUnchanged, Checked
  <2>3. TypeOK'
    BY <2>1, <2>2 DEF TypeInv, TypeOK, broker
  <2>4. IdsAreKnown'
    BY <2>1, <2>2 DEF TypeInv, TypeOK, IdsAreKnown, Known, broker
  <2>5. SubmittingHolds'
    BY <2>2 DEF TypeInv, SubmittingHolds
  <2> QED BY <2>3, <2>4, <2>5 DEF TypeInv
<1> QED BY <1>2, <1>3, <1>4, <1>5, <1>6, <1>7 DEF ReconcileRecord

\* The frame of reconcile: loading rows, listing orders, ending the pass.
LEMMA TypeReconcile ==
  ASSUME TypeInv, NEW p \in Invocation, Reconcile(p)
  PROVE  TypeInv'
<1>0. NoRow \in Row /\ NoRow.brokerId = NoOrder
  BY NoRowType DEF NoRow
<1> USE DEF TypeInv, TypeOK, IdsAreKnown, SubmittingHolds, Known, broker
<1>1. CASE LoadUnresolved(p)
  BY <1>0, <1>1 DEF LoadUnresolved
<1>2. CASE ListOpenOrders(p)
  <2>1. OpenOrders \in [OrderId -> Order \cup {NoOrder}]
    BY DEF OpenOrders
  <2>2. \A o \in OrderId : OpenOrders[o] # NoOrder => orders[o] # NoOrder
    BY DEF OpenOrders
  <2> QED BY <1>2, <2>1, <2>2 DEF ListOpenOrders
<1>3. CASE EndReconcile(p)
  BY <1>0, <1>3 DEF EndReconcile, NoRows, NoOrders
<1> QED BY <1>1, <1>2, <1>3, TypeReconcileRecord DEF Reconcile

\* The operator saves a row: what the call may put in it.
LEMMA TypeResolve ==
  ASSUME TypeInv, NEW r \in Record, NEW row \in Row,
         row.brokerId # NoOrder => orders[row.brokerId] # NoOrder,
         Resolve(r, row)
  PROVE  TypeInv'
BY DEF Resolve, TypeInv, TypeOK, IdsAreKnown, SubmittingHolds, Known, local, broker

LEMMA TypeOperator ==
  ASSUME TypeInv, NEW r \in Record, OperatorResolves(r)
  PROVE  TypeInv'
<1>0. /\ db[r] \in Row
      /\ db[r].brokerId # NoOrder => orders[db[r].brokerId] # NoOrder
  BY DEF TypeInv, TypeOK, IdsAreKnown, Known
<1>1. ASSUME NEW o \in OrderId, OperatorFinds(r, o)
      PROVE  TypeInv'
  <2> DEFINE row == [db[r] EXCEPT !.status = orders[o].state, !.brokerId = o,
                                  !.executed = orders[o].executed]
  <2>1. orders[o] # NoOrder /\ orders[o] \in Order
    BY <1>1 DEF OperatorFinds, IdsAreKnown, TypeInv, TypeOK
  <2>2. row \in Row /\ row.brokerId = o
    BY <1>0, <2>1 DEF Row, Order
  <2>3. Resolve(r, row)
    BY <1>1 DEF OperatorFinds
  <2> HIDE DEF row
  <2> QED BY <2>1, <2>2, <2>3, TypeResolve
<1>2. ASSUME NEW target \in Status, OperatorRulesOut(r, target)
      PROVE  TypeInv'
  <2> DEFINE row == [db[r] EXCEPT !.status = target]
  <2>1. row \in Row /\ row.brokerId = db[r].brokerId
    BY <1>0 DEF Row
  <2>2. Resolve(r, row)
    BY <1>2 DEF OperatorRulesOut
  <2> HIDE DEF row
  <2> QED BY <1>0, <2>1, <2>2, TypeResolve
<1> QED BY <1>1, <1>2 DEF OperatorResolves

\* The broker fills, cancels or rejects an order; none leaves the book.
LEMMA TypeBroker ==
  ASSUME TypeInv, NEW o \in OrderId, BrokerStep(o)
  PROVE  TypeInv'
<1>1. ASSUME NEW state \in BrokerStatus, NEW executed \in 0..Proposed,
             BrokerMoves(o, state, executed)
      PROVE  TypeInv'
  <2> DEFINE order == [orders[o] EXCEPT !.state = state, !.executed = executed]
  <2>1. orders[o] \in Order
    BY <1>1 DEF BrokerMoves, TypeInv, TypeOK
  <2>2. order \in Order
    BY <2>1 DEF Order
  <2>3. orders' = [orders EXCEPT ![o] = order]
    BY <1>1 DEF BrokerMoves
  <2> HIDE DEF order
  <2>4. order # NoOrder
    BY <2>2, NullAssumption
  <2>5. UNCHANGED <<db, pc, held, mem, attempt, loaded, opened, accepted, faults>>
    BY <1>1 DEF BrokerMoves, local
  <2>6. TypeOK'
    BY <2>2, <2>3, <2>5 DEF TypeInv, TypeOK
  <2>7. \A a \in OrderId : orders[a] # NoOrder => orders'[a] # NoOrder
    BY <2>3, <2>4 DEF TypeInv, TypeOK
  <2>8. IdsAreKnown' /\ SubmittingHolds'
    BY <2>5, <2>7 DEF TypeInv, TypeOK, IdsAreKnown, Known, SubmittingHolds, Row
  <2> QED BY <2>6, <2>8 DEF TypeInv
<1>2. ASSUME orders[o] # NoOrder
      PROVE  orders[o].executed \in 0..Proposed /\ orders[o].quantity \in 0..Proposed
  <2>1. orders[o] \in Order
    BY <1>2 DEF TypeInv, TypeOK
  <2> QED BY <2>1, QuantityAssumption DEF Order
<1>3. ASSUME NEW executed \in 1..Proposed, PartialFill(o, executed)
      PROVE  TypeInv'
  <2>1. executed \in 0..Proposed
    BY QuantityAssumption
  <2> QED BY <1>1, <1>3, <2>1 DEF PartialFill
<1>4. CASE Fill(o)
  BY <1>1, <1>2, <1>4 DEF Fill, BrokerMoves
<1>5. CASE Cancel(o)
  BY <1>1, <1>2, <1>5 DEF Cancel, BrokerMoves
<1>6. CASE Reject(o)
  BY <1>1, <1>2, <1>6 DEF Reject
<1> QED BY <1>3, <1>4, <1>5, <1>6 DEF BrokerStep

LEMMA TypeCrash ==
  ASSUME TypeInv, NEW p \in Invocation, Crash(p)
  PROVE  TypeInv'
<1>1. NoRow \in Row /\ NoRow.brokerId = NoOrder
  BY NoRowType DEF NoRow
<1>2. faults' \in 0..MaxFaults
  BY FaultsAssumption DEF Crash, TypeInv, TypeOK
<1> QED BY <1>1, <1>2, AttemptsAssumption
        DEF Crash, TypeInv, TypeOK, IdsAreKnown, SubmittingHolds, Known, broker,
            NoRows, NoOrders

LEMMA TypeStep == TypeInv /\ [Next]_vars => TypeInv'
<1> SUFFICES ASSUME TypeInv, [Next]_vars PROVE TypeInv'
  OBVIOUS
<1>1. ASSUME NEW p \in Invocation, Invoke(p)
      PROVE  TypeInv'
  <2>1. CASE ProcessOrder(p)
    BY <2>1, TypeSaves, TypeSubmission DEF ProcessOrder
  <2>2. ASSUME NEW r \in Record, CreateProposal(p, r) \/ TakeRecord(p, r)
        PROVE  TypeInv'
    BY <2>2, TypeCallers
  <2>3. CASE Abandon(p)
    BY <2>3, TypeAbandon
  <2> QED BY <1>1, <2>1, <2>2, <2>3, TypeReconcile, TypeCrash DEF Invoke
<1>2. CASE UNCHANGED vars
  BY <1>2 DEF vars, TypeInv, TypeOK, IdsAreKnown, Known, SubmittingHolds
<1> QED BY <1>1, <1>2, TypeOperator, TypeBroker DEF Next

\* Every variable keeps its type in every behaviour of the code: no poll or
\* reconciliation reads an order the broker does not have, and submit_order
\* always finds the record it is called for.
THEOREM TypeCorrect == Spec => []TypeOK
<1>1. Spec => []TypeInv
  BY TypeInit, TypeStep, PTL DEF Spec
<1>2. TypeInv => TypeOK
  BY DEF TypeInv
<1> QED BY <1>1, <1>2, PTL

-----------------------------------------------------------------------------
(* What a row says of its order, for any number of overlapping invocations  *)
(* and of attempts: a row, an in-memory record and a row on reconcile()'s   *)
(* list say only what the broker said, and the broker's own orders move one *)
(* way.                                                                     *)

USE DEF Status, Unsent, Terminal, Live, BrokerStatus

\* What may become of an order: it fills up, and what is over stays as it is.
Later(new, old) ==
  /\ new \in Order /\ new.ref = old.ref
  /\ old.executed <= new.executed
  /\ old.state # "PENDING" => new.state # "PENDING"
  /\ old.state \in Terminal => new.state = old.state /\ new.executed = old.executed

Forward(new, old) == \A o \in OrderId : old[o] # NoOrder => Later(new[o], old[o])

\* What a copy of a row may say, given the order book: nothing of an order
\* before it has an id, then only what the broker has said of that order.
Truthful(row, book) ==
  /\ row.status \in Unsent \cup {"ABSENT", "SUBMITTED", "AMBIGUOUS"} => row.brokerId = NoOrder
  /\ row.brokerId = NoOrder => row.executed = 0
  /\ row.brokerId # NoOrder =>
       LET o == book[row.brokerId] IN
         /\ o \in Order
         /\ row.executed <= o.executed
         /\ row.status \in Terminal => o.state = row.status /\ o.executed = row.executed
         /\ row.status = "PARTIALLY_FILLED" => o.state # "PENDING"
         /\ row.status = "RECONCILED" => o.state \in Terminal /\ o.executed = row.executed

\* What reconcile() has listed is of an order's past, and was not over then.
SeenTruly(snapshot, book) ==
  /\ Forward(book, snapshot)
  /\ \A o \in OrderId :
       snapshot[o] # NoOrder => snapshot[o].state \notin {"FILLED", "CANCELLED"}

NeverOverfilled(book) ==
  \A o \in OrderId : book[o] # NoOrder => book[o].executed <= book[o].quantity

\* Every copy of a row is truthful, and a request is about a record that has no
\* id yet.
TruthInv ==
  /\ \A r \in Record : Truthful(db[r], orders)
  /\ \A p \in Invocation : Truthful(mem[p], orders)
  /\ \A p \in Invocation : \A r \in Record : Truthful(loaded[p][r], orders)
  /\ \A p \in Invocation : SeenTruly(opened[p], orders)
  /\ NeverOverfilled(orders)
  /\ \A p \in Invocation : pc[p] = "submitting" => mem[p].status = "SUBMITTED"

LEMMA NoRowIsTruthful == \A book : Truthful(NoRow, book)
BY DEF Truthful, NoRow

LEMMA TruthInit == Init => TruthInv
BY NoRowIsTruthful
   DEF Init, TruthInv, SeenTruly, Forward, NeverOverfilled, NoRows, NoOrders

-----------------------------------------------------------------------------
(* The broker's side: an order only moves forward.                         *)

LEMMA SameIsForward == TypeInv => Forward(orders, orders)
BY DEF Forward, Later, TypeInv, TypeOK, Order

\* One move of the broker on one order: up, and not once the order is over.
LEMMA BrokerMoveIsForward ==
  ASSUME TypeInv, NeverOverfilled(orders), NEW o \in OrderId,
         NEW state \in BrokerStatus \ {"PENDING"}, NEW executed \in 0..Proposed,
         BrokerMoves(o, state, executed),
         orders[o].executed <= executed, executed <= orders[o].quantity
  PROVE  Forward(orders', orders) /\ NeverOverfilled(orders')
<1> DEFINE order == [orders[o] EXCEPT !.state = state, !.executed = executed]
<1>1. orders[o] \in Order /\ orders[o].state \in Live
  BY DEF BrokerMoves, TypeInv, TypeOK
<1>2. /\ order \in Order /\ order.ref = orders[o].ref /\ order.quantity = orders[o].quantity
      /\ order.state = state /\ order.executed = executed
  BY <1>1 DEF Order
<1>3. orders' = [orders EXCEPT ![o] = order]
  BY DEF BrokerMoves
<1> HIDE DEF order
<1>4. orders'[o] = order /\ \A a \in OrderId : a # o => orders'[a] = orders[a]
  BY <1>3 DEF TypeInv, TypeOK
<1>5. Later(order, orders[o])
  BY <1>1, <1>2 DEF Later
<1>6. Forward(orders', orders)
  BY <1>4, <1>5, SameIsForward DEF Forward
<1>7. NeverOverfilled(orders')
  BY <1>2, <1>4 DEF NeverOverfilled
<1> QED BY <1>6, <1>7

LEMMA BrokerStepIsForward ==
  ASSUME TypeInv, NeverOverfilled(orders), NEW o \in OrderId, BrokerStep(o)
  PROVE  Forward(orders', orders) /\ NeverOverfilled(orders')
<1>1. /\ orders[o].executed \in 0..Proposed /\ orders[o].quantity \in 0..Proposed
      /\ orders[o].executed <= orders[o].quantity
  <2>1. orders[o] # NoOrder /\ orders[o] \in Order
    BY DEF BrokerStep, PartialFill, Fill, Cancel, Reject, BrokerMoves, TypeInv, TypeOK
  <2> QED BY <2>1, QuantityAssumption DEF Order, NeverOverfilled
<1>2. ASSUME NEW executed \in 1..Proposed, PartialFill(o, executed)
      PROVE  Forward(orders', orders) /\ NeverOverfilled(orders')
  <2>1. /\ executed \in 0..Proposed /\ orders[o].executed <= executed
        /\ executed <= orders[o].quantity
    BY <1>1, <1>2, QuantityAssumption DEF PartialFill
  <2> QED BY <1>2, <2>1, BrokerMoveIsForward DEF PartialFill
<1>3. CASE Fill(o)
  BY <1>1, <1>3, BrokerMoveIsForward DEF Fill
<1>4. CASE Cancel(o)
  BY <1>1, <1>4, BrokerMoveIsForward DEF Cancel
<1>5. CASE Reject(o)
  BY <1>1, <1>5, BrokerMoveIsForward DEF Reject
<1> QED BY <1>2, <1>3, <1>4, <1>5 DEF BrokerStep

\* A new order has executed nothing, and leaves the others alone.
LEMMA PlaceIsForward ==
  ASSUME TypeInv, NeverOverfilled(orders), NEW p \in Invocation, NEW o \in OrderId,
         pc[p] = "submitting", Place(held[p], o, OrderQuantity(mem[p]))
  PROVE  /\ Forward(orders', orders) /\ NeverOverfilled(orders')
         /\ orders'[o] \in Order /\ orders'[o].executed = 0 /\ orders'[o].ref = RefOf[held[p]]
<1> DEFINE order == [ref |-> RefOf[held[p]], state |-> "PENDING",
                     quantity |-> OrderQuantity(mem[p]), executed |-> 0]
<1>1. held[p] \in Record /\ mem[p] \in Row
  BY DEF TypeInv, TypeOK, SubmittingHolds
<1>2. OrderQuantity(mem[p]) \in 1..Proposed
  BY <1>1, QuantityAssumption DEF OrderQuantity, Row
<1>3. order \in Order /\ order.executed <= order.quantity
  BY <1>1, <1>2, ReferenceAssumption, QuantityAssumption DEF Order
<1>4. orders[o] = NoOrder /\ orders'[o] = order
      /\ \A a \in OrderId : a # o => orders'[a] = orders[a]
  BY DEF Place, TypeInv, TypeOK
<1>5. Forward(orders', orders)
  BY <1>4, SameIsForward DEF Forward
<1>6. NeverOverfilled(orders')
  BY <1>3, <1>4 DEF NeverOverfilled
<1> QED BY <1>3, <1>4, <1>5, <1>6

\* Whatever step is taken, every order is what it was or further on.
LEMMA OrdersMoveForward ==
  ASSUME TypeInv, NeverOverfilled(orders), [Next]_vars
  PROVE  Forward(orders', orders) /\ NeverOverfilled(orders')
<1>1. ASSUME orders' = orders
      PROVE  Forward(orders', orders) /\ NeverOverfilled(orders')
  BY <1>1, SameIsForward
<1>2. ASSUME NEW p \in Invocation, ProcessOrder(p)
      PROVE  Forward(orders', orders) /\ NeverOverfilled(orders')
  <2>1. ASSUME NEW o \in OrderId, SubmitAcknowledged(p, o) \/ SubmitUnanswered(p, o)
        PROVE  Forward(orders', orders) /\ NeverOverfilled(orders')
    BY <2>1, PlaceIsForward DEF SubmitAcknowledged, SubmitUnanswered
  <2>2. CASE \/ \E quantity \in 1..Proposed : VerifyApproved(p, quantity)
             \/ VerifyRejected(p) \/ SubmitIntent(p) \/ SubmitNotReceived(p)
             \/ SubmitRefused(p) \/ RecordPending(p) \/ LoseAcknowledgement(p) \/ Poll(p)
    BY <1>1, <2>2 DEF VerifyApproved, VerifyRejected, SubmitIntent, SubmitNotReceived,
         SubmitRefused, RecordPending, LoseAcknowledgement, Poll, SaveHeld, broker
  <2> QED BY <1>2, <2>1, <2>2 DEF ProcessOrder
<1>3. ASSUME NEW p \in Invocation, Reconcile(p)
      PROVE  orders' = orders
  BY <1>3 DEF Reconcile, LoadUnresolved, ListOpenOrders, EndReconcile, ReconcileRecord,
       ConfirmUnsubmitted, AdoptByReference, EscalateToAmbiguous, ConfirmTerminal,
       AdoptBrokerState, LeaveUnchanged, SaveLoaded, broker
<1>4. ASSUME NEW p \in Invocation, NEW r \in Record, CreateProposal(p, r) \/ TakeRecord(p, r)
      PROVE  orders' = orders
  BY <1>4 DEF CreateProposal, TakeRecord, broker
<1>5. ASSUME NEW p \in Invocation, Abandon(p) \/ Crash(p)
      PROVE  orders' = orders
  BY <1>5 DEF Abandon, Crash, broker
<1>6. ASSUME NEW r \in Record, OperatorResolves(r)
      PROVE  orders' = orders
  BY <1>6 DEF OperatorResolves, OperatorFinds, OperatorRulesOut, Resolve, broker
<1>7. CASE UNCHANGED vars
  BY <1>1, <1>7 DEF vars, broker
<1> QED BY <1>1, <1>2, <1>3, <1>4, <1>5, <1>6, <1>7, BrokerStepIsForward DEF Next, Invoke

-----------------------------------------------------------------------------
(* Copies of rows.                                                         *)

\* What a copy says of an order stays true while the order moves on.
LEMMA TruthfulKept ==
  ASSUME NEW row \in Row, Truthful(row, orders), Forward(orders', orders)
  PROVE  Truthful(row, orders')
<1>1. CASE row.brokerId = NoOrder
  BY <1>1 DEF Truthful
<1>2. CASE row.brokerId # NoOrder
  <2> DEFINE a == row.brokerId
  <2>1. a \in OrderId /\ orders[a] \in Order /\ orders[a] # NoOrder
    BY <1>2, NullAssumption DEF Truthful, Row
  <2>2. Later(orders'[a], orders[a])
    BY <2>1 DEF Forward
  <2>3. /\ row.executed \in Int /\ orders[a].executed \in Int /\ orders'[a].executed \in Int
    BY <2>1, <2>2 DEF Later, Order, Row
  <2> QED BY <1>2, <2>1, <2>2, <2>3 DEF Later, Truthful
<1> QED BY <1>1, <1>2

\* A snapshot of the past stays one.
LEMMA SeenTrulyKept ==
  ASSUME NEW snapshot \in [OrderId -> Order \cup {NoOrder}], SeenTruly(snapshot, orders),
         Forward(orders', orders)
  PROVE  SeenTruly(snapshot, orders')
<1> SUFFICES ASSUME NEW o \in OrderId, snapshot[o] # NoOrder
             PROVE  Later(orders'[o], snapshot[o])
  BY DEF SeenTruly, Forward
<1>1. snapshot[o] \in Order /\ Later(orders[o], snapshot[o])
  BY DEF SeenTruly, Forward
<1>2. Later(orders'[o], orders[o])
  BY <1>1, NullAssumption DEF Later, Forward
<1>3. /\ snapshot[o].executed \in Int /\ orders[o].executed \in Int
      /\ orders'[o].executed \in Int
  BY <1>1, <1>2 DEF Later, Order
<1> QED BY <1>1, <1>2, <1>3 DEF Later

\* A step keeps the invariant if every copy it makes is truthful.
LEMMA TruthFrame ==
  ASSUME TypeInv, TruthInv, [Next]_vars,
         \A r \in Record : db'[r] = db[r] \/ Truthful(db'[r], orders'),
         \A p \in Invocation : mem'[p] = mem[p] \/ Truthful(mem'[p], orders'),
         \A p \in Invocation : \A r \in Record :
           loaded'[p][r] = loaded[p][r] \/ Truthful(loaded'[p][r], orders'),
         \A p \in Invocation : opened'[p] = opened[p] \/ SeenTruly(opened'[p], orders'),
         \A p \in Invocation : pc'[p] = "submitting" => mem'[p].status = "SUBMITTED"
  PROVE  TruthInv'
<1>1. Forward(orders', orders) /\ NeverOverfilled(orders')
  BY OrdersMoveForward DEF TruthInv
<1>2. \A r \in Record : Truthful(db'[r], orders')
  BY <1>1, TruthfulKept DEF TruthInv, TypeInv, TypeOK
<1>3. \A p \in Invocation : Truthful(mem'[p], orders')
  BY <1>1, TruthfulKept DEF TruthInv, TypeInv, TypeOK
<1>4. \A p \in Invocation : \A r \in Record : Truthful(loaded'[p][r], orders')
  BY <1>1, TruthfulKept DEF TruthInv, TypeInv, TypeOK
<1>5. \A p \in Invocation : SeenTruly(opened'[p], orders')
  BY <1>1, SeenTrulyKept DEF TruthInv, TypeInv, TypeOK
<1> QED BY <1>1, <1>2, <1>3, <1>4, <1>5 DEF TruthInv

-----------------------------------------------------------------------------
(* Every new copy is truthful, action by action.                           *)

\* A copy of what was seen of an order, and has not been overtaken unless it
\* was seen while the order was under way.
LEMMA CopyIsTruthful ==
  ASSUME NEW book, NEW row \in Row, NEW seen \in Order, row.brokerId \in OrderId,
         Later(book[row.brokerId], seen),
         row.status = seen.state, row.executed = seen.executed
  PROVE  Truthful(row, book)
<1>1. row.brokerId # NoOrder /\ book[row.brokerId] \in Order
  BY NullAssumption DEF Later
<1>2. row.status \in BrokerStatus
  BY DEF Order
<1> QED BY <1>1, <1>2 DEF Truthful, Later

\* The rows process_order saves: verification, intent, polls.
LEMMA TruthSaveHeld ==
  ASSUME TypeInv, TruthInv, [Next]_vars, NEW p \in Invocation, held[p] \in Record,
         NEW row, SaveHeld(p, row), Truthful(row, orders),
         pc' = pc \/ (\E s \in {"ready", "submitting"} :
                        pc' = [pc EXCEPT ![p] = s] /\ (s = "submitting" => row.status = "SUBMITTED")),
         pc'[p] = "submitting" => row.status = "SUBMITTED"
  PROVE  TruthInv'
<1>1. orders' = orders /\ UNCHANGED <<loaded, opened>>
  BY DEF SaveHeld, broker
<1>2. \A r \in Record : db'[r] = db[r] \/ db'[r] = row
  BY DEF SaveHeld, TypeInv, TypeOK
<1>3. mem'[p] = row /\ \A q \in Invocation : q # p => mem'[q] = mem[q] /\ pc'[q] = pc[q]
  BY DEF SaveHeld, TypeInv, TypeOK
<1>4. \A q \in Invocation : pc'[q] = "submitting" => mem'[q].status = "SUBMITTED"
  BY <1>3 DEF TruthInv
<1> QED BY <1>1, <1>2, <1>3, <1>4, TruthFrame

LEMMA TruthSaves ==
  ASSUME TypeInv, TruthInv, [Next]_vars, NEW p \in Invocation,
         \/ \E quantity \in 1..Proposed : VerifyApproved(p, quantity)
         \/ VerifyRejected(p)
         \/ SubmitIntent(p)
         \/ RecordPending(p)
         \/ Poll(p)
  PROVE  TruthInv'
<1> DEFINE old == mem[p]
<1>0. /\ old \in Row /\ Truthful(old, orders)
      /\ held[p] \in Record \cup {NoRecord}
      /\ pc[p] = "acknowledged" => held[p] \in Record
  BY DEF TypeInv, TypeOK, TruthInv, SubmittingHolds
<1> HIDE DEF old
<1>1. ASSUME NEW quantity \in 1..Proposed, VerifyApproved(p, quantity)
      PROVE  TruthInv'
  <2> DEFINE row == [old EXCEPT !.status = "VERIFIED", !.final = quantity]
  <2>1. old.status = "PROPOSAL" /\ held[p] \in Record /\ pc[p] = "ready"
    BY <1>0, <1>1 DEF VerifyApproved, Processing, old
  <2>2. Truthful(row, orders)
    BY <1>0, <2>1 DEF Truthful, Row
  <2>3. SaveHeld(p, row) /\ pc' = pc
    BY <1>1 DEF VerifyApproved, old
  <2> HIDE DEF row
  <2> QED BY <2>1, <2>2, <2>3, TruthSaveHeld
<1>2. CASE VerifyRejected(p)
  <2> DEFINE row == [old EXCEPT !.status = "FAILED"]
  <2>1. old.status = "PROPOSAL" /\ held[p] \in Record /\ pc[p] = "ready"
    BY <1>0, <1>2 DEF VerifyRejected, Processing, old
  <2>2. Truthful(row, orders)
    BY <1>0, <2>1 DEF Truthful, Row
  <2>3. SaveHeld(p, row) /\ pc' = pc
    BY <1>2 DEF VerifyRejected, old
  <2> HIDE DEF row
  <2> QED BY <2>1, <2>2, <2>3, TruthSaveHeld
<1>3. CASE SubmitIntent(p)
  <2> DEFINE row == [old EXCEPT !.status = "SUBMITTED"]
  <2>1. old.status = "VERIFIED" /\ held[p] \in Record
    BY <1>0, <1>3 DEF SubmitIntent, Processing, old
  <2>2. Truthful(row, orders) /\ row.status = "SUBMITTED"
    BY <1>0, <2>1 DEF Truthful, Row
  <2>3. SaveHeld(p, row) /\ pc' = [pc EXCEPT ![p] = "submitting"]
    BY <1>3 DEF SubmitIntent, old
  <2> HIDE DEF row
  <2> QED BY <2>1, <2>2, <2>3, TruthSaveHeld
<1>4. CASE RecordPending(p)
  <2>1. /\ SaveHeld(p, old) /\ pc' = [pc EXCEPT ![p] = "ready"] /\ held[p] \in Record
        /\ pc'[p] = "ready"
    BY <1>0, <1>4 DEF RecordPending, old, TypeInv, TypeOK
  <2> QED BY <1>0, <2>1, TruthSaveHeld
<1>5. CASE Poll(p)
  <2> DEFINE o   == orders[old.brokerId]
             row == [old EXCEPT !.status = o.state, !.executed = o.executed]
  <2>1. /\ old.brokerId # NoOrder /\ held[p] \in Record /\ pc[p] = "ready"
        /\ SaveHeld(p, row) /\ pc' = pc
    BY <1>0, <1>5 DEF Poll, Processing, old
  <2>2. old.brokerId \in OrderId /\ o \in Order /\ o # NoOrder
    BY <1>0, <2>1, NullAssumption DEF Row, Truthful
  <2>3. row \in Row /\ row.brokerId = old.brokerId /\ row.status = o.state
        /\ row.executed = o.executed
    BY <1>0, <2>2 DEF Row, Order
  <2>4. Later(o, o)
    BY <2>2, SameIsForward DEF Forward
  <2> HIDE DEF row
  <2>5. Truthful(row, orders)
    BY <2>2, <2>3, <2>4, CopyIsTruthful
  <2> HIDE DEF o
  <2> QED BY <2>1, <2>5, TruthSaveHeld
<1> QED BY <1>1, <1>2, <1>3, <1>4, <1>5

\* A new order has executed nothing, and so has the row that learns its id.
LEMMA TruthAcknowledged ==
  ASSUME TypeInv, TruthInv, [Next]_vars, NEW p \in Invocation, NEW o \in OrderId,
         SubmitAcknowledged(p, o)
  PROVE  TruthInv'
<1> DEFINE old == mem[p]
           row == [old EXCEPT !.brokerId = o, !.status = "PENDING"]
<1>1. old \in Row /\ old.executed = 0
  BY DEF SubmitAcknowledged, TypeInv, TypeOK, TruthInv, Truthful
<1>2. orders'[o] \in Order /\ orders'[o].executed = 0
  BY PlaceIsForward DEF SubmitAcknowledged, TruthInv
<1>3. row.brokerId = o /\ row.status = "PENDING" /\ row.executed = 0
  BY <1>1 DEF Row
<1>4. /\ mem' = [mem EXCEPT ![p] = row] /\ pc' = [pc EXCEPT ![p] = "acknowledged"]
      /\ UNCHANGED <<db, loaded, opened>>
  BY DEF SubmitAcknowledged
<1> HIDE DEF row
<1>5. Truthful(row, orders')
  BY <1>2, <1>3, NullAssumption DEF Truthful
<1>6. \A q \in Invocation : mem'[q] = mem[q] \/ mem'[q] = row
  BY <1>4 DEF TypeInv, TypeOK
<1>7. \A q \in Invocation : pc'[q] = "submitting" => mem'[q].status = "SUBMITTED"
  BY <1>4 DEF TypeInv, TypeOK, TruthInv
<1> QED BY <1>4, <1>5, <1>6, <1>7, TruthFrame

\* A submission that ends without an id says nothing new.
LEMMA TruthFailedSubmission ==
  ASSUME TypeInv, TruthInv, [Next]_vars, NEW p \in Invocation,
         \/ \E o \in OrderId : SubmitUnanswered(p, o)
         \/ SubmitNotReceived(p) \/ SubmitRefused(p) \/ LoseAcknowledgement(p)
  PROVE  TruthInv'
<1>1. /\ UNCHANGED <<db, loaded, opened>>
      /\ GiveUpSubmitting(p) \/ UNCHANGED <<pc, held, mem>>
  BY DEF SubmitUnanswered, SubmitNotReceived, SubmitRefused, LoseAcknowledgement, RetryOrGiveUp
<1>2. \A q \in Invocation : mem'[q] = mem[q] \/ mem'[q] = NoRow
  BY <1>1 DEF GiveUpSubmitting, TypeInv, TypeOK
<1>3. \A q \in Invocation : pc'[q] = "submitting" => mem'[q].status = "SUBMITTED"
  BY <1>1 DEF GiveUpSubmitting, TypeInv, TypeOK, TruthInv
<1> QED BY <1>1, <1>2, <1>3, TruthFrame, NoRowIsTruthful

\* Taking a record up, or letting go of it, copies a row or none.
LEMMA TruthCallers ==
  ASSUME TypeInv, TruthInv, [Next]_vars, NEW p \in Invocation,
         \/ \E r \in Record : CreateProposal(p, r) \/ TakeRecord(p, r)
         \/ Abandon(p) \/ Crash(p)
  PROVE  TruthInv'
<1>1. ASSUME NEW r \in Record, CreateProposal(p, r)
      PROVE  TruthInv'
  <2> DEFINE row == [NoRow EXCEPT !.status = "PROPOSAL"]
  <2>1. row.brokerId = NoOrder /\ row.executed = 0 /\ row.status = "PROPOSAL"
    BY DEF NoRow
  <2>2. Truthful(row, orders')
    BY <2>1 DEF Truthful
  <2>3. /\ mem' = [mem EXCEPT ![p] = row] /\ db' = [db EXCEPT ![r] = mem'[p]]
        /\ pc[p] = "ready" /\ UNCHANGED <<pc, loaded, opened>>
    BY <1>1 DEF CreateProposal, Idle
  <2> HIDE DEF row
  <2>4. mem'[p] = row /\ \A q \in Invocation : q # p => mem'[q] = mem[q]
    BY <2>3 DEF TypeInv, TypeOK
  <2>5. \A q \in Record : db'[q] = db[q] \/ db'[q] = row
    BY <2>3, <2>4 DEF TypeInv, TypeOK
  <2>6. \A q \in Invocation : pc'[q] = "submitting" => mem'[q].status = "SUBMITTED"
    BY <2>3, <2>4 DEF TruthInv
  <2> QED BY <2>2, <2>3, <2>4, <2>5, <2>6, TruthFrame
<1>2. ASSUME NEW r \in Record, TakeRecord(p, r)
      PROVE  TruthInv'
  <2>1. /\ mem' = [mem EXCEPT ![p] = db[r]] /\ pc[p] = "ready"
        /\ UNCHANGED <<db, pc, loaded, opened, orders>>
    BY <1>2 DEF TakeRecord, Idle, broker
  <2>2. \A q \in Invocation : mem'[q] = mem[q] \/ mem'[q] = db[r]
    BY <2>1 DEF TypeInv, TypeOK
  <2>3. Truthful(db[r], orders')
    BY <2>1 DEF TruthInv
  <2>4. \A q \in Invocation : pc'[q] = "submitting" => mem'[q].status = "SUBMITTED"
    BY <2>1 DEF TypeInv, TypeOK, TruthInv
  <2> QED BY <2>1, <2>2, <2>3, <2>4, TruthFrame
<1>3. CASE Abandon(p) \/ Crash(p)
  <2>1. \A q \in Invocation : mem'[q] = mem[q] \/ mem'[q] = NoRow
    BY <1>3 DEF Abandon, Crash, TypeInv, TypeOK
  <2>2. \A q \in Invocation : \A r \in Record :
          loaded'[q][r] = loaded[q][r] \/ loaded'[q][r] = NoRow
    BY <1>3 DEF Abandon, Crash, TypeInv, TypeOK, NoRows
  <2>3. \A q \in Invocation : opened'[q] = opened[q] \/ SeenTruly(opened'[q], orders')
    BY <1>3 DEF Abandon, Crash, TypeInv, TypeOK, NoOrders, SeenTruly, Forward
  <2>4. \A q \in Invocation : pc'[q] = "submitting" => mem'[q].status = "SUBMITTED"
    BY <1>3 DEF Abandon, Crash, TypeInv, TypeOK, TruthInv
  <2>5. db' = db
    BY <1>3 DEF Abandon, Crash
  <2> QED BY <2>1, <2>2, <2>3, <2>4, <2>5, TruthFrame, NoRowIsTruthful
<1> QED BY <1>1, <1>2, <1>3

\* What reconcile() saves, and the frame of every such save.
LEMMA TruthSaveLoaded ==
  ASSUME TypeInv, TruthInv, [Next]_vars, NEW p \in Invocation, NEW r \in Record,
         NEW row, SaveLoaded(p, r, row), Truthful(row, orders)
  PROVE  TruthInv'
<1>1. orders' = orders /\ UNCHANGED <<pc, mem, opened>>
  BY DEF SaveLoaded, broker
<1>2. \A q \in Record : db'[q] = db[q] \/ db'[q] = row
  BY DEF SaveLoaded, TypeInv, TypeOK
<1>3. \A i \in Invocation : \A q \in Record :
        loaded'[i][q] = loaded[i][q] \/ loaded'[i][q] = NoRow
  BY DEF SaveLoaded, Checked, TypeInv, TypeOK
<1>4. \A q \in Invocation : pc'[q] = "submitting" => mem'[q].status = "SUBMITTED"
  BY <1>1 DEF TruthInv
<1> QED BY <1>1, <1>2, <1>3, <1>4, TruthFrame, NoRowIsTruthful

LEMMA TruthReconcileRecord ==
  ASSUME TypeInv, TruthInv, [Next]_vars, NEW p \in Invocation, NEW r \in Record,
         ReconcileRecord(p, r)
  PROVE  TruthInv'
<1> DEFINE old == loaded[p][r]
<1>0. old \in Row /\ Truthful(old, orders)
  BY DEF TypeInv, TypeOK, TruthInv
<1> HIDE DEF old
<1>1. CASE ConfirmUnsubmitted(p, r) \/ EscalateToAmbiguous(p, r)
  <2>1. PICK s \in {"RECONCILED", "AMBIGUOUS"} :
          old.brokerId = NoOrder /\ SaveLoaded(p, r, [old EXCEPT !.status = s])
    BY <1>1 DEF ConfirmUnsubmitted, EscalateToAmbiguous, old
  <2>2. Truthful([old EXCEPT !.status = s], orders)
    BY <1>0, <2>1 DEF Truthful, Row
  <2> QED BY <2>1, <2>2, TruthSaveLoaded
<1>2. CASE AdoptByReference(p, r)
  <2>1. PICK o \in Matches(p, r) :
          SaveLoaded(p, r, [old EXCEPT !.brokerId = o, !.status = opened[p][o].state,
                                       !.executed = opened[p][o].executed])
    BY <1>2 DEF AdoptByReference, old
  <2>2. o \in OrderId /\ opened[p][o] \in Order /\ Later(orders[o], opened[p][o])
    BY DEF Matches, TypeInv, TypeOK, TruthInv, SeenTruly, Forward
  <2> DEFINE row == [old EXCEPT !.brokerId = o, !.status = opened[p][o].state,
                                !.executed = opened[p][o].executed]
  <2>3. /\ row \in Row /\ row.brokerId = o /\ row.status = opened[p][o].state
        /\ row.executed = opened[p][o].executed
    BY <1>0, <2>2 DEF Row, Order
  <2>4. SaveLoaded(p, r, row)
    BY <2>1
  <2> HIDE DEF row
  <2>5. Truthful(row, orders)
    BY <2>2, <2>3, CopyIsTruthful
  <2> QED BY <2>4, <2>5, TruthSaveLoaded
<1>3. CASE ConfirmTerminal(p, r)
  <2>1. /\ SaveLoaded(p, r, [old EXCEPT !.status = "RECONCILED"])
        /\ old.brokerId # NoOrder /\ old.status \in Terminal
    BY <1>3 DEF ConfirmTerminal, ClosedAtBroker, old
  <2>2. Truthful([old EXCEPT !.status = "RECONCILED"], orders)
    BY <1>0, <2>1 DEF Truthful, Row
  <2> QED BY <2>1, <2>2, TruthSaveLoaded
<1>4. CASE AdoptBrokerState(p, r)
  <2> DEFINE o   == orders[old.brokerId]
             row == [old EXCEPT
                       !.final = IF o.executed = 0 THEN @ ELSE o.executed,
                       !.executed = o.executed,
                       !.status = IF o.state \in Terminal THEN "RECONCILED" ELSE o.state]
  <2>1. SaveLoaded(p, r, row) /\ old.brokerId # NoOrder
    BY <1>4 DEF AdoptBrokerState, ClosedAtBroker, old
  <2>2. o \in Order
    BY <1>0, <2>1 DEF Truthful
  <2>3. o.executed \in 0..Proposed /\ o.state \in BrokerStatus
    BY <2>2 DEF Order
  <2>4. /\ row.brokerId = old.brokerId /\ row.executed = o.executed
        /\ row.status = IF o.state \in Terminal THEN "RECONCILED" ELSE o.state
    BY <1>0, <2>3 DEF Row
  <2> HIDE DEF row
  <2>5. Truthful(row, orders)
    BY <2>1, <2>2, <2>3, <2>4 DEF Truthful
  <2> QED BY <2>1, <2>5, TruthSaveLoaded
<1>5. CASE LeaveUnchanged(p, r)
  <2>1. \A i \in Invocation : \A q \in Record :
          loaded'[i][q] = loaded[i][q] \/ loaded'[i][q] = NoRow
    BY <1>5 DEF LeaveUnchanged, Checked, TypeInv, TypeOK
  <2>2. UNCHANGED <<db, pc, mem, opened>>
    BY <1>5 DEF LeaveUnchanged
  <2>3. \A q \in Invocation : pc'[q] = "submitting" => mem'[q].status = "SUBMITTED"
    BY <2>2 DEF TruthInv
  <2> QED BY <2>1, <2>2, <2>3, TruthFrame, NoRowIsTruthful
<1> QED BY <1>1, <1>2, <1>3, <1>4, <1>5 DEF ReconcileRecord

LEMMA TruthReconcile ==
  ASSUME TypeInv, TruthInv, [Next]_vars, NEW p \in Invocation, Reconcile(p)
  PROVE  TruthInv'
<1>1. CASE LoadUnresolved(p)
  <2>1. UNCHANGED <<db, mem, opened, orders>> /\ pc' = [pc EXCEPT ![p] = "listing"]
    BY <1>1 DEF LoadUnresolved, broker
  <2>2. \A i \in Invocation : \A r \in Record :
          \/ loaded'[i][r] = loaded[i][r] \/ loaded'[i][r] = NoRow
          \/ loaded'[i][r] = db[r]
    BY <1>1 DEF LoadUnresolved, TypeInv, TypeOK
  <2>3. \A r \in Record : Truthful(db[r], orders')
    BY <2>1 DEF TruthInv
  <2>4. \A q \in Invocation : pc'[q] = "submitting" => mem'[q].status = "SUBMITTED"
    BY <2>1 DEF TypeInv, TypeOK, TruthInv
  <2> QED BY <2>1, <2>2, <2>3, <2>4, TruthFrame, NoRowIsTruthful
<1>2. CASE ListOpenOrders(p)
  <2>1. /\ UNCHANGED <<db, mem, loaded, orders>> /\ pc' = [pc EXCEPT ![p] = "reconciling"]
        /\ opened' = [opened EXCEPT ![p] = OpenOrders]
    BY <1>2 DEF ListOpenOrders, broker
  <2>2. SeenTruly(OpenOrders, orders)
    BY SameIsForward DEF SeenTruly, Forward, OpenOrders
  <2>3. \A q \in Invocation : opened'[q] = opened[q] \/ SeenTruly(opened'[q], orders')
    BY <2>1, <2>2 DEF TypeInv, TypeOK
  <2>4. \A q \in Invocation : pc'[q] = "submitting" => mem'[q].status = "SUBMITTED"
    BY <2>1 DEF TypeInv, TypeOK, TruthInv
  <2> QED BY <2>1, <2>3, <2>4, TruthFrame
<1>3. CASE EndReconcile(p)
  <2>1. UNCHANGED <<db, mem>> /\ pc' = [pc EXCEPT ![p] = "ready"]
    BY <1>3 DEF EndReconcile
  <2>2. \A q \in Invocation : \A r \in Record :
          loaded'[q][r] = loaded[q][r] \/ loaded'[q][r] = NoRow
    BY <1>3 DEF EndReconcile, TypeInv, TypeOK, NoRows
  <2>3. \A q \in Invocation : opened'[q] = opened[q] \/ SeenTruly(opened'[q], orders')
    BY <1>3 DEF EndReconcile, TypeInv, TypeOK, NoOrders, SeenTruly, Forward
  <2>4. \A q \in Invocation : pc'[q] = "submitting" => mem'[q].status = "SUBMITTED"
    BY <2>1 DEF TypeInv, TypeOK, TruthInv
  <2> QED BY <2>1, <2>2, <2>3, <2>4, TruthFrame, NoRowIsTruthful
<1> QED BY <1>1, <1>2, <1>3, TruthReconcileRecord DEF Reconcile

LEMMA TruthOperator ==
  ASSUME TypeInv, TruthInv, [Next]_vars, NEW r \in Record, OperatorResolves(r)
  PROVE  TruthInv'
<1> DEFINE old == db[r]
<1>0. old \in Row /\ Truthful(old, orders)
  BY DEF TypeInv, TypeOK, TruthInv
<1> HIDE DEF old
<1>1. ASSUME NEW row, Resolve(r, row), Truthful(row, orders)
      PROVE  TruthInv'
  <2>1. /\ db' = [db EXCEPT ![r] = row]
        /\ UNCHANGED <<pc, mem, loaded, opened, orders>>
    BY <1>1 DEF Resolve, local, broker
  <2>2. \A q \in Record : db'[q] = db[q] \/ db'[q] = row
    BY <2>1 DEF TypeInv, TypeOK
  <2>3. \A q \in Invocation : pc'[q] = "submitting" => mem'[q].status = "SUBMITTED"
    BY <2>1 DEF TruthInv
  <2> QED BY <1>1, <2>1, <2>2, <2>3, TruthFrame
<1>2. ASSUME NEW o \in OrderId, OperatorFinds(r, o)
      PROVE  TruthInv'
  <2> DEFINE row == [old EXCEPT !.status = orders[o].state, !.brokerId = o,
                                !.executed = orders[o].executed]
  <2>1. orders[o] # NoOrder /\ orders[o] \in Order
    BY <1>2 DEF OperatorFinds, IdsAreKnown, TypeInv, TypeOK
  <2>2. Later(orders[o], orders[o])
    BY <2>1, SameIsForward DEF Forward
  <2>3. /\ row \in Row /\ row.brokerId = o /\ row.status = orders[o].state
        /\ row.executed = orders[o].executed
    BY <1>0, <2>1 DEF Row, Order
  <2>4. Resolve(r, row)
    BY <1>2 DEF OperatorFinds, old
  <2> HIDE DEF row
  <2>5. Truthful(row, orders)
    BY <2>1, <2>2, <2>3, CopyIsTruthful
  <2> QED BY <1>1, <2>4, <2>5
<1>3. ASSUME NEW target \in Status, OperatorRulesOut(r, target)
      PROVE  TruthInv'
  <2> DEFINE row == [old EXCEPT !.status = target]
  <2>1. /\ Resolve(r, row) /\ old.status = "AMBIGUOUS"
        /\ target \in {"VERIFIED", "FAILED", "RECONCILED"}
    BY <1>3 DEF OperatorRulesOut, Resolve, old
  <2>2. Truthful(row, orders)
    BY <1>0, <2>1 DEF Truthful, Row
  <2> HIDE DEF row
  <2> QED BY <1>1, <2>1, <2>2
<1> QED BY <1>2, <1>3 DEF OperatorResolves

LEMMA TruthBroker ==
  ASSUME TypeInv, TruthInv, [Next]_vars,
         (\E o \in OrderId : BrokerStep(o)) \/ UNCHANGED vars
  PROVE  TruthInv'
<1>1. UNCHANGED <<db, pc, mem, loaded, opened>>
  BY DEF BrokerStep, PartialFill, Fill, Cancel, Reject, BrokerMoves, local, vars
<1>2. \A q \in Invocation : pc'[q] = "submitting" => mem'[q].status = "SUBMITTED"
  BY <1>1 DEF TruthInv
<1> QED BY <1>1, <1>2, TruthFrame

LEMMA TruthStep == TypeInv /\ TruthInv /\ [Next]_vars => TruthInv'
<1> SUFFICES ASSUME TypeInv, TruthInv, [Next]_vars PROVE TruthInv'
  OBVIOUS
<1>1. ASSUME NEW p \in Invocation, ProcessOrder(p)
      PROVE  TruthInv'
  BY <1>1, TruthSaves, TruthAcknowledged, TruthFailedSubmission DEF ProcessOrder
<1>2. ASSUME NEW p \in Invocation, Invoke(p)
      PROVE  TruthInv'
  BY <1>1, <1>2, TruthCallers, TruthReconcile DEF Invoke
<1> QED BY <1>2, TruthOperator, TruthBroker DEF Next

\* However many invocations overlap and however many attempts a submission
\* makes: the row of an order says nothing the broker has not said, it reports
\* an order over only when it is, and it is closed with the quantity executed.
THEOREM RowsNeverAhead == Spec => []RowNeverAheadOfBroker
<1>1. Spec => [](TypeInv /\ TruthInv)
  BY TypeInit, TypeStep, TruthInit, TruthStep, PTL DEF Spec
<1>2. TruthInv => RowNeverAheadOfBroker
  BY NullAssumption DEF TruthInv, Truthful, RowNeverAheadOfBroker
<1> QED BY <1>1, <1>2, PTL

-----------------------------------------------------------------------------
(* Whose order a row is about, when no two records share (cycle_id,        *)
(* symbol).  No index of the table says so: the callers name a cycle for   *)
(* each order they propose (session.py, stress_harness.py).                *)

OwnReferences == \A q, r \in Record : RefOf[q] = RefOf[r] => q = r

\* A copy of record r's row names an order the broker took for r, if any.
Owns(took, row) == row.brokerId # NoOrder => row.brokerId \in took

OwnInv ==
  /\ \A r \in Record : Owns(accepted[r], db[r])
  /\ \A p \in Invocation : held[p] \in Record => Owns(accepted[held[p]], mem[p])
  /\ \A p \in Invocation : \A r \in Record : Owns(accepted[r], loaded[p][r])
  /\ \A o \in OrderId : orders[o] # NoOrder =>
       \E r \in Record : o \in accepted[r] /\ orders[o].ref = RefOf[r]

LEMMA OwnInit == Init => OwnInv
BY NullAssumption DEF Init, OwnInv, Owns, NoRows, NoOrders, NoRow

\* A step keeps the invariant if the broker's history only grows, a new order
\* is accepted for the record whose reference it carries, and every copy that
\* changes is owned.
LEMMA OwnFrame ==
  ASSUME TypeInv, OwnInv, TypeInv', Forward(orders', orders),
         \A r \in Record : accepted[r] \subseteq accepted'[r],
         \A o \in OrderId : orders'[o] # NoOrder /\ orders[o] = NoOrder =>
           \E r \in Record : o \in accepted'[r] /\ orders'[o].ref = RefOf[r],
         \A r \in Record : db'[r] = db[r] \/ Owns(accepted'[r], db'[r]),
         \A p \in Invocation : held'[p] \in Record =>
           \/ held'[p] = held[p] /\ mem'[p] = mem[p]
           \/ Owns(accepted'[held'[p]], mem'[p]),
         \A p \in Invocation : \A r \in Record :
           loaded'[p][r] = loaded[p][r] \/ Owns(accepted'[r], loaded'[p][r])
  PROVE  OwnInv'
<1>1. \A r \in Record : Owns(accepted'[r], db'[r])
  BY DEF OwnInv, Owns
<1>2. \A p \in Invocation : held'[p] \in Record => Owns(accepted'[held'[p]], mem'[p])
  BY DEF OwnInv, Owns
<1>3. \A p \in Invocation : \A r \in Record : Owns(accepted'[r], loaded'[p][r])
  BY DEF OwnInv, Owns
<1>4. ASSUME NEW o \in OrderId, orders'[o] # NoOrder
      PROVE  \E r \in Record : o \in accepted'[r] /\ orders'[o].ref = RefOf[r]
  <2>1. CASE orders[o] # NoOrder
    <3>1. PICK r \in Record : o \in accepted[r] /\ orders[o].ref = RefOf[r]
      BY <2>1 DEF OwnInv
    <3>2. orders'[o].ref = orders[o].ref
      BY <2>1 DEF Forward, Later
    <3> QED BY <3>1, <3>2
  <2> QED BY <1>4, <2>1
<1> QED BY <1>1, <1>2, <1>3, <1>4 DEF OwnInv

\* The order a request places is accepted for the record it is about.
LEMMA OwnPlace ==
  ASSUME TypeInv, NeverOverfilled(orders), NEW p \in Invocation, NEW o \in OrderId,
         pc[p] = "submitting", Place(held[p], o, OrderQuantity(mem[p]))
  PROVE  /\ \A r \in Record : accepted[r] \subseteq accepted'[r]
         /\ held[p] \in Record /\ o \in accepted'[held[p]]
         /\ \A a \in OrderId : orders'[a] # NoOrder /\ orders[a] = NoOrder =>
              \E r \in Record : a \in accepted'[r] /\ orders'[a].ref = RefOf[r]
<1>1. held[p] \in Record
  BY DEF TypeInv, SubmittingHolds
<1>2. /\ \A r \in Record : accepted[r] \subseteq accepted'[r]
      /\ o \in accepted'[held[p]]
  BY <1>1 DEF Place, TypeInv, TypeOK
<1>3. orders'[o].ref = RefOf[held[p]]
  BY PlaceIsForward
<1>4. \A a \in OrderId : orders'[a] # NoOrder /\ orders[a] = NoOrder => a = o
  BY DEF Place, TypeInv, TypeOK
<1> QED BY <1>1, <1>2, <1>3, <1>4

\* Every step but a submission leaves alone what the broker accepted.
LEMMA OwnUnaccepted ==
  ASSUME TypeInv, UNCHANGED accepted, \A o \in OrderId : orders[o] = NoOrder => orders'[o] = NoOrder
  PROVE  /\ \A r \in Record : accepted[r] \subseteq accepted'[r]
         /\ \A a \in OrderId : orders'[a] # NoOrder /\ orders[a] = NoOrder =>
              \E r \in Record : a \in accepted'[r] /\ orders'[a].ref = RefOf[r]
OBVIOUS

LEMMA OwnSaves ==
  ASSUME TypeInv, TruthInv, OwnInv, TypeInv', Forward(orders', orders),
         NEW p \in Invocation,
         \/ \E quantity \in 1..Proposed : VerifyApproved(p, quantity)
         \/ VerifyRejected(p) \/ SubmitIntent(p) \/ RecordPending(p) \/ Poll(p)
  PROVE  OwnInv'
<1>1. held[p] \in Record
  BY DEF VerifyApproved, VerifyRejected, SubmitIntent, RecordPending, Poll, Processing,
         TypeInv, TypeOK, SubmittingHolds
<1>2. PICK row : SaveHeld(p, row) /\ row.brokerId = mem[p].brokerId
  <2>1. mem[p] \in Row
    BY DEF TypeInv, TypeOK
  <2>2. ASSUME NEW quantity \in 1..Proposed, VerifyApproved(p, quantity)
        PROVE  \E row : SaveHeld(p, row) /\ row.brokerId = mem[p].brokerId
    <3>1. [mem[p] EXCEPT !.status = "VERIFIED", !.final = quantity].brokerId = mem[p].brokerId
      BY <2>1 DEF Row
    <3> QED BY <2>2, <3>1 DEF VerifyApproved
  <2>3. ASSUME VerifyRejected(p) \/ SubmitIntent(p) \/ RecordPending(p)
        PROVE  \E row : SaveHeld(p, row) /\ row.brokerId = mem[p].brokerId
    <3>1. \A s : [mem[p] EXCEPT !.status = s].brokerId = mem[p].brokerId
      BY <2>1 DEF Row
    <3> QED BY <2>3, <3>1 DEF VerifyRejected, SubmitIntent, RecordPending
  <2>4. ASSUME Poll(p)
        PROVE  \E row : SaveHeld(p, row) /\ row.brokerId = mem[p].brokerId
    <3> DEFINE o   == orders[mem[p].brokerId]
               row == [mem[p] EXCEPT !.status = o.state, !.executed = o.executed]
    <3>1. SaveHeld(p, row)
      BY <2>4 DEF Poll
    <3>2. row.brokerId = mem[p].brokerId
      BY <2>1 DEF Row
    <3> HIDE DEF row
    <3> QED BY <3>1, <3>2
  <2> QED BY <2>2, <2>3, <2>4
<1>3. Owns(accepted[held[p]], row)
  BY <1>1, <1>2 DEF OwnInv, Owns
<1>4. UNCHANGED <<held, loaded, orders, accepted>>
  BY <1>2 DEF SaveHeld, broker
<1>5. \A r \in Record : db'[r] = db[r] \/ (r = held[p] /\ db'[r] = row)
  BY <1>2 DEF SaveHeld, TypeInv, TypeOK
<1>6. mem'[p] = row /\ \A q \in Invocation : q # p => mem'[q] = mem[q]
  BY <1>2 DEF SaveHeld, TypeInv, TypeOK
<1> QED BY <1>3, <1>4, <1>5, <1>6, OwnFrame, OwnUnaccepted

LEMMA OwnSubmission ==
  ASSUME TypeInv, TruthInv, OwnInv, TypeInv', Forward(orders', orders),
         NEW p \in Invocation,
         \/ \E o \in OrderId : SubmitAcknowledged(p, o) \/ SubmitUnanswered(p, o)
         \/ SubmitNotReceived(p) \/ SubmitRefused(p) \/ LoseAcknowledgement(p)
  PROVE  OwnInv'
<1>1. ASSUME NEW o \in OrderId, SubmitAcknowledged(p, o)
      PROVE  OwnInv'
  <2> DEFINE row == [mem[p] EXCEPT !.brokerId = o, !.status = "PENDING"]
  <2>1. row.brokerId = o
    BY DEF TypeInv, TypeOK, Row
  <2>2. /\ mem' = [mem EXCEPT ![p] = row] /\ UNCHANGED <<db, held, loaded>>
        /\ pc[p] = "submitting" /\ Place(held[p], o, OrderQuantity(mem[p]))
    BY <1>1 DEF SubmitAcknowledged
  <2> HIDE DEF row
  <2>3. mem'[p] = row /\ \A q \in Invocation : q # p => mem'[q] = mem[q]
    BY <2>2 DEF TypeInv, TypeOK
  <2>4. NeverOverfilled(orders)
    BY DEF TruthInv
  <2>5. Owns(accepted'[held[p]], row)
    BY <2>1, <2>2, <2>4, OwnPlace DEF Owns
  <2> QED BY <2>2, <2>3, <2>4, <2>5, OwnPlace, OwnFrame
<1>2. ASSUME \/ \E o \in OrderId : SubmitUnanswered(p, o)
             \/ SubmitNotReceived(p) \/ SubmitRefused(p) \/ LoseAcknowledgement(p)
      PROVE  OwnInv'
  <2>1. /\ UNCHANGED <<db, loaded>>
        /\ GiveUpSubmitting(p) \/ UNCHANGED <<pc, held, mem>>
    BY <1>2 DEF SubmitUnanswered, SubmitNotReceived, SubmitRefused, LoseAcknowledgement,
         RetryOrGiveUp
  <2>2. \A q \in Invocation : held'[q] \in Record => held'[q] = held[q] /\ mem'[q] = mem[q]
    BY <2>1, NullAssumption DEF GiveUpSubmitting, TypeInv, TypeOK
  <2>3. /\ \A r \in Record : accepted[r] \subseteq accepted'[r]
        /\ \A a \in OrderId : orders'[a] # NoOrder /\ orders[a] = NoOrder =>
             \E r \in Record : a \in accepted'[r] /\ orders'[a].ref = RefOf[r]
    <3>1. CASE \E o \in OrderId : SubmitUnanswered(p, o)
      BY <3>1, OwnPlace DEF SubmitUnanswered, TruthInv
    <3>2. CASE SubmitNotReceived(p) \/ SubmitRefused(p) \/ LoseAcknowledgement(p)
      BY <3>2 DEF SubmitNotReceived, SubmitRefused, LoseAcknowledgement, broker
    <3> QED BY <1>2, <3>1, <3>2
  <2> QED BY <2>1, <2>2, <2>3, OwnFrame
<1> QED BY <1>1, <1>2

LEMMA OwnCallers ==
  ASSUME TypeInv, TruthInv, OwnInv, TypeInv', Forward(orders', orders),
         NEW p \in Invocation,
         \/ \E r \in Record : CreateProposal(p, r) \/ TakeRecord(p, r)
         \/ Abandon(p) \/ Crash(p)
  PROVE  OwnInv'
<1>1. UNCHANGED <<orders, accepted>>
  BY DEF CreateProposal, TakeRecord, Abandon, Crash, broker
<1>2. ASSUME NEW r \in Record, CreateProposal(p, r)
      PROVE  OwnInv'
  <2> DEFINE row == [NoRow EXCEPT !.status = "PROPOSAL"]
  <2>1. row.brokerId = NoOrder
    BY DEF NoRow
  <2>2. /\ mem' = [mem EXCEPT ![p] = row] /\ db' = [db EXCEPT ![r] = mem'[p]]
        /\ held' = [held EXCEPT ![p] = r] /\ UNCHANGED loaded
    BY <1>2 DEF CreateProposal
  <2> HIDE DEF row
  <2>3. \A q \in Invocation : \/ held'[q] = held[q] /\ mem'[q] = mem[q]
                              \/ mem'[q] = row
    BY <2>2 DEF TypeInv, TypeOK
  <2>4. \A q \in Record : db'[q] = db[q] \/ db'[q] = row
    BY <2>2 DEF TypeInv, TypeOK
  <2>5. \A took : Owns(took, row)
    BY <2>1 DEF Owns
  <2> QED BY <1>1, <2>2, <2>3, <2>4, <2>5, OwnFrame, OwnUnaccepted
<1>3. ASSUME NEW r \in Record, TakeRecord(p, r)
      PROVE  OwnInv'
  <2>1. /\ mem' = [mem EXCEPT ![p] = db[r]] /\ held' = [held EXCEPT ![p] = r]
        /\ UNCHANGED <<db, loaded>>
    BY <1>3 DEF TakeRecord
  <2>2. \A q \in Invocation : \/ held'[q] = held[q] /\ mem'[q] = mem[q]
                              \/ held'[q] = r /\ mem'[q] = db[r]
    BY <2>1 DEF TypeInv, TypeOK
  <2>3. Owns(accepted'[r], db[r])
    BY <1>1 DEF OwnInv
  <2> QED BY <1>1, <2>1, <2>2, <2>3, OwnFrame, OwnUnaccepted
<1>4. CASE Abandon(p) \/ Crash(p)
  <2>1. \A q \in Invocation : held'[q] \in Record => held'[q] = held[q] /\ mem'[q] = mem[q]
    BY <1>4, NullAssumption DEF Abandon, Crash, TypeInv, TypeOK
  <2>2. \A q \in Invocation : \A r \in Record :
          loaded'[q][r] = loaded[q][r] \/ loaded'[q][r] = NoRow
    <3>1. CASE Abandon(p)
      BY <3>1 DEF Abandon
    <3>2. CASE Crash(p)
      BY <3>2 DEF Crash, TypeInv, TypeOK, NoRows
    <3> QED BY <1>4, <3>1, <3>2
  <2>3. \A took : Owns(took, NoRow)
    BY DEF Owns, NoRow
  <2>4. db' = db
    BY <1>4 DEF Abandon, Crash
  <2> QED BY <1>1, <2>1, <2>2, <2>3, <2>4, OwnFrame, OwnUnaccepted
<1> QED BY <1>2, <1>3, <1>4

\* What reconcile() saves: the id the record had, or one of its own reference.
LEMMA OwnSaveLoaded ==
  ASSUME TypeInv, OwnInv, TypeInv', Forward(orders', orders),
         NEW p \in Invocation, NEW r \in Record, NEW row,
         SaveLoaded(p, r, row), Owns(accepted[r], row)
  PROVE  OwnInv'
<1>1. UNCHANGED <<held, mem, orders, accepted>>
  BY DEF SaveLoaded, broker
<1>2. \A q \in Record : db'[q] = db[q] \/ (q = r /\ db'[q] = row)
  BY DEF SaveLoaded, TypeInv, TypeOK
<1>3. \A i \in Invocation : \A q \in Record :
        loaded'[i][q] = loaded[i][q] \/ loaded'[i][q] = NoRow
  BY DEF SaveLoaded, Checked, TypeInv, TypeOK
<1>4. \A took : Owns(took, NoRow)
  BY DEF Owns, NoRow
<1> QED BY <1>1, <1>2, <1>3, <1>4, OwnFrame, OwnUnaccepted

LEMMA OwnReconcileRecord ==
  ASSUME OwnReferences, TypeInv, TruthInv, OwnInv, TypeInv', Forward(orders', orders),
         NEW p \in Invocation, NEW r \in Record, ReconcileRecord(p, r)
  PROVE  OwnInv'
<1> DEFINE old == loaded[p][r]
<1>0. old \in Row /\ Owns(accepted[r], old)
  BY DEF TypeInv, TypeOK, OwnInv
<1> HIDE DEF old
<1>1. CASE ConfirmUnsubmitted(p, r) \/ EscalateToAmbiguous(p, r) \/ ConfirmTerminal(p, r)
  <2>1. PICK s \in Status : SaveLoaded(p, r, [old EXCEPT !.status = s])
    BY <1>1 DEF ConfirmUnsubmitted, EscalateToAmbiguous, ConfirmTerminal, old
  <2>2. Owns(accepted[r], [old EXCEPT !.status = s])
    BY <1>0 DEF Owns, Row
  <2> QED BY <2>1, <2>2, OwnSaveLoaded
<1>2. CASE AdoptByReference(p, r)
  <2>1. PICK o \in Matches(p, r) :
          SaveLoaded(p, r, [old EXCEPT !.brokerId = o, !.status = opened[p][o].state,
                                       !.executed = opened[p][o].executed])
    BY <1>2 DEF AdoptByReference, old
  <2>2. /\ o \in OrderId /\ orders[o] # NoOrder /\ orders[o].ref = RefOf[r]
    BY NullAssumption DEF Matches, TypeInv, TypeOK, TruthInv, SeenTruly, Forward, Later
  <2>3. PICK q \in Record : o \in accepted[q] /\ orders[o].ref = RefOf[q]
    BY <2>2 DEF OwnInv
  <2>4. o \in accepted[r]
    BY <2>2, <2>3 DEF OwnReferences
  <2> DEFINE row == [old EXCEPT !.brokerId = o, !.status = opened[p][o].state,
                                !.executed = opened[p][o].executed]
  <2>5. row.brokerId = o /\ SaveLoaded(p, r, row)
    BY <1>0, <2>1 DEF Row
  <2> HIDE DEF row
  <2> QED BY <2>4, <2>5, OwnSaveLoaded DEF Owns
<1>3. CASE AdoptBrokerState(p, r)
  <2> DEFINE o   == orders[old.brokerId]
             row == [old EXCEPT
                       !.final = IF o.executed = 0 THEN @ ELSE o.executed,
                       !.executed = o.executed,
                       !.status = IF o.state \in Terminal THEN "RECONCILED" ELSE o.state]
  <2>1. SaveLoaded(p, r, row)
    BY <1>3 DEF AdoptBrokerState, old
  <2>2. row.brokerId = old.brokerId
    BY <1>0 DEF Row
  <2> HIDE DEF row
  <2> QED BY <1>0, <2>1, <2>2, OwnSaveLoaded DEF Owns
<1>4. CASE LeaveUnchanged(p, r)
  <2>1. \A i \in Invocation : \A q \in Record :
          loaded'[i][q] = loaded[i][q] \/ loaded'[i][q] = NoRow
    BY <1>4 DEF LeaveUnchanged, Checked, TypeInv, TypeOK
  <2>2. UNCHANGED <<db, held, mem, orders, accepted>>
    BY <1>4 DEF LeaveUnchanged, broker
  <2>3. \A took : Owns(took, NoRow)
    BY DEF Owns, NoRow
  <2> QED BY <2>1, <2>2, <2>3, OwnFrame, OwnUnaccepted
<1> QED BY <1>1, <1>2, <1>3, <1>4 DEF ReconcileRecord

LEMMA OwnReconcile ==
  ASSUME OwnReferences, TypeInv, TruthInv, OwnInv, TypeInv', Forward(orders', orders),
         NEW p \in Invocation, Reconcile(p)
  PROVE  OwnInv'
<1>1. CASE LoadUnresolved(p) \/ ListOpenOrders(p) \/ EndReconcile(p)
  <2>1. UNCHANGED <<db, held, mem, orders, accepted>>
    BY <1>1 DEF LoadUnresolved, ListOpenOrders, EndReconcile, broker
  <2>2. \A i \in Invocation : \A r \in Record :
          \/ loaded'[i][r] = loaded[i][r] \/ loaded'[i][r] = NoRow
          \/ loaded'[i][r] = db[r]
    <3>1. CASE LoadUnresolved(p)
      BY <3>1 DEF LoadUnresolved, TypeInv, TypeOK
    <3>2. CASE ListOpenOrders(p)
      BY <3>2 DEF ListOpenOrders
    <3>3. CASE EndReconcile(p)
      BY <3>3 DEF EndReconcile, NoRows, TypeInv, TypeOK
    <3> QED BY <1>1, <3>1, <3>2, <3>3
  <2>3. \A took : Owns(took, NoRow)
    BY DEF Owns, NoRow
  <2>4. \A r \in Record : Owns(accepted'[r], db[r])
    BY <2>1 DEF OwnInv
  <2> QED BY <2>1, <2>2, <2>3, <2>4, OwnFrame, OwnUnaccepted
<1> QED BY <1>1, OwnReconcileRecord DEF Reconcile

\* The operator names an order the broker took for the record, or none.
LEMMA OwnOperator ==
  ASSUME TypeInv, OwnInv, TypeInv', Forward(orders', orders),
         NEW r \in Record, OperatorResolves(r)
  PROVE  OwnInv'
<1>1. PICK row : Resolve(r, row) /\ Owns(accepted[r], row)
  <2>0. db[r] \in Row /\ Owns(accepted[r], db[r])
    BY DEF TypeInv, TypeOK, OwnInv
  <2>1. ASSUME NEW o \in OrderId, OperatorFinds(r, o)
        PROVE  \E row : Resolve(r, row) /\ Owns(accepted[r], row)
    <3> DEFINE row == [db[r] EXCEPT !.status = orders[o].state, !.brokerId = o,
                                    !.executed = orders[o].executed]
    <3>1. Resolve(r, row) /\ o \in accepted[r] /\ row.brokerId = o
      BY <2>0, <2>1 DEF OperatorFinds, Row
    <3> HIDE DEF row
    <3> QED BY <3>1 DEF Owns
  <2>2. ASSUME NEW target \in Status, OperatorRulesOut(r, target)
        PROVE  \E row : Resolve(r, row) /\ Owns(accepted[r], row)
    <3>1. Owns(accepted[r], [db[r] EXCEPT !.status = target])
      BY <2>0 DEF Owns, Row
    <3> QED BY <2>2, <3>1 DEF OperatorRulesOut
  <2> QED BY <2>1, <2>2 DEF OperatorResolves
<1>2. UNCHANGED <<held, mem, loaded, orders, accepted>>
  BY <1>1 DEF Resolve, local, broker
<1>3. \A q \in Record : db'[q] = db[q] \/ (q = r /\ db'[q] = row)
  BY <1>1 DEF Resolve, TypeInv, TypeOK
<1> QED BY <1>1, <1>2, <1>3, OwnFrame, OwnUnaccepted

LEMMA OwnBroker ==
  ASSUME TypeInv, OwnInv, TypeInv', Forward(orders', orders),
         (\E o \in OrderId : BrokerStep(o)) \/ UNCHANGED vars
  PROVE  OwnInv'
<1>1. UNCHANGED <<db, held, mem, loaded, accepted>>
  BY DEF BrokerStep, PartialFill, Fill, Cancel, Reject, BrokerMoves, local, vars
<1>2. \A o \in OrderId : orders[o] = NoOrder => orders'[o] = NoOrder
  <2>1. ASSUME NEW o \in OrderId, NEW state, NEW executed, BrokerMoves(o, state, executed)
        PROVE  \A b \in OrderId : orders[b] = NoOrder => orders'[b] = NoOrder
    BY <2>1 DEF BrokerMoves, TypeInv, TypeOK
  <2>2. ASSUME NEW o \in OrderId, BrokerStep(o)
        PROVE  \E state, executed : BrokerMoves(o, state, executed)
    BY <2>2 DEF BrokerStep, PartialFill, Fill, Cancel, Reject
  <2>3. CASE UNCHANGED vars
    BY <2>3 DEF vars
  <2> QED BY <2>1, <2>2, <2>3
<1> QED BY <1>1, <1>2, OwnFrame, OwnUnaccepted

LEMMA OwnStep ==
  ASSUME OwnReferences, TypeInv, TruthInv, OwnInv, [Next]_vars
  PROVE  OwnInv'
<1>1. TypeInv' /\ Forward(orders', orders)
  BY TypeStep, OrdersMoveForward DEF TruthInv
<1>2. ASSUME NEW p \in Invocation, Invoke(p)
      PROVE  OwnInv'
  <2>1. CASE ProcessOrder(p)
    BY <1>1, <2>1, OwnSaves, OwnSubmission DEF ProcessOrder
  <2> QED BY <1>1, <1>2, <2>1, OwnCallers, OwnReconcile DEF Invoke
<1> QED BY <1>1, <1>2, OwnOperator, OwnBroker DEF Next

\* However many invocations overlap, and whatever was lost between an order and
\* its row: the order a row names was taken for that very record, as long as no
\* two records share (cycle_id, symbol), which is all adoption looks at.
THEOREM RowsOwnTheirOrders ==
  ASSUME OwnReferences
  PROVE  Spec => []RowOwnsItsOrder
<1>1. TypeInv /\ TruthInv /\ OwnInv /\ [Next]_vars => OwnInv'
  BY OwnStep
<1>2. Spec => [](TypeInv /\ TruthInv /\ OwnInv)
  BY <1>1, TypeInit, TypeStep, TruthInit, TruthStep, OwnInit, PTL DEF Spec
<1>3. OwnInv => RowOwnsItsOrder
  BY DEF OwnInv, Owns, RowOwnsItsOrder
<1> QED BY <1>2, <1>3, PTL
-----------------------------------------------------------------------------
(* The submission guarantees, proved for one invocation at a time: no      *)
(* saved row is overwritten by a stale copy (Agreement), and with a broker *)
(* port that sends each request once, the broker never takes two orders    *)
(* for a record; and so the core implements the contract.                  *)

\* What claim_cycle() is meant to guarantee: invocations do not overlap.
SoleInvocation == \A p, q \in Invocation : p = q

USE DEF HeldAgrees, LoadedAgrees

LEMMA AgreementInit == Init => Agreement
BY DEF Init, Agreement, NoOrderBehindUnsentRow, IntentIsDurable, IdsComeLast,
       NoRows, NoRow

\* process_order saves over the row it read: the row is the record's latest.
LEMMA AgreementSaveHeld ==
  ASSUME SoleInvocation, TypeInv, Agreement, NEW p \in Invocation, NEW row \in Row,
         pc[p] \in {"ready", "acknowledged"}, held[p] \in Record, SaveHeld(p, row),
         \/ pc' = [pc EXCEPT ![p] = "ready"]
         \/ pc' = [pc EXCEPT ![p] = "submitting"] /\ row.status = "SUBMITTED",
         row.status \in Unsent \cup {"ABSENT"} => accepted[held[p]] = {},
         row.status \in Unsent \cup {"ABSENT", "SUBMITTED", "AMBIGUOUS"}
           => row.brokerId = NoOrder
  PROVE  Agreement'
<1>0. /\ db' = [db EXCEPT ![held[p]] = row] /\ mem' = [mem EXCEPT ![p] = row]
      /\ UNCHANGED <<held, loaded, orders, accepted>>
      /\ loaded[p] = NoRows
      /\ db' \in [Record -> Row] /\ mem' \in [Invocation -> Row]
      /\ db'[held[p]] = row /\ mem'[p] = row
  BY DEF SaveHeld, broker, Agreement, TypeInv, TypeOK
<1>1. NoOrderBehindUnsentRow'
  BY <1>0 DEF Agreement, NoOrderBehindUnsentRow, TypeInv, TypeOK
<1>2. IntentIsDurable'
  BY <1>0 DEF SoleInvocation, IntentIsDurable, TypeInv, TypeOK
<1>3. IdsComeLast'
  BY <1>0 DEF Agreement, IdsComeLast, TypeInv, TypeOK
<1>4. ASSUME NEW q \in Invocation
      PROVE  HeldAgrees(q)' /\ LoadedAgrees(q)'
  <2>1. q = p
    BY DEF SoleInvocation
  <2>2. pc'[p] \in {"ready", "submitting"}
    BY DEF TypeInv, TypeOK
  <2>3. HeldAgrees(p)'
    BY <1>0, <2>2
  <2>4. LoadedAgrees(p)'
    BY <1>0, <2>2 DEF NoRows
  <2> QED BY <2>1, <2>3, <2>4
<1> QED BY <1>1, <1>2, <1>3, <1>4 DEF Agreement

\* reconcile saves over a row it loaded: the row has not changed since.
LEMMA AgreementSaveLoaded ==
  ASSUME SoleInvocation, TypeInv, Agreement, NEW p \in Invocation, NEW r \in Record,
         NEW row \in Row, Reconciling(p, r), SaveLoaded(p, r, row),
         row.status \notin Unsent \cup {"ABSENT"},
         row.status \in {"SUBMITTED", "AMBIGUOUS"} => row.brokerId = NoOrder
  PROVE  Agreement'
<1>0. /\ db' = [db EXCEPT ![r] = row] /\ loaded' = [loaded EXCEPT ![p][r] = NoRow]
      /\ UNCHANGED <<pc, held, mem, orders, accepted>>
      /\ pc[p] = "reconciling" /\ held[p] = NoRecord
  BY DEF SaveLoaded, Checked, broker, Agreement, Reconciling
<1>1. NoOrderBehindUnsentRow'
  BY <1>0 DEF Agreement, NoOrderBehindUnsentRow, TypeInv, TypeOK
<1>2. IntentIsDurable'
  BY <1>0 DEF SoleInvocation, IntentIsDurable
<1>3. IdsComeLast'
  BY <1>0 DEF Agreement, IdsComeLast, TypeInv, TypeOK
<1>4. ASSUME NEW q \in Invocation
      PROVE  HeldAgrees(q)' /\ LoadedAgrees(q)'
  <2>1. q = p
    BY DEF SoleInvocation
  <2>2. HeldAgrees(p)'
    BY <1>0
  <2>3. \A s \in Record : s # r => loaded'[p][s] = loaded[p][s] /\ db'[s] = db[s]
    BY <1>0 DEF TypeInv, TypeOK
  <2>4. loaded'[p][r] = NoRow
    BY <1>0 DEF TypeInv, TypeOK
  <2>5. LoadedAgrees(p)'
    BY <1>0, <2>3, <2>4 DEF Agreement
  <2> QED BY <2>1, <2>2, <2>5
<1> QED BY <1>1, <1>2, <1>3, <1>4 DEF Agreement

\* A step that saves nothing: an order may be added for the record being
\* submitted, and the invocation may let go of everything it holds.
LEMMA AgreementNoSave ==
  ASSUME SoleInvocation, TypeInv, Agreement, NEW p \in Invocation,
         UNCHANGED db,
         \A r \in Record : db[r].status \in Unsent \cup {"ABSENT"} => accepted'[r] = accepted[r],
         \/ UNCHANGED <<pc, held, mem, loaded>>
         \/ pc' \in [Invocation -> {"ready", "down"}] /\ held'[p] = NoRecord /\ loaded'[p] = NoRows
  PROVE  Agreement'
<1>1. NoOrderBehindUnsentRow'
  BY DEF Agreement, NoOrderBehindUnsentRow
<1>2. IntentIsDurable'
  BY DEF Agreement, IntentIsDurable
<1>3. IdsComeLast'
  BY DEF Agreement, IdsComeLast
<1>4. CASE UNCHANGED <<pc, held, mem, loaded>>
  BY <1>1, <1>2, <1>3, <1>4 DEF Agreement
<1>5. CASE pc' \in [Invocation -> {"ready", "down"}] /\ held'[p] = NoRecord /\ loaded'[p] = NoRows
  <2>1. ASSUME NEW q \in Invocation
        PROVE  HeldAgrees(q)' /\ LoadedAgrees(q)'
    <3>1. q = p
      BY DEF SoleInvocation
    <3>2. HeldAgrees(p)' /\ LoadedAgrees(p)'
      BY <1>5 DEF NoRows
    <3> QED BY <3>1, <3>2
  <2> QED BY <1>1, <1>2, <1>3, <2>1 DEF Agreement
<1> QED BY <1>4, <1>5

\* The steps of process_order that save.
LEMMA AgreementSaves ==
  ASSUME SoleInvocation, TypeInv, Agreement, NEW p \in Invocation,
         \/ \E quantity \in 1..Proposed : VerifyApproved(p, quantity)
         \/ VerifyRejected(p)
         \/ SubmitIntent(p)
         \/ RecordPending(p)
         \/ Poll(p)
  PROVE  Agreement'
<1> USE DEF Processing
<1>0. ASSUME pc[p] = "ready", held[p] # NoRecord, mem[p].status # "AMBIGUOUS"
      PROVE  /\ held[p] \in Record /\ mem[p] \in Row /\ mem[p] = db[held[p]]
             /\ pc = [pc EXCEPT ![p] = "ready"]
             /\ mem[p].status \in Unsent => mem[p].brokerId = NoOrder /\ accepted[held[p]] = {}
  BY <1>0 DEF TypeInv, TypeOK, Agreement, IdsComeLast, NoOrderBehindUnsentRow
<1>1. ASSUME NEW quantity \in 1..Proposed, VerifyApproved(p, quantity)
      PROVE  Agreement'
  <2> DEFINE row == [mem[p] EXCEPT !.status = "VERIFIED", !.final = quantity]
  <2>0. quantity \in 0..Proposed
    BY QuantityAssumption
  <2>1. pc[p] = "ready" /\ held[p] # NoRecord /\ mem[p].status = "PROPOSAL"
    BY <1>1 DEF VerifyApproved
  <2>a. /\ held[p] \in Record /\ mem[p] \in Row /\ pc = [pc EXCEPT ![p] = "ready"]
        /\ mem[p].status \in Unsent => mem[p].brokerId = NoOrder /\ accepted[held[p]] = {}
    BY <1>0, <2>1
  <2>2. row \in Row /\ row.status = "VERIFIED" /\ row.brokerId = mem[p].brokerId
    BY <2>a, <2>0, <2>1 DEF Row
  <2>3. SaveHeld(p, row) /\ pc' = pc
    BY <1>1 DEF VerifyApproved
  <2> HIDE DEF row
  <2> QED BY <2>a, <2>1, <2>2, <2>3, AgreementSaveHeld
<1>2. CASE VerifyRejected(p)
  <2> DEFINE row == [mem[p] EXCEPT !.status = "FAILED"]
  <2>1. pc[p] = "ready" /\ held[p] # NoRecord /\ mem[p].status = "PROPOSAL"
    BY <1>2 DEF VerifyRejected
  <2>a. /\ held[p] \in Record /\ mem[p] \in Row /\ pc = [pc EXCEPT ![p] = "ready"]
        /\ mem[p].status \in Unsent => mem[p].brokerId = NoOrder /\ accepted[held[p]] = {}
    BY <1>0, <2>1
  <2>2. row \in Row /\ row.status = "FAILED"
    BY <2>a, <2>1 DEF Row
  <2>3. SaveHeld(p, row) /\ pc' = pc
    BY <1>2 DEF VerifyRejected
  <2> HIDE DEF row
  <2> QED BY <2>a, <2>1, <2>2, <2>3, AgreementSaveHeld
<1>3. CASE SubmitIntent(p)
  <2> DEFINE row == [mem[p] EXCEPT !.status = "SUBMITTED"]
  <2>1. pc[p] = "ready" /\ held[p] # NoRecord /\ mem[p].status = "VERIFIED"
    BY <1>3 DEF SubmitIntent
  <2>a. /\ held[p] \in Record /\ mem[p] \in Row /\ pc = [pc EXCEPT ![p] = "ready"]
        /\ mem[p].status \in Unsent => mem[p].brokerId = NoOrder /\ accepted[held[p]] = {}
    BY <1>0, <2>1
  <2>2. row \in Row /\ row.status = "SUBMITTED" /\ row.brokerId = mem[p].brokerId
    BY <2>a, <2>1 DEF Row
  <2>3. SaveHeld(p, row) /\ pc' = [pc EXCEPT ![p] = "submitting"]
    BY <1>3 DEF SubmitIntent
  <2> HIDE DEF row
  <2> QED BY <2>a, <2>1, <2>2, <2>3, AgreementSaveHeld
<1>4. CASE RecordPending(p)
  <2>1. pc[p] = "acknowledged" /\ SaveHeld(p, mem[p]) /\ pc' = [pc EXCEPT ![p] = "ready"]
    BY <1>4 DEF RecordPending
  <2>2. mem[p] \in Row /\ mem[p].status = "PENDING" /\ held[p] \in Record
    BY <2>1 DEF Agreement, TypeInv, TypeOK, SubmittingHolds
  <2> QED BY <2>1, <2>2, AgreementSaveHeld
<1>5. CASE Poll(p)
  <2> DEFINE o == orders[mem[p].brokerId]
             row == [mem[p] EXCEPT !.status = o.state, !.executed = o.executed]
  <2>1. pc[p] = "ready" /\ held[p] # NoRecord /\ mem[p].status \in Live
    BY <1>5 DEF Poll
  <2>a. /\ held[p] \in Record /\ mem[p] \in Row /\ pc = [pc EXCEPT ![p] = "ready"]
        /\ mem[p].status \in Unsent => mem[p].brokerId = NoOrder /\ accepted[held[p]] = {}
    BY <1>0, <2>1
  <2>2. o \in Order
    BY <2>a, <1>5 DEF Poll, TypeInv, TypeOK, IdsAreKnown, Known, Row
  <2>3. row \in Row /\ row.status \in BrokerStatus
    BY <2>a, <2>2 DEF Row, Order
  <2>4. SaveHeld(p, row) /\ pc' = pc
    BY <1>5 DEF Poll
  <2> HIDE DEF row
  <2> QED BY <2>a, <2>1, <2>3, <2>4, AgreementSaveHeld
<1> QED BY <1>1, <1>2, <1>3, <1>4, <1>5

\* The steps around submit_order save nothing; an order is only taken for a
\* record whose row says SUBMITTED.
LEMMA AgreementSubmission ==
  ASSUME SoleInvocation, TypeInv, Agreement, NEW p \in Invocation,
         \/ \E o \in OrderId : SubmitAcknowledged(p, o) \/ SubmitUnanswered(p, o)
         \/ SubmitNotReceived(p)
         \/ SubmitRefused(p)
         \/ LoseAcknowledgement(p)
  PROVE  Agreement'
<1>1. ASSUME pc[p] \in {"submitting", "acknowledged"}
      PROVE  /\ held[p] \in Record /\ db[held[p]].status = "SUBMITTED"
             /\ loaded[p] = NoRows
  BY <1>1 DEF TypeInv, SubmittingHolds, Agreement, IntentIsDurable
<1>2. ASSUME GiveUpSubmitting(p), UNCHANGED loaded, pc[p] \in {"submitting", "acknowledged"}
      PROVE  /\ pc' \in [Invocation -> {"ready", "down"}]
             /\ held'[p] = NoRecord /\ loaded'[p] = NoRows
  BY <1>1, <1>2 DEF GiveUpSubmitting, SoleInvocation, TypeInv, TypeOK
<1>3. ASSUME pc[p] = "submitting", RetryOrGiveUp(p)
      PROVE  /\ UNCHANGED db
             /\ \/ UNCHANGED <<pc, held, mem, loaded>>
                \/ /\ pc' \in [Invocation -> {"ready", "down"}]
                   /\ held'[p] = NoRecord /\ loaded'[p] = NoRows
  BY <1>2, <1>3 DEF RetryOrGiveUp
<1>4. ASSUME pc[p] = "submitting", NEW o \in OrderId,
             Place(held[p], o, OrderQuantity(mem[p]))
      PROVE  \A r \in Record :
               db[r].status \in Unsent \cup {"ABSENT"} => accepted'[r] = accepted[r]
  BY <1>1, <1>4 DEF Place, TypeInv, TypeOK
<1>5. ASSUME NEW o \in OrderId, SubmitAcknowledged(p, o)
      PROVE  Agreement'
  <2>1. /\ pc[p] = "submitting" /\ Place(held[p], o, OrderQuantity(mem[p]))
        /\ mem' = [mem EXCEPT ![p] = [@ EXCEPT !.brokerId = o, !.status = "PENDING"]]
        /\ pc' = [pc EXCEPT ![p] = "acknowledged"]
        /\ UNCHANGED <<db, held, loaded>>
    BY <1>5 DEF SubmitAcknowledged
  <2>2. NoOrderBehindUnsentRow'
    BY <1>4, <2>1 DEF Agreement, NoOrderBehindUnsentRow
  <2>3. IntentIsDurable'
    BY <1>1, <2>1 DEF IntentIsDurable, SoleInvocation
  <2>4. IdsComeLast'
    BY <2>1 DEF Agreement, IdsComeLast
  <2>5. mem'[p].status = "PENDING" /\ mem'[p].brokerId # NoOrder
    BY <2>1, NullAssumption DEF TypeInv, TypeOK, Row
  <2>6. pc'[p] = "acknowledged"
    BY <2>1 DEF TypeInv, TypeOK
  <2>7. \A q \in Invocation : HeldAgrees(q)'
    BY <2>5, <2>6 DEF SoleInvocation
  <2>8. \A q \in Invocation : LoadedAgrees(q)'
    BY <1>1, <2>1, <2>6 DEF SoleInvocation, NoRows
  <2> QED BY <2>2, <2>3, <2>4, <2>7, <2>8 DEF Agreement
<1>6. ASSUME NEW o \in OrderId, SubmitUnanswered(p, o)
      PROVE  Agreement'
  <2>1. /\ pc[p] = "submitting" /\ RetryOrGiveUp(p)
        /\ Place(held[p], o, OrderQuantity(mem[p]))
    BY <1>6 DEF SubmitUnanswered
  <2> QED BY <1>3, <1>4, <2>1, AgreementNoSave
<1>7. CASE SubmitNotReceived(p)
  <2>1. pc[p] = "submitting" /\ RetryOrGiveUp(p) /\ accepted' = accepted
    BY <1>7 DEF SubmitNotReceived, broker
  <2> QED BY <1>3, <2>1, AgreementNoSave
<1>8. CASE SubmitRefused(p) \/ LoseAcknowledgement(p)
  <2>1. /\ pc[p] \in {"submitting", "acknowledged"} /\ GiveUpSubmitting(p)
        /\ UNCHANGED <<db, loaded, accepted>>
    BY <1>8 DEF SubmitRefused, LoseAcknowledgement, broker
  <2> QED BY <1>2, <2>1, AgreementNoSave
<1> QED BY <1>5, <1>6, <1>7, <1>8

\* Callers take a record as it is in the database.
LEMMA AgreementCallers ==
  ASSUME SoleInvocation, TypeInv, Agreement, NEW p \in Invocation, NEW r \in Record,
         CreateProposal(p, r) \/ TakeRecord(p, r)
  PROVE  Agreement'
<1>0. /\ pc[p] = "ready" /\ held[p] = NoRecord /\ loaded[p] = NoRows
      /\ held'[p] = r /\ UNCHANGED <<pc, loaded, accepted>>
  BY DEF CreateProposal, TakeRecord, Idle, Agreement, TypeInv, TypeOK, broker
<1>1. CASE CreateProposal(p, r)
  <2> DEFINE row == [NoRow EXCEPT !.status = "PROPOSAL"]
  <2>1. row.status = "PROPOSAL" /\ row.brokerId = NoOrder
    BY DEF NoRow
  <2>2. db[r] = NoRow /\ mem' = [mem EXCEPT ![p] = row] /\ db' = [db EXCEPT ![r] = mem'[p]]
    BY <1>1 DEF CreateProposal
  <2>3. accepted[r] = {}
    BY <2>2 DEF Agreement, NoOrderBehindUnsentRow, NoRow
  <2> HIDE DEF row
  <2>4. mem'[p] = row /\ db' = [db EXCEPT ![r] = row] /\ db'[r] = row
    BY <2>2 DEF TypeInv, TypeOK
  <2>5. NoOrderBehindUnsentRow'
    BY <1>0, <2>3, <2>4 DEF Agreement, NoOrderBehindUnsentRow, TypeInv, TypeOK
  <2>6. IntentIsDurable'
    BY <1>0 DEF SoleInvocation, IntentIsDurable
  <2>7. IdsComeLast'
    BY <2>1, <2>4 DEF Agreement, IdsComeLast, TypeInv, TypeOK
  <2>8. HeldAgrees(p)' /\ LoadedAgrees(p)'
    BY <1>0, <2>4 DEF NoRows
  <2> QED BY <2>5, <2>6, <2>7, <2>8 DEF Agreement, SoleInvocation
<1>2. CASE TakeRecord(p, r)
  <2>1. mem'[p] = db[r] /\ db' = db
    BY <1>2 DEF TakeRecord, TypeInv, TypeOK
  <2>2. HeldAgrees(p)' /\ LoadedAgrees(p)'
    BY <1>0, <2>1 DEF NoRows
  <2> QED BY <1>0, <2>1, <2>2
       DEF Agreement, NoOrderBehindUnsentRow, IntentIsDurable, IdsComeLast, SoleInvocation
<1> QED BY <1>1, <1>2

\* Letting go of a record, and crashing.
LEMMA AgreementLetGo ==
  ASSUME SoleInvocation, TypeInv, Agreement, NEW p \in Invocation,
         Abandon(p) \/ Crash(p)
  PROVE  Agreement'
<1>1. /\ UNCHANGED <<db, accepted>>
      /\ pc'[p] \in {"ready", "down"} /\ pc' \in [Invocation -> {pc'[p]}]
      /\ held'[p] = NoRecord /\ loaded'[p] = NoRows
  BY DEF Abandon, Crash, broker, Agreement, SoleInvocation, TypeInv, TypeOK
<1> QED BY <1>1, AgreementNoSave

\* The steps of reconcile on one record: what is saved is never a row that
\* could be submitted again.
LEMMA AgreementReconcileRecord ==
  ASSUME SoleInvocation, TypeInv, Agreement, NEW p \in Invocation, NEW r \in Record,
         ReconcileRecord(p, r)
  PROVE  Agreement'
<1> DEFINE old == loaded[p][r]
<1>0. /\ old \in Row /\ Reconciling(p, r)
      /\ old.brokerId # NoOrder => orders[old.brokerId] \in Order
      /\ \A o \in OrderId : opened[p][o] # NoOrder => opened[p][o] \in Order
  <2>1. Reconciling(p, r)
    BY DEF ReconcileRecord, ConfirmUnsubmitted, AdoptByReference, EscalateToAmbiguous,
           ConfirmTerminal, AdoptBrokerState, ClosedAtBroker, LeaveUnchanged
  <2> QED BY <2>1 DEF TypeInv, TypeOK, IdsAreKnown, Known, Row
<1> HIDE DEF old
<1>1. ASSUME NEW s \in {"RECONCILED", "AMBIGUOUS"}, s = "AMBIGUOUS" => old.brokerId = NoOrder,
             SaveLoaded(p, r, [old EXCEPT !.status = s])
      PROVE  Agreement'
  <2> DEFINE row == [old EXCEPT !.status = s]
  <2>1. row \in Row /\ row.status = s /\ row.brokerId = old.brokerId
    BY <1>0 DEF Row
  <2>2. SaveLoaded(p, r, row)
    BY <1>1
  <2> HIDE DEF row
  <2> QED BY <1>0, <1>1, <2>1, <2>2, AgreementSaveLoaded
<1>2. CASE ConfirmUnsubmitted(p, r)
  BY <1>1, <1>2 DEF ConfirmUnsubmitted, old
<1>3. CASE AdoptByReference(p, r)
  <2>1. PICK o \in Matches(p, r) :
          SaveLoaded(p, r, [old EXCEPT !.brokerId = o, !.status = opened[p][o].state,
                                       !.executed = opened[p][o].executed])
    BY <1>3 DEF AdoptByReference, old
  <2>2. o \in OrderId /\ opened[p][o] \in Order
    BY <1>0 DEF Matches
  <2> DEFINE row == [old EXCEPT !.brokerId = o, !.status = opened[p][o].state,
                                !.executed = opened[p][o].executed]
  <2>3. row \in Row /\ row.status \in BrokerStatus
    BY <1>0, <2>2 DEF Row, Order
  <2>4. SaveLoaded(p, r, row)
    BY <2>1
  <2> HIDE DEF row
  <2> QED BY <1>0, <2>3, <2>4, AgreementSaveLoaded
<1>4. CASE EscalateToAmbiguous(p, r)
  BY <1>1, <1>4 DEF EscalateToAmbiguous, old
<1>5. CASE ConfirmTerminal(p, r)
  BY <1>1, <1>5 DEF ConfirmTerminal, old
<1>6. CASE AdoptBrokerState(p, r)
  <2> DEFINE o   == orders[old.brokerId]
             row == [old EXCEPT
                       !.final = IF o.executed = 0 THEN @ ELSE o.executed,
                       !.executed = o.executed,
                       !.status = IF o.state \in Terminal THEN "RECONCILED" ELSE o.state]
  <2>1. SaveLoaded(p, r, row) /\ old.brokerId # NoOrder
    BY <1>6 DEF AdoptBrokerState, ClosedAtBroker, old
  <2>2. o.executed \in 0..Proposed /\ o.state \in BrokerStatus
    BY <1>0, <2>1 DEF Order
  <2>3. row \in Row /\ row.status \in Live \cup {"RECONCILED"}
    BY <1>0, <2>2 DEF Row
  <2> HIDE DEF row
  <2> QED BY <1>0, <2>1, <2>3, AgreementSaveLoaded
<1>7. CASE LeaveUnchanged(p, r)
  <2>1. /\ loaded' = [loaded EXCEPT ![p][r] = NoRow] /\ pc[p] = "reconciling"
        /\ UNCHANGED <<db, pc, held, mem, accepted>>
    BY <1>7 DEF LeaveUnchanged, Checked, Reconciling, broker
  <2>2. \A s \in Record : loaded'[p][s] = loaded[p][s] \/ loaded'[p][s] = NoRow
    BY <2>1 DEF TypeInv, TypeOK
  <2>3. HeldAgrees(p)' /\ LoadedAgrees(p)'
    BY <2>1, <2>2 DEF Agreement
  <2> QED BY <2>1, <2>3
       DEF Agreement, NoOrderBehindUnsentRow, IntentIsDurable, IdsComeLast, SoleInvocation
<1> QED BY <1>2, <1>3, <1>4, <1>5, <1>6, <1>7 DEF ReconcileRecord

LEMMA AgreementReconcile ==
  ASSUME SoleInvocation, TypeInv, Agreement, NEW p \in Invocation, Reconcile(p)
  PROVE  Agreement'
<1>1. ASSUME UNCHANGED <<db, held, mem, accepted>>, pc'[p] \in {"ready", "listing", "reconciling"},
             HeldAgrees(p)', LoadedAgrees(p)'
      PROVE  Agreement'
  BY <1>1 DEF Agreement, NoOrderBehindUnsentRow, IntentIsDurable, IdsComeLast, SoleInvocation
<1>2. CASE LoadUnresolved(p)
  <2>1. /\ UNCHANGED <<db, held, mem, accepted>> /\ pc'[p] = "listing" /\ held[p] = NoRecord
        /\ loaded'[p] = [r \in Record |->
             IF db[r].status \in Unsent \cup {"ABSENT", "AMBIGUOUS", "RECONCILED"}
             THEN NoRow ELSE db[r]]
    BY <1>2 DEF LoadUnresolved, Idle, broker, Agreement, TypeInv, TypeOK
  <2> QED BY <1>1, <2>1
<1>3. CASE ListOpenOrders(p)
  <2>1. /\ UNCHANGED <<db, held, mem, accepted, loaded>> /\ pc'[p] = "reconciling"
        /\ pc[p] = "listing"
    BY <1>3 DEF ListOpenOrders, broker, TypeInv, TypeOK
  <2> QED BY <1>1, <2>1 DEF Agreement
<1>4. CASE EndReconcile(p)
  <2>1. /\ UNCHANGED <<db, held, mem, accepted>> /\ pc'[p] = "ready" /\ held[p] = NoRecord
        /\ loaded'[p] = NoRows
    BY <1>4 DEF EndReconcile, broker, Agreement, TypeInv, TypeOK
  <2> QED BY <1>1, <2>1 DEF NoRows
<1> QED BY <1>2, <1>3, <1>4, AgreementReconcileRecord DEF Reconcile

\* The operator only changes a row no invocation would save over.
LEMMA AgreementOperator ==
  ASSUME SoleInvocation, TypeInv, Agreement, NEW r \in Record, OperatorResolves(r)
  PROVE  Agreement'
<1>1. ASSUME NEW row \in Row, Resolve(r, row),
             row.status \in Unsent => accepted[r] = {} /\ row.brokerId = NoOrder
      PROVE  Agreement'
  <2>1. /\ db[r].status = "AMBIGUOUS" /\ db' = [db EXCEPT ![r] = row]
        /\ UNCHANGED <<pc, held, mem, loaded, accepted>>
        /\ row.status \in Transitions["AMBIGUOUS"]
    BY <1>1 DEF Resolve, local, broker
  <2>2. row.status \notin {"ABSENT", "SUBMITTED", "AMBIGUOUS"}
    BY <2>1 DEF Transitions
  <2>3. NoOrderBehindUnsentRow'
    BY <1>1, <2>1, <2>2 DEF Agreement, NoOrderBehindUnsentRow, TypeInv, TypeOK
  <2>4. IdsComeLast'
    BY <1>1, <2>1, <2>2 DEF Agreement, IdsComeLast, TypeInv, TypeOK
  <2>5. \A q \in Record : q # r => db'[q] = db[q]
    BY <2>1 DEF TypeInv, TypeOK
  <2>6. IntentIsDurable'
    BY <2>1, <2>5 DEF Agreement, IntentIsDurable, TypeInv, TypeOK, SubmittingHolds
  <2>7. ASSUME NEW p \in Invocation
        PROVE  HeldAgrees(p)' /\ LoadedAgrees(p)'
    <3>1. HeldAgrees(p)'
      BY <2>1, <2>5 DEF Agreement, TypeInv, TypeOK
    <3>2. loaded[p][r] = NoRow
      BY <2>1 DEF Agreement
    <3>3. LoadedAgrees(p)'
      BY <2>1, <2>5, <3>2 DEF Agreement
    <3> QED BY <3>1, <3>3
  <2> QED BY <2>3, <2>4, <2>6, <2>7 DEF Agreement
<1>2. ASSUME NEW o \in OrderId, OperatorFinds(r, o)
      PROVE  Agreement'
  <2> DEFINE row == [db[r] EXCEPT !.status = orders[o].state, !.brokerId = o,
                                  !.executed = orders[o].executed]
  <2>1. orders[o] \in Order /\ db[r] \in Row
    BY <1>2 DEF OperatorFinds, IdsAreKnown, TypeInv, TypeOK
  <2>2. row \in Row /\ row.status \in BrokerStatus
    BY <2>1 DEF Row, Order
  <2>3. Resolve(r, row)
    BY <1>2 DEF OperatorFinds
  <2> HIDE DEF row
  <2> QED BY <1>1, <2>2, <2>3
<1>3. ASSUME NEW target \in Status, OperatorRulesOut(r, target)
      PROVE  Agreement'
  <2> DEFINE row == [db[r] EXCEPT !.status = target]
  <2>1. db[r] \in Row /\ db[r].brokerId = NoOrder /\ accepted[r] = {}
    BY <1>3 DEF OperatorRulesOut, Resolve, Agreement, IdsComeLast, TypeInv, TypeOK
  <2>2. row \in Row /\ row.brokerId = NoOrder
    BY <2>1 DEF Row
  <2>3. Resolve(r, row)
    BY <1>3 DEF OperatorRulesOut
  <2> HIDE DEF row
  <2> QED BY <1>1, <2>1, <2>2, <2>3
<1> QED BY <1>2, <1>3 DEF OperatorResolves

LEMMA AgreementStep ==
  ASSUME SoleInvocation
  PROVE  TypeInv /\ Agreement /\ [Next]_vars => Agreement'
<1> SUFFICES ASSUME TypeInv, Agreement, [Next]_vars PROVE Agreement'
  OBVIOUS
<1>1. ASSUME NEW p \in Invocation, Invoke(p)
      PROVE  Agreement'
  <2>1. CASE ProcessOrder(p)
    BY <2>1, AgreementSaves, AgreementSubmission DEF ProcessOrder
  <2> QED BY <1>1, <2>1, AgreementCallers, AgreementReconcile, AgreementLetGo DEF Invoke
<1>2. ASSUME NEW o \in OrderId, BrokerStep(o)
      PROVE  Agreement'
  <2>1. UNCHANGED <<db, pc, held, mem, loaded, accepted>>
    BY <1>2 DEF BrokerStep, PartialFill, Fill, Cancel, Reject, BrokerMoves, local
  <2> QED BY <2>1 DEF Agreement, NoOrderBehindUnsentRow, IntentIsDurable, IdsComeLast
<1>3. CASE UNCHANGED vars
  BY <1>3 DEF vars, Agreement, NoOrderBehindUnsentRow, IntentIsDurable, IdsComeLast
<1> QED BY <1>1, <1>2, <1>3, AgreementOperator DEF Next

\* With one invocation at a time nothing is saved over a row that has changed
\* since it was read, the broker is only asked while the row says SUBMITTED,
\* and no order is behind a row that would be submitted again.
THEOREM AgreementHolds ==
  ASSUME SoleInvocation
  PROVE  Spec => []Agreement
<1>1. TypeInv /\ Agreement /\ [Next]_vars => TypeInv' /\ Agreement'
  BY TypeStep, AgreementStep
<1> QED BY TypeInit, AgreementInit, <1>1, PTL DEF Spec

-----------------------------------------------------------------------------
(* At most one order per record.                                           *)

\* The paper broker's port; Kite's sends the request up to three times.
OneAttempt == MaxAttempts = 1

\* A request is only sent for a record the broker has never taken an order for.
RequestIsFirst ==
  \A p \in Invocation : pc[p] = "submitting" => accepted[held[p]] = {}

Once == NoDuplicateSubmission /\ RequestIsFirst

\* With one attempt, a failed request always ends submit_order.
LEMMA RetryGivesUp ==
  ASSUME OneAttempt, TypeInv, NEW p \in Invocation, RetryOrGiveUp(p)
  PROVE  GiveUpSubmitting(p)
<1>1. attempt[p] \in 0..0
  BY DEF OneAttempt, TypeInv, TypeOK
<1>2. ~(attempt[p] + 1 < MaxAttempts)
  BY <1>1 DEF OneAttempt
<1> QED BY <1>2 DEF RetryOrGiveUp

\* The order taken is the record's only one, and the request is not repeated.
LEMMA OncePlace ==
  ASSUME SoleInvocation, TypeInv, Once, NEW p \in Invocation, NEW o \in OrderId,
         pc[p] = "submitting", Place(held[p], o, OrderQuantity(mem[p])),
         pc'[p] # "submitting"
  PROVE  Once'
<1>1. held[p] \in Record /\ accepted[held[p]] = {}
  BY DEF Once, RequestIsFirst, TypeInv, SubmittingHolds
<1>2. accepted' = [accepted EXCEPT ![held[p]] = accepted[held[p]] \cup {o}]
  BY DEF Place
<1>3. accepted'[held[p]] = {o} /\ \A r \in Record : r # held[p] => accepted'[r] = accepted[r]
  BY <1>1, <1>2 DEF TypeInv, TypeOK
<1> QED BY <1>3 DEF Once, NoDuplicateSubmission, RequestIsFirst, SoleInvocation

\* Nothing is taken, and no new request is under way.
LEMMA OnceKept ==
  ASSUME SoleInvocation, Once, NEW p \in Invocation, UNCHANGED accepted,
         pc'[p] = "submitting" => pc[p] = "submitting" /\ held'[p] = held[p]
  PROVE  Once'
BY DEF Once, NoDuplicateSubmission, RequestIsFirst, SoleInvocation

LEMMA OnceStep ==
  ASSUME SoleInvocation, OneAttempt
  PROVE  TypeInv /\ Agreement /\ Once /\ [Next]_vars => Once'
<1> SUFFICES ASSUME TypeInv, Agreement, Once, [Next]_vars PROVE Once'
  OBVIOUS
<1> USE DEF TypeInv, TypeOK
<1>1. ASSUME NEW p \in Invocation, ProcessOrder(p)
      PROVE  Once'
  <2>1. CASE SubmitIntent(p)
    <3>1. held[p] \in Record /\ mem[p].status = "VERIFIED" /\ mem[p] = db[held[p]]
      BY <2>1 DEF SubmitIntent, Processing, Agreement
    <3>2. accepted[held[p]] = {}
      BY <3>1 DEF Agreement, NoOrderBehindUnsentRow
    <3> QED BY <2>1, <3>2
         DEF SubmitIntent, SaveHeld, broker, Once, NoDuplicateSubmission,
             RequestIsFirst, SoleInvocation
  <2>2. ASSUME NEW o \in OrderId, SubmitAcknowledged(p, o)
        PROVE  Once'
    BY <2>2, OncePlace DEF SubmitAcknowledged
  <2>3. ASSUME NEW o \in OrderId, SubmitUnanswered(p, o)
        PROVE  Once'
    BY <2>3, OncePlace, RetryGivesUp DEF SubmitUnanswered, GiveUpSubmitting
  <2>4. CASE SubmitNotReceived(p)
    BY <2>4, OnceKept, RetryGivesUp DEF SubmitNotReceived, GiveUpSubmitting, broker
  <2>5. CASE SubmitRefused(p) \/ LoseAcknowledgement(p)
    BY <2>5, OnceKept DEF SubmitRefused, LoseAcknowledgement, GiveUpSubmitting, broker
  <2>6. CASE \/ \E quantity \in 1..Proposed : VerifyApproved(p, quantity)
             \/ VerifyRejected(p) \/ Poll(p) \/ RecordPending(p)
    BY <2>6, OnceKept
       DEF VerifyApproved, VerifyRejected, Poll, RecordPending, SaveHeld, broker
  <2> QED BY <1>1, <2>1, <2>2, <2>3, <2>4, <2>5, <2>6 DEF ProcessOrder
<1>2. ASSUME NEW p \in Invocation, NEW r \in Record, CreateProposal(p, r) \/ TakeRecord(p, r)
      PROVE  Once'
  BY <1>2, OnceKept DEF CreateProposal, TakeRecord, Idle, broker
<1>3. ASSUME NEW p \in Invocation, Abandon(p) \/ Crash(p)
      PROVE  Once'
  BY <1>3, OnceKept DEF Abandon, Crash, broker
<1>4. ASSUME NEW p \in Invocation, Reconcile(p)
      PROVE  Once'
  <2>1. ASSUME NEW r \in Record, ReconcileRecord(p, r)
        PROVE  UNCHANGED <<accepted, pc, held>>
    BY <2>1 DEF ReconcileRecord, ConfirmUnsubmitted, AdoptByReference, EscalateToAmbiguous,
                ConfirmTerminal, AdoptBrokerState, LeaveUnchanged, SaveLoaded, broker
  <2>2. CASE LoadUnresolved(p) \/ ListOpenOrders(p) \/ EndReconcile(p)
    BY <2>2, OnceKept DEF LoadUnresolved, ListOpenOrders, EndReconcile, broker
  <2> QED BY <1>4, <2>1, <2>2, OnceKept DEF Reconcile
<1>5. CASE \E r \in Record : OperatorResolves(r)
  BY <1>5 DEF OperatorResolves, OperatorFinds, OperatorRulesOut, Resolve, local, broker,
              Once, NoDuplicateSubmission, RequestIsFirst
<1>6. CASE \E o \in OrderId : BrokerStep(o)
  BY <1>6 DEF BrokerStep, PartialFill, Fill, Cancel, Reject, BrokerMoves, local,
              Once, NoDuplicateSubmission, RequestIsFirst
<1>7. CASE UNCHANGED vars
  BY <1>7 DEF vars, Once, NoDuplicateSubmission, RequestIsFirst
<1> QED BY <1>1, <1>2, <1>3, <1>4, <1>5, <1>6, <1>7 DEF Next, Invoke

\* The broker never takes two orders for one record (DDR-001), whatever the
\* crashes, lost answers, reconciliations and operator releases: when
\* invocations do not overlap and the port sends each request once.
THEOREM NeverSubmittedTwice ==
  ASSUME SoleInvocation, OneAttempt
  PROVE  Spec => []NoDuplicateSubmission
<1>1. Init => Once
  BY DEF Init, Once, NoDuplicateSubmission, RequestIsFirst
<1>2. TypeInv /\ Agreement /\ Once /\ [Next]_vars => TypeInv' /\ Agreement' /\ Once'
  BY TypeStep, AgreementStep, OnceStep
<1>3. Once => NoDuplicateSubmission
  BY DEF Once
<1> QED BY TypeInit, AgreementInit, <1>1, <1>2, <1>3, PTL DEF Spec

-----------------------------------------------------------------------------
(* What no step may do.                                                    *)

\* An invocation never saves over an AMBIGUOUS or a RECONCILED row.
LEMMA AutomationKeepsOut ==
  ASSUME SoleInvocation, TypeInv, Agreement, NEW p \in Invocation, Invoke(p),
         NEW r \in Record, db'[r] # db[r]
  PROVE  db[r].status \notin {"AMBIGUOUS", "RECONCILED"}
<1> USE DEF TypeInv, TypeOK
<1>1. CASE ProcessOrder(p)
  <2>1. CASE \/ \E quantity \in 1..Proposed : VerifyApproved(p, quantity)
             \/ VerifyRejected(p) \/ SubmitIntent(p) \/ Poll(p)
    <3>1. /\ pc[p] = "ready" /\ held[p] # NoRecord
          /\ mem[p].status \in {"PROPOSAL", "VERIFIED"} \cup Live
          /\ \E row : db' = [db EXCEPT ![held[p]] = row]
      BY <2>1 DEF VerifyApproved, VerifyRejected, SubmitIntent, Poll, Processing, SaveHeld
    <3>2. r = held[p]
      BY <3>1
    <3> QED BY <3>1, <3>2 DEF Agreement
  <2>2. CASE RecordPending(p)
    <3>1. r = held[p] /\ pc[p] = "acknowledged"
      BY <2>2 DEF RecordPending, SaveHeld
    <3> QED BY <3>1 DEF Agreement, IntentIsDurable
  <2>3. CASE \/ \E o \in OrderId : SubmitAcknowledged(p, o) \/ SubmitUnanswered(p, o)
             \/ SubmitNotReceived(p) \/ SubmitRefused(p) \/ LoseAcknowledgement(p)
    BY <2>3 DEF SubmitAcknowledged, SubmitUnanswered, SubmitNotReceived, SubmitRefused,
                LoseAcknowledgement, RetryOrGiveUp
  <2> QED BY <1>1, <2>1, <2>2, <2>3 DEF ProcessOrder
<1>2. CASE Reconcile(p)
  <2>1. PICK q \in Record : ReconcileRecord(p, q)
    BY <1>2 DEF Reconcile, LoadUnresolved, ListOpenOrders, EndReconcile
  <2>2. Reconciling(p, q) /\ \E row : db' = [db EXCEPT ![q] = row]
    BY <2>1 DEF ReconcileRecord, ConfirmUnsubmitted, AdoptByReference, EscalateToAmbiguous,
                ConfirmTerminal, AdoptBrokerState, ClosedAtBroker, LeaveUnchanged, SaveLoaded
  <2>3. q = r
    BY <2>2
  <2> QED BY <2>2, <2>3 DEF Reconciling, Agreement
<1>3. ASSUME NEW q \in Record, CreateProposal(p, q)
      PROVE  db[r].status \notin {"AMBIGUOUS", "RECONCILED"}
  BY <1>3 DEF CreateProposal, NoRow
<1> QED BY <1>1, <1>2, <1>3 DEF Invoke, TakeRecord, Abandon, Crash

\* A changed row was changed by an invocation or by the operator's call on it.
LEMMA ChangedRow ==
  ASSUME SoleInvocation, TypeInv, Agreement, [Next]_vars, NEW r \in Record, db'[r] # db[r]
  PROVE  OperatorResolves(r) \/ db[r].status \notin {"AMBIGUOUS", "RECONCILED"}
<1>1. ASSUME NEW q \in Record, OperatorResolves(q)
      PROVE  OperatorResolves(r)
  <2>1. \E row : db' = [db EXCEPT ![q] = row]
    BY <1>1 DEF OperatorResolves, OperatorFinds, OperatorRulesOut, Resolve
  <2>2. q = r
    BY <2>1 DEF TypeInv, TypeOK
  <2> QED BY <1>1, <2>2
<1>2. ASSUME NEW o \in OrderId, BrokerStep(o)
      PROVE  FALSE
  BY <1>2 DEF BrokerStep, PartialFill, Fill, Cancel, Reject, BrokerMoves
<1> QED BY <1>1, <1>2, AutomationKeepsOut DEF Next, vars

\* No automated step changes an AMBIGUOUS row (DDR-001, models.py), when
\* invocations do not overlap: no stale in-memory or loaded copy is saved over
\* what awaits the operator.
THEOREM AmbiguousIsTheOperators ==
  ASSUME SoleInvocation
  PROVE  Spec => OnlyOperatorLeavesAmbiguous
<1> DEFINE Kept == \A r \in Record :
                     db[r].status = "AMBIGUOUS" /\ db'[r] # db[r] => OperatorResolves(r)
<1>1. TypeInv /\ Agreement /\ [Next]_vars => TypeInv' /\ Agreement'
  BY TypeStep, AgreementStep
<1>2. TypeInv /\ Agreement /\ [Next]_vars => [Kept]_vars
  BY ChangedRow
<1> QED BY TypeInit, AgreementInit, <1>1, <1>2, PTL DEF Spec, OnlyOperatorLeavesAmbiguous

\* A RECONCILED row is never changed again: no late poll, stale snapshot or
\* restarted invocation reopens a closed record.
THEOREM ClosedForGood ==
  ASSUME SoleInvocation
  PROVE  Spec => ReconciledIsFinal
<1> DEFINE Kept == \A r \in Record : db[r].status = "RECONCILED" => db'[r] = db[r]
<1>1. TypeInv /\ Agreement /\ [Next]_vars => TypeInv' /\ Agreement'
  BY TypeStep, AgreementStep
<1>2. TypeInv /\ Agreement /\ [Next]_vars => [Kept]_vars
  BY ChangedRow DEF OperatorResolves, OperatorFinds, OperatorRulesOut, Resolve
<1> QED BY TypeInit, AgreementInit, <1>1, <1>2, PTL DEF Spec, ReconciledIsFinal

-----------------------------------------------------------------------------
(* OrderExecution implements SubmissionContract, proved for invocations    *)
(* that do not overlap and a broker port that sends each request once.     *)

\* The stage of a row is read off its status, and for FAILED its id.
LEMMA StageByStatus ==
  ASSUME NEW row \in Row
  PROVE  /\ row.status \in Unsent \cup {"ABSENT"} => StageOf(row) = "planned"
         /\ row.status \in {"SUBMITTED", "FILLED", "CANCELLED"} \cup Live
              => StageOf(row) = "intended"
         /\ row.status = "FAILED" /\ row.brokerId # NoOrder => StageOf(row) = "intended"
         /\ row.status = "FAILED" /\ row.brokerId = NoOrder => StageOf(row) = "closed"
         /\ row.status = "RECONCILED" => StageOf(row) = "closed"
         /\ row.status = "AMBIGUOUS" => StageOf(row) = "doubtful"
BY DEF StageOf, Row

\* The moves the contract allows one record, when no order is taken.
Allowed(r, from, to) ==
  \/ from = to
  \/ from = "planned"  /\ to \in {"intended", "closed"}
  \/ from = "intended" /\ to \in {"doubtful", "closed"}
  \/ from = "doubtful" /\ to = "closed"
  \/ from = "doubtful" /\ to = "planned"  /\ accepted[r] = {}
  \/ from = "doubtful" /\ to = "intended" /\ accepted[r] # {}

\* Saving one row is one move of the contract, or invisible to it.
LEMMA SaveIsMove ==
  ASSUME db \in [Record -> Row], NEW r \in Record, NEW row \in Row,
         db' = [db EXCEPT ![r] = row], UNCHANGED accepted,
         Allowed(r, StageOf(db[r]), StageOf(row))
  PROVE  [Contract!Next]_(Contract!contract)
<1> DEFINE stageOf == [q \in Record |-> StageOf(db[q])]
           to      == StageOf(row)
<1>1. db' \in [Record -> Row] /\ db'[r] = row /\ \A q \in Record : q # r => db'[q] = db[q]
  OBVIOUS
<1>2. stageOf' = [q \in Record |-> StageOf(db'[q])]
  BY DEF StageOf
<1>3. stageOf' = [stageOf EXCEPT ![r] = to]
  BY <1>1, <1>2
<1>4. stageOf[r] = StageOf(db[r])
  OBVIOUS
<1> HIDE DEF to
<1>5. CASE stageOf[r] = to
  <2>1. stageOf' = stageOf
    BY <1>3, <1>5
  <2> QED BY <2>1 DEF Contract!contract
<1>6. CASE stageOf[r] # to
  <2>1. Allowed(r, stageOf[r], to) /\ stageOf[r] # to
    BY <1>4, <1>6 DEF to
  <2> HIDE DEF stageOf
  <2>2. \/ stageOf[r] = "planned"  /\ to = "intended"
        \/ stageOf[r] = "intended" /\ to = "doubtful"
        \/ stageOf[r] = "doubtful" /\ to = "intended" /\ accepted[r] # {}
        \/ stageOf[r] = "doubtful" /\ to = "planned" /\ accepted[r] = {}
        \/ stageOf[r] \in {"planned", "intended", "doubtful"} /\ to = "closed"
    BY <2>1 DEF Allowed
  <2>3. stageOf' = [stageOf EXCEPT ![r] = to]
    BY <1>3
  <2> USE DEF stageOf
  <2>4. Contract!Intend(r) \/ Contract!Doubt(r) \/ Contract!Confirm(r)
          \/ Contract!Release(r) \/ Contract!Close(r)
    BY <2>2, <2>3 DEF Contract!Intend, Contract!Doubt, Contract!Confirm, Contract!Release,
                      Contract!Close, Contract!Move
  <2> QED BY <2>4 DEF Contract!Next
<1> QED BY <1>5, <1>6

\* A step that neither saves nor takes an order is invisible to the contract.
LEMMA NoSaveIsStutter ==
  ASSUME UNCHANGED <<db, accepted>>
  PROVE  [Contract!Next]_(Contract!contract)
BY DEF Contract!contract, StageOf

\* The order the broker takes is the contract's Take.
LEMMA PlaceIsTake ==
  ASSUME TypeInv, Agreement, Once, NEW p \in Invocation, NEW o \in OrderId,
         pc[p] = "submitting", Place(held[p], o, OrderQuantity(mem[p])), UNCHANGED db
  PROVE  [Contract!Next]_(Contract!contract)
<1>1. /\ held[p] \in Record /\ db[held[p]].status = "SUBMITTED"
      /\ db[held[p]] \in Row /\ accepted[held[p]] = {}
  BY DEF TypeInv, TypeOK, SubmittingHolds, Agreement, IntentIsDurable, Once, RequestIsFirst
<1>2. StageOf(db[held[p]]) = "intended"
  BY <1>1, StageByStatus
<1>3. \A q \in Record : o \notin accepted[q]
  BY DEF Place, TypeInv, TypeOK, IdsAreKnown
<1>4. accepted' = [accepted EXCEPT ![held[p]] = {o}]
  BY <1>1 DEF Place
<1>5. Contract!Take(held[p], o)
  BY <1>1, <1>2, <1>3, <1>4 DEF Contract!Take, StageOf
<1> QED BY <1>1, <1>5 DEF Contract!Next

\* process_order: SubmitIntent is Intend, a rejection is Close, the broker's
\* taking the order is Take; the rest is invisible.
LEMMA RefineProcessOrder ==
  ASSUME SoleInvocation, TypeInv, Agreement, Once, NEW p \in Invocation, ProcessOrder(p)
  PROVE  [Contract!Next]_(Contract!contract)
<1> USE DEF Processing
<1>0. /\ db \in [Record -> Row] /\ mem[p] \in Row
      /\ held[p] # NoRecord => held[p] \in Record
  BY DEF TypeInv, TypeOK
<1>1. ASSUME pc[p] = "ready", held[p] # NoRecord, mem[p].status # "AMBIGUOUS"
      PROVE  /\ held[p] \in Record /\ mem[p] = db[held[p]]
             /\ mem[p].status \in Unsent => mem[p].brokerId = NoOrder
  BY <1>0, <1>1 DEF Agreement, IdsComeLast
<1>2. ASSUME NEW row \in Row, SaveHeld(p, row), held[p] # NoRecord,
             Allowed(held[p], StageOf(db[held[p]]), StageOf(row))
      PROVE  [Contract!Next]_(Contract!contract)
  BY <1>0, <1>2, SaveIsMove DEF SaveHeld, broker
<1>3. ASSUME NEW quantity \in 1..Proposed, VerifyApproved(p, quantity)
      PROVE  [Contract!Next]_(Contract!contract)
  <2> DEFINE row == [mem[p] EXCEPT !.status = "VERIFIED", !.final = quantity]
  <2>1. pc[p] = "ready" /\ held[p] # NoRecord /\ mem[p].status = "PROPOSAL" /\ SaveHeld(p, row)
    BY <1>3 DEF VerifyApproved
  <2>2. quantity \in 0..Proposed
    BY QuantityAssumption
  <2>3. row \in Row /\ row.status = "VERIFIED"
    BY <1>0, <2>2 DEF Row
  <2>4. StageOf(mem[p]) = "planned" /\ StageOf(row) = "planned" /\ mem[p] = db[held[p]]
    BY <1>0, <1>1, <2>1, <2>3, StageByStatus
  <2> HIDE DEF row
  <2> QED BY <1>2, <2>1, <2>3, <2>4 DEF Allowed
<1>4. CASE VerifyRejected(p)
  <2> DEFINE row == [mem[p] EXCEPT !.status = "FAILED"]
  <2>1. pc[p] = "ready" /\ held[p] # NoRecord /\ mem[p].status = "PROPOSAL" /\ SaveHeld(p, row)
    BY <1>4 DEF VerifyRejected
  <2>2. mem[p].brokerId = NoOrder /\ mem[p] = db[held[p]]
    BY <1>1, <2>1
  <2>3. row \in Row /\ row.status = "FAILED" /\ row.brokerId = NoOrder
    BY <1>0, <2>2 DEF Row
  <2>4. StageOf(mem[p]) = "planned" /\ StageOf(row) = "closed"
    BY <1>0, <2>1, <2>3, StageByStatus
  <2> HIDE DEF row
  <2> QED BY <1>2, <2>1, <2>2, <2>3, <2>4 DEF Allowed
<1>5. CASE SubmitIntent(p)
  <2> DEFINE row == [mem[p] EXCEPT !.status = "SUBMITTED"]
  <2>1. pc[p] = "ready" /\ held[p] # NoRecord /\ mem[p].status = "VERIFIED" /\ SaveHeld(p, row)
    BY <1>5 DEF SubmitIntent
  <2>2. row \in Row /\ row.status = "SUBMITTED"
    BY <1>0 DEF Row
  <2>3. StageOf(mem[p]) = "planned" /\ StageOf(row) = "intended" /\ mem[p] = db[held[p]]
    BY <1>0, <1>1, <2>1, <2>2, StageByStatus
  <2> HIDE DEF row
  <2> QED BY <1>2, <2>1, <2>2, <2>3 DEF Allowed
<1>6. CASE RecordPending(p)
  <2>1. /\ pc[p] = "acknowledged" /\ SaveHeld(p, mem[p]) /\ mem[p].status = "PENDING"
        /\ held[p] \in Record /\ db[held[p]].status = "SUBMITTED"
    BY <1>6 DEF RecordPending, Agreement, IntentIsDurable, TypeInv, SubmittingHolds
  <2>2. StageOf(mem[p]) = "intended" /\ StageOf(db[held[p]]) = "intended"
    BY <1>0, <2>1, StageByStatus
  <2>3. held[p] # NoRecord
    BY <2>1, NullAssumption
  <2> QED BY <1>0, <1>2, <2>1, <2>2, <2>3 DEF Allowed
<1>7. CASE Poll(p)
  <2> DEFINE o   == orders[mem[p].brokerId]
             row == [mem[p] EXCEPT !.status = o.state, !.executed = o.executed]
  <2>1. /\ pc[p] = "ready" /\ held[p] # NoRecord /\ mem[p].status \in Live
        /\ SaveHeld(p, row) /\ mem[p].brokerId # NoOrder
    BY <1>7 DEF Poll
  <2>2. o \in Order
    BY <1>0, <2>1 DEF TypeInv, TypeOK, IdsAreKnown, Known, Row
  <2>3. row \in Row /\ row.status \in BrokerStatus /\ row.brokerId # NoOrder
    BY <1>0, <2>1, <2>2 DEF Row, Order
  <2>4. StageOf(mem[p]) = "intended" /\ mem[p] = db[held[p]]
    BY <1>0, <1>1, <2>1, StageByStatus
  <2> HIDE DEF row
  <2>5. StageOf(row) = "intended"
    BY <2>3, StageByStatus
  <2> QED BY <1>2, <2>1, <2>3, <2>4, <2>5 DEF Allowed
<1>8. ASSUME NEW o \in OrderId, SubmitAcknowledged(p, o) \/ SubmitUnanswered(p, o)
      PROVE  [Contract!Next]_(Contract!contract)
  BY <1>8, PlaceIsTake DEF SubmitAcknowledged, SubmitUnanswered, RetryOrGiveUp
<1>9. CASE SubmitNotReceived(p) \/ SubmitRefused(p) \/ LoseAcknowledgement(p)
  BY <1>9, NoSaveIsStutter
     DEF SubmitNotReceived, SubmitRefused, LoseAcknowledgement, RetryOrGiveUp, broker
<1> QED BY <1>3, <1>4, <1>5, <1>6, <1>7, <1>8, <1>9 DEF ProcessOrder

\* reconcile: escalation is Doubt, a confirmed or adopted terminal outcome is
\* Close; adopting a live order is invisible.
LEMMA RefineReconcile ==
  ASSUME SoleInvocation, TypeInv, Agreement, NEW p \in Invocation, Reconcile(p)
  PROVE  [Contract!Next]_(Contract!contract)
<1>1. CASE LoadUnresolved(p) \/ ListOpenOrders(p) \/ EndReconcile(p)
  BY <1>1, NoSaveIsStutter DEF LoadUnresolved, ListOpenOrders, EndReconcile, broker
<1>2. ASSUME NEW r \in Record, ReconcileRecord(p, r)
      PROVE  [Contract!Next]_(Contract!contract)
  <2> DEFINE old == loaded[p][r]
  <2>0. /\ old \in Row /\ db \in [Record -> Row]
        /\ Reconciling(p, r) => old = db[r]
        /\ Reconciling(p, r) => old.status \notin Unsent \cup {"ABSENT", "AMBIGUOUS", "RECONCILED"}
        /\ old.brokerId # NoOrder => orders[old.brokerId] \in Order
        /\ \A o \in OrderId : opened[p][o] # NoOrder => opened[p][o] \in Order
    BY DEF TypeInv, TypeOK, IdsAreKnown, Known, Row, Agreement, Reconciling
  <2> HIDE DEF old
  <2>1. ASSUME NEW row \in Row, SaveLoaded(p, r, row), Reconciling(p, r),
               Allowed(r, StageOf(old), StageOf(row))
        PROVE  [Contract!Next]_(Contract!contract)
    BY <2>0, <2>1, SaveIsMove DEF SaveLoaded, broker
  <2>2. ASSUME Reconciling(p, r), old.status = "FAILED" => old.brokerId # NoOrder
        PROVE  StageOf(old) = "intended"
    <3>1. old.status \in {"SUBMITTED", "FILLED", "CANCELLED", "FAILED"} \cup Live
      BY <2>0, <2>2 DEF Row
    <3> QED BY <2>0, <2>2, <3>1, StageByStatus
  <2>3. CASE ConfirmUnsubmitted(p, r)
    <3> DEFINE row == [old EXCEPT !.status = "RECONCILED"]
    <3>1. /\ SaveLoaded(p, r, row) /\ Reconciling(p, r)
          /\ old.status = "FAILED" /\ old.brokerId = NoOrder
      BY <2>3 DEF ConfirmUnsubmitted, old
    <3>2. row \in Row /\ row.status = "RECONCILED"
      BY <2>0 DEF Row
    <3> HIDE DEF row
    <3>3. StageOf(old) = "closed" /\ StageOf(row) = "closed"
      BY <2>0, <3>1, <3>2, StageByStatus
    <3> QED BY <2>1, <3>1, <3>2, <3>3 DEF Allowed
  <2>4. CASE AdoptByReference(p, r)
    <3>1. PICK o \in Matches(p, r) :
            SaveLoaded(p, r, [old EXCEPT !.brokerId = o, !.status = opened[p][o].state,
                                         !.executed = opened[p][o].executed])
      BY <2>4 DEF AdoptByReference, old
    <3>2. o \in OrderId /\ opened[p][o] \in Order
      BY <2>0 DEF Matches
    <3> DEFINE row == [old EXCEPT !.brokerId = o, !.status = opened[p][o].state,
                                  !.executed = opened[p][o].executed]
    <3>3. row \in Row /\ row.status \in BrokerStatus /\ row.brokerId # NoOrder
      BY <2>0, <3>2, NullAssumption DEF Row, Order
    <3>4. SaveLoaded(p, r, row) /\ Reconciling(p, r) /\ old.status # "FAILED"
      BY <2>4, <3>1 DEF AdoptByReference, old
    <3> HIDE DEF row
    <3>5. StageOf(old) = "intended" /\ StageOf(row) = "intended"
      BY <2>2, <3>3, <3>4, StageByStatus
    <3> QED BY <2>1, <3>3, <3>4, <3>5 DEF Allowed
  <2>5. CASE EscalateToAmbiguous(p, r)
    <3> DEFINE row == [old EXCEPT !.status = "AMBIGUOUS"]
    <3>1. SaveLoaded(p, r, row) /\ Reconciling(p, r) /\ old.status = "SUBMITTED"
      BY <2>5 DEF EscalateToAmbiguous, old
    <3>2. row \in Row /\ row.status = "AMBIGUOUS"
      BY <2>0 DEF Row
    <3> HIDE DEF row
    <3>3. StageOf(old) = "intended" /\ StageOf(row) = "doubtful"
      BY <2>0, <3>1, <3>2, StageByStatus
    <3> QED BY <2>1, <3>1, <3>2, <3>3 DEF Allowed
  <2>6. CASE ConfirmTerminal(p, r)
    <3> DEFINE row == [old EXCEPT !.status = "RECONCILED"]
    <3>1. SaveLoaded(p, r, row) /\ Reconciling(p, r) /\ old.brokerId # NoOrder
      BY <2>6 DEF ConfirmTerminal, ClosedAtBroker, old
    <3>2. row \in Row /\ row.status = "RECONCILED"
      BY <2>0 DEF Row
    <3> HIDE DEF row
    <3>3. StageOf(old) = "intended" /\ StageOf(row) = "closed"
      BY <2>2, <3>1, <3>2, StageByStatus
    <3> QED BY <2>1, <3>1, <3>2, <3>3 DEF Allowed
  <2>7. CASE AdoptBrokerState(p, r)
    <3> DEFINE o   == orders[old.brokerId]
               row == [old EXCEPT
                         !.final = IF o.executed = 0 THEN @ ELSE o.executed,
                         !.executed = o.executed,
                         !.status = IF o.state \in Terminal THEN "RECONCILED" ELSE o.state]
    <3>1. SaveLoaded(p, r, row) /\ Reconciling(p, r) /\ old.brokerId # NoOrder
      BY <2>7 DEF AdoptBrokerState, ClosedAtBroker, old
    <3>2. o.executed \in 0..Proposed /\ o.state \in BrokerStatus
      BY <2>0, <3>1 DEF Order
    <3>3. row \in Row /\ row.status \in Live \cup {"RECONCILED"}
      BY <2>0, <3>2 DEF Row
    <3> HIDE DEF row
    <3>4. StageOf(old) = "intended" /\ StageOf(row) \in {"intended", "closed"}
      BY <2>2, <3>1, <3>3, StageByStatus
    <3> QED BY <2>1, <3>1, <3>3, <3>4 DEF Allowed
  <2>8. CASE LeaveUnchanged(p, r)
    BY <2>8, NoSaveIsStutter DEF LeaveUnchanged, broker
  <2> QED BY <1>2, <2>3, <2>4, <2>5, <2>6, <2>7, <2>8 DEF ReconcileRecord
<1> QED BY <1>1, <1>2 DEF Reconcile

\* The operator: finding the order is Confirm, ruling it out is Release or Close.
LEMMA RefineOperator ==
  ASSUME TypeInv, Agreement, NEW r \in Record, OperatorResolves(r)
  PROVE  [Contract!Next]_(Contract!contract)
<1>0. db \in [Record -> Row] /\ db[r] \in Row
  BY DEF TypeInv, TypeOK
<1>1. ASSUME NEW row \in Row, Resolve(r, row), Allowed(r, "doubtful", StageOf(row))
      PROVE  [Contract!Next]_(Contract!contract)
  <2>1. db[r].status = "AMBIGUOUS" /\ db' = [db EXCEPT ![r] = row] /\ UNCHANGED accepted
    BY <1>1 DEF Resolve, broker
  <2>2. StageOf(db[r]) = "doubtful"
    BY <1>0, <2>1, StageByStatus
  <2> QED BY <1>0, <1>1, <2>1, <2>2, SaveIsMove
<1>2. ASSUME NEW o \in OrderId, OperatorFinds(r, o)
      PROVE  [Contract!Next]_(Contract!contract)
  <2> DEFINE row == [db[r] EXCEPT !.status = orders[o].state, !.brokerId = o,
                                  !.executed = orders[o].executed]
  <2>1. orders[o] \in Order /\ accepted[r] # {} /\ Resolve(r, row)
    BY <1>2 DEF OperatorFinds, IdsAreKnown, TypeInv, TypeOK
  <2>2. row \in Row /\ row.status \in BrokerStatus /\ row.brokerId # NoOrder
    BY <1>0, <2>1, NullAssumption DEF Row, Order
  <2> HIDE DEF row
  <2>3. StageOf(row) = "intended"
    BY <2>2, StageByStatus
  <2> QED BY <1>1, <2>1, <2>2, <2>3 DEF Allowed
<1>3. ASSUME NEW target \in Status, OperatorRulesOut(r, target)
      PROVE  [Contract!Next]_(Contract!contract)
  <2> DEFINE row == [db[r] EXCEPT !.status = target]
  <2>1. /\ accepted[r] = {} /\ Resolve(r, row) /\ db[r].brokerId = NoOrder
        /\ target \in {"VERIFIED", "FAILED", "RECONCILED"}
    BY <1>3 DEF OperatorRulesOut, Resolve, Agreement, IdsComeLast
  <2>2. row \in Row /\ row.status = target /\ row.brokerId = NoOrder
    BY <1>0, <2>1 DEF Row
  <2> HIDE DEF row
  <2>3. StageOf(row) \in {"planned", "closed"}
    BY <2>1, <2>2, StageByStatus
  <2> QED BY <1>1, <2>1, <2>2, <2>3 DEF Allowed
<1> QED BY <1>2, <1>3 DEF OperatorResolves

LEMMA RefineStep ==
  ASSUME SoleInvocation, TypeInv, Agreement, Once, [Next]_vars
  PROVE  [Contract!Next]_(Contract!contract)
<1>1. ASSUME NEW p \in Invocation, NEW r \in Record, CreateProposal(p, r)
      PROVE  [Contract!Next]_(Contract!contract)
  <2> DEFINE row == [NoRow EXCEPT !.status = "PROPOSAL"]
  <2>1. row \in Row /\ row.status = "PROPOSAL" /\ NoRow.status = "ABSENT"
    BY NoRowType DEF NoRow, Row
  <2>2. db[r] = NoRow /\ mem' = [mem EXCEPT ![p] = row] /\ db' = [db EXCEPT ![r] = mem'[p]]
        /\ UNCHANGED accepted
    BY <1>1 DEF CreateProposal, broker
  <2> HIDE DEF row
  <2>3. db \in [Record -> Row] /\ db' = [db EXCEPT ![r] = row]
    BY <2>2 DEF TypeInv, TypeOK
  <2>4. StageOf(db[r]) = "planned" /\ StageOf(row) = "planned"
    BY <2>1, <2>2, NoRowType, StageByStatus
  <2>5. Allowed(r, StageOf(db[r]), StageOf(row))
    BY <2>4 DEF Allowed
  <2> QED BY <2>1, <2>2, <2>3, <2>5, SaveIsMove
<1>2. ASSUME NEW p \in Invocation, Invoke(p)
      PROVE  [Contract!Next]_(Contract!contract)
  <2>1. ASSUME NEW r \in Record, TakeRecord(p, r)
        PROVE  [Contract!Next]_(Contract!contract)
    BY <2>1, NoSaveIsStutter DEF TakeRecord, broker
  <2>2. CASE Abandon(p) \/ Crash(p)
    BY <2>2, NoSaveIsStutter DEF Abandon, Crash, broker
  <2> QED BY <1>1, <1>2, <2>1, <2>2, RefineProcessOrder, RefineReconcile DEF Invoke
<1>3. ASSUME NEW o \in OrderId, BrokerStep(o)
      PROVE  [Contract!Next]_(Contract!contract)
  <2>1. UNCHANGED <<db, accepted>>
    BY <1>3 DEF BrokerStep, PartialFill, Fill, Cancel, Reject, BrokerMoves
  <2> QED BY <2>1, NoSaveIsStutter
<1>4. CASE UNCHANGED vars
  BY <1>4, NoSaveIsStutter DEF vars
<1> QED BY <1>2, <1>3, <1>4, RefineOperator DEF Next

\* The execution core keeps the contract of DDR-001: it asks the broker only
\* after a durable intent, has at most one order taken per record, and leaves
\* doubt to the operator; for invocations that do not overlap and a port that
\* sends each request once.
THEOREM CoreImplementsContract ==
  ASSUME SoleInvocation, OneAttempt
  PROVE  Spec => ImplementsContract
<1>1. Init => Contract!Init
  BY DEF Init, Contract!Init, NoRows, NoRow, StageOf
<1>2. Init => Once
  BY DEF Init, Once, NoDuplicateSubmission, RequestIsFirst
<1>3. TypeInv /\ Agreement /\ Once /\ [Next]_vars => TypeInv' /\ Agreement' /\ Once'
  BY TypeStep, AgreementStep, OnceStep
<1>4. TypeInv /\ Agreement /\ Once /\ [Next]_vars => [Contract!Next]_(Contract!contract)
  BY RefineStep
<1> QED BY TypeInit, AgreementInit, <1>1, <1>2, <1>3, <1>4, PTL
        DEF Spec, ImplementsContract, Contract!Spec
=============================================================================
