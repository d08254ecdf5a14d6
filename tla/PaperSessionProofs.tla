------------------------- MODULE PaperSessionProofs -------------------------
(***************************************************************************)
(* Proofs about the paper session and its two harnesses, for any number of *)
(* records, cycles, calls, tries and faults.                               *)
(***************************************************************************)
EXTENDS PaperSessionProperties, SumLemmas

-----------------------------------------------------------------------------
(* The invariants.  First where each program may be, and what for.         *)

InCall == pc \in {"call", "placing", "called", "raised"}
InPass == pc \in {"listing", "reconciling", "confirmed", "unconfirmed"}

\* A record is in memory during its calls, and across the restart between two.
Paused == InPass /\ purpose = "reload"
Busy == InCall \/ Paused

ControlInv ==
  /\ ~InPass => purpose = "scheduled"
  /\ pc \in {"confirmed", "unconfirmed"} => purpose \in {"reload", "interim", "verify", "final"}
  /\ program = "session" =>
       /\ pc \notin {"confirmed", "unconfirmed", "over"}
       /\ purpose \in {"restart", "scheduled", "purge"}
  /\ program = "stress" =>
       /\ pc \notin {"sweep", "evening", "purging", "archiving", "trimming"}
       /\ InPass => purpose \in {"reload", "interim", "final"}
       /\ pc = "dawn" => \A e \in Execution : row[e] = NoRow
  /\ program = "drill" =>
       /\ pc \notin {"purging", "archiving", "trimming"}
       /\ purpose \in {"scheduled", "verify", "final"}
  /\ caller = "sweep" => InCall /\ program # "stress"
  /\ Busy <=> held # Nobody
  /\ Busy /\ caller = "cycle" => slot > 0

-----------------------------------------------------------------------------
(* What the paper broker does to an order, and how far the row of a record *)
(* may be behind its order.                                                *)

OrderSound(o) ==
  /\ o \in PaperOrder
  /\ o.executed <= o.quantity
  /\ o.state \in {"PENDING", "CANCELLED"} => o.executed = 0
  /\ o.state = "PARTIALLY_FILLED" => o.scenario = "PARTIAL_FILL"
  /\ o.state = "FILLED" => o.executed = o.quantity

Behind(r, o) ==
  /\ r.executed <= o.executed
  /\ r.status = o.state => r.executed = o.executed
  /\ r.status \in {"FILLED", "CANCELLED"} => o.state = r.status
  /\ r.status = "PARTIALLY_FILLED" => o.state # "PENDING"
  /\ r.status = "RECONCILED" => o.state \notin Live /\ r.executed = o.executed

RowShape(r) ==
  /\ r.status = "ABSENT" => r = NoRow
  /\ r.status \in Unsent \cup {"SUBMITTED", "AMBIGUOUS", "FAILED"} => ~r.sent
  /\ r.status \in Live \cup {"FILLED", "CANCELLED"} => r.sent
  /\ r.status \in {"VERIFIED", "SUBMITTED"} => r.final > 0
  /\ ~r.sent => r.executed = 0

\* A row and the order the broker has for it, given which records ever had an
\* order placed and which died with their process.
Agrees(r, o, e, ordered, gone) ==
  /\ RowShape(r)
  /\ e \in gone => r # NoRow
  /\ r.sent => e \in ordered
  /\ r.status \in Unsent \cup {"ABSENT", "FAILED"} => e \notin ordered
  /\ r.status = "RECONCILED" /\ ~r.sent => e \notin ordered
  /\ o # NoOrder =>
       /\ OrderSound(o) /\ e \in ordered /\ e \notin gone
       /\ r.sent => Behind(r, o)
       /\ ~r.sent => r.status = "SUBMITTED" /\ o.state = "PENDING"

RowAgrees(e) == Agrees(row[e], book[e], e, placed, bygone)

\* The record in memory is its row, until a save of it raises.
Unsynced == pc = "raised" /\ mem # row[held]

MemAgrees ==
  /\ held \notin bygone /\ row[held] # NoRow
  /\ ~Unsynced => mem = row[held]
  /\ Unsynced =>
       /\ held \in unsaved
       /\ row[held].status \in Unsent \cup {"SUBMITTED"} \cup Live
       /\ held \notin placed => mem.executed = 0
       /\ book[held] # NoOrder => mem.executed <= book[held].executed
  /\ pc = "placing" => mem.status = "SUBMITTED" /\ held \notin placed
  /\ caller = "cycle" /\ (Paused \/ pc \in {"call", "called"}) =>
       /\ mem.status \in Unsent \cup Live \cup Terminal
       /\ Paused \/ pc = "call" => mem.status \notin Terminal
       /\ mem.status \in Live => book[held].state = mem.status

\* What the sweep follows are records of this process that began a cycle.
Followed(S) == \A e \in S : e \notin bygone /\ row[e] # NoRow

RecordInv ==
  /\ \A e \in Execution : RowAgrees(e)
  /\ Busy => MemAgrees
  /\ Followed(outstanding)
  /\ pc = "sweep" \/ caller = "sweep" => Followed(todo)

SessionInv == TypeOK /\ ControlInv /\ RecordInv

-----------------------------------------------------------------------------
(* A pass that went through left nothing it can resolve.                   *)

Looked(e) == Resolved(e) \/ Orphaned(e)

PassInv ==
  /\ pc = "reconciling" => \A e \in Execution \ todo : Looked(e)
  /\ pc \in {"confirmed", "purging"} => \A e \in Execution : Looked(e)

RecoveryInv ==
  /\ program # "session" => \A e \in Execution : ~Orphaned(e)
  /\ report \in {"recovered", "failed"} => program = "drill"
  /\ report \in {"converged", "diverged"} => pc = "over"
  /\ report = "converged" => \A e \in Execution : Resolved(e)
  /\ report = "recovered" /\ pc = "cycles" /\ slot = 0 => \A e \in Execution : Resolved(e)
  /\ report \in {"failed", "diverged"} => faults >= MaxTries
  /\ purpose \in {"verify", "final"} =>
       /\ pc \in {"listing", "reconciling"} => faults + 1 >= tries
       /\ pc = "unconfirmed" => faults >= tries

-----------------------------------------------------------------------------
(* What the session follows up, and what it writes down.                   *)

\* Out of its own cycle's hands.
Released(e) == e # held \/ caller = "sweep"

FollowInv ==
  program # "stress" =>
    \A e \in Here : Released(e) /\ row[e].status \notin Settled \cup {"ABSENT"} =>
      e \in outstanding \/ e \in unsaved

\* The entries of a record: one for each cycle that is over, and events to go
\* with them.
Trail(e) ==
  /\ Entries(e) <= 1
  /\ row[e] = NoRow => Entries(e) = 0
  /\ e \in Here /\ row[e] # NoRow /\ Released(e) => Entries(e) > 0
  /\ log.archived[e] > 0 => e \in events.archived
  /\ e \in log.live => e \in events.live \cup events.archived

\* What an entry says was executed, the broker executed and a final row has.
Figures(e) ==
  /\ e \notin placed => log.executed[e] = 0
  /\ book[e] # NoOrder => log.executed[e] <= book[e].executed
  /\ row[e].status \in {"FILLED", "RECONCILED"} => log.executed[e] <= row[e].executed

AuditInv ==
  program # "stress" =>
    /\ \A e \in Execution : Trail(e) /\ Figures(e)
    /\ pc = "trimming" => log.live \subseteq events.archived
    /\ InCall /\ caller = "cycle" =>
         Entries(held) = 0 /\ held \in events.live \cup events.archived

-----------------------------------------------------------------------------
(* What is still to be paid, and by how many.                              *)

Committed(e) == Open(e) \/ row[e].status = "VERIFIED" \/ (pc = "placing" /\ e = held)

Owed(e) == IF Open(e) THEN Price * (book[e].quantity - book[e].executed) ELSE Price * row[e].final

MoneyInv ==
  ~overlap =>
    /\ cash >= 0
    /\ \A e \in Here : Committed(e) =>
         Owed(e) <= cash /\ \A d \in Here : Committed(d) => d = e

-----------------------------------------------------------------------------
(* The steps, by who takes them and what they touch.                       *)

\* One process_order call, and the cycle around it.
Calls == ProcessOrder \/ SkipCycle \/ CallAgain \/ \E e \in Execution : StartCycle(e)

\* What only a session and the drill do.
Sweeps == FinishCycle \/ BeginSweep \/ SweepLoad \/ SweepLoadRaises \/ SweepNext \/ EndSweep

\* The day of a session.
Days == Purge \/ ArchiveEvents \/ ArchiveLog \/ \E due \in BOOLEAN : Dawn(due) \/ Evening(due)

\* A harness begins, pauses or ends something; no row and no order changes.
Stress == StressBegins \/ RestartBeforeCall \/ Reload \/ ReloadRaises \/ StressCycleOver
          \/ Interim \/ StressEnds
Drill == Verified \/ \E due \in BOOLEAN : DrillDawn(due) \/ DrillEvening(due)

CallMove ==
  /\ Calls \/ Reconcile
  /\ tries' = tries \/ (program = "stress" /\ tries' = 0 /\ CallAgain)
  /\ UNCHANGED <<program, report>>
SweepMove == Sweeps /\ program # "stress" /\ UNCHANGED harness
DayMove == (Days \/ Die) /\ program = "session" /\ UNCHANGED harness
StressMove == (Stress \/ InterimOver) /\ program = "stress" /\ UNCHANGED <<program, report>>
DrillMove == Drill /\ program = "drill" /\ UNCHANGED program
VerifyMove == (TryAgain \/ Conclude) /\ program # "session" /\ UNCHANGED program

LEMMA Moves ==
  ASSUME [AnyNext]_allVars
  PROVE  \/ CallMove \/ SweepMove \/ DayMove \/ StressMove \/ DrillMove \/ VerifyMove
         \/ UNCHANGED allVars
<1> USE DEF CallMove, SweepMove, DayMove, StressMove, DrillMove, VerifyMove
<1>1. CASE program = "session" /\ Step /\ UNCHANGED harness
  BY <1>1 DEF Step, Calls, Sweeps, Days, harness
<1>2. CASE HarnessStep
  <2>1. CASE program \in {"stress", "drill"} /\ Shared /\ UNCHANGED harness
    BY <2>1 DEF Shared, Calls, harness
  <2>2. CASE program = "drill" /\ Drilled /\ UNCHANGED harness
    BY <2>2 DEF Drilled, Calls, Sweeps, harness
  <2>3. CASE StressCallAgain
    BY <2>3 DEF StressCallAgain, Calls
  <2>4. CASE Stress \/ InterimOver
    BY <2>4 DEF Stress, StressBegins, RestartBeforeCall, Reload, ReloadRaises, StressCycleOver,
                Interim, InterimOver, StressEnds, harness
  <2>5. CASE Drill
    BY <2>5 DEF Drill, Verified, DrillDawn, DrillEvening
  <2>6. CASE TryAgain \/ Conclude
    BY <2>6 DEF TryAgain, Conclude
  <2> QED BY <1>2, <2>1, <2>2, <2>3, <2>4, <2>5, <2>6 DEF HarnessStep, Stress, Drill
<1>3. CASE program = "session" /\ Die /\ UNCHANGED harness
  BY <1>3
<1> QED BY <1>1, <1>2, <1>3 DEF AnyNext, AnyStep, Ended

-----------------------------------------------------------------------------
(* Types.                                                                  *)

Pcs == {"dawn", "cycles", "call", "placing", "called", "raised", "sweep", "listing",
        "reconciling", "evening", "purging", "archiving", "trimming",
        "confirmed", "unconfirmed", "over"}
Purposes == {"restart", "scheduled", "purge", "reload", "interim", "verify", "final"}

HarnessType ==
  /\ program \in Programs /\ tries \in 0..MaxTries
  /\ report \in {"none", "recovered", "failed", "converged", "diverged"}

ControlType ==
  /\ outstanding \subseteq Execution /\ todo \subseteq Execution
  /\ pc \in Pcs /\ purpose \in Purposes
  /\ slot \in 0..CyclesPerDay /\ calls \in 0..MaxCalls
  /\ caller \in {"cycle", "sweep"}
  /\ held \in Execution \cup {Nobody}
  /\ unsaved \subseteq Execution /\ faults \in 0..MaxFaults

Events == [live : SUBSET Execution, archived : SUBSET Execution]
Log == [live : SUBSET Execution, archived : [Execution -> Nat], executed : [Execution -> 0..Proposed]]

DataType ==
  /\ row \in [Execution -> Row] /\ mem \in Row
  /\ book \in [Execution -> PaperOrder \cup {NoOrder}]
  /\ cash \in Int
  /\ events \in Events /\ log \in Log
  /\ placed \subseteq Execution /\ bygone \subseteq Execution
  /\ overlap \in BOOLEAN

LEMMA TypeParts == TypeOK <=> HarnessType /\ ControlType /\ DataType
BY DEF TypeOK, HarnessType, ControlType, DataType, Pcs, Purposes, Events, Log

LEMMA TypeInit == HarnessInit => TypeOK
<1> SUFFICES ASSUME HarnessInit PROVE HarnessType /\ ControlType /\ DataType
  BY TypeParts
<1> USE SessionAssumption, HarnessAssumption DEF HarnessInit, Init
<1>1. HarnessType /\ ControlType
  BY DEF HarnessType, ControlType, Pcs, Purposes, Nobody, Programs
<1>2. NoRow \in Row
  BY DEF NoRow, Row, Status
<1>3. events \in Events
  BY DEF Events
<1>4. log \in Log
  BY DEF Log
<1>5. row \in [Execution -> Row] /\ mem \in Row /\ book \in [Execution -> PaperOrder \cup {NoOrder}]
  BY <1>2
<1>6. placed = {} /\ bygone = {} /\ overlap \in BOOLEAN /\ cash = StartingCash
  OBVIOUS
<1> HIDE DEF HarnessInit, Init
<1> QED BY <1>1, <1>3, <1>4, <1>5, <1>6 DEF DataType

LEMMA HarnessTypeStep == HarnessType /\ [AnyNext]_allVars => HarnessType'
<1> SUFFICES ASSUME HarnessType, [AnyNext]_allVars PROVE HarnessType'
  OBVIOUS
<1> USE HarnessAssumption DEF HarnessType, harness
<1>1. CASE CallMove \/ SweepMove \/ DayMove \/ UNCHANGED allVars
  BY <1>1 DEF CallMove, SweepMove, DayMove, allVars
<1>2. CASE StressMove
  BY <1>2 DEF StressMove, Stress, StressBegins, RestartBeforeCall, Reload, ReloadRaises,
       StressCycleOver, Interim, StressEnds, InterimOver
<1>3. CASE DrillMove
  BY <1>3 DEF DrillMove, Drill, Verified, DrillDawn, DrillEvening
<1>4. CASE VerifyMove
  BY <1>4 DEF VerifyMove, TryAgain, Conclude
<1> QED BY <1>1, <1>2, <1>3, <1>4, Moves

LEMMA MinIn ==
  ASSUME NEW S \in SUBSET Execution, S # {}
  PROVE  Min(S) \in S
<1>1. S \subseteq Nat
  BY SessionAssumption DEF Execution
<1>2. PICK x \in S : \A y \in S : ~(<<y, x>> \in OpToRel(<, Nat))
  BY <1>1, WFMin, NatLessThanWellFounded, Zenon
<1>3. \A y \in S : ~(y < x)
  BY <1>1, <1>2 DEF OpToRel
<1>4. \A y \in S : x <= y
  BY <1>1, <1>3
<1> QED BY <1>4 DEF Min

LEMMA FirstOfSubset == \A S : FirstOf(S) \subseteq S
BY DEF FirstOf

\* Whoever calls process_order holds a record.
LEMMA HoldsRecord ==
  ASSUME TypeOK, ControlInv, Busy
  PROVE  held \in Execution
BY DEF TypeOK, ControlInv

LEMMA ControlTypeStep ==
  ASSUME TypeOK, ControlInv, [AnyNext]_allVars
  PROVE  ControlType'
<1> USE SessionAssumption, HarnessAssumption
    DEF ControlType, Pcs, Purposes, audit, history, harness, Resting, Pass, Resume, Unpurposed,
        LetGo, Fault
<1>0. ControlType /\ (Busy => held \in Execution)
  BY TypeParts, HoldsRecord
<1>1. CASE Calls
  <2>1. CASE SkipCycle
    BY <1>0, <2>1 DEF SkipCycle
  <2>2. CASE CallAgain
    BY <1>0, <2>2 DEF CallAgain, CycleOver
  <2>3. ASSUME NEW e \in Execution, StartCycle(e)
        PROVE  ControlType'
    BY <1>0, <2>3 DEF StartCycle
  <2>4. CASE VerifyRaises \/ SubmitRaises \/ LeaveRecord
    BY <1>0, <2>4 DEF VerifyRaises, SubmitRaises, LeaveRecord
  <2>5. ASSUME NEW rec, Save(rec), Busy
        PROVE  ControlType'
    BY <1>0, <2>5 DEF Save
  <2>6. CASE VerifyApproved \/ VerifyRejected
    BY <2>5, <2>6 DEF VerifyApproved, VerifyRejected, Calling, Busy, InCall
  <2>7. CASE SubmitIntent
    BY <1>0, <2>7 DEF SubmitIntent, Calling, Busy, InCall
  <2>8. ASSUME NEW scenario \in Scenario, SubmitAccepted(scenario)
        PROVE  ControlType'
    BY <2>5, <2>8 DEF SubmitAccepted, Busy, InCall
  <2>9. CASE Poll
    BY <1>0, <2>5, <2>9 DEF Poll, Calling, Busy, InCall
  <2> QED BY <1>1, <2>1, <2>2, <2>3, <2>4, <2>6, <2>7, <2>8, <2>9 DEF Calls, ProcessOrder
<1>2. CASE Reconcile
  <2>1. CASE LoadUnresolved
    BY <1>0, <2>1 DEF LoadUnresolved
  <2>2. CASE EndReconcile
    BY <1>0, <2>2 DEF EndReconcile, PassOver, ForgetPurpose
  <2>3. CASE ReconcileRaises
    BY <1>0, <2>3 DEF ReconcileRaises, PassOver, ForgetPurpose
  <2>4. ASSUME NEW e \in Execution, Checked(e)
        PROVE  ControlType'
    BY <1>0, <2>4 DEF Checked
  <2> QED BY <1>2, <2>1, <2>2, <2>3, <2>4
          DEF Reconcile, ConfirmUnsubmitted, AdoptByReference, EscalateToAmbiguous, LeaveRow,
              ConfirmTerminal, AdoptBrokerState
<1>3. CASE Sweeps
  <2>1. CASE BeginSweep \/ SweepLoadRaises \/ EndSweep
    BY <1>0, <2>1, FirstOfSubset DEF BeginSweep, SweepLoadRaises, EndSweep
  <2>2. CASE SweepLoad
    BY <1>0, <2>2, MinIn DEF SweepLoad
  <2>3. CASE FinishCycle \/ SweepNext
    BY <1>0, <2>3 DEF FinishCycle, CycleOver, SweepNext, Busy, InCall
  <2> QED BY <1>3, <2>1, <2>2, <2>3 DEF Sweeps
<1>4. CASE Days
  BY <1>0, <1>4 DEF Days, Purge, ArchiveEvents, ArchiveLog, Dawn, Evening
<1>5. CASE Die
  BY <1>0, <1>5 DEF Die
<1>6. CASE Stress
  <2>1. CASE StressBegins \/ RestartBeforeCall \/ StressEnds
    BY <1>0, <2>1 DEF StressBegins, RestartBeforeCall, StressEnds
  <2>2. CASE Reload \/ ReloadRaises
    BY <1>0, <2>2 DEF Reload, ReloadRaises
  <2>3. CASE StressCycleOver \/ Interim
    BY <1>0, <2>3 DEF StressCycleOver, Interim
  <2> QED BY <1>6, <2>1, <2>2, <2>3 DEF Stress
<1>7. CASE InterimOver
  BY <1>0, <1>7 DEF InterimOver
<1>8. CASE Drill
  BY <1>0, <1>8 DEF Drill, Verified, DrillDawn, DrillEvening
<1>9. CASE TryAgain \/ Conclude
  BY <1>0, <1>9 DEF TryAgain, Conclude
<1>10. CASE UNCHANGED allVars
  BY <1>0, <1>10 DEF allVars, vars, session
<1> QED BY <1>1, <1>2, <1>3, <1>4, <1>5, <1>6, <1>7, <1>8, <1>9, <1>10, Moves
        DEF CallMove, SweepMove, DayMove, StressMove, DrillMove, VerifyMove

-----------------------------------------------------------------------------
(* Where the programs are.                                                 *)

LEMMA ControlInit == HarnessInit => ControlInv
BY DEF HarnessInit, Init, ControlInv, InPass, Busy, InCall, Paused, Nobody, Programs

\* A call starts from PROPOSAL: only StartCycle makes a row, and not at dawn.
LEMMA ControlStep ==
  ASSUME TypeOK, ControlInv, [AnyNext]_allVars
  PROVE  ControlInv'
<1> USE DEF ControlInv, InPass, Busy, InCall, Paused, audit, history, harness, Resting, Pass,
        Resume, Unpurposed, LetGo, Fault, Nobody
<1>0. /\ ControlType /\ HarnessType
      /\ Busy => held \in Execution
      /\ \A e \in Execution : e # Nobody
  BY TypeParts, HoldsRecord DEF Execution
<1>1. CASE Calls /\ UNCHANGED program
  <2>1. CASE SkipCycle
    BY <1>0, <1>1, <2>1 DEF SkipCycle, ControlType
  <2>2. CASE CallAgain
    BY <1>0, <1>1, <2>2 DEF CallAgain
  <2>3. ASSUME NEW e \in Execution, StartCycle(e)
        PROVE  ControlInv'
    BY <1>0, <1>1, <2>3 DEF StartCycle, ControlType
  <2>4. CASE VerifyRaises \/ SubmitRaises \/ LeaveRecord
    BY <1>1, <2>4 DEF VerifyRaises, SubmitRaises, LeaveRecord, Calling
  <2>5. ASSUME NEW rec, Save(rec), pc \in {"call", "placing"}
        PROVE  ControlInv'
    BY <1>1, <2>5 DEF Save
  <2>6. CASE VerifyApproved \/ VerifyRejected
    BY <2>5, <2>6 DEF VerifyApproved, VerifyRejected, Calling
  <2>7. CASE SubmitIntent
    BY <1>1, <2>7 DEF SubmitIntent, Calling
  <2>8. ASSUME NEW scenario \in Scenario, SubmitAccepted(scenario)
        PROVE  ControlInv'
    BY <2>5, <2>8 DEF SubmitAccepted
  <2>9. CASE Poll
    BY <1>1, <2>5, <2>9 DEF Poll, Calling
  <2> QED BY <1>1, <2>1, <2>2, <2>3, <2>4, <2>6, <2>7, <2>8, <2>9 DEF Calls, ProcessOrder
<1>2. CASE Reconcile /\ UNCHANGED program
  <2>1. CASE LoadUnresolved
    BY <1>2, <2>1 DEF LoadUnresolved
  <2>2. CASE EndReconcile
    BY <1>0, <1>2, <2>2 DEF EndReconcile, PassOver, ForgetPurpose, ControlType, Purposes,
         HarnessType, Programs
  <2>3. CASE ReconcileRaises
    BY <1>0, <1>2, <2>3 DEF ReconcileRaises, PassOver, ForgetPurpose, ControlType, Purposes,
         HarnessType, Programs
  <2>4. ASSUME NEW e \in Execution, Reconciling(e), Checked(e)
        PROVE  ControlInv'
    BY <1>2, <2>4 DEF Checked, Reconciling
  <2> QED BY <1>2, <2>1, <2>2, <2>3, <2>4
          DEF Reconcile, ConfirmUnsubmitted, AdoptByReference, EscalateToAmbiguous, LeaveRow,
              ConfirmTerminal, AdoptBrokerState
<1>3. CASE SweepMove
  <2> USE DEF SweepMove
  <2>1. CASE BeginSweep \/ SweepLoadRaises \/ EndSweep
    BY <1>3, <2>1 DEF BeginSweep, SweepLoadRaises, EndSweep
  <2>2. CASE SweepLoad
    BY <1>0, <1>3, <2>2, MinIn DEF SweepLoad, ControlType
  <2>3. CASE FinishCycle \/ SweepNext
    BY <1>3, <2>3 DEF FinishCycle, CycleOver, SweepNext
  <2> QED BY <1>3, <2>1, <2>2, <2>3 DEF Sweeps
<1>4. CASE Days /\ DayMove
  BY <1>4 DEF DayMove, Days, Purge, ArchiveEvents, ArchiveLog, Dawn, Evening
<1>5. CASE Die /\ DayMove
  BY <1>5 DEF DayMove, Die
<1>6. CASE Stress /\ StressMove
  <2> USE DEF StressMove
  <2>1. CASE StressBegins \/ RestartBeforeCall \/ StressEnds
    BY <1>6, <2>1 DEF StressBegins, RestartBeforeCall, StressEnds
  <2>2. CASE Reload \/ ReloadRaises
    BY <1>6, <2>2 DEF Reload, ReloadRaises, Judged
  <2>3. CASE StressCycleOver \/ Interim
    BY <1>6, <2>3 DEF StressCycleOver, CycleOver, Interim
  <2> QED BY <1>6, <2>1, <2>2, <2>3 DEF Stress
<1>7. CASE InterimOver /\ StressMove
  BY <1>7 DEF StressMove, InterimOver, Judged
<1>8. CASE DrillMove
  BY <1>8 DEF DrillMove, Drill, Verified, DrillDawn, DrillEvening, Judged
<1>9. CASE VerifyMove
  BY <1>0, <1>9 DEF VerifyMove, TryAgain, Conclude, Judged, HarnessType, Programs
<1>10. CASE UNCHANGED allVars
  BY <1>10 DEF allVars, vars, session
<1> QED BY <1>1, <1>2, <1>3, <1>4, <1>5, <1>6, <1>7, <1>8, <1>9, <1>10, Moves
        DEF CallMove, DayMove, StressMove

-----------------------------------------------------------------------------
(* Rows, orders and the record in memory.                                  *)

LEMMA MaxOfTwo ==
  ASSUME NEW n \in Nat
  PROVE  Max({1, n}) \in {1, n} /\ (n = 0 => Max({1, n}) = 1)
<1>1. \E x \in {1, n} : \A y \in {1, n} : x >= y
  OBVIOUS
<1>2. Max({1, n}) \in {1, n} /\ \A y \in {1, n} : Max({1, n}) >= y
  BY <1>1 DEF Max
<1> QED BY <1>2

LEMMA FilledOrder ==
  ASSUME NEW o \in PaperOrder, NEW n \in Nat, o.executed + n = o.quantity
  PROVE  /\ Filled(o, n) \in PaperOrder /\ Filled(o, n).state = "FILLED"
         /\ Filled(o, n).executed = o.quantity /\ Filled(o, n).quantity = o.quantity
<1> DEFINE all == o.executed + n
<1>1. all \in 0..Proposed /\ all = o.quantity
  BY SessionAssumption DEF PaperOrder
<1>2. Filled(o, n) = [o EXCEPT !.state = "FILLED", !.executed = all]
  BY DEF Filled
<1> HIDE DEF all
<1> QED BY <1>1, <1>2 DEF PaperOrder

\* One poll: the order stays sound, never gives units back, and leaves a
\* state only for a later one.
LEMMA PolledSound ==
  ASSUME NEW o \in PaperOrder, OrderSound(o)
  PROVE  /\ OrderSound(Polled(o)) /\ Polled(o).quantity = o.quantity
         /\ o.executed <= Polled(o).executed
         /\ o.state \notin Live => Polled(o) = o
         /\ Polled(o).state = "PENDING" => o.state = "PENDING"
         /\ Polled(o).state # "PARTIALLY_FILLED" \/ o.state = "PENDING"
              \/ Polled(o).executed = o.executed
<1> USE DEF PaperOrder, Live
<1>0. /\ o.scenario \in Scenario /\ o.quantity \in 1..Proposed /\ o.executed \in 0..Proposed
      /\ o.polls \in 0..DelayedPolls
      /\ o.state \in {"PENDING", "PARTIALLY_FILLED", "FILLED", "CANCELLED"}
  OBVIOUS
<1>1. CASE o.state \in {"FILLED", "CANCELLED"}
  BY <1>1 DEF Polled
<1>2. CASE o.state \in Live /\ o.scenario \in {"IMMEDIATE_FILL", "DELAYED_FILL"}
  <2>1. o.state = "PENDING" /\ o.executed = 0
    BY <1>0, <1>2 DEF OrderSound
  <2>2. CASE Polled(o) = Filled(o, o.quantity)
    <3>1. o.quantity \in Nat /\ o.executed + o.quantity = o.quantity
      BY <1>0, <2>1, SessionAssumption
    <3> QED BY <1>0, <2>1, <2>2, <3>1, FilledOrder DEF OrderSound
  <2>3. CASE o.polls < DelayedPolls /\ Polled(o) = [o EXCEPT !.polls = @ + 1]
    <3>1. o.polls + 1 \in 0..DelayedPolls
      BY <1>0, <2>3, SessionAssumption
    <3>2. /\ Polled(o) \in PaperOrder /\ Polled(o).state = "PENDING"
          /\ Polled(o).executed = 0 /\ Polled(o).quantity = o.quantity
      BY <1>0, <2>1, <2>3, <3>1
    <3> QED BY <1>0, <2>1, <3>2 DEF OrderSound
  <2> QED BY <1>0, <1>2, <2>1, <2>2, <2>3, SessionAssumption DEF Polled
<1>3. CASE o.state = "PENDING" /\ o.scenario = "PARTIAL_FILL"
  <2> DEFINE half == o.quantity \div 2
             part == Max({1, half})
  <2>1. half \in Nat /\ half <= o.quantity
    BY <1>0, SessionAssumption
  <2>2. part \in 1..o.quantity
    BY <1>0, <2>1, MaxOfTwo
  <2>3. Polled(o) = [o EXCEPT !.state = "PARTIALLY_FILLED", !.executed = part]
    BY <1>3 DEF Polled
  <2> HIDE DEF part
  <2>4. part \in 0..Proposed
    BY <1>0, <2>2, SessionAssumption
  <2>5. /\ Polled(o) \in PaperOrder /\ Polled(o).state = "PARTIALLY_FILLED"
        /\ Polled(o).executed = part /\ Polled(o).quantity = o.quantity
        /\ Polled(o).scenario = "PARTIAL_FILL"
    BY <1>0, <1>3, <2>3, <2>4
  <2> QED BY <1>0, <1>3, <2>2, <2>5 DEF OrderSound
<1>4. CASE o.state = "PARTIALLY_FILLED"
  <2>1. o.scenario = "PARTIAL_FILL"
    BY <1>4 DEF OrderSound
  <2>2. Polled(o) = Filled(o, o.quantity - o.executed)
    BY <1>4, <2>1 DEF Polled
  <2>3. o.quantity - o.executed \in Nat /\ o.executed + (o.quantity - o.executed) = o.quantity
    BY <1>0, SessionAssumption DEF OrderSound
  <2> QED BY <1>0, <1>4, <2>2, <2>3, FilledOrder DEF OrderSound
<1>5. CASE o.state = "PENDING" /\ o.scenario = "ORDER_CANCELLED"
  <2>1. Polled(o) = [o EXCEPT !.state = "CANCELLED"] /\ o.executed = 0
    BY <1>5 DEF Polled, OrderSound
  <2>2. /\ Polled(o) \in PaperOrder /\ Polled(o).state = "CANCELLED"
        /\ Polled(o).executed = 0 /\ Polled(o).quantity = o.quantity
    BY <1>0, <2>1
  <2> QED BY <1>0, <1>5, <2>1, <2>2 DEF OrderSound
<1> QED BY <1>0, <1>1, <1>2, <1>3, <1>4, <1>5 DEF Scenario

LEMMA RecordInit == HarnessInit => RecordInv
<1> SUFFICES ASSUME HarnessInit PROVE RecordInv
  OBVIOUS
<1>1. /\ \A e \in Execution : row[e] = NoRow /\ book[e] = NoOrder
      /\ placed = {} /\ bygone = {} /\ outstanding = {} /\ todo = {}
      /\ pc = "dawn" /\ purpose = "scheduled" /\ caller = "cycle"
  BY DEF HarnessInit, Init
<1>2. RowShape(NoRow) /\ NoRow.status = "ABSENT" /\ ~NoRow.sent
  BY DEF RowShape, NoRow, Unsent, Live
<1>3. \A e \in Execution : RowAgrees(e)
  BY <1>1, <1>2 DEF RowAgrees, Agrees
<1> QED BY <1>1, <1>3 DEF RecordInv, Followed, Busy, InCall, Paused, InPass

\* What RecordInv says of the record in memory, in one place.
LEMMA HeldFacts ==
  ASSUME SessionInv, Busy
  PROVE  /\ held \in Execution /\ MemAgrees /\ RowAgrees(held)
         /\ row[held] \in Row /\ mem \in Row /\ book[held] \in PaperOrder \cup {NoOrder}
BY HoldsRecord, TypeParts DEF SessionInv, RecordInv, DataType

\* A step that moves no row, no order and not the record in memory.
LEMMA RowsRest ==
  ASSUME \A e \in Execution : RowAgrees(e), UNCHANGED <<row, book, placed, bygone>>
  PROVE  \A e \in Execution : RowAgrees(e)'
BY DEF RowAgrees

\* process_order changes its own record only: the row it saved, or in memory
\* the one it could not save, agrees with the order the broker has by then.
LEMMA SaveAgrees ==
  ASSUME SessionInv, NEW rec, rec \in Row, Save(rec), pc \in {"call", "placing"},
         rec.status \in Unsent \cup Live \cup Terminal,
         \A e \in Execution \ {held} : book'[e] = book[e] /\ (e \in placed' <=> e \in placed),
         Agrees(rec, book'[held], held, placed', bygone),
         Agrees(row[held], book'[held], held, placed', bygone),
         row[held].status \in Unsent \cup {"SUBMITTED"} \cup Live,
         rec.status \in Live => book'[held].state = rec.status,
         held \notin placed' => rec.executed = 0,
         book'[held] # NoOrder => rec.executed <= book'[held].executed
  PROVE  RecordInv'
<1>0. /\ held \in Execution /\ MemAgrees /\ row \in [Execution -> Row]
      /\ (\A e \in Execution : RowAgrees(e)) /\ Followed(outstanding)
      /\ (caller = "sweep" => Followed(todo))
  BY HeldFacts, TypeParts DEF Busy, InCall, SessionInv, RecordInv, DataType
<1>1. /\ mem' = rec /\ UNCHANGED <<outstanding, todo, held, caller, bygone>>
      /\ \/ row' = [row EXCEPT ![held] = rec] /\ pc' = "called"
         \/ row' = row /\ pc' = "raised" /\ held \in unsaved'
  BY DEF Save
<1>2. /\ row'[held] \in {rec, row[held]}
      /\ \A e \in Execution \ {held} : row'[e] = row[e]
      /\ pc' = "called" => row'[held] = rec
      /\ pc' = "raised" => row'[held] = row[held]
  BY <1>0, <1>1
<1>3. held \notin bygone
  BY <1>0 DEF MemAgrees
<1>4. \A e \in Execution : RowAgrees(e)'
  <2>1. Agrees(row'[held], book'[held], held, placed', bygone')
    BY <1>1, <1>2
  <2>2. ASSUME NEW e \in Execution, e # held
        PROVE  RowAgrees(e)'
    BY <1>0, <1>1, <1>2, <2>2 DEF RowAgrees, Agrees
  <2> SUFFICES ASSUME NEW e \in Execution PROVE RowAgrees(e)'
    OBVIOUS
  <2>3. CASE e = held
    BY <2>1, <2>3 DEF RowAgrees
  <2> QED BY <2>2, <2>3
<1>5. row'[held] # NoRow
  BY <1>2 DEF NoRow, Unsent, Live, Terminal
<1>6. \A e \in Execution : row[e] # NoRow => row'[e] # NoRow
  BY <1>2, <1>5
<1>7. Followed(outstanding)' /\ (caller = "sweep" => Followed(todo)')
  BY <1>0, <1>1, <1>6, TypeParts DEF Followed, SessionInv, ControlType
<1>8. MemAgrees'
  <2>1. CASE pc' = "called"
    BY <1>1, <1>2, <1>3, <1>5, <2>1 DEF MemAgrees, Unsynced, Paused, InPass
  <2>2. CASE pc' = "raised"
    BY <1>1, <1>2, <1>3, <1>5, <2>2 DEF MemAgrees, Unsynced, Paused, InPass
  <2> QED BY <1>1, <2>1, <2>2
<1> QED BY <1>1, <1>4, <1>7, <1>8 DEF RecordInv

\* _affordable_quantity: some of the proposed quantity, or none, and it can
\* be paid for.
LEMMA AffordableFits ==
  ASSUME TypeOK
  PROVE  Affordable \in 0..Proposed /\ (Affordable > 0 => Affordable * (Price + Fee) <= cash)
<1> DEFINE fits == {q \in 0..Proposed : q = 0 \/ q * (Price + Fee) <= cash}
<1>1. Proposed \in Nat /\ fits \subseteq 0..Proposed /\ fits # {}
  BY SessionAssumption
<1>2. Affordable = Max(fits)
  BY DEF Affordable
<1>3. Affordable \in fits
  <2> HIDE DEF fits
  <2> QED BY <1>1, <1>2, LargestOf
<1> QED BY <1>1, <1>3

LEMMA RecordVerify ==
  ASSUME SessionInv, VerifyApproved \/ VerifyRejected
  PROVE  RecordInv'
<1>1. /\ pc = "call" /\ mem.status = "PROPOSAL" /\ UNCHANGED <<book, placed>>
  BY DEF VerifyApproved, VerifyRejected, Calling
<1>2. /\ held \in Execution /\ mem = row[held] /\ RowAgrees(held) /\ mem \in Row
  BY <1>1, HeldFacts DEF Busy, InCall, MemAgrees, Unsynced
<1>3. held \notin placed /\ book[held] = NoOrder /\ ~mem.sent /\ mem.executed = 0
  BY <1>1, <1>2 DEF RowAgrees, Agrees, RowShape, Unsent
<1>4. Agrees(row[held], book'[held], held, placed', bygone)
  BY <1>1, <1>2, <1>3 DEF RowAgrees, Agrees
<1>5. CASE VerifyApproved
  <2> DEFINE final == Affordable
             rec == [mem EXCEPT !.status = "VERIFIED", !.final = final]
  <2>1. final > 0 /\ Save(rec)
    BY <1>5 DEF VerifyApproved
  <2>2. final \in 0..Proposed
    BY AffordableFits DEF SessionInv
  <2> HIDE DEF final
  <2>3. /\ rec \in Row /\ rec.status = "VERIFIED" /\ rec.final > 0
        /\ rec.sent = mem.sent /\ rec.executed = mem.executed
    BY <1>2, <2>1, <2>2 DEF Row, Status
  <2> HIDE DEF rec
  <2>4. Agrees(rec, book'[held], held, placed', bygone)
    BY <1>1, <1>2, <1>3, <2>3 DEF RowAgrees, Agrees, RowShape, Unsent, Live, NoRow
  <2> QED BY <1>1, <1>2, <1>3, <1>4, <2>1, <2>3, <2>4, SaveAgrees DEF Unsent, Live, Terminal
<1>6. CASE VerifyRejected
  <2> DEFINE rec == [mem EXCEPT !.status = "FAILED"]
  <2>1. Save(rec)
    BY <1>6 DEF VerifyRejected
  <2>2. /\ rec \in Row /\ rec.status = "FAILED"
        /\ rec.sent = mem.sent /\ rec.executed = mem.executed
    BY <1>2 DEF Row, Status
  <2> HIDE DEF rec
  <2>3. Agrees(rec, book'[held], held, placed', bygone)
    BY <1>1, <1>2, <1>3, <2>2 DEF RowAgrees, Agrees, RowShape, Unsent, Live, NoRow
  <2> QED BY <1>1, <1>2, <1>3, <1>4, <2>1, <2>2, <2>3, SaveAgrees DEF Unsent, Live, Terminal
<1> QED BY <1>5, <1>6

LEMMA RecordSubmitIntent ==
  ASSUME SessionInv, SubmitIntent
  PROVE  RecordInv'
<1>1. /\ pc = "call" /\ mem.status = "VERIFIED"
      /\ UNCHANGED <<book, placed, bygone, outstanding, todo, held, caller>>
  BY DEF SubmitIntent, Calling
<1>2. /\ held \in Execution /\ mem = row[held] /\ RowAgrees(held) /\ mem \in Row
      /\ held \notin bygone
  BY <1>1, HeldFacts DEF Busy, InCall, MemAgrees, Unsynced
<1>3. /\ held \notin placed /\ book[held] = NoOrder
      /\ ~mem.sent /\ mem.executed = 0 /\ mem.final > 0
  BY <1>1, <1>2 DEF RowAgrees, Agrees, RowShape, Unsent
<1> DEFINE rec == [mem EXCEPT !.status = "SUBMITTED"]
<1>4. /\ rec \in Row /\ rec.status = "SUBMITTED"
      /\ rec.sent = mem.sent /\ rec.executed = mem.executed /\ rec.final = mem.final
  BY <1>2 DEF Row, Status
<1>5. /\ mem' = rec
      /\ \/ row' = [row EXCEPT ![held] = rec] /\ pc' = "placing"
         \/ row' = row /\ pc' = "raised" /\ held \in unsaved'
  BY DEF SubmitIntent
<1> HIDE DEF rec
<1>6. /\ row'[held] \in {rec, row[held]}
      /\ \A e \in Execution \ {held} : row'[e] = row[e]
      /\ pc' = "placing" => row'[held] = rec
      /\ pc' = "raised" => row'[held] = row[held]
  BY <1>2, <1>5, TypeParts DEF SessionInv, DataType
<1>7. Agrees(rec, book[held], held, placed, bygone) /\ rec # NoRow
  BY <1>2, <1>3, <1>4 DEF Agrees, RowShape, Unsent, Live, NoRow
<1>8. \A e \in Execution : RowAgrees(e)'
  BY <1>1, <1>2, <1>6, <1>7 DEF RowAgrees, SessionInv, RecordInv
<1>9. row[held] # NoRow /\ row'[held] # NoRow
  BY <1>2, <1>6, <1>7, HeldFacts, <1>1 DEF Busy, InCall, MemAgrees
<1>10. Followed(outstanding)' /\ (caller = "sweep" => Followed(todo)')
  BY <1>1, <1>6, <1>9, TypeParts DEF Followed, SessionInv, ControlType, RecordInv
<1>11. MemAgrees'
  BY <1>1, <1>2, <1>3, <1>4, <1>5, <1>6, <1>9
     DEF MemAgrees, Unsynced, Paused, InPass, Unsent
<1> QED BY <1>1, <1>5, <1>8, <1>10, <1>11 DEF RecordInv

LEMMA RecordSubmitAccepted ==
  ASSUME SessionInv, NEW scenario \in Scenario, SubmitAccepted(scenario)
  PROVE  RecordInv'
<1> DEFINE size == IF mem.final = 0 THEN Proposed ELSE mem.final
           order == [scenario |-> scenario, state |-> "PENDING", executed |-> 0, polls |-> 0,
                     quantity |-> size]
           rec == [mem EXCEPT !.status = "PENDING", !.sent = TRUE]
<1>1. /\ pc = "placing" /\ book' = [book EXCEPT ![held] = order]
      /\ placed' = placed \cup {held} /\ Save(rec)
  BY DEF SubmitAccepted
<1>2. /\ held \in Execution /\ mem = row[held] /\ RowAgrees(held) /\ mem \in Row
      /\ held \notin bygone /\ mem.status = "SUBMITTED" /\ held \notin placed
      /\ row[held] # NoRow
  BY <1>1, HeldFacts DEF Busy, InCall, MemAgrees, Unsynced
<1>3. ~mem.sent /\ mem.executed = 0
  BY <1>2 DEF RowAgrees, Agrees, RowShape
<1>4. size \in 1..Proposed
  BY <1>2, SessionAssumption DEF Row
<1> HIDE DEF size
<1>5. OrderSound(order) /\ order.state = "PENDING" /\ order.executed = 0 /\ order # NoOrder
  <2>1. order \in PaperOrder
    BY <1>4, SessionAssumption DEF PaperOrder
  <2>2. order.state = "PENDING" /\ order.executed = 0 /\ order.quantity = size
    OBVIOUS
  <2> HIDE DEF order
  <2>3. order # NoOrder
    BY <2>2 DEF NoOrder
  <2> QED BY <1>4, <2>1, <2>2, <2>3, SessionAssumption DEF OrderSound
<1>6. /\ rec \in Row /\ rec.status = "PENDING" /\ rec.sent /\ rec.executed = 0
  BY <1>2, <1>3 DEF Row, Status
<1> HIDE DEF order, rec
<1>7. book'[held] = order /\ \A e \in Execution \ {held} : book'[e] = book[e]
  BY <1>1, <1>2, TypeParts DEF SessionInv, DataType
<1>8. Agrees(rec, book'[held], held, placed', bygone)
  BY <1>1, <1>2, <1>5, <1>6, <1>7
     DEF Agrees, RowShape, Behind, Unsent, Live, NoRow
<1>9. Agrees(row[held], book'[held], held, placed', bygone)
  BY <1>1, <1>2, <1>3, <1>5, <1>7 DEF RowAgrees, Agrees, RowShape, Unsent
<1> QED BY <1>1, <1>2, <1>5, <1>6, <1>7, <1>8, <1>9, SaveAgrees DEF Unsent, Live, Terminal

LEMMA RecordPoll ==
  ASSUME SessionInv, Poll
  PROVE  RecordInv'
<1>1. /\ pc = "call" /\ mem.status \in Live /\ UNCHANGED placed
  BY DEF Poll, Calling
<1>2. /\ held \in Execution /\ mem = row[held] /\ RowAgrees(held) /\ mem \in Row
      /\ held \notin bygone /\ MemAgrees /\ row[held] # NoRow
  BY <1>1, HeldFacts DEF Busy, InCall, MemAgrees, Unsynced
<1>3. CASE book[held] = NoOrder
  <2>1. pc' = "raised" /\ UNCHANGED <<row, book, mem, outstanding, todo, held, caller, bygone>>
    BY <1>3 DEF Poll
  <2>2. MemAgrees'
    BY <1>2, <2>1 DEF MemAgrees, Unsynced, Paused, InPass
  <2> QED BY <1>1, <2>1, <2>2, RowsRest
          DEF RecordInv, SessionInv, Followed
<1>4. CASE book[held] # NoOrder
  <2> DEFINE order == Polled(book[held])
             rec == [mem EXCEPT !.status = order.state, !.executed = order.executed]
  <2>1. /\ book' = [book EXCEPT ![held] = order]
        /\ \/ /\ order.state = mem.status /\ pc' = "called"
              /\ UNCHANGED <<row, mem, outstanding, todo, held, caller, bygone>>
           \/ order.state # mem.status /\ Save(rec)
    <3>1. book' = [book EXCEPT ![held] = order] /\ book'[held] = order
      BY <1>2, <1>4, TypeParts DEF Poll, GetOrderStatus, SessionInv, DataType
    <3> HIDE DEF order
    <3> QED BY <1>4, <3>1 DEF Poll
  <2>2. OrderSound(book[held]) /\ mem.sent /\ Behind(mem, book[held]) /\ held \in placed
    BY <1>1, <1>2, <1>4 DEF RowAgrees, Agrees, RowShape, Live
  <2>3. /\ OrderSound(order) /\ book[held].executed <= order.executed
        /\ order.state = "PENDING" => book[held].state = "PENDING"
        /\ order.state # "PARTIALLY_FILLED" \/ book[held].state = "PENDING"
             \/ order.executed = book[held].executed
        /\ book[held].state \notin Live => order = book[held]
    BY <2>2, PolledSound DEF OrderSound
  <2> HIDE DEF order
  <2>4. /\ order \in PaperOrder /\ order # NoOrder
        /\ order.state \in {"PENDING", "PARTIALLY_FILLED", "FILLED", "CANCELLED"}
        /\ order.executed \in 0..Proposed /\ book[held].executed \in 0..Proposed
        /\ mem.executed \in 0..Proposed
    <3>1. order \in PaperOrder /\ book[held] \in PaperOrder
      BY <2>2, <2>3 DEF OrderSound
    <3>2. order.state \in {"PENDING", "PARTIALLY_FILLED", "FILLED", "CANCELLED"}
      BY <3>1 DEF PaperOrder
    <3> QED BY <1>2, <3>1, <3>2 DEF PaperOrder, NoOrder, Row
  <2>5. book'[held] = order /\ \A e \in Execution \ {held} : book'[e] = book[e]
    BY <1>2, <2>1, TypeParts DEF SessionInv, DataType
  <2>6. Behind(mem, order)
    <3>1. CASE mem.status = "PENDING"
      <4>1. mem.executed <= order.executed
        BY <2>2, <2>3, <2>4 DEF Behind
      <4>2. order.state = "PENDING" => order.executed = 0 /\ mem.executed = 0
        BY <2>2, <2>3, <2>4, <3>1, <4>1 DEF Behind, OrderSound
      <4> QED BY <3>1, <4>1, <4>2 DEF Behind
    <3>2. CASE mem.status = "PARTIALLY_FILLED"
      <4>1. /\ mem.executed <= book[held].executed /\ book[held].state # "PENDING"
            /\ book[held].state = "PARTIALLY_FILLED" => mem.executed = book[held].executed
        BY <2>2, <3>2 DEF Behind
      <4>2. order.state = "PARTIALLY_FILLED" => book[held].state = "PARTIALLY_FILLED"
        BY <2>2, <2>3, <4>1 DEF OrderSound, PaperOrder, Live
      <4> QED BY <2>3, <2>4, <3>2, <4>1, <4>2 DEF Behind
    <3> QED BY <1>1, <3>1, <3>2 DEF Live
  <2>7. Agrees(row[held], book'[held], held, placed', bygone)
    BY <1>1, <1>2, <2>2, <2>3, <2>5, <2>6 DEF RowAgrees, Agrees
  <2>8. CASE order.state = mem.status /\ pc' = "called"
             /\ UNCHANGED <<row, mem, outstanding, todo, held, caller, bygone>>
    <3>1. \A e \in Execution : RowAgrees(e)'
      <4>1. \A e \in Execution : Agrees(row[e], book'[e], e, placed, bygone)
        BY <1>1, <2>5, <2>7 DEF RowAgrees, SessionInv, RecordInv
      <4> QED BY <1>1, <2>8, <4>1 DEF RowAgrees
    <3>2. MemAgrees'
      BY <1>1, <1>2, <2>5, <2>8 DEF MemAgrees, Unsynced, Paused, InPass
    <3> QED BY <1>1, <2>8, <3>1, <3>2 DEF RecordInv, SessionInv, Followed
  <2>9. CASE order.state # mem.status /\ Save(rec)
    <3>1. /\ rec \in Row /\ rec.status = order.state /\ rec.executed = order.executed
          /\ rec.sent
      BY <1>2, <2>2, <2>4 DEF Row, Status
    <3> HIDE DEF rec
    <3>2. Behind(rec, order)
      BY <2>4, <3>1 DEF Behind, Live
    <3>3. Agrees(rec, book'[held], held, placed', bygone)
      BY <1>1, <1>2, <2>2, <2>3, <2>4, <2>5, <3>1, <3>2 DEF Agrees, RowShape, Unsent, NoRow
    <3> QED BY <1>1, <1>2, <2>2, <2>4, <2>5, <2>7, <2>9, <3>1, <3>3, SaveAgrees
            DEF Unsent, Live, Terminal
  <2> QED BY <2>1, <2>8, <2>9
<1> QED BY <1>3, <1>4

\* The calls that change nothing, and the cycle around the calls.
LEMMA RecordCycle ==
  ASSUME SessionInv,
         VerifyRaises \/ SubmitRaises \/ LeaveRecord \/ SkipCycle \/ CallAgain
  PROVE  RecordInv'
<1>1. /\ UNCHANGED <<row, book, placed, bygone, outstanding, todo, held, mem, caller>>
      /\ \/ pc \in {"call", "placing"} /\ pc' = "raised"
         \/ pc = "call" /\ pc' = "called"
         \/ pc = "cycles" /\ pc' = pc /\ UNCHANGED purpose
         \/ pc = "called" /\ mem.status \notin Terminal /\ pc' = "call"
  BY DEF VerifyRaises, SubmitRaises, LeaveRecord, SkipCycle, CallAgain, Calling, CycleOver,
         history
<1>2. \A e \in Execution : RowAgrees(e)'
  BY <1>1, RowsRest DEF SessionInv, RecordInv
<1>3. CASE Busy
  <2>1. MemAgrees'
    BY <1>1, <1>3, HeldFacts DEF MemAgrees, Unsynced, Busy, InCall, Paused, InPass
  <2> QED BY <1>1, <1>2, <2>1 DEF RecordInv, SessionInv, Followed, Busy, InCall, InPass, Paused
<1>4. CASE ~Busy
  BY <1>1, <1>2, <1>4 DEF RecordInv, SessionInv, Followed, Busy, InCall, InPass, Paused
<1> QED BY <1>3, <1>4

LEMMA RecordStart ==
  ASSUME SessionInv, NEW e \in Execution, StartCycle(e)
  PROVE  RecordInv'
<1> DEFINE rec == [NoRow EXCEPT !.status = "PROPOSAL"]
<1>1. /\ pc = "cycles" /\ row[e] = NoRow /\ mem' = rec /\ row' = [row EXCEPT ![e] = rec]
      /\ held' = e /\ pc' = "call"
      /\ UNCHANGED <<book, placed, bygone, outstanding, todo>>
  BY DEF StartCycle, history
<1>2. rec.status = "PROPOSAL" /\ ~rec.sent /\ rec.executed = 0 /\ rec # NoRow
  BY DEF NoRow
<1>3. e \notin placed /\ e \notin bygone /\ book[e] = NoOrder
  <2>1. RowAgrees(e) /\ row[e].status = "ABSENT"
    BY <1>1 DEF SessionInv, RecordInv, NoRow
  <2> QED BY <1>1, <2>1 DEF RowAgrees, Agrees
<1> HIDE DEF rec
<1>4. row'[e] = rec /\ \A d \in Execution \ {e} : row'[d] = row[d]
  BY <1>1, TypeParts DEF SessionInv, DataType
<1>5. \A d \in Execution : RowAgrees(d)'
  <2> SUFFICES ASSUME NEW d \in Execution PROVE RowAgrees(d)'
    OBVIOUS
  <2>1. CASE d = e
    BY <1>1, <1>2, <1>3, <1>4, <2>1 DEF RowAgrees, Agrees, RowShape, Unsent, Live
  <2>2. CASE d # e
    BY <1>1, <1>4, <2>2 DEF RowAgrees, SessionInv, RecordInv
  <2> QED BY <2>1, <2>2
<1>6. Followed(outstanding)'
  BY <1>1, <1>2, <1>4, TypeParts DEF Followed, SessionInv, RecordInv, ControlType
<1>7. MemAgrees'
  BY <1>1, <1>2, <1>3, <1>4 DEF MemAgrees, Unsynced, Paused, InPass, Unsent, Terminal, Live
<1>8. caller' = "cycle"
  BY DEF StartCycle
<1> QED BY <1>1, <1>5, <1>6, <1>7, <1>8 DEF RecordInv

LEMMA RecordCalls ==
  ASSUME SessionInv, Calls
  PROVE  RecordInv'
<1>1. CASE ProcessOrder
  BY <1>1, RecordVerify, RecordCycle, RecordSubmitIntent, RecordSubmitAccepted, RecordPoll
     DEF ProcessOrder
<1> QED BY <1>1, RecordCycle, RecordStart DEF Calls

\* A row that reconciliation writes agrees with the broker, and is never the
\* row of the record it was paused for.
LEMMA RowWritten ==
  ASSUME SessionInv, NEW e \in Execution, Reconciling(e), Checked(e), UNCHANGED book,
         NEW rec, row' = [row EXCEPT ![e] = rec], rec # NoRow,
         Agrees(rec, book[e], e, placed, bygone),
         Paused => e # held
  PROVE  RecordInv'
<1>1. /\ UNCHANGED <<outstanding, pc, purpose, caller, held, mem, placed, bygone, unsaved>>
      /\ pc = "reconciling" /\ caller # "sweep"
  BY DEF Checked, Reconciling, history, SessionInv, ControlInv, InCall
<1>2. row'[e] = rec /\ \A d \in Execution \ {e} : row'[d] = row[d]
  BY TypeParts DEF SessionInv, DataType
<1>3. \A d \in Execution : RowAgrees(d)'
  <2> SUFFICES ASSUME NEW d \in Execution PROVE RowAgrees(d)'
    OBVIOUS
  <2>1. CASE d = e
    BY <1>1, <1>2, <2>1 DEF RowAgrees
  <2>2. CASE d # e
    BY <1>1, <1>2, <2>2 DEF RowAgrees, SessionInv, RecordInv
  <2> QED BY <2>1, <2>2
<1>4. Followed(outstanding)'
  BY <1>1, <1>2, TypeParts DEF Followed, SessionInv, RecordInv, ControlType
<1>5. ASSUME Paused PROVE MemAgrees'
  BY <1>1, <1>2, <1>5, HeldFacts DEF Busy, MemAgrees, Unsynced, Paused, InPass
<1> QED BY <1>1, <1>3, <1>4, <1>5 DEF RecordInv, Busy, InCall, Paused, InPass

LEMMA RecordRows ==
  ASSUME SessionInv, NEW e \in Execution,
         \/ ConfirmUnsubmitted(e) \/ AdoptByReference(e) \/ EscalateToAmbiguous(e)
         \/ LeaveRow(e) \/ ConfirmTerminal(e) \/ AdoptBrokerState(e)
  PROVE  RecordInv'
<1>1. /\ Reconciling(e) /\ Checked(e) /\ UNCHANGED book
      /\ RowAgrees(e) /\ row[e] \in Row /\ row \in [Execution -> Row]
      /\ book[e] \in PaperOrder \cup {NoOrder}
  BY TypeParts DEF ConfirmUnsubmitted, AdoptByReference, EscalateToAmbiguous, LeaveRow,
       ConfirmTerminal, AdoptBrokerState, SessionInv, RecordInv, DataType
<1>2. Agrees(row[e], book[e], e, placed, bygone)
  BY <1>1 DEF RowAgrees
<1>3. ASSUME Paused, e = held
      PROVE  /\ row[e].status \in Unsent \cup Live
             /\ row[e].status \in Live => book[e].state = row[e].status
  <2>1. caller = "cycle"
    BY <1>1, TypeParts DEF Reconciling, SessionInv, ControlInv, InCall, ControlType
  <2> QED BY <1>1, <1>3, <2>1, HeldFacts DEF Busy, MemAgrees, Unsynced, Reconciling
<1>4. book[e].state = "NONE" <=> book[e] = NoOrder
  BY <1>1 DEF NoOrder, PaperOrder
<1>5. CASE ConfirmUnsubmitted(e)
  <2> DEFINE rec == [row[e] EXCEPT !.status = "RECONCILED"]
  <2>1. row' = [row EXCEPT ![e] = rec] /\ row[e].status = "FAILED" /\ ~row[e].sent
    BY <1>5 DEF ConfirmUnsubmitted
  <2>2. rec.status = "RECONCILED" /\ ~rec.sent /\ rec.executed = row[e].executed
    BY <1>1, <2>1 DEF Row
  <2> HIDE DEF rec
  <2>3. Agrees(rec, book[e], e, placed, bygone) /\ rec # NoRow
    BY <1>2, <2>1, <2>2 DEF Agrees, RowShape, Unsent, Live, NoRow
  <2> QED BY <1>1, <1>3, <2>1, <2>3, RowWritten DEF Unsent, Live
<1>6. CASE AdoptByReference(e)
  <2> DEFINE rec == [row[e] EXCEPT !.sent = TRUE, !.status = book[e].state,
                                   !.executed = book[e].executed]
  <2>1. row' = [row EXCEPT ![e] = rec] /\ ~row[e].sent /\ book[e].state \in Live
    BY <1>1, <1>6 DEF AdoptByReference, Open
  <2>2. rec.status = book[e].state /\ rec.sent /\ rec.executed = book[e].executed
    BY <1>1 DEF Row
  <2> HIDE DEF rec
  <2>3. book[e] # NoOrder /\ row[e].status = "SUBMITTED" /\ book[e].state = "PENDING"
    BY <1>2, <1>4, <2>1 DEF Agrees, Live
  <2>4. book[e].executed = 0 /\ OrderSound(book[e]) /\ e \in placed /\ e \notin bygone
    BY <1>2, <2>3 DEF Agrees, OrderSound
  <2>5. Agrees(rec, book[e], e, placed, bygone) /\ rec # NoRow
    BY <2>2, <2>3, <2>4 DEF Agrees, RowShape, Unsent, Live, NoRow, Behind
  <2> QED BY <1>1, <1>3, <2>1, <2>3, <2>5, RowWritten DEF Unsent, Live
<1>7. CASE EscalateToAmbiguous(e)
  <2> DEFINE rec == [row[e] EXCEPT !.status = "AMBIGUOUS"]
  <2>1. /\ row' = [row EXCEPT ![e] = rec] /\ row[e].status = "SUBMITTED" /\ ~row[e].sent
        /\ book[e].state \notin Live
    BY <1>7 DEF EscalateToAmbiguous, Open
  <2>2. rec.status = "AMBIGUOUS" /\ ~rec.sent /\ rec.executed = row[e].executed
    BY <1>1, <2>1 DEF Row
  <2> HIDE DEF rec
  <2>3. Agrees(rec, book[e], e, placed, bygone) /\ rec # NoRow
    BY <1>2, <2>1, <2>2 DEF Agrees, RowShape, Unsent, Live, NoRow
  <2> QED BY <1>1, <1>3, <2>1, <2>3, RowWritten DEF Unsent, Live
<1>8. CASE LeaveRow(e)
  <2>1. UNCHANGED row /\ row[e].sent
    BY <1>8 DEF LeaveRow
  <2>2. UNCHANGED <<pc, purpose, caller, held, mem, placed, bygone, outstanding, unsaved>>
    BY <1>1 DEF Checked, history
  <2>3. pc = "reconciling" /\ caller # "sweep"
    BY <1>1 DEF Reconciling, SessionInv, ControlInv, InCall
  <2>4. \A d \in Execution : RowAgrees(d)'
    BY <1>1, <2>1, <2>2, RowsRest DEF SessionInv, RecordInv
  <2>5. ASSUME Busy PROVE MemAgrees'
    BY <1>1, <2>1, <2>2, <2>5, HeldFacts DEF MemAgrees, Unsynced, Paused, InPass
  <2> QED BY <1>1, <2>1, <2>2, <2>3, <2>4, <2>5
          DEF RecordInv, SessionInv, Followed, Busy, InCall, Paused, InPass
<1>9. CASE ConfirmTerminal(e)
  <2> DEFINE rec == [row[e] EXCEPT !.status = "RECONCILED"]
  <2>1. /\ row' = [row EXCEPT ![e] = rec] /\ row[e].sent /\ book[e].state = row[e].status
        /\ book[e].state \notin Live
    BY <1>9 DEF ConfirmTerminal, Open
  <2>2. rec.status = "RECONCILED" /\ rec.sent /\ rec.executed = row[e].executed
    BY <1>1, <2>1 DEF Row
  <2> HIDE DEF rec
  <2>3. book[e] # NoOrder
    BY <1>1, <1>4, <2>1 DEF Row, Status
  <2>4. Behind(rec, book[e])
    BY <1>1, <1>2, <2>1, <2>2, <2>3 DEF Agrees, Behind, PaperOrder
  <2>5. Agrees(rec, book[e], e, placed, bygone) /\ rec # NoRow
    BY <1>2, <2>1, <2>2, <2>3, <2>4 DEF Agrees, RowShape, Unsent, Live, NoRow
  <2>6. row[e].status \notin Unsent
    BY <1>2, <2>1 DEF Agrees, RowShape
  <2> QED BY <1>1, <1>3, <2>1, <2>5, <2>6, RowWritten
<1>10. CASE AdoptBrokerState(e)
  <2> DEFINE rec == [row[e] EXCEPT !.status = "RECONCILED", !.executed = book[e].executed,
                        !.final = IF book[e].executed = 0 THEN @ ELSE book[e].executed]
  <2>1. /\ row' = [row EXCEPT ![e] = rec] /\ row[e].sent /\ book[e].state # row[e].status
        /\ book[e].state \notin Live /\ book[e] # NoOrder
    BY <1>10 DEF AdoptBrokerState, Open
  <2>2. rec.status = "RECONCILED" /\ rec.sent /\ rec.executed = book[e].executed
    BY <1>1, <2>1 DEF Row
  <2> HIDE DEF rec
  <2>3. Behind(rec, book[e])
    BY <1>1, <2>1, <2>2 DEF Behind, PaperOrder
  <2>4. Agrees(rec, book[e], e, placed, bygone) /\ rec # NoRow
    BY <1>2, <2>1, <2>2, <2>3 DEF Agrees, RowShape, Unsent, Live, NoRow
  <2>5. row[e].status \notin Unsent
    BY <1>2, <2>1 DEF Agrees, RowShape
  <2> QED BY <1>1, <1>3, <2>1, <2>4, <2>5, RowWritten
<1> QED BY <1>5, <1>6, <1>7, <1>8, <1>9, <1>10

\* A pass begins, ends or breaks off.  Only a reload is still a busy one then.
LEMMA RecordPass ==
  ASSUME SessionInv, LoadUnresolved \/ EndReconcile \/ ReconcileRaises
  PROVE  RecordInv'
<1>1. /\ pc \in {"listing", "reconciling"} /\ caller # "sweep"
      /\ UNCHANGED <<row, book, placed, bygone, outstanding, held, mem, caller>>
      /\ \/ pc' = "reconciling" /\ UNCHANGED purpose
         \/ pc' \in {"cycles", "evening", "purging", "archiving"} /\ purpose # "reload"
         \/ pc' \in {"confirmed", "unconfirmed"} /\ UNCHANGED purpose
  BY DEF LoadUnresolved, EndReconcile, ReconcileRaises, PassOver, ForgetPurpose, history,
         SessionInv, ControlInv, InCall
<1>2. \A e \in Execution : RowAgrees(e)'
  BY <1>1, RowsRest DEF SessionInv, RecordInv
<1>3. ASSUME Paused PROVE MemAgrees'
  BY <1>1, <1>3, HeldFacts DEF Busy, MemAgrees, Unsynced, Paused, InPass
<1> QED BY <1>1, <1>2, <1>3 DEF RecordInv, SessionInv, Followed, Busy, InCall, Paused, InPass

LEMMA RecordReconcile ==
  ASSUME SessionInv, Reconcile
  PROVE  RecordInv'
BY RecordPass, RecordRows DEF Reconcile

LEMMA RecordSweeps ==
  ASSUME SessionInv, Sweeps
  PROVE  RecordInv'
<1>1. UNCHANGED <<row, book, placed, bygone>>
  BY DEF Sweeps, FinishCycle, BeginSweep, SweepLoad, SweepLoadRaises, SweepNext, EndSweep, history
<1>2. \A e \in Execution : RowAgrees(e)'
  BY <1>1, RowsRest DEF SessionInv, RecordInv
<1>3. Followed(outstanding) /\ (pc = "sweep" \/ caller = "sweep" => Followed(todo))
  BY DEF SessionInv, RecordInv
<1>4. CASE FinishCycle
  <2>1. /\ Busy /\ UNCHANGED todo /\ pc' = "cycles" /\ caller' = "cycle"
        /\ outstanding' \subseteq outstanding \cup {held}
    BY <1>4 DEF FinishCycle, CycleOver, Busy, InCall, LetGo
  <2>2. held \notin bygone /\ row[held] # NoRow
    BY <2>1, HeldFacts DEF MemAgrees
  <2> QED BY <1>1, <1>2, <1>3, <2>1, <2>2
          DEF RecordInv, Followed, Busy, InCall, Paused, InPass
<1>5. CASE BeginSweep
  <2>1. todo' \subseteq outstanding /\ pc' = "sweep" /\ UNCHANGED <<outstanding, caller>>
    BY <1>5, FirstOfSubset DEF BeginSweep
  <2> QED BY <1>1, <1>2, <1>3, <2>1 DEF RecordInv, Followed, Busy, InCall, Paused, InPass
<1>6. CASE SweepLoad
  <2>1. /\ held' = Min(todo) /\ mem' = row[Min(todo)] /\ Min(todo) \in todo /\ pc' = "call"
        /\ todo' \subseteq todo /\ caller' = "sweep" /\ UNCHANGED outstanding /\ pc = "sweep"
    BY <1>6, MinIn, TypeParts DEF SweepLoad, SessionInv, ControlType
  <2>2. MemAgrees'
    BY <1>1, <1>3, <2>1 DEF MemAgrees, Unsynced, Paused, InPass, Followed
  <2> QED BY <1>1, <1>2, <1>3, <2>1, <2>2 DEF RecordInv, Followed, InPass, Paused
<1>7. CASE SweepLoadRaises \/ EndSweep
  <2>1. /\ todo' \subseteq todo /\ UNCHANGED <<outstanding, caller>> /\ pc = "sweep"
        /\ pc' = "sweep" \/ (pc' = "listing" /\ purpose' = "scheduled")
    BY <1>7 DEF SweepLoadRaises, EndSweep
  <2> QED BY <1>1, <1>2, <1>3, <2>1
          DEF RecordInv, Followed, Busy, InCall, Paused, InPass
<1>8. CASE SweepNext
  <2>1. /\ UNCHANGED todo /\ pc' = "sweep" /\ caller = "sweep" /\ caller' = "cycle"
        /\ outstanding' \subseteq outstanding
    BY <1>8 DEF SweepNext, LetGo
  <2> QED BY <1>1, <1>2, <1>3, <2>1 DEF RecordInv, Followed, Busy, InCall, Paused, InPass
<1> QED BY <1>4, <1>5, <1>6, <1>7, <1>8 DEF Sweeps

\* A broker that forgets an order has nothing to disagree with.
LEMMA Forgets ==
  ASSUME SessionInv, UNCHANGED <<row, placed, bygone>>,
         \A e \in Execution : book'[e] \in {book[e], NoOrder}
  PROVE  \A e \in Execution : RowAgrees(e)'
BY DEF SessionInv, RecordInv, RowAgrees, Agrees

LEMMA RecordDays ==
  ASSUME SessionInv, Days, program = "session"
  PROVE  RecordInv'
<1>1. /\ ~Busy /\ ~Busy' /\ pc' # "sweep" /\ caller # "sweep"
      /\ UNCHANGED <<row, placed, bygone, outstanding, caller>>
      /\ \/ UNCHANGED book
         \/ book' = [e \in Execution |-> IF Open(e) THEN book[e] ELSE NoOrder]
  BY DEF Days, Purge, ArchiveEvents, ArchiveLog, Dawn, Evening, PurgeTerminalOrders, history,
         SessionInv, ControlInv, Busy, InCall, InPass, Paused
<1>2. \A e \in Execution : RowAgrees(e)'
  BY <1>1, Forgets
<1> QED BY <1>1, <1>2 DEF RecordInv, SessionInv, Followed

LEMMA RecordDie ==
  ASSUME SessionInv, Die
  PROVE  RecordInv'
<1>1. /\ \A e \in Execution : book'[e] = NoOrder /\ (e \in bygone' => row[e] # NoRow)
      /\ UNCHANGED <<row, placed>> /\ outstanding' = {} /\ todo' = {}
      /\ pc' = "dawn" /\ caller' = "cycle"
  BY DEF Die, LetGo
<1>2. \A e \in Execution : RowAgrees(e)'
  BY <1>1 DEF SessionInv, RecordInv, RowAgrees, Agrees
<1> QED BY <1>1, <1>2 DEF RecordInv, Followed, Busy, InCall, Paused, InPass

\* The restart before a call takes the record out of memory, and the reload
\* puts its row there: the same record, or none of its calls was lost.
LEMMA RecordStress ==
  ASSUME SessionInv, Stress, program = "stress"
  PROVE  RecordInv'
<1>1. UNCHANGED <<row, book, placed, bygone, outstanding, todo>>
  BY DEF Stress, StressBegins, RestartBeforeCall, Reload, ReloadRaises, StressCycleOver,
         Interim, StressEnds, Pass, Resume, Resting, history
<1>2. \A e \in Execution : RowAgrees(e)'
  BY <1>1, RowsRest DEF SessionInv, RecordInv
<1>3. caller # "sweep"
  BY DEF SessionInv, ControlInv
<1>4. CASE StressBegins \/ StressCycleOver \/ Interim \/ StressEnds
  <2>1. ~Busy' /\ pc' # "sweep" /\ caller' # "sweep"
    BY <1>3, <1>4 DEF StressBegins, StressCycleOver, Interim, StressEnds, Resume, Pass, Resting,
         LetGo, Busy, InCall, Paused, InPass
  <2> QED BY <1>1, <1>2, <2>1 DEF RecordInv, SessionInv, Followed
<1>5. CASE RestartBeforeCall \/ Reload \/ ReloadRaises
  <2>1. /\ Busy /\ UNCHANGED <<held, caller>> /\ pc \notin {"raised", "placing"}
        /\ Paused \/ pc = "call"
        /\ pc' = "call" \/ (pc' = "listing" /\ purpose' = "reload")
        /\ mem' \in {mem, row[held]}
    BY <1>5 DEF RestartBeforeCall, Reload, ReloadRaises, Pass, Resting, Judged, Busy, InCall,
         Paused, InPass
  <2>2. MemAgrees'
    BY <1>1, <2>1, HeldFacts DEF MemAgrees, Unsynced, Paused, InPass
  <2> QED BY <1>1, <1>2, <1>3, <2>1, <2>2 DEF RecordInv, SessionInv, Followed
<1> QED BY <1>4, <1>5 DEF Stress

\* Nobody holds a record when a harness judges a pass.
LEMMA RecordJudged ==
  ASSUME SessionInv,
         \/ InterimOver /\ program = "stress"
         \/ Drill \/ TryAgain \/ Conclude
  PROVE  RecordInv'
<1>1. /\ ~Busy' /\ pc' # "sweep" /\ caller # "sweep"
      /\ UNCHANGED <<row, placed, bygone, outstanding, caller>>
      /\ \/ UNCHANGED book
         \/ book' = [e \in Execution |-> IF Open(e) THEN book[e] ELSE NoOrder]
  BY DEF InterimOver, Drill, Verified, DrillDawn, DrillEvening, TryAgain, Conclude, Judged, Pass,
         Resume, Resting, Unpurposed, history, PurgeTerminalOrders,
         SessionInv, ControlInv, Busy, InCall, Paused, InPass
<1>2. \A e \in Execution : RowAgrees(e)'
  BY <1>1, Forgets
<1> QED BY <1>1, <1>2 DEF RecordInv, SessionInv, Followed

LEMMA RecordStep ==
  ASSUME SessionInv, [AnyNext]_allVars
  PROVE  RecordInv'
<1>1. CASE CallMove
  BY <1>1, RecordCalls, RecordReconcile DEF CallMove
<1>2. CASE SweepMove \/ DayMove
  BY <1>2, RecordSweeps, RecordDays, RecordDie DEF SweepMove, DayMove
<1>3. CASE StressMove \/ DrillMove \/ VerifyMove
  BY <1>3, RecordStress, RecordJudged DEF StressMove, DrillMove, VerifyMove
<1>4. CASE UNCHANGED allVars
  <2>1. MemAgrees => MemAgrees'
    BY <1>4 DEF allVars, vars, session, history, MemAgrees, Unsynced, Paused, InPass
  <2>2. \A e \in Execution : RowAgrees(e)'
    BY <1>4, RowsRest DEF allVars, vars, history, SessionInv, RecordInv
  <2> QED BY <1>4, <2>1, <2>2
          DEF allVars, vars, session, history, RecordInv, SessionInv, Followed, Busy, InCall,
              Paused, InPass
<1> QED BY <1>1, <1>2, <1>3, <1>4, Moves

-----------------------------------------------------------------------------
(* Types of the data, and the invariant of the session.                    *)

LEMMA NoRowTyped == NoRow \in Row
BY SessionAssumption DEF NoRow, Row, Status

LEMMA DataTypeSave ==
  ASSUME DataType, held \in Execution, NEW rec \in Row, Save(rec)
  PROVE  /\ row' \in [Execution -> Row] /\ mem' \in Row
         /\ UNCHANGED <<events, log, bygone>>
BY DEF DataType, Save, audit

LEMMA DataTypeCalls ==
  ASSUME SessionInv, Calls
  PROVE  DataType'
<1>0. /\ DataType /\ (Busy => held \in Execution)
      /\ \A r \in Row : /\ r.status \in Status \cup {"ABSENT"} /\ r.sent \in BOOLEAN
                        /\ r.final \in 0..Proposed /\ r.executed \in 0..Proposed
  BY TypeParts, HoldsRecord DEF SessionInv, Row
<1>1. ASSUME VerifyRaises \/ SubmitRaises \/ LeaveRecord \/ SkipCycle \/ CallAgain
      PROVE  DataType'
  BY <1>0, <1>1 DEF VerifyRaises, SubmitRaises, LeaveRecord, SkipCycle, CallAgain, DataType,
                    audit, history
<1>2. ASSUME NEW e \in Execution, StartCycle(e)
      PROVE  DataType'
  <2> DEFINE rec == [NoRow EXCEPT !.status = "PROPOSAL"]
  <2>1. rec \in Row
    BY NoRowTyped DEF Row, Status
  <2>2. /\ row' = [row EXCEPT ![e] = rec] /\ mem' = rec
        /\ events' = [events EXCEPT !.live = @ \cup {e}]
        /\ UNCHANGED <<book, cash, log, placed, bygone, overlap>>
    BY <1>2 DEF StartCycle, history
  <2> HIDE DEF rec
  <2>3. events' \in Events
    BY <1>0, <2>2 DEF DataType, Events
  <2> QED BY <1>0, <2>1, <2>2, <2>3 DEF DataType
<1>3. ASSUME pc \in {"call", "placing"}
      PROVE  held \in Execution /\ mem \in Row
  BY <1>0, <1>3 DEF Busy, InCall, DataType
<1>4. CASE VerifyApproved
  <2> DEFINE final == Affordable
             rec == [mem EXCEPT !.status = "VERIFIED", !.final = final]
  <2>1. /\ pc = "call" /\ Save(rec) /\ UNCHANGED <<book, cash, placed>>
        /\ overlap' = (overlap \/ \E e \in Execution \ {held} : Unpaid(e))
    BY <1>4 DEF VerifyApproved, Calling
  <2>2. final \in 0..Proposed
    BY AffordableFits DEF SessionInv
  <2> HIDE DEF final
  <2>3. rec \in Row
    BY <1>3, <2>1, <2>2 DEF Row, Status
  <2>4. overlap' \in BOOLEAN
    BY <2>1
  <2> HIDE DEF rec
  <2> QED BY <1>0, <1>3, <2>1, <2>3, <2>4, DataTypeSave DEF DataType
<1>5. CASE VerifyRejected
  <2>1. /\ pc = "call" /\ Save([mem EXCEPT !.status = "FAILED"])
        /\ UNCHANGED <<book, cash, placed, overlap>>
    BY <1>5 DEF VerifyRejected, Calling
  <2>2. [mem EXCEPT !.status = "FAILED"] \in Row
    BY <1>3, <2>1 DEF Row, Status
  <2> QED BY <1>0, <1>3, <2>1, <2>2, DataTypeSave DEF DataType
<1>6. CASE SubmitIntent
  <2> DEFINE rec == [mem EXCEPT !.status = "SUBMITTED"]
  <2>1. /\ pc = "call" /\ mem' = rec /\ row' \in {row, [row EXCEPT ![held] = rec]}
        /\ UNCHANGED <<book, cash, events, log, placed, bygone, overlap>>
    BY <1>6 DEF SubmitIntent, Calling, audit
  <2>2. rec \in Row
    BY <1>3, <2>1 DEF Row, Status
  <2> HIDE DEF rec
  <2> QED BY <1>0, <1>3, <2>1, <2>2 DEF DataType
<1>7. ASSUME NEW scenario \in Scenario, SubmitAccepted(scenario)
      PROVE  DataType'
  <2> DEFINE size == IF mem.final = 0 THEN Proposed ELSE mem.final
             order == [scenario |-> scenario, state |-> "PENDING", executed |-> 0, polls |-> 0,
                       quantity |-> size]
             rec == [mem EXCEPT !.status = "PENDING", !.sent = TRUE]
  <2>1. /\ pc = "placing" /\ book' = [book EXCEPT ![held] = order] /\ Save(rec)
        /\ placed' = placed \cup {held} /\ UNCHANGED <<cash, overlap>>
    BY <1>7 DEF SubmitAccepted
  <2>2. size \in 1..Proposed
    BY <1>0, <1>3, <2>1, SessionAssumption
  <2> HIDE DEF size
  <2>3. order \in PaperOrder
    BY <2>2, SessionAssumption DEF PaperOrder
  <2>4. rec \in Row
    BY <1>3, <2>1 DEF Row, Status
  <2> HIDE DEF order, rec
  <2> QED BY <1>0, <1>3, <2>1, <2>3, <2>4, DataTypeSave DEF DataType
<1>8. CASE Poll
  <2>1. /\ pc = "call" /\ UNCHANGED <<placed, overlap>>
        /\ \/ UNCHANGED <<row, book, cash, mem, events, log, bygone>>
           \/ book[held] # NoOrder /\ GetOrderStatus(held)
    BY <1>8 DEF Poll, Calling, audit
  <2>2. CASE UNCHANGED <<row, book, cash, mem, events, log, bygone>>
    BY <1>0, <2>1, <2>2 DEF DataType
  <2>3. CASE book[held] # NoOrder /\ GetOrderStatus(held)
    <3> DEFINE order == Polled(book[held])
               rec == [mem EXCEPT !.status = order.state, !.executed = order.executed]
    <3>1. book[held] \in PaperOrder /\ OrderSound(book[held])
      BY <1>0, <1>3, <2>1, <2>3 DEF DataType, SessionInv, RecordInv, RowAgrees, Agrees
    <3>2. order \in PaperOrder
      BY <3>1, PolledSound DEF OrderSound
    <3>3. book' = [book EXCEPT ![held] = order] /\ book'[held] = order
          /\ cash' = cash - Price * (book'[held].executed - book[held].executed)
      BY <1>0, <1>3, <2>1, <2>3 DEF GetOrderStatus, DataType
    <3> HIDE DEF order
    <3>4. \/ UNCHANGED <<row, mem, events, log, bygone>>
          \/ Save(rec)
      BY <1>8, <2>1, <2>3, <3>3 DEF Poll, audit
    <3>5. /\ order.executed \in 0..Proposed /\ book[held].executed \in 0..Proposed
          /\ order.state \in {"PENDING", "PARTIALLY_FILLED", "FILLED", "CANCELLED"}
      BY <3>1, <3>2 DEF PaperOrder
    <3>6. rec \in Row
      BY <1>3, <2>1, <3>5 DEF Row, Status
    <3>7. cash' \in Int
      BY <1>0, <3>3, <3>5, SessionAssumption DEF DataType
    <3>8. book' \in [Execution -> PaperOrder \cup {NoOrder}]
      BY <1>0, <1>3, <2>1, <3>2, <3>3 DEF DataType
    <3> HIDE DEF rec
    <3> QED BY <1>0, <1>3, <2>1, <3>4, <3>6, <3>7, <3>8, DataTypeSave DEF DataType
  <2> QED BY <2>1, <2>2, <2>3
<1> QED BY <1>1, <1>2, <1>4, <1>5, <1>6, <1>7, <1>8 DEF Calls, ProcessOrder

LEMMA DataTypeReconcile ==
  ASSUME SessionInv, Reconcile
  PROVE  DataType'
<1>0. DataType
  BY TypeParts DEF SessionInv
<1>1. CASE LoadUnresolved \/ EndReconcile \/ ReconcileRaises
  BY <1>0, <1>1 DEF LoadUnresolved, EndReconcile, ReconcileRaises, DataType, audit, history
<1>2. ASSUME NEW e \in Execution,
             \/ ConfirmUnsubmitted(e) \/ AdoptByReference(e) \/ EscalateToAmbiguous(e)
             \/ LeaveRow(e) \/ ConfirmTerminal(e) \/ AdoptBrokerState(e)
      PROVE  DataType'
  <2>1. UNCHANGED <<mem, book, cash, events, log, placed, bygone, overlap>>
    BY <1>2 DEF ConfirmUnsubmitted, AdoptByReference, EscalateToAmbiguous, LeaveRow,
         ConfirmTerminal, AdoptBrokerState, Checked, audit, history
  <2>2. row[e] \in Row /\ book[e] \in PaperOrder \cup {NoOrder}
    BY <1>0 DEF DataType
  <2>3. row' \in [Execution -> Row]
    <3>1. CASE LeaveRow(e)
      BY <1>0, <3>1 DEF LeaveRow, DataType
    <3>2. CASE ConfirmUnsubmitted(e) \/ ConfirmTerminal(e)
      <4>1. row' = [row EXCEPT ![e] = [@ EXCEPT !.status = "RECONCILED"]]
        BY <3>2 DEF ConfirmUnsubmitted, ConfirmTerminal
      <4>2. [row[e] EXCEPT !.status = "RECONCILED"] \in Row
        BY <2>2 DEF Row, Status
      <4> QED BY <1>0, <4>1, <4>2 DEF DataType
    <3>3. CASE EscalateToAmbiguous(e)
      <4>1. [row[e] EXCEPT !.status = "AMBIGUOUS"] \in Row
        BY <2>2 DEF Row, Status
      <4> QED BY <1>0, <3>3, <4>1 DEF EscalateToAmbiguous, DataType
    <3>4. CASE AdoptByReference(e)
      <4> DEFINE rec == [row[e] EXCEPT !.sent = TRUE, !.status = book[e].state,
                                       !.executed = book[e].executed]
      <4>1. book[e].state \in Status /\ book[e].executed \in 0..Proposed
        BY <2>2, <3>4 DEF AdoptByReference, Open, NoOrder, PaperOrder, Live, Status
      <4>2. rec \in Row
        BY <2>2, <4>1 DEF Row
      <4>3. row' = [row EXCEPT ![e] = rec]
        BY <1>0, <3>4 DEF AdoptByReference, DataType
      <4> HIDE DEF rec
      <4> QED BY <1>0, <4>2, <4>3 DEF DataType
    <3>5. CASE AdoptBrokerState(e)
      <4> DEFINE final == IF book[e].executed = 0 THEN row[e].final ELSE book[e].executed
                 rec == [row[e] EXCEPT !.status = "RECONCILED", !.executed = book[e].executed,
                                       !.final = final]
      <4>1. book[e].executed \in 0..Proposed /\ final \in 0..Proposed
        BY <2>2, <3>5 DEF AdoptBrokerState, PaperOrder, Row
      <4>2. row' = [row EXCEPT ![e] = rec]
        BY <1>0, <3>5 DEF AdoptBrokerState, DataType
      <4> HIDE DEF final
      <4>3. rec \in Row
        BY <2>2, <4>1 DEF Row, Status
      <4> HIDE DEF rec
      <4> QED BY <1>0, <4>2, <4>3 DEF DataType
    <3> QED BY <1>2, <3>1, <3>2, <3>3, <3>4, <3>5
  <2> QED BY <1>0, <2>1, <2>3 DEF DataType
<1> QED BY <1>1, <1>2 DEF Reconcile

LEMMA DataTypeOthers ==
  ASSUME SessionInv,
         SweepMove \/ DayMove \/ StressMove \/ DrillMove \/ VerifyMove \/ UNCHANGED allVars
  PROVE  DataType'
<1>0. DataType /\ ControlType
  BY TypeParts DEF SessionInv
<1>1. CASE SweepMove
  <2>1. CASE FinishCycle
    <3>1. held \in Execution /\ mem \in Row
      BY <2>1, HoldsRecord, <1>0 DEF FinishCycle, CycleOver, Busy, InCall, SessionInv, DataType
    <3>2. mem.executed \in 0..Proposed
      BY <3>1 DEF Row
    <3>3. log' = [log EXCEPT !.live = @ \cup {held}, !.executed[held] = mem.executed]
      BY <2>1 DEF FinishCycle
    <3>4. log' \in Log
      BY <1>0, <3>1, <3>2, <3>3 DEF DataType, Log
    <3>5. UNCHANGED <<row, book, cash, events, placed, bygone, overlap>> /\ mem' = NoRow
      BY <2>1 DEF FinishCycle, LetGo, history
    <3> QED BY <1>0, <3>4, <3>5, NoRowTyped DEF DataType
  <2>2. CASE SweepLoad
    <3>1. Min(todo) \in Execution
      BY <1>0, <2>2, MinIn DEF SweepLoad, ControlType
    <3> QED BY <1>0, <2>2, <3>1 DEF SweepLoad, DataType, audit, history
  <2>3. CASE SweepNext \/ BeginSweep \/ SweepLoadRaises \/ EndSweep
    BY <1>0, <2>3, NoRowTyped DEF SweepNext, BeginSweep, SweepLoadRaises, EndSweep, LetGo,
       DataType, audit, history
  <2> QED BY <1>1, <2>1, <2>2, <2>3 DEF SweepMove, Sweeps
<1>2. CASE Days
  <2>1. CASE ArchiveEvents
    <3>1. events' \in Events
      BY <1>0, <2>1 DEF ArchiveEvents, DataType, Events
    <3> QED BY <1>0, <2>1, <3>1 DEF ArchiveEvents, DataType, history
  <2>2. CASE ArchiveLog
    <3> DEFINE lines == [e \in Execution |-> log.archived[e] + IF e \in log.live THEN 1 ELSE 0]
    <3>1. log' = [log EXCEPT !.live = {}, !.archived = lines]
      BY <2>2 DEF ArchiveLog
    <3>2. lines \in [Execution -> Nat]
      BY <1>0 DEF DataType, Log
    <3> HIDE DEF lines
    <3>3. log' \in Log
      BY <1>0, <3>1, <3>2 DEF DataType, Log
    <3> QED BY <1>0, <2>2, <3>3 DEF ArchiveLog, DataType, history
  <2>3. CASE Purge \/ \E due \in BOOLEAN : Dawn(due) \/ Evening(due)
    BY <1>0, <2>3 DEF Purge, PurgeTerminalOrders, Dawn, Evening, DataType, audit, history
  <2> QED BY <1>2, <2>1, <2>2, <2>3 DEF Days
<1>3. CASE Die
  <2>1. events' \in Events
    BY <1>0, <1>3 DEF Die, DataType, Events
  <2>2. log' \in Log
    BY <1>0, <1>3 DEF Die, DataType, Log
  <2>3. /\ row' = row /\ mem' = NoRow /\ cash' = StartingCash /\ placed' = placed
        /\ book' = [e \in Execution |-> NoOrder] /\ overlap' = FALSE
        /\ bygone' = {e \in Execution : row[e] # NoRow}
    BY <1>3 DEF Die, LetGo
  <2>4. overlap' \in BOOLEAN
    BY <2>3, Zenon
  <2>6. cash' \in Int
    BY <2>3, SessionAssumption
  <2>5. book' \in [Execution -> PaperOrder \cup {NoOrder}] /\ bygone' \subseteq Execution
    BY <2>3
  <2> QED BY <1>0, <2>1, <2>2, <2>3, <2>4, <2>5, <2>6, NoRowTyped DEF DataType
<1>4. CASE StressMove
  <2>1. CASE Interim
    <3>1. events' \in Events
      BY <1>0, <2>1 DEF Interim, DataType, Events
    <3> QED BY <1>0, <2>1, <3>1 DEF Interim, DataType, history
  <2>2. CASE Reload
    <3>1. row[held] \in Row
      BY <1>0, <2>2, HoldsRecord
         DEF Reload, Judged, Busy, Paused, InPass, SessionInv, DataType
    <3> QED BY <1>0, <2>2, <3>1 DEF Reload, Resting, DataType, audit, history
  <2>3. CASE StressBegins \/ RestartBeforeCall \/ ReloadRaises \/ StressCycleOver \/ StressEnds
             \/ InterimOver
    BY <1>0, <2>3, NoRowTyped
       DEF StressBegins, RestartBeforeCall, ReloadRaises, StressCycleOver, StressEnds, InterimOver,
           PurgeTerminalOrders, Pass, Resume, Resting, LetGo, DataType, audit, history
  <2> QED BY <1>4, <2>1, <2>2, <2>3 DEF StressMove, Stress
<1>5. CASE DrillMove \/ VerifyMove
  BY <1>0, <1>5 DEF DrillMove, VerifyMove, Drill, Verified, DrillDawn, DrillEvening, TryAgain,
     Conclude, Pass, Resume, Resting, DataType, audit, history
<1>6. CASE UNCHANGED allVars
  BY <1>0, <1>6 DEF allVars, vars, session, audit, history, DataType
<1> QED BY <1>1, <1>2, <1>3, <1>4, <1>5, <1>6 DEF DayMove

LEMMA SessionStep == SessionInv /\ [AnyNext]_allVars => SessionInv'
<1> SUFFICES ASSUME SessionInv, [AnyNext]_allVars PROVE SessionInv'
  OBVIOUS
<1>1. DataType'
  BY DataTypeCalls, DataTypeReconcile, DataTypeOthers, Moves DEF CallMove
<1>2. TypeOK'
  BY <1>1, TypeParts, HarnessTypeStep, ControlTypeStep, PTL DEF SessionInv
<1> QED BY <1>2, ControlStep, RecordStep DEF SessionInv

\* The session's invariant: the types, where each program may be, and that
\* rows, orders and the record in memory agree.
THEOREM SessionSound == ProgramSpec => []SessionInv
<1>1. HarnessInit => SessionInv
  BY TypeInit, ControlInit, RecordInit DEF SessionInv
<1>2. SessionInv /\ [AnyNext]_allVars => SessionInv'
  BY SessionStep
<1> QED BY <1>1, <1>2, PTL DEF ProgramSpec

-----------------------------------------------------------------------------
(* The session is one more user of the submission contract.                *)

\* Stage is read off the status of the row.
StageOf(s) ==
  CASE s \in Unsent \cup {"ABSENT"} -> "planned"
    [] s \in {"SUBMITTED"} \cup Live -> "intended"
    [] s = "AMBIGUOUS" -> "doubtful"
    [] OTHER -> "closed"

LEMMA StageIs ==
  /\ \A s \in Unsent \cup {"ABSENT"} : StageOf(s) = "planned"
  /\ \A s \in {"SUBMITTED"} \cup Live : StageOf(s) = "intended"
  /\ StageOf("AMBIGUOUS") = "doubtful"
  /\ \A s \in Terminal \cup {"RECONCILED"} : StageOf(s) = "closed"
BY DEF StageOf, Unsent, Live, Terminal

\* The contract's moves of one record when no order is taken.
Allowed(from, to) ==
  \/ from = to
  \/ from = "planned" /\ to = "intended"
  \/ from = "intended" /\ to = "doubtful"
  \/ from \in {"planned", "intended", "doubtful"} /\ to = "closed"

\* Saving one row is one move of the contract, or invisible to it.
LEMMA RowIsMove ==
  ASSUME row \in [Execution -> Row], NEW e \in Execution, NEW rec,
         row' = [row EXCEPT ![e] = rec], UNCHANGED placed,
         Allowed(StageOf(row[e].status), StageOf(rec.status))
  PROVE  [Contract!Next]_(Contract!contract)
<1> DEFINE stages == [d \in Execution |-> Stage(d)]
           to == StageOf(rec.status)
<1>1. stages[e] = StageOf(row[e].status)
  BY DEF Stage, StageOf
<1>2. stages' = [d \in Execution |-> StageOf(row'[d].status)]
  BY DEF Stage, StageOf
<1>3. stages = [d \in Execution |-> StageOf(row[d].status)]
  BY DEF Stage, StageOf
<1>4. stages' = [stages EXCEPT ![e] = to]
  BY <1>2, <1>3
<1>5. Allowed(stages[e], to)
  BY <1>1
<1> HIDE DEF to
<1>6. CASE stages[e] = to
  <2>1. stages' = stages
    BY <1>4, <1>6
  <2> QED BY <2>1 DEF Contract!contract
<1>7. CASE stages[e] # to
  <2> HIDE DEF stages
  <2>1. \/ stages[e] = "planned" /\ to = "intended"
        \/ stages[e] = "intended" /\ to = "doubtful"
        \/ stages[e] \in {"planned", "intended", "doubtful"} /\ to = "closed"
    BY <1>5, <1>7 DEF Allowed
  <2>2. stages' = [stages EXCEPT ![e] = to]
    BY <1>4
  <2> USE DEF stages
  <2>3. Contract!Intend(e) \/ Contract!Doubt(e) \/ Contract!Close(e)
    BY <2>1, <2>2
       DEF Contract!Intend, Contract!Doubt, Contract!Close, Contract!Move
  <2> QED BY <2>3 DEF Contract!Next
<1> QED BY <1>6, <1>7

\* A step that saves no row and takes no order is invisible to the contract.
LEMMA RestIsStutter ==
  ASSUME UNCHANGED <<row, placed>>
  PROVE  [Contract!Next]_(Contract!contract)
BY DEF Contract!contract, Stage

\* What Save does to the row, if anything.
LEMMA SaveIsMove ==
  ASSUME SessionInv, held \in Execution, NEW rec, Save(rec), UNCHANGED placed,
         Allowed(StageOf(row[held].status), StageOf(rec.status))
  PROVE  [Contract!Next]_(Contract!contract)
BY RowIsMove, RestIsStutter, TypeParts DEF Save, SessionInv, DataType

\* The order is the contract's Take: the intent is durable by then, and it is
\* the record's first.
LEMMA AcceptedIsTake ==
  ASSUME SessionInv, NEW scenario \in Scenario, SubmitAccepted(scenario)
  PROVE  [Contract!Next]_(Contract!contract)
<1> DEFINE stages == [d \in Execution |-> Stage(d)]
           takings == [d \in Execution |-> placed \cap {d}]
           rec == [mem EXCEPT !.status = "PENDING", !.sent = TRUE]
<1>1. /\ pc = "placing" /\ placed' = placed \cup {held} /\ Save(rec)
  BY DEF SubmitAccepted
<1>2. /\ held \in Execution /\ mem = row[held] /\ mem.status = "SUBMITTED"
      /\ held \notin placed /\ mem \in Row /\ row \in [Execution -> Row]
  BY <1>1, HeldFacts, TypeParts DEF Busy, InCall, MemAgrees, Unsynced, SessionInv, DataType
<1>3. rec.status = "PENDING"
  BY <1>2 DEF Row
<1> HIDE DEF rec
<1>4. row' = [row EXCEPT ![held] = rec] \/ row' = row
  BY <1>1 DEF Save
<1>5. \A d \in Execution : row'[d] = row[d] \/ (d = held /\ row'[d] = rec)
  BY <1>2, <1>4
<1>6. \A d \in Execution : StageOf(row'[d].status) = StageOf(row[d].status)
  BY <1>2, <1>3, <1>5, StageIs DEF Live
<1>7. stages' = stages
  <2>1. stages = [d \in Execution |-> StageOf(row[d].status)]
    BY DEF Stage, StageOf
  <2>2. stages' = [d \in Execution |-> StageOf(row'[d].status)]
    BY DEF Stage, StageOf
  <2> QED BY <1>6, <2>1, <2>2
<1>8. stages[held] = "intended"
  BY <1>2, StageIs DEF Stage, StageOf
<1>9. /\ takings[held] = {} /\ (\A q \in Execution : held \notin takings[q])
      /\ takings' = [takings EXCEPT ![held] = {held}]
  <2>1. \A d \in Execution : placed' \cap {d} = IF d = held THEN {held} ELSE placed \cap {d}
    BY <1>1, <1>2
  <2>2. takings' = [d \in Execution |-> placed' \cap {d}]
    OBVIOUS
  <2>3. [takings EXCEPT ![held] = {held}]
          = [d \in Execution |-> IF d = held THEN {held} ELSE placed \cap {d}]
    BY <1>2
  <2> QED BY <1>2, <2>1, <2>2, <2>3
<1>10. PICK e \in Execution : e = held
  BY <1>2
<1>11. Contract!Take(e, e)
  BY <1>7, <1>8, <1>9, <1>10 DEF Contract!Take
<1> QED BY <1>11 DEF Contract!Next

LEMMA ContractCalls ==
  ASSUME SessionInv, Calls
  PROVE  [Contract!Next]_(Contract!contract)
<1>0. /\ row \in [Execution -> Row] /\ (Busy => held \in Execution /\ mem \in Row)
  BY TypeParts, HeldFacts DEF SessionInv, DataType
<1>1. ASSUME pc = "call"
      PROVE  held \in Execution /\ mem = row[held] /\ mem \in Row
  BY <1>0, <1>1, HeldFacts DEF Busy, InCall, MemAgrees, Unsynced
<1>2. CASE VerifyRaises \/ SubmitRaises \/ LeaveRecord \/ SkipCycle \/ CallAgain
  BY <1>2, RestIsStutter DEF VerifyRaises, SubmitRaises, LeaveRecord, SkipCycle, CallAgain, history
<1>3. CASE VerifyApproved \/ VerifyRejected
  <2>1. PICK s \in {"VERIFIED", "FAILED"}, final \in {mem.final, Affordable} :
          Save([mem EXCEPT !.status = s, !.final = final])
    <3>1. CASE VerifyApproved
      BY <3>1 DEF VerifyApproved
    <3>2. CASE VerifyRejected
      <4>1. pc = "call" /\ Save([mem EXCEPT !.status = "FAILED"])
        BY <3>2 DEF VerifyRejected, Calling
      <4>2. [mem EXCEPT !.status = "FAILED"] = [mem EXCEPT !.status = "FAILED", !.final = mem.final]
        BY <1>1, <4>1 DEF Row
      <4> QED BY <4>1, <4>2
    <3> QED BY <1>3, <3>1, <3>2
  <2> DEFINE rec == [mem EXCEPT !.status = s, !.final = final]
  <2>2. pc = "call" /\ mem.status = "PROPOSAL" /\ UNCHANGED placed
    BY <1>3 DEF VerifyApproved, VerifyRejected, Calling
  <2>3. rec.status = s
    BY <1>1, <2>2 DEF Row
  <2> HIDE DEF rec
  <2>4. Allowed(StageOf(row[held].status), StageOf(rec.status))
    BY <1>1, <2>2, <2>3, StageIs DEF Allowed, Unsent, Terminal
  <2> QED BY <1>1, <2>1, <2>2, <2>4, SaveIsMove DEF rec
<1>4. CASE SubmitIntent
  <2> DEFINE rec == [mem EXCEPT !.status = "SUBMITTED"]
  <2>1. /\ pc = "call" /\ mem.status = "VERIFIED" /\ UNCHANGED placed
        /\ row' = [row EXCEPT ![held] = rec] \/ row' = row
    BY <1>4 DEF SubmitIntent, Calling
  <2>2. rec.status = "SUBMITTED"
    BY <1>1, <2>1 DEF Row
  <2> HIDE DEF rec
  <2>3. Allowed(StageOf(row[held].status), StageOf(rec.status))
    BY <1>1, <2>1, <2>2, StageIs DEF Allowed, Unsent
  <2> QED BY <1>0, <1>1, <2>1, <2>3, RowIsMove, RestIsStutter
<1>5. CASE Poll
  <2>1. /\ pc = "call" /\ mem.status \in Live /\ UNCHANGED placed
        /\ \/ UNCHANGED row
           \/ book[held] # NoOrder /\ GetOrderStatus(held)
    BY <1>5 DEF Poll, Calling
  <2>2. CASE UNCHANGED row
    BY <2>1, <2>2, RestIsStutter
  <2>3. CASE ~UNCHANGED row
    <3> DEFINE order == Polled(book[held])
               rec == [mem EXCEPT !.status = order.state, !.executed = order.executed]
    <3>1. book' = [book EXCEPT ![held] = order] /\ book'[held] = order
      BY <1>1, <2>1, <2>3, TypeParts DEF GetOrderStatus, SessionInv, DataType
    <3>2. OrderSound(book[held])
      BY <1>1, <2>1, <2>3 DEF SessionInv, RecordInv, RowAgrees, Agrees
    <3>3. order.state \in {"PENDING", "PARTIALLY_FILLED", "FILLED", "CANCELLED"}
      BY <3>2, PolledSound DEF OrderSound, PaperOrder
    <3> HIDE DEF order
    <3>4. Save(rec)
      BY <1>5, <2>1, <2>3, <3>1 DEF Poll
    <3>5. rec.status = order.state
      BY <1>1, <2>1 DEF Row
    <3> HIDE DEF rec
    <3>6. Allowed(StageOf(row[held].status), StageOf(rec.status))
      BY <1>1, <2>1, <3>3, <3>5, StageIs DEF Allowed, Live, Terminal
    <3> QED BY <1>1, <2>1, <3>4, <3>6, SaveIsMove
  <2> QED BY <2>2, <2>3
<1>6. ASSUME NEW e \in Execution, StartCycle(e)
      PROVE  [Contract!Next]_(Contract!contract)
  <2> DEFINE rec == [NoRow EXCEPT !.status = "PROPOSAL"]
  <2>1. row[e] = NoRow /\ row' = [row EXCEPT ![e] = rec] /\ UNCHANGED placed
    BY <1>6 DEF StartCycle, history
  <2>2. row[e].status = "ABSENT" /\ rec.status = "PROPOSAL"
    BY <2>1 DEF NoRow
  <2> HIDE DEF rec
  <2> QED BY <1>0, <2>1, <2>2, StageIs, RowIsMove DEF Allowed, Unsent
<1> QED BY <1>2, <1>3, <1>4, <1>5, <1>6, AcceptedIsTake DEF Calls, ProcessOrder

LEMMA ContractReconcile ==
  ASSUME SessionInv, Reconcile
  PROVE  [Contract!Next]_(Contract!contract)
<1>0. row \in [Execution -> Row] /\ book \in [Execution -> PaperOrder \cup {NoOrder}]
  BY TypeParts DEF SessionInv, DataType
<1>1. CASE LoadUnresolved \/ EndReconcile \/ ReconcileRaises
  BY <1>1, RestIsStutter DEF LoadUnresolved, EndReconcile, ReconcileRaises, history
<1>2. ASSUME NEW e \in Execution, LeaveRow(e)
      PROVE  [Contract!Next]_(Contract!contract)
  BY <1>2, RestIsStutter DEF LeaveRow, Checked, history
<1>3. ASSUME NEW e \in Execution, AdoptByReference(e)
      PROVE  [Contract!Next]_(Contract!contract)
  <2> DEFINE rec == [row[e] EXCEPT !.sent = TRUE, !.status = book[e].state,
                                   !.executed = book[e].executed]
  <2>1. /\ row' = [row EXCEPT ![e] = rec] /\ UNCHANGED placed
        /\ ~row[e].sent /\ book[e].state \in Live
    BY <1>0, <1>3 DEF AdoptByReference, Open, Checked, history
  <2>2. book[e] # NoOrder /\ row[e].status = "SUBMITTED"
    BY <2>1 DEF SessionInv, RecordInv, RowAgrees, Agrees, NoOrder, Live
  <2>3. rec.status = book[e].state
    BY <1>0 DEF Row
  <2> HIDE DEF rec
  <2>4. Allowed(StageOf(row[e].status), StageOf(rec.status))
    BY <2>1, <2>2, <2>3, StageIs DEF Allowed
  <2> QED BY <1>0, <2>1, <2>4, RowIsMove
<1>4. ASSUME NEW e \in Execution, EscalateToAmbiguous(e)
      PROVE  [Contract!Next]_(Contract!contract)
  <2> DEFINE rec == [row[e] EXCEPT !.status = "AMBIGUOUS"]
  <2>1. row' = [row EXCEPT ![e] = rec] /\ UNCHANGED placed /\ row[e].status = "SUBMITTED"
    BY <1>0, <1>4 DEF EscalateToAmbiguous, Checked, history
  <2>2. rec.status = "AMBIGUOUS"
    BY <1>0 DEF Row
  <2> HIDE DEF rec
  <2>3. Allowed(StageOf(row[e].status), StageOf(rec.status))
    BY <2>1, <2>2, StageIs DEF Allowed
  <2> QED BY <1>0, <2>1, <2>3, RowIsMove
<1>5. ASSUME NEW e \in Execution,
             ConfirmUnsubmitted(e) \/ ConfirmTerminal(e) \/ AdoptBrokerState(e)
      PROVE  [Contract!Next]_(Contract!contract)
  <2>1. PICK final, executed :
          row' = [row EXCEPT ![e] = [@ EXCEPT !.status = "RECONCILED", !.executed = executed,
                                              !.final = final]]
    <3>1. CASE AdoptBrokerState(e)
      BY <1>0, <3>1 DEF AdoptBrokerState
    <3>2. CASE ConfirmUnsubmitted(e) \/ ConfirmTerminal(e)
      <4>1. row' = [row EXCEPT ![e] = [@ EXCEPT !.status = "RECONCILED"]]
        BY <1>0, <3>2 DEF ConfirmUnsubmitted, ConfirmTerminal
      <4>2. [row[e] EXCEPT !.status = "RECONCILED"]
              = [row[e] EXCEPT !.status = "RECONCILED", !.executed = row[e].executed,
                               !.final = row[e].final]
        BY <1>0 DEF Row
      <4> QED BY <1>0, <4>1, <4>2
    <3> QED BY <1>5, <3>1, <3>2
  <2> DEFINE rec == [row[e] EXCEPT !.status = "RECONCILED", !.executed = executed, !.final = final]
  <2>2. row' = [row EXCEPT ![e] = rec] /\ UNCHANGED placed
    BY <1>0, <1>5, <2>1
       DEF ConfirmUnsubmitted, ConfirmTerminal, AdoptBrokerState, Checked, history
  <2>3. rec.status = "RECONCILED"
    BY <1>0 DEF Row
  <2> HIDE DEF rec
  <2>4. StageOf(row[e].status) \in {"planned", "intended", "doubtful", "closed"}
    BY DEF StageOf
  <2>5. Allowed(StageOf(row[e].status), StageOf(rec.status))
    BY <2>3, <2>4, StageIs DEF Allowed
  <2> QED BY <1>0, <2>2, <2>5, RowIsMove
<1> QED BY <1>1, <1>2, <1>3, <1>4, <1>5 DEF Reconcile

LEMMA ContractStep ==
  ASSUME SessionInv, [AnyNext]_allVars
  PROVE  [Contract!Next]_(Contract!contract)
<1>1. CASE CallMove
  BY <1>1, ContractCalls, ContractReconcile DEF CallMove
<1>2. CASE ~CallMove
  <2>1. UNCHANGED <<row, placed>>
    <3>1. CASE SweepMove \/ DayMove
      BY <3>1 DEF SweepMove, DayMove, Sweeps, FinishCycle, BeginSweep, SweepLoad, SweepLoadRaises,
           SweepNext, EndSweep, Days, Purge, ArchiveEvents, ArchiveLog, Dawn, Evening, Die, history
    <3>2. CASE StressMove
      BY <3>2 DEF StressMove, Stress, StressBegins, RestartBeforeCall, Reload, ReloadRaises,
           StressCycleOver, Interim, StressEnds, InterimOver, Pass, Resume, Resting, history
    <3>3. CASE DrillMove \/ VerifyMove
      BY <3>3 DEF DrillMove, VerifyMove, Drill, Verified, DrillDawn, DrillEvening, TryAgain,
           Conclude, Pass, Resume, Resting, history
    <3>4. CASE UNCHANGED allVars
      BY <3>4 DEF allVars, vars, history
    <3> QED BY <1>2, <3>1, <3>2, <3>3, <3>4, Moves
  <2> QED BY <2>1, RestIsStutter
<1> QED BY <1>1, <1>2

LEMMA ContractInit == HarnessInit => Contract!Init
<1> SUFFICES ASSUME HarnessInit PROVE Contract!Init
  OBVIOUS
<1>1. (\A e \in Execution : row[e] = NoRow) /\ placed = {}
  BY DEF HarnessInit, Init
<1>2. \A e \in Execution : Stage(e) = "planned"
  BY <1>1, StageIs DEF Stage, StageOf, NoRow
<1> QED BY <1>1, <1>2 DEF Contract!Init

\* DDR-001 for the whole session: whatever sweeps, restarts, lost saves, purges
\* and deaths, each record gets one order at most, asked for after the intent
\* is durable, and none while it is in doubt.
THEOREM SessionKeepsContract == ProgramSpec => ImplementsContract
<1>1. HarnessInit => Contract!Init
  BY ContractInit
<1>2. SessionInv /\ [AnyNext]_allVars => [Contract!Next]_(Contract!contract)
  BY ContractStep
<1> QED BY <1>1, <1>2, SessionSound, PTL DEF ProgramSpec, ImplementsContract, Contract!Spec

-----------------------------------------------------------------------------
(* A pass that went through looked at every record.                        *)

\* An order that is still open under a row that has its id is under a live row.
LEMMA OpenRowIsLive ==
  ASSUME SessionInv, NEW e \in Execution, row[e].sent, Open(e)
  PROVE  row[e].status \in Live \cup {"RECONCILED"}
<1>1. RowAgrees(e) /\ row[e] \in Row
  BY TypeParts DEF SessionInv, RecordInv, DataType
<1>2. book[e] # NoOrder /\ book[e].state \in Live
  BY DEF Open, NoOrder, Live
<1>3. RowShape(row[e]) /\ Behind(row[e], book[e])
  BY <1>1, <1>2 DEF RowAgrees, Agrees
<1>4. row[e].status \in Status \cup {"ABSENT"}
  BY <1>1 DEF Row
<1>5. row[e].status \notin Unsent \cup {"SUBMITTED", "AMBIGUOUS", "FAILED", "ABSENT"}
  BY <1>3 DEF RowShape, NoRow
<1>6. row[e].status \notin {"FILLED", "CANCELLED"}
  BY <1>2, <1>3 DEF Behind, Live
<1> QED BY <1>4, <1>5, <1>6 DEF Status, Unsent, Live

\* What the pass has looked at.
LEMMA PassRows ==
  ASSUME SessionInv, NEW e \in Execution,
         \/ ConfirmUnsubmitted(e) \/ AdoptByReference(e) \/ EscalateToAmbiguous(e)
         \/ LeaveRow(e) \/ ConfirmTerminal(e) \/ AdoptBrokerState(e)
  PROVE  /\ pc = "reconciling" /\ pc' = pc /\ todo' = todo \ {e} /\ UNCHANGED book
         /\ \A d \in Execution \ {e} : row'[d] = row[d]
         /\ Looked(e)'
<1>0. /\ row[e] \in Row /\ row \in [Execution -> Row] /\ UNCHANGED book
      /\ book[e] \in PaperOrder \cup {NoOrder}
  BY TypeParts DEF SessionInv, DataType, ConfirmUnsubmitted, AdoptByReference,
       EscalateToAmbiguous, LeaveRow, ConfirmTerminal, AdoptBrokerState
<1>1. pc = "reconciling" /\ pc' = pc /\ todo' = todo \ {e}
  BY DEF ConfirmUnsubmitted, AdoptByReference, EscalateToAmbiguous, LeaveRow,
         ConfirmTerminal, AdoptBrokerState, Checked, Reconciling
<1>2. \A d \in Execution \ {e} : row'[d] = row[d]
  BY <1>0 DEF ConfirmUnsubmitted, AdoptByReference, EscalateToAmbiguous, LeaveRow,
              ConfirmTerminal, AdoptBrokerState
<1>3. Looked(e)'
  <2>1. CASE ConfirmUnsubmitted(e) \/ ConfirmTerminal(e) \/ AdoptBrokerState(e)
    <3>1. row'[e].status = "RECONCILED"
      BY <1>0, <2>1 DEF ConfirmUnsubmitted, ConfirmTerminal, AdoptBrokerState, Row
    <3> QED BY <3>1 DEF Looked, Resolved
  <2>2. CASE EscalateToAmbiguous(e)
    <3>1. row'[e].status = "AMBIGUOUS"
      BY <1>0, <2>2 DEF EscalateToAmbiguous, Row
    <3> QED BY <3>1 DEF Looked, Resolved
  <2>3. CASE AdoptByReference(e)
    <3>1. row'[e].status = book[e].state /\ row'[e].sent /\ book[e].state \in Live
      BY <1>0, <2>3 DEF AdoptByReference, Open, Row
    <3> QED BY <1>0, <3>1 DEF Looked, Resolved, Open
  <2>4. CASE LeaveRow(e)
    <3>1. UNCHANGED row /\ row[e].sent /\ (Open(e) \/ book[e] = NoOrder)
      BY <2>4 DEF LeaveRow
    <3>2. CASE Open(e)
      BY <1>0, <3>1, <3>2, OpenRowIsLive DEF Looked, Resolved, Open
    <3>3. CASE book[e] = NoOrder
      BY <1>0, <3>1, <3>3 DEF Looked, Resolved, Orphaned
    <3> QED BY <3>1, <3>2, <3>3
  <2> QED BY <2>1, <2>2, <2>3, <2>4
<1> QED BY <1>0, <1>1, <1>2, <1>3

\* Only reconcile() gets to where a pass is or was confirmed.
LEMMA PassStep ==
  ASSUME SessionInv, PassInv, [AnyNext]_allVars
  PROVE  PassInv'
<1>1. CASE LoadUnresolved
  <2>1. /\ pc' = "reconciling" /\ UNCHANGED <<row, book>>
        /\ todo' = {e \in Execution :
               row[e].status \notin Unsent \cup {"ABSENT", "AMBIGUOUS", "RECONCILED"}}
    BY <1>1 DEF LoadUnresolved
  <2> QED BY <2>1 DEF PassInv, Looked, Resolved
<1>2. CASE EndReconcile
  <2>1. /\ pc = "reconciling" /\ todo = {} /\ UNCHANGED <<row, book>> /\ pc' # "reconciling"
    BY <1>2 DEF EndReconcile, PassOver
  <2> QED BY <2>1 DEF PassInv, Looked, Resolved, Orphaned, Open
<1>3. ASSUME NEW e \in Execution,
             \/ ConfirmUnsubmitted(e) \/ AdoptByReference(e) \/ EscalateToAmbiguous(e)
             \/ LeaveRow(e) \/ ConfirmTerminal(e) \/ AdoptBrokerState(e)
      PROVE  PassInv'
  <2>1. \A d \in Execution : d \notin todo' => Looked(d)'
    <3> SUFFICES ASSUME NEW d \in Execution, d \notin todo'
                 PROVE  Looked(d)'
      OBVIOUS
    <3>1. CASE d = e
      BY <1>3, <3>1, PassRows DEF Looked, Resolved, Orphaned, Open
    <3>2. CASE d # e
      BY <1>3, <3>2, PassRows DEF PassInv, Looked, Resolved, Orphaned, Open
    <3> QED BY <3>1, <3>2
  <2> QED BY <1>3, <2>1, PassRows DEF PassInv
<1>4. CASE ReconcileRaises
  BY <1>4 DEF ReconcileRaises, PassOver, PassInv
<1>5. CASE Calls \/ SweepMove \/ DayMove
  <2>1. pc' \notin {"reconciling", "confirmed", "purging"}
    BY <1>5 DEF Calls, ProcessOrder, VerifyApproved, VerifyRejected, VerifyRaises, SubmitIntent,
       SubmitRaises, SubmitAccepted, Poll, LeaveRecord, Save, SkipCycle, CallAgain, StartCycle,
       SweepMove, Sweeps, FinishCycle, BeginSweep, SweepLoad, SweepLoadRaises, SweepNext, EndSweep,
       DayMove, Days, Purge, ArchiveEvents, ArchiveLog, Dawn, Evening, Die
  <2> QED BY <2>1 DEF PassInv
<1>6. CASE StressMove \/ DrillMove \/ VerifyMove
  <2>1. pc' \notin {"reconciling", "confirmed", "purging"}
    BY <1>6 DEF StressMove, DrillMove, VerifyMove, Stress, StressBegins, RestartBeforeCall, Reload,
       ReloadRaises, StressCycleOver, Interim, StressEnds, InterimOver, Drill, Verified, DrillDawn,
       DrillEvening, TryAgain, Conclude, Pass, Resume
  <2> QED BY <2>1 DEF PassInv
<1>7. CASE UNCHANGED allVars
  BY <1>7 DEF allVars, vars, session, PassInv, Looked, Resolved, Orphaned, Open
<1> QED BY <1>1, <1>2, <1>3, <1>4, <1>5, <1>6, <1>7, Moves DEF CallMove, Reconcile

LEMMA PassInit == HarnessInit => PassInv
BY DEF HarnessInit, Init, PassInv

LEMMA PassSound == ProgramSpec => []PassInv
<1>1. SessionInv /\ PassInv /\ [AnyNext]_allVars => PassInv'
  BY PassStep
<1> QED BY <1>1, PassInit, SessionSound, PTL DEF ProgramSpec

\* What a pass has confirmed and the broker no longer has open is in its row.
LEMMA LookedIsKept ==
  ASSUME SessionInv, NEW e \in Execution, Looked(e), book[e] # NoOrder, ~Open(e)
  PROVE  row[e].status = "RECONCILED" /\ row[e].executed = book[e].executed
<1>1. RowAgrees(e)
  BY DEF SessionInv, RecordInv
<1>2. /\ row[e].sent => Behind(row[e], book[e])
      /\ ~row[e].sent => row[e].status = "SUBMITTED"
      /\ RowShape(row[e])
  BY <1>1 DEF RowAgrees, Agrees
<1>3. row[e].status = "RECONCILED"
  BY <1>2 DEF Looked, Resolved, Orphaned, RowShape, Unsent, NoRow
<1> QED BY <1>2, <1>3 DEF Behind

\* Which step may change what the broker has of a record.
LEMMA BookFrame ==
  ASSUME SessionInv, [AnyNext]_allVars, NEW e \in Execution, book'[e] # book[e]
  PROVE  \/ book'[e] = NoOrder /\ (Purge \/ InterimOver \/ Die)
         \/ /\ \E scenario \in Scenario : SubmitAccepted(scenario)
            /\ e = held /\ e \notin placed /\ book'[e].state = "PENDING" /\ book'[e].executed = 0
         \/ /\ Poll /\ e = held /\ OrderSound(book[e]) /\ book'[e] = Polled(book[e])
<1>0. /\ book \in [Execution -> PaperOrder \cup {NoOrder}] /\ (\A o \in PaperOrder : o # NoOrder)
      /\ (Busy => held \in Execution)
  BY TypeParts, HoldsRecord DEF SessionInv, DataType, PaperOrder, NoOrder
<1>1. CASE Purge \/ InterimOver \/ Die
  BY <1>1 DEF Purge, InterimOver, PurgeTerminalOrders, Die
<1>2. ASSUME NEW scenario \in Scenario, SubmitAccepted(scenario)
      PROVE  /\ e = held /\ e \notin placed /\ book'[e].state = "PENDING"
             /\ book'[e].executed = 0
  <2>1. held \in Execution /\ held \notin placed
    BY <1>2, HeldFacts DEF SubmitAccepted, Busy, InCall, MemAgrees
  <2>2. e = held
    BY <1>0, <1>2, <2>1 DEF SubmitAccepted
  <2> QED BY <1>0, <1>2, <2>1, <2>2 DEF SubmitAccepted
<1>3. CASE Poll
  <2>1. book[held] # NoOrder /\ book' = [book EXCEPT ![held] = Polled(book[held])]
    BY <1>3 DEF Poll, GetOrderStatus
  <2>2. e = held /\ book'[e] = Polled(book[e])
    BY <1>0, <1>3, <2>1 DEF Poll, Calling, Busy, InCall
  <2>3. OrderSound(book[e])
    BY <2>1, <2>2 DEF SessionInv, RecordInv, RowAgrees, Agrees
  <2> QED BY <1>3, <2>2, <2>3
<1>4. ASSUME ~Purge, ~InterimOver, ~Die, ~Poll,
             ~(\E scenario \in Scenario : SubmitAccepted(scenario))
      PROVE  UNCHANGED book
  <2>1. CASE CallMove
    BY <1>4, <2>1 DEF CallMove, Calls, ProcessOrder, VerifyApproved, VerifyRejected, VerifyRaises,
       SubmitIntent, SubmitRaises, LeaveRecord, SkipCycle, CallAgain, StartCycle, Reconcile,
       LoadUnresolved, EndReconcile, ReconcileRaises, ConfirmUnsubmitted, AdoptByReference,
       EscalateToAmbiguous, LeaveRow, ConfirmTerminal, AdoptBrokerState
  <2>2. CASE SweepMove \/ DayMove
    BY <1>4, <2>2 DEF SweepMove, Sweeps, FinishCycle, BeginSweep, SweepLoad, SweepLoadRaises,
       SweepNext, EndSweep, DayMove, Days, ArchiveEvents, ArchiveLog, Dawn, Evening
  <2>3. CASE StressMove \/ DrillMove \/ VerifyMove
    BY <1>4, <2>3 DEF StressMove, DrillMove, VerifyMove, Stress, StressBegins, RestartBeforeCall,
       Reload, ReloadRaises, StressCycleOver, Interim, StressEnds, Drill, Verified, DrillDawn,
       DrillEvening, TryAgain, Conclude, Pass, Resume
  <2> QED BY <2>1, <2>2, <2>3, Moves DEF allVars, vars
<1> QED BY <1>1, <1>2, <1>3, <1>4

LEMMA PurgeStep ==
  ASSUME SessionInv, PassInv, [AnyNext]_allVars, NEW e \in Execution,
         book[e] # NoOrder, book'[e] = NoOrder, bygone' = bygone
  PROVE  row[e].status = "RECONCILED" /\ row[e].executed = book[e].executed
<1>1. CASE Purge \/ InterimOver
  BY <1>1, LookedIsKept DEF Purge, InterimOver, PurgeTerminalOrders, PassInv
<1>2. CASE Die
  <2>1. RowAgrees(e)
    BY DEF SessionInv, RecordInv
  <2>2. e \in bygone' /\ e \notin bygone
    BY <1>2, <2>1 DEF Die, RowAgrees, Agrees, NoRow
  <2> QED BY <2>2
<1>3. ASSUME OrderSound(book[e])
      PROVE  Polled(book[e]) # NoOrder
  <2>1. Polled(book[e]) \in PaperOrder
    BY <1>3, PolledSound DEF OrderSound
  <2> QED BY <2>1 DEF NoOrder, PaperOrder
<1> QED BY <1>1, <1>2, <1>3, BookFrame DEF NoOrder

\* Reconcile first, purge after: the broker forgets only orders whose row says
\* RECONCILED and holds what was executed, in a session and in the stress run.
THEOREM PurgesAreReconciled == ProgramSpec => PurgeOnlyReconciled
<1>1. SessionInv /\ PassInv /\ [AnyNext]_allVars =>
        [\A e \in Execution :
           book[e] # NoOrder /\ book'[e] = NoOrder /\ bygone' = bygone
             => row[e].status = "RECONCILED" /\ row[e].executed = book[e].executed]_vars
  BY PurgeStep
<1> QED BY <1>1, SessionSound, PassSound, PTL DEF ProgramSpec, PurgeOnlyReconciled

-----------------------------------------------------------------------------
(* Which step may change which row.                                        *)

\* process_order saves the record it was given, and never a settled one.
LEMMA RowFrame ==
  ASSUME SessionInv, [AnyNext]_allVars, NEW e \in Execution, row'[e] # row[e]
  PROVE  \/ StartCycle(e)
         \/ /\ ProcessOrder /\ pc \in {"call", "placing"} /\ e = held /\ row'[e] = mem'
            /\ mem = row[e] /\ row[e].status \in Unsent \cup {"SUBMITTED"} \cup Live
         \/ ConfirmUnsubmitted(e) \/ AdoptByReference(e) \/ EscalateToAmbiguous(e)
         \/ ConfirmTerminal(e) \/ AdoptBrokerState(e)
<1>0. row \in [Execution -> Row] /\ (Busy => held \in Execution)
  BY TypeParts, HoldsRecord DEF SessionInv, DataType
<1>1. CASE ProcessOrder
  <2>1. ASSUME NEW rec, Save(rec), pc \in {"call", "placing"}
        PROVE  e = held /\ row'[e] = mem'
    BY <1>0, <2>1 DEF Save, Busy, InCall
  <2>2. pc \in {"call", "placing"} /\ e = held /\ row'[e] = mem'
    BY <1>0, <1>1, <2>1
       DEF ProcessOrder, VerifyApproved, VerifyRejected, VerifyRaises, SubmitIntent, SubmitRaises,
           SubmitAccepted, Poll, LeaveRecord, Calling, Busy, InCall
  <2>3. MemAgrees /\ mem = row[e]
    BY <2>2, HeldFacts DEF Busy, InCall, MemAgrees, Unsynced
  <2>4. mem.status \in Unsent \cup {"SUBMITTED"} \cup Live
    <3>1. CASE pc = "placing"
      BY <2>3, <3>1 DEF MemAgrees
    <3>2. CASE pc = "call"
      BY <1>1, <2>2, <3>2, <1>0
         DEF ProcessOrder, VerifyApproved, VerifyRejected, VerifyRaises, SubmitIntent, SubmitRaises,
             SubmitAccepted, Poll, LeaveRecord, Calling, Unsent
    <3> QED BY <2>2, <3>1, <3>2
  <2> QED BY <1>1, <2>2, <2>3, <2>4
<1>2. ASSUME NEW d \in Execution, StartCycle(d)
      PROVE  d = e
  BY <1>0, <1>2 DEF StartCycle
<1>3. CASE SkipCycle \/ CallAgain \/ SweepMove \/ DayMove
  BY <1>3 DEF SkipCycle, CallAgain, SweepMove, Sweeps, FinishCycle, BeginSweep, SweepLoad,
     SweepLoadRaises, SweepNext, EndSweep, DayMove, Days, Purge, ArchiveEvents, ArchiveLog, Dawn,
     Evening, Die
<1>4. CASE StressMove \/ DrillMove \/ VerifyMove
  BY <1>4 DEF StressMove, DrillMove, VerifyMove, Stress, StressBegins, RestartBeforeCall,
     Reload, ReloadRaises, StressCycleOver, Interim, InterimOver, StressEnds, Drill, Verified,
     DrillDawn, DrillEvening, TryAgain, Conclude, Pass, Resume
<1>5. CASE Reconcile
  <2>1. PICK d \in Execution : \/ ConfirmUnsubmitted(d) \/ AdoptByReference(d)
                               \/ EscalateToAmbiguous(d) \/ LeaveRow(d)
                               \/ ConfirmTerminal(d) \/ AdoptBrokerState(d)
    BY <1>5 DEF Reconcile, LoadUnresolved, EndReconcile, ReconcileRaises
  <2>2. d = e
    BY <2>1, PassRows
  <2> QED BY <2>1, <2>2 DEF LeaveRow
<1>6. CASE UNCHANGED allVars
  BY <1>6 DEF allVars, vars
<1> QED BY <1>1, <1>2, <1>3, <1>4, <1>5, <1>6, Moves DEF CallMove, Calls

-----------------------------------------------------------------------------
(* A recovery that is reported took place.                                 *)

\* While the broker lives on, no order is lost under a row that has its id.
LEMMA NoOrphans ==
  ASSUME SessionInv, PassInv, [AnyNext]_allVars, program # "session", NEW e \in Execution,
         ~Orphaned(e)
  PROVE  ~Orphaned(e)'
<1>0. /\ row \in [Execution -> Row] /\ (Busy => held \in Execution /\ mem \in Row)
      /\ book \in [Execution -> PaperOrder \cup {NoOrder}] /\ bygone' = bygone
  <2>1. bygone' = bygone
    BY Moves
       DEF Calls, ProcessOrder, VerifyApproved, VerifyRejected, VerifyRaises, SubmitIntent,
           SubmitRaises, SubmitAccepted, Poll, LeaveRecord, Save, SkipCycle, CallAgain, StartCycle,
           Reconcile, LoadUnresolved, EndReconcile, ReconcileRaises, ConfirmUnsubmitted,
           AdoptByReference, EscalateToAmbiguous, LeaveRow, ConfirmTerminal, AdoptBrokerState,
           Checked, CallMove, SweepMove, Sweeps, FinishCycle, BeginSweep, SweepLoad,
           SweepLoadRaises, SweepNext, EndSweep, DayMove, StressMove, DrillMove, VerifyMove, Stress,
           StressBegins, RestartBeforeCall, Reload, ReloadRaises, StressCycleOver, Interim,
           InterimOver, StressEnds, Drill, Verified, DrillDawn, DrillEvening, TryAgain, Conclude,
           Pass, Resume, Resting, history, allVars, vars
  <2> QED BY <2>1, TypeParts, HeldFacts DEF SessionInv, DataType
<1>1. CASE row'[e] = row[e]
  <2> SUFFICES ASSUME Orphaned(e)' PROVE FALSE
    OBVIOUS
  <2>1. row[e].sent /\ row[e].status # "RECONCILED" /\ book'[e] = NoOrder
    BY <1>1 DEF Orphaned
  <2>2. book[e] # NoOrder
    BY <2>1 DEF Orphaned
  <2> QED BY <1>0, <2>1, <2>2, PurgeStep
<1>2. CASE row'[e] # row[e]
  <2>1. CASE StartCycle(e)
    <3>1. row'[e] = [NoRow EXCEPT !.status = "PROPOSAL"]
      BY <1>0, <2>1 DEF StartCycle
    <3> QED BY <3>1 DEF Orphaned, NoRow
  <2>2. CASE ConfirmUnsubmitted(e) \/ ConfirmTerminal(e) \/ AdoptBrokerState(e)
    <3>1. row'[e].status = "RECONCILED"
      BY <1>0, <2>2 DEF ConfirmUnsubmitted, ConfirmTerminal, AdoptBrokerState, Row
    <3> QED BY <3>1 DEF Orphaned
  <2>3. CASE EscalateToAmbiguous(e)
    <3>1. ~row'[e].sent
      BY <1>0, <2>3 DEF EscalateToAmbiguous, Row
    <3> QED BY <3>1 DEF Orphaned
  <2>4. CASE AdoptByReference(e)
    <3>1. book'[e] # NoOrder
      BY <2>4 DEF AdoptByReference, Open, NoOrder, Live
    <3> QED BY <3>1 DEF Orphaned
  <2>5. CASE /\ ProcessOrder /\ pc \in {"call", "placing"} /\ e = held /\ row'[e] = mem'
             /\ mem = row[e]
    <3>1. CASE \E scenario \in Scenario : SubmitAccepted(scenario)
      <4>1. book'[held].state = "PENDING"
        BY <1>0, <2>5, <3>1 DEF SubmitAccepted, Busy, InCall
      <4> QED BY <2>5, <4>1 DEF Orphaned, NoOrder
    <3>2. CASE Poll
      <4>1. book[held] # NoOrder /\ book' = [book EXCEPT ![held] = Polled(book[held])]
        BY <1>2, <2>5, <3>2 DEF Poll, GetOrderStatus
      <4>2. OrderSound(book[held])
        BY <2>5, <4>1 DEF SessionInv, RecordInv, RowAgrees, Agrees
      <4>3. Polled(book[held]) \in PaperOrder
        BY <4>2, PolledSound DEF OrderSound
      <4>4. book'[e] \in PaperOrder
        BY <1>0, <2>5, <4>1, <4>3
      <4> QED BY <4>4 DEF Orphaned, NoOrder, PaperOrder
    <3>3. CASE VerifyApproved \/ VerifyRejected \/ SubmitIntent
      <4>1. mem.status \in Unsent
        BY <3>3 DEF VerifyApproved, VerifyRejected, SubmitIntent, Calling, Unsent
      <4>2. ~mem.sent
        BY <2>5, <4>1 DEF SessionInv, RecordInv, RowAgrees, Agrees, RowShape
      <4>3. mem'.sent = mem.sent
        BY <1>0, <2>5, <3>3 DEF VerifyApproved, VerifyRejected, SubmitIntent, Save, Row, Busy, InCall
      <4> QED BY <2>5, <4>2, <4>3 DEF Orphaned
    <3>4. CASE VerifyRaises \/ SubmitRaises \/ LeaveRecord
      BY <1>2, <3>4 DEF VerifyRaises, SubmitRaises, LeaveRecord
    <3> QED BY <2>5, <3>1, <3>2, <3>3, <3>4 DEF ProcessOrder
  <2> QED BY <1>2, <2>1, <2>2, <2>3, <2>4, <2>5, RowFrame
<1> QED BY <1>1, <1>2

LEMMA FaultsGrow ==
  ASSUME [AnyNext]_allVars
  PROVE  faults' = faults \/ faults' = faults + 1
BY Moves
   DEF Calls, ProcessOrder, VerifyApproved, VerifyRejected, VerifyRaises, SubmitIntent,
       SubmitRaises, SubmitAccepted, Poll, LeaveRecord, Save, SkipCycle, CallAgain, StartCycle,
       Reconcile, LoadUnresolved, EndReconcile, ReconcileRaises, ConfirmUnsubmitted,
       AdoptByReference, EscalateToAmbiguous, LeaveRow, ConfirmTerminal, AdoptBrokerState,
       Checked, CallMove, SweepMove, Sweeps, FinishCycle, BeginSweep, SweepLoad,
       SweepLoadRaises, SweepNext, EndSweep, DayMove, Days, Purge, ArchiveEvents, ArchiveLog, Dawn,
       Evening, Die, StressMove, DrillMove, VerifyMove, Stress, StressBegins, RestartBeforeCall,
       Reload, ReloadRaises, StressCycleOver, Interim, InterimOver, StressEnds, Drill, Verified,
       DrillDawn, DrillEvening, TryAgain, Conclude, Pass, Resume, Fault, allVars, vars

\* Where the calls and the passes lead.
LEMMA WhereCalls ==
  ASSUME TypeOK, CallMove
  PROVE  /\ pc # "over" /\ pc' # "over" /\ UNCHANGED <<program, report>>
         /\ Calls =>
              /\ pc' \notin {"listing", "reconciling", "unconfirmed"}
              /\ pc' = "cycles" => slot' > 0
         /\ Reconcile =>
              /\ pc \in {"listing", "reconciling"} /\ UNCHANGED slot
              /\ pc' = "cycles" => purpose = "restart"
              /\ purpose \in {"verify", "final"} \/ purpose' \in {"verify", "final"} =>
                   /\ purpose' = purpose /\ UNCHANGED tries
                   /\ pc' \in {"listing", "reconciling"} => UNCHANGED faults
                   /\ pc' = "unconfirmed" => faults' = faults + 1
<1> USE DEF CallMove
<1>1. CASE Calls
  <2>1. pc # "over" /\ pc' # "over" /\ pc' \notin {"listing", "reconciling", "unconfirmed"}
    BY <1>1 DEF Calls, ProcessOrder, VerifyApproved, VerifyRejected, VerifyRaises, SubmitIntent,
       SubmitRaises, SubmitAccepted, Poll, LeaveRecord, Calling, Save, SkipCycle, CallAgain,
       StartCycle
  <2>2. pc' = "cycles" => slot' > 0
    BY <1>1, SessionAssumption, TypeParts
       DEF Calls, ProcessOrder, VerifyApproved, VerifyRejected, VerifyRaises, SubmitIntent,
       SubmitRaises, SubmitAccepted, Poll, LeaveRecord, Calling, Save, SkipCycle, CallAgain,
       StartCycle, ControlType
  <2>3. ~Reconcile
    BY <1>1, <2>1 DEF Calls, ProcessOrder, VerifyApproved, VerifyRejected, VerifyRaises,
       SubmitIntent, SubmitRaises, SubmitAccepted, Poll, LeaveRecord, Calling, SkipCycle, CallAgain,
       StartCycle, Reconcile, LoadUnresolved, EndReconcile, ReconcileRaises, ConfirmUnsubmitted,
       AdoptByReference, EscalateToAmbiguous, LeaveRow, ConfirmTerminal, AdoptBrokerState,
       Reconciling
  <2> QED BY <2>1, <2>2, <2>3
<1>2. CASE Reconcile /\ ~Calls
  <2>1. pc \in {"listing", "reconciling"} /\ UNCHANGED <<slot, tries>> /\ pc' # "over"
        /\ (pc' = "cycles" => purpose = "restart")
        /\ (purpose \in {"verify", "final"} \/ purpose' \in {"verify", "final"}
              => purpose' = purpose)
    BY <1>2 DEF Calls, Reconcile, LoadUnresolved, EndReconcile, ReconcileRaises, ConfirmUnsubmitted,
       AdoptByReference, EscalateToAmbiguous, LeaveRow, ConfirmTerminal, AdoptBrokerState,
       Checked, Reconciling, PassOver, ForgetPurpose
  <2>2. /\ pc' \in {"listing", "reconciling"} => UNCHANGED faults
        /\ pc' = "unconfirmed" => faults' = faults + 1
    BY <1>2, <2>1 DEF Reconcile, LoadUnresolved, EndReconcile, ReconcileRaises, ConfirmUnsubmitted,
       AdoptByReference, EscalateToAmbiguous, LeaveRow, ConfirmTerminal, AdoptBrokerState,
       Checked, Reconciling, PassOver, Fault
  <2> QED BY <1>2, <2>1, <2>2
<1> QED BY <1>1, <1>2

LEMMA RecoveryStep ==
  ASSUME SessionInv, PassInv, RecoveryInv, [AnyNext]_allVars
  PROVE  RecoveryInv'
<1>0. /\ ControlType /\ HarnessType /\ ControlInv
      /\ faults \in Nat /\ tries \in Nat /\ slot \in Nat /\ MaxTries \in Nat
      /\ faults' \in Nat /\ faults' >= faults
  BY TypeParts, FaultsGrow, SessionAssumption, HarnessAssumption
     DEF SessionInv, ControlType, HarnessType
<1>1. program' = program
  BY Moves DEF CallMove, SweepMove, DayMove, StressMove, DrillMove, VerifyMove, harness, allVars
<1>2. program' # "session" => \A e \in Execution : ~Orphaned(e)'
  BY <1>1, NoOrphans DEF RecoveryInv
<1>3. ASSUME pc = "confirmed", program # "session"
      PROVE  \A e \in Execution : Resolved(e)
  BY <1>3 DEF PassInv, RecoveryInv, Looked
<1> DEFINE Reported ==
             /\ report \in {"recovered", "failed"} => program = "drill"
             /\ report \in {"converged", "diverged"} => pc = "over"
             /\ report = "converged" => \A e \in Execution : Resolved(e)
             /\ report = "recovered" /\ pc = "cycles" /\ slot = 0
                  => \A e \in Execution : Resolved(e)
             /\ report \in {"failed", "diverged"} => faults >= MaxTries
           Tried ==
             purpose \in {"verify", "final"} =>
               /\ pc \in {"listing", "reconciling"} => faults + 1 >= tries
               /\ pc = "unconfirmed" => faults >= tries
<1>4. Reported /\ Tried
  BY DEF RecoveryInv
<1>5. CASE CallMove
  <2>1. Reported'
    <3>1. report' = report /\ pc # "over"
      BY <1>0, <1>5, WhereCalls DEF SessionInv
    <3>2. report \notin {"converged", "diverged"}
      BY <1>4, <3>1
    <3>3. report = "recovered" => ~(pc' = "cycles" /\ slot' = 0)
      BY <1>0, <1>4, <1>5, WhereCalls DEF SessionInv, ControlInv, InPass, CallMove
    <3> QED BY <1>0, <1>1, <1>4, <3>1, <3>2, <3>3
  <2>2. Tried'
    <3>1. CASE Calls
      BY <1>5, <3>1, WhereCalls DEF SessionInv
    <3>2. CASE Reconcile
      BY <1>0, <1>4, <1>5, <3>2, WhereCalls DEF SessionInv
    <3> QED BY <1>5, <3>1, <3>2 DEF CallMove
  <2> QED BY <1>2, <2>1, <2>2 DEF RecoveryInv
<1>6. CASE SweepMove \/ DayMove \/ StressMove
  <2>1. /\ report' = report /\ pc # "over"
    BY <1>0, <1>6 DEF SweepMove, DayMove, StressMove, harness, Stress, StressBegins,
       RestartBeforeCall, Reload, ReloadRaises, StressCycleOver, Interim, InterimOver, StressEnds,
       CycleOver, Judged, Sweeps, FinishCycle, BeginSweep, SweepLoad, SweepLoadRaises, SweepNext,
       EndSweep, ControlInv
  <2>2. report \notin {"converged", "diverged"}
    BY <1>4, <2>1
  <2>3. report = "recovered" => ~(pc' = "cycles" /\ slot' = 0)
    <3>1. ASSUME FinishCycle
          PROVE  slot' > 0
      BY <1>0, <3>1 DEF FinishCycle, CycleOver, ControlInv, Busy, InCall
    <3> QED BY <1>4, <1>6, <1>0, <3>1
         DEF SweepMove, DayMove, StressMove, Sweeps, BeginSweep, SweepLoad, SweepLoadRaises,
             SweepNext, EndSweep
  <2>4. Reported'
    BY <1>0, <1>1, <1>4, <2>1, <2>2, <2>3
  <2>5. Tried'
    <3>1. CASE SweepMove
      BY <3>1 DEF SweepMove, Sweeps, FinishCycle, BeginSweep, SweepLoad, SweepLoadRaises, SweepNext,
         EndSweep
    <3>2. CASE DayMove
      BY <1>0, <3>2 DEF DayMove, Days, Purge, ArchiveEvents, ArchiveLog, Dawn, Evening, Die,
         ControlInv
    <3>3. CASE StressMove
      BY <1>0, <3>3 DEF StressMove, Stress, StressBegins, RestartBeforeCall, Reload,
         ReloadRaises, StressCycleOver, Interim, InterimOver, StressEnds, CycleOver, Judged, Pass,
         Resume, Unpurposed, ControlInv
    <3> QED BY <1>6, <3>1, <3>2, <3>3
  <2> QED BY <1>2, <2>4, <2>5 DEF RecoveryInv
<1>7. CASE Conclude /\ VerifyMove
  <2>1. /\ program # "session" /\ UNCHANGED <<row, book>> /\ pc' = "over"
        /\ purpose' = "scheduled" /\ UNCHANGED faults
        /\ report' = IF pc = "confirmed" THEN "converged" ELSE "diverged"
        /\ pc = "confirmed" \/ (pc = "unconfirmed" /\ tries = MaxTries /\ purpose = "final")
    BY <1>7 DEF Conclude, VerifyMove, Resume, Unpurposed, Judged
  <2>2. report' = "converged" => \A e \in Execution : Resolved(e)'
    BY <1>3, <2>1 DEF Resolved, Open
  <2>3. report' = "diverged" => faults >= MaxTries
    BY <1>0, <1>4, <2>1
  <2> QED BY <1>0, <1>1, <1>2, <2>1, <2>2, <2>3 DEF RecoveryInv
<1>8. CASE TryAgain
  <2>1. /\ pc = "unconfirmed" /\ pc' = "listing" /\ UNCHANGED <<report, faults, purpose>>
        /\ tries' = tries + 1 /\ purpose \in {"verify", "final"}
    BY <1>8 DEF TryAgain, Pass
  <2> QED BY <1>0, <1>1, <1>2, <1>4, <2>1 DEF RecoveryInv
<1>9. CASE DrillMove
  <2>1. CASE Verified
    <3>1. /\ UNCHANGED <<row, book, faults>> /\ purpose' = "scheduled"
          /\ report' = IF pc = "confirmed" THEN "recovered" ELSE "failed"
          /\ pc = "confirmed" \/ (pc = "unconfirmed" /\ tries = MaxTries /\ purpose = "verify")
          /\ program = "drill"
      BY <2>1 DEF Verified, Resume, Unpurposed, Judged
    <3>2. report' = "recovered" => \A e \in Execution : Resolved(e)'
      BY <1>3, <3>1 DEF Resolved, Open
    <3>3. report' = "failed" => faults >= MaxTries
      BY <1>0, <1>4, <3>1
    <3> QED BY <1>0, <1>1, <1>2, <3>1, <3>2, <3>3 DEF RecoveryInv
  <2>2. ASSUME NEW due \in BOOLEAN, DrillDawn(due)
        PROVE  RecoveryInv'
    <3>1. report' = "none" /\ ((pc' = "listing" /\ tries' = 1) \/ pc' = "cycles")
      BY <2>2 DEF DrillDawn
    <3> QED BY <1>0, <1>1, <1>2, <3>1 DEF RecoveryInv
  <2>3. ASSUME NEW due \in BOOLEAN, DrillEvening(due)
        PROVE  RecoveryInv'
    <3>1. report' = report /\ pc = "evening" /\ ((pc' = "listing" /\ tries' = 1) \/ pc' = "dawn")
      BY <2>3 DEF DrillEvening, Pass, Resume
    <3> QED BY <1>0, <1>1, <1>2, <1>4, <3>1 DEF RecoveryInv
  <2> QED BY <1>9, <2>1, <2>2, <2>3 DEF DrillMove, Drill
<1>10. CASE UNCHANGED allVars
  BY <1>0, <1>2, <1>4, <1>10 DEF allVars, vars, session, harness, RecoveryInv, Resolved, Open
<1> QED BY <1>5, <1>6, <1>7, <1>8, <1>9, <1>10, Moves DEF VerifyMove

LEMMA RecoveryInit == HarnessInit => RecoveryInv
<1> SUFFICES ASSUME HarnessInit PROVE RecoveryInv
  OBVIOUS
<1>1. (\A e \in Execution : row[e] = NoRow) /\ report = "none" /\ pc = "dawn"
  BY DEF HarnessInit, Init
<1>2. \A e \in Execution : ~Orphaned(e)
  BY <1>1 DEF Orphaned, NoRow
<1> QED BY <1>1, <1>2 DEF RecoveryInv

\* A recovery a harness reports took place: every record is resolved then; it
\* gives up only after as many failures as it has tries; and in a run whose
\* broker lives on no order is ever orphaned.
THEOREM RecoveriesAreReal == ProgramSpec => []RecoveryIsReal
<1>1. SessionInv /\ PassInv /\ RecoveryInv /\ [AnyNext]_allVars => RecoveryInv'
  BY RecoveryStep
<1>2. RecoveryInv => RecoveryIsReal
  BY DEF RecoveryInv, RecoveryIsReal
<1> QED BY <1>1, <1>2, RecoveryInit, SessionSound, PassSound, PTL DEF ProgramSpec

-----------------------------------------------------------------------------
(* What the session follows up.                                            *)

\* What a call, a cycle or a pass leaves of the session's own bookkeeping.
LEMMA CallsKeep ==
  ASSUME SessionInv, CallMove
  PROVE  /\ UNCHANGED <<bygone, outstanding, program, log>> /\ unsaved \subseteq unsaved'
         /\ \/ UNCHANGED <<held, caller, events>>
            \/ \E e \in Execution :
                 StartCycle(e) /\ held' = e /\ caller' = "cycle" /\ ~Busy
                 /\ events' = [events EXCEPT !.live = @ \cup {e}]
<1>1. ASSUME NEW rec, Save(rec)
      PROVE  UNCHANGED <<bygone, outstanding, log, held, caller, events>> /\ unsaved \subseteq unsaved'
  BY <1>1 DEF Save, audit
<1>2. CASE ProcessOrder
  BY <1>1, <1>2
     DEF CallMove, ProcessOrder, VerifyApproved, VerifyRejected, VerifyRaises, SubmitIntent,
         SubmitRaises, SubmitAccepted, Poll, LeaveRecord, audit, history
<1>3. CASE SkipCycle \/ CallAgain \/ \E e \in Execution : StartCycle(e)
  BY <1>3 DEF CallMove, SkipCycle, CallAgain, StartCycle, audit, history, Busy, InCall, Paused,
     InPass
<1>4. CASE Reconcile
  BY <1>4 DEF CallMove, Reconcile, LoadUnresolved, EndReconcile, ReconcileRaises,
     ConfirmUnsubmitted, AdoptByReference, EscalateToAmbiguous, LeaveRow, ConfirmTerminal,
     AdoptBrokerState, Checked, audit, history
<1> QED BY <1>2, <1>3, <1>4 DEF CallMove, Calls

\* A row that is not settled after the step was not before it, and was there,
\* unless its cycle begins.
LEMMA UnsettledWas ==
  ASSUME SessionInv, [AnyNext]_allVars, NEW e \in Execution,
         row'[e].status \notin Settled \cup {"ABSENT"}, ~StartCycle(e)
  PROVE  row[e].status \notin Settled \cup {"ABSENT"}
<1>0. row[e] \in Row /\ row \in [Execution -> Row] /\ RowAgrees(e)
  BY TypeParts DEF SessionInv, RecordInv, DataType
<1>1. CASE row'[e] = row[e]
  BY <1>1
<1>2. CASE row[e].status \in Unsent \cup {"SUBMITTED"} \cup Live
  BY <1>2 DEF Unsent, Live, Settled, Terminal
<1>3. CASE EscalateToAmbiguous(e)
  BY <1>2, <1>3 DEF EscalateToAmbiguous
<1>4. CASE AdoptByReference(e)
  <2>1. row[e].status = "SUBMITTED"
    BY <1>0, <1>4 DEF AdoptByReference, Open, RowAgrees, Agrees, NoOrder, Live
  <2> QED BY <1>2, <2>1
<1>5. CASE ConfirmUnsubmitted(e) \/ ConfirmTerminal(e) \/ AdoptBrokerState(e)
  <2>1. row'[e].status = "RECONCILED"
    BY <1>0, <1>5 DEF ConfirmUnsubmitted, ConfirmTerminal, AdoptBrokerState, Row
  <2> QED BY <2>1 DEF Settled
<1> QED BY <1>1, <1>2, <1>3, <1>4, <1>5, RowFrame

LEMMA FollowStep ==
  ASSUME SessionInv, FollowInv, [AnyNext]_allVars
  PROVE  FollowInv'
<1>0. /\ ControlInv /\ ControlType /\ (Busy => MemAgrees /\ held \in Execution)
      /\ \A e \in Execution : e # Nobody
  BY TypeParts, HeldFacts DEF SessionInv, Execution, Nobody
<1> SUFFICES ASSUME program' # "stress", NEW e \in Execution, e \notin bygone', Released(e)',
                    row'[e].status \notin Settled \cup {"ABSENT"}
             PROVE  e \in outstanding' \/ e \in unsaved'
  BY DEF FollowInv, Here
<1>1. program' = program
  BY Moves DEF CallMove, SweepMove, DayMove, StressMove, DrillMove, VerifyMove, harness, allVars
<1>2. ASSUME e \notin bygone, Released(e), row[e].status \notin Settled \cup {"ABSENT"}
      PROVE  e \in outstanding \/ e \in unsaved
  BY <1>1, <1>2 DEF FollowInv, Here
<1>3. ASSUME ~Busy
      PROVE  Released(e)
  BY <1>0, <1>3 DEF ControlInv, Released
<1>4. CASE CallMove
  <2>1. ~StartCycle(e)
    BY DEF StartCycle, Released
  <2>2. row[e].status \notin Settled \cup {"ABSENT"}
    BY <2>1, UnsettledWas
  <2>3. Released(e) /\ e \notin bygone
    BY <1>3, <1>4, CallsKeep DEF Released
  <2> QED BY <1>2, <1>4, <2>2, <2>3, CallsKeep
<1>5. CASE SweepMove
  <2>1. UNCHANGED <<row, bygone, unsaved>>
    BY <1>5 DEF SweepMove, Sweeps, FinishCycle, BeginSweep, SweepLoad, SweepLoadRaises, SweepNext,
       EndSweep, history
  <2>2. CASE FinishCycle
    <3>1. /\ Busy /\ caller = "cycle"
          /\ outstanding' = IF mem.status \in Settled THEN outstanding \ {held}
                                                      ELSE outstanding \cup {held}
      BY <2>2 DEF FinishCycle, CycleOver, Busy, InCall
    <3>2. CASE e # held
      BY <1>2, <2>1, <3>1, <3>2 DEF Released
    <3>3. CASE e = held
      <4>1. Unsynced => held \in unsaved
        BY <1>0, <3>1 DEF MemAgrees
      <4>2. ~Unsynced => mem = row[held]
        BY <1>0, <3>1 DEF MemAgrees
      <4> QED BY <2>1, <3>1, <3>3, <4>1, <4>2
    <3> QED BY <3>2, <3>3
  <2>3. CASE SweepNext
    <3>1. /\ Busy /\ caller = "sweep"
          /\ outstanding' = IF pc = "called" /\ mem.status \in Settled
                            THEN outstanding \ {held} ELSE outstanding
      BY <2>3 DEF SweepNext, Busy, InCall
    <3>2. pc = "called" => mem = row[held]
      BY <1>0, <3>1 DEF MemAgrees, Unsynced
    <3> QED BY <1>2, <2>1, <3>1, <3>2 DEF Released
  <2>4. CASE BeginSweep \/ SweepLoad \/ SweepLoadRaises \/ EndSweep
    <3>1. ~Busy /\ UNCHANGED outstanding
      BY <2>4 DEF BeginSweep, SweepLoad, SweepLoadRaises, EndSweep, Busy, InCall, Paused, InPass
    <3> QED BY <1>2, <1>3, <2>1, <3>1
  <2> QED BY <1>5, <2>2, <2>3, <2>4 DEF SweepMove, Sweeps
<1>6. CASE Die
  <2>1. row' = row /\ row[e] = NoRow
    BY <1>6 DEF Die
  <2> QED BY <2>1 DEF NoRow
<1>7. CASE (DayMove /\ ~Die) \/ DrillMove \/ VerifyMove
  <2>1. UNCHANGED <<row, bygone, unsaved, outstanding, held, caller>>
    BY <1>7 DEF DayMove, Days, Purge, ArchiveEvents, ArchiveLog, Dawn, Evening, DrillMove, Drill,
       Verified, DrillDawn, DrillEvening, VerifyMove, TryAgain, Conclude, Pass, Resume, Resting,
       history
  <2> QED BY <1>2, <2>1 DEF Released
<1>8. CASE UNCHANGED allVars
  BY <1>2, <1>8 DEF allVars, vars, session, history, Released
<1> QED BY <1>1, <1>4, <1>5, <1>6, <1>7, <1>8, Moves DEF StressMove

LEMMA FollowInit == HarnessInit => FollowInv
BY DEF HarnessInit, Init, FollowInv, NoRow, Here

\* Between cycles a record the session has not seen settle is one the sweep
\* still looks at, unless a save of it was lost.
THEOREM NothingForgotten == ProgramSpec => []ForgottenOnlyAfterLostSave
<1>1. SessionInv /\ FollowInv /\ [AnyNext]_allVars => FollowInv'
  BY FollowStep
<1>2. SessionInv /\ FollowInv => ForgottenOnlyAfterLostSave
  <2> SUFFICES ASSUME SessionInv, FollowInv, pc \in {"dawn", "sweep", "evening"},
                      NEW e \in Here, row[e].status \notin Settled \cup {"ABSENT"}
               PROVE  e \in outstanding \/ e \in unsaved
    BY DEF ForgottenOnlyAfterLostSave
  <2>1. e \in Execution /\ e # Nobody
    BY DEF Here, Execution, Nobody
  <2>2. held = Nobody
    BY DEF SessionInv, ControlInv, Busy, InCall, Paused, InPass
  <2>3. program # "stress"
    BY <2>1 DEF SessionInv, ControlInv, NoRow
  <2> QED BY <2>1, <2>2, <2>3 DEF FollowInv, Released
<1> QED BY <1>1, <1>2, FollowInit, SessionSound, PTL DEF ProgramSpec

-----------------------------------------------------------------------------
(* The audit trail.                                                        *)

\* What a poll leaves is no less than what was there.
LEMMA BookGrows ==
  ASSUME SessionInv, [AnyNext]_allVars, NEW e \in Execution, book'[e] # NoOrder
  PROVE  \/ book'[e] = book[e]
         \/ e \notin placed /\ book'[e].executed = 0
         \/ book[e] # NoOrder /\ book[e].executed <= book'[e].executed
<1>1. ASSUME OrderSound(book[e])
      PROVE  book[e] # NoOrder
  BY <1>1 DEF OrderSound, PaperOrder, NoOrder
<1> QED BY <1>1, BookFrame, PolledSound DEF OrderSound

\* A save that finds the order over keeps what the broker executed, and so
\* does the pass that confirms it.
LEMMA FinalRows ==
  ASSUME SessionInv, [AnyNext]_allVars, NEW e \in Execution, row'[e] # row[e],
         row'[e].status \in {"FILLED", "RECONCILED"}
  PROVE  \/ book'[e] # NoOrder /\ row'[e].executed = book'[e].executed
         \/ e \notin placed' /\ row'[e].executed = 0
<1>0. /\ row[e] \in Row /\ row \in [Execution -> Row] /\ (Busy => mem \in Row)
      /\ book[e] \in PaperOrder \cup {NoOrder} /\ RowAgrees(e)
  BY TypeParts, HeldFacts DEF SessionInv, RecordInv, DataType
<1>1. CASE StartCycle(e) \/ EscalateToAmbiguous(e) \/ AdoptByReference(e)
  <2>1. row'[e].status \in {"PROPOSAL", "AMBIGUOUS"} \cup Live
    BY <1>0, <1>1 DEF StartCycle, NoRow, EscalateToAmbiguous, AdoptByReference, Open, Row
  <2> QED BY <2>1 DEF Live
<1>2. CASE ConfirmUnsubmitted(e)
  <2>1. e \notin placed /\ row[e].executed = 0 /\ UNCHANGED placed
    BY <1>0, <1>2 DEF ConfirmUnsubmitted, RowAgrees, Agrees, RowShape, Checked, history
  <2>2. row'[e].executed = row[e].executed
    BY <1>0, <1>2 DEF ConfirmUnsubmitted, Row
  <2> QED BY <1>0, <2>1, <2>2
<1>3. CASE ConfirmTerminal(e)
  <2>1. /\ row[e].sent /\ book[e].state = row[e].status /\ UNCHANGED book
        /\ row'[e].executed = row[e].executed
    BY <1>0, <1>3 DEF ConfirmTerminal, Row
  <2>2. book[e] # NoOrder
    BY <1>0, <2>1 DEF NoOrder, Row, Status
  <2>3. row[e].executed = book[e].executed
    BY <1>0, <2>1, <2>2 DEF RowAgrees, Agrees, Behind
  <2> QED BY <2>1, <2>2, <2>3
<1>4. CASE AdoptBrokerState(e)
  BY <1>0, <1>4 DEF AdoptBrokerState, Row
<1>5. CASE /\ ProcessOrder /\ pc \in {"call", "placing"} /\ e = held /\ row'[e] = mem'
           /\ mem = row[e]
  <2>1. mem \in Row
    BY <1>0, <1>5 DEF Busy, InCall
  <2>2. CASE Poll
    <3> DEFINE order == Polled(book[held])
               rec == [mem EXCEPT !.status = order.state, !.executed = order.executed]
    <3>1. book[held] # NoOrder /\ book' = [book EXCEPT ![held] = order]
      BY <1>5, <2>2 DEF Poll, GetOrderStatus
    <3>2. book'[held] = order
      BY <1>5, <3>1, TypeParts DEF SessionInv, DataType
    <3>3. Save(rec)
      BY <1>5, <2>2, <3>1, <3>2 DEF Poll
    <3>4. order \in PaperOrder
      BY <1>0, <1>5, <3>1, PolledSound DEF OrderSound, RowAgrees, Agrees
    <3>5. order # NoOrder
      BY <3>4 DEF NoOrder, PaperOrder
    <3>6. rec.executed = order.executed
      BY <2>1 DEF Row
    <3> QED BY <1>5, <3>2, <3>3, <3>5, <3>6 DEF Save
  <2>3. CASE ~Poll
    <3>1. mem'.status \in {"VERIFIED", "FAILED", "SUBMITTED", "PENDING"}
      BY <1>5, <2>1, <2>3
         DEF ProcessOrder, VerifyApproved, VerifyRejected, VerifyRaises, SubmitIntent, SubmitRaises,
             SubmitAccepted, LeaveRecord, Save, Row
    <3> QED BY <1>5, <3>1
  <2> QED BY <2>2, <2>3
<1> QED BY <1>1, <1>2, <1>3, <1>4, <1>5, RowFrame

LEMMA PlacedGrows ==
  ASSUME [AnyNext]_allVars
  PROVE  placed \subseteq placed'
BY Moves
   DEF Calls, ProcessOrder, VerifyApproved, VerifyRejected, VerifyRaises, SubmitIntent,
       SubmitRaises, SubmitAccepted, Poll, LeaveRecord, SkipCycle, CallAgain, StartCycle,
       Reconcile, LoadUnresolved, EndReconcile, ReconcileRaises, ConfirmUnsubmitted,
       AdoptByReference, EscalateToAmbiguous, LeaveRow, ConfirmTerminal, AdoptBrokerState,
       Checked, CallMove, SweepMove, Sweeps, FinishCycle, BeginSweep, SweepLoad,
       SweepLoadRaises, SweepNext, EndSweep, DayMove, Days, Purge, ArchiveEvents, ArchiveLog, Dawn,
       Evening, Die, StressMove, DrillMove, VerifyMove, Stress, StressBegins, RestartBeforeCall,
       Reload, ReloadRaises, StressCycleOver, Interim, InterimOver, StressEnds, Drill, Verified,
       DrillDawn, DrillEvening, TryAgain, Conclude, Pass, Resume, Resting, history, allVars, vars

\* The figures of an entry stay true while it stands.
LEMMA FiguresStand ==
  ASSUME SessionInv, SessionInv', [AnyNext]_allVars, NEW e \in Execution, Figures(e),
         log'.executed[e] = log.executed[e]
  PROVE  Figures(e)'
<1>0. /\ log.executed[e] \in Nat /\ row[e].executed \in Nat /\ row'[e].executed \in Nat
      /\ book[e] # NoOrder => book[e].executed \in Nat
      /\ book'[e] # NoOrder => book'[e].executed \in Nat
  <2>1. DataType /\ DataType'
    BY TypeParts, PTL DEF SessionInv
  <2>2. /\ log \in Log /\ row[e] \in Row /\ row'[e] \in Row
        /\ book[e] \in PaperOrder \cup {NoOrder} /\ book'[e] \in PaperOrder \cup {NoOrder}
    BY <2>1 DEF DataType
  <2>3. 0..Proposed \subseteq Nat
    BY SessionAssumption
  <2> QED BY <2>2, <2>3 DEF Log, Row, PaperOrder
<1>1. e \notin placed' => log'.executed[e] = 0
  BY PlacedGrows DEF Figures
<1>2. book'[e] # NoOrder => log'.executed[e] <= book'[e].executed
  BY <1>0, BookGrows DEF Figures
<1>3. row'[e].status \in {"FILLED", "RECONCILED"} => log'.executed[e] <= row'[e].executed
  <2>1. CASE row'[e] = row[e]
    BY <2>1 DEF Figures
  <2>2. CASE row'[e] # row[e]
    BY <1>0, <1>1, <1>2, <2>2, FinalRows
  <2> QED BY <2>1, <2>2
<1> QED BY <1>1, <1>2, <1>3 DEF Figures

\* A row that is there stays there.
LEMMA RowsStay ==
  ASSUME SessionInv, [AnyNext]_allVars, NEW e \in Execution, row[e] # NoRow
  PROVE  row'[e] # NoRow
<1>0. row[e] \in Row /\ row \in [Execution -> Row] /\ (Busy => mem \in Row)
  BY TypeParts, HeldFacts DEF SessionInv, DataType
<1>1. CASE row'[e] = row[e]
  BY <1>1
<1>2. CASE \/ ConfirmUnsubmitted(e) \/ AdoptByReference(e) \/ EscalateToAmbiguous(e)
           \/ ConfirmTerminal(e) \/ AdoptBrokerState(e)
  <2>1. row'[e].status \in {"RECONCILED", "AMBIGUOUS"} \cup Live
    BY <1>0, <1>2 DEF ConfirmUnsubmitted, AdoptByReference, EscalateToAmbiguous, ConfirmTerminal,
       AdoptBrokerState, Open, Row
  <2> QED BY <2>1 DEF NoRow, Live
<1>3. CASE ProcessOrder /\ pc \in {"call", "placing"} /\ e = held /\ row'[e] = mem' /\ mem = row[e]
  <2>1. CASE Poll
    <3>1. row[e].sent
      BY <1>3, <2>1 DEF Poll, Calling, SessionInv, RecordInv, RowAgrees, Agrees, RowShape
    <3>2. mem'.sent = mem.sent
      BY <1>0, <1>3, <2>1 DEF Poll, Save, Row, Busy, InCall
    <3>3. row'[e].sent /\ ~NoRow.sent
      BY <1>3, <3>1, <3>2 DEF NoRow
    <3> QED BY <3>3
  <2>2. CASE VerifyRaises \/ SubmitRaises \/ LeaveRecord
    BY <1>3, <2>2 DEF VerifyRaises, SubmitRaises, LeaveRecord
  <2>3. CASE VerifyApproved \/ VerifyRejected \/ SubmitIntent
             \/ \E scenario \in Scenario : SubmitAccepted(scenario)
    <3>1. mem'.status \in {"VERIFIED", "FAILED", "SUBMITTED", "PENDING"}
      BY <1>0, <1>3, <2>3 DEF VerifyApproved, VerifyRejected, SubmitIntent, SubmitAccepted, Save,
         Row, Busy, InCall
    <3> QED BY <1>3, <3>1 DEF NoRow
  <2> QED BY <1>3, <2>1, <2>2, <2>3 DEF ProcessOrder
<1> QED BY <1>1, <1>2, <1>3, RowFrame DEF StartCycle

\* The steps that write no entry: the trail stands, and so does what a cycle
\* that is under way relies on.
LEMMA AuditCalls ==
  ASSUME SessionInv, SessionInv', AuditInv, CallMove, [AnyNext]_allVars, program # "stress"
  PROVE  AuditInv'
<1>0. /\ log \in Log /\ events \in Events /\ UNCHANGED <<log, bygone, program>>
      /\ \A e \in Execution : e # Nobody
  BY TypeParts, CallsKeep DEF SessionInv, DataType, Execution, Nobody
<1>1. \A e \in Execution : Trail(e) /\ Figures(e)
  BY DEF AuditInv
<1>2. \A e \in Execution : Figures(e)'
  BY <1>0, <1>1, FiguresStand
<1>3. \A e \in Execution : Entries(e)' = Entries(e)
  BY <1>0 DEF Entries
<1>4. events.live \subseteq events'.live /\ events'.archived = events.archived
  BY <1>0, CallsKeep DEF Events
<1>5. ASSUME NEW e \in Execution
      PROVE  Trail(e)'
  <2>1. row'[e] = NoRow => row[e] = NoRow
    BY RowsStay
  <2>2. e \in Here' /\ row'[e] # NoRow /\ Released(e)' => Entries(e) > 0
    <3> SUFFICES ASSUME e \in Here, row'[e] # NoRow, Released(e)'
                 PROVE  Entries(e) > 0
      BY <1>0 DEF Here
    <3>1. ~StartCycle(e)
      BY DEF StartCycle, Released
    <3>2. Released(e)
      BY <1>0, CallsKeep DEF Released, SessionInv, ControlInv
    <3>3. row[e] # NoRow
      <4>1. CASE row'[e] = row[e]
        BY <4>1
      <4>2. CASE row'[e] # row[e]
        <5> SUFFICES ASSUME row[e] = NoRow PROVE FALSE
          OBVIOUS
        <5>1. row[e].status = "ABSENT" /\ ~row[e].sent
          BY DEF NoRow
        <5>2. book[e] = NoOrder
          BY <5>1 DEF SessionInv, RecordInv, RowAgrees, Agrees
        <5>3. ~Open(e)
          BY <5>2 DEF Open, NoOrder, Live
        <5> QED BY <3>1, <4>2, <5>1, <5>3, RowFrame
                DEF Unsent, Live, ConfirmUnsubmitted, AdoptByReference, EscalateToAmbiguous,
                    ConfirmTerminal, AdoptBrokerState
      <4> QED BY <4>1, <4>2
    <3> QED BY <1>1, <3>2, <3>3 DEF Trail
  <2> QED BY <1>0, <1>1, <1>3, <1>4, <2>1, <2>2 DEF Trail
<1>6. pc' # "trimming"
  BY DEF CallMove, Calls, ProcessOrder, VerifyApproved, VerifyRejected, VerifyRaises, SubmitIntent,
     SubmitRaises, SubmitAccepted, Poll, LeaveRecord, Save, Calling, SkipCycle, CallAgain,
     StartCycle, Reconcile, LoadUnresolved, EndReconcile, ReconcileRaises, ConfirmUnsubmitted,
     AdoptByReference, EscalateToAmbiguous, LeaveRow, ConfirmTerminal, AdoptBrokerState,
     Checked, Reconciling, PassOver
<1>7. ASSUME InCall', caller' = "cycle"
      PROVE  Entries(held)' = 0 /\ held' \in events'.live \cup events'.archived
  <2>1. CASE \E e \in Execution : StartCycle(e)
    <3>1. PICK e \in Execution : StartCycle(e) /\ held' = e
                 /\ events' = [events EXCEPT !.live = @ \cup {e}]
      BY <2>1 DEF StartCycle
    <3>2. e \in events'.live
      BY <1>0, <3>1 DEF Events
    <3>3. Entries(e) = 0
      BY <1>1, <3>1 DEF StartCycle, Trail
    <3>4. Entries(held)' = Entries(e)
      BY <1>0, <3>1 DEF Entries
    <3> QED BY <3>1, <3>2, <3>3, <3>4
  <2>2. CASE ~(\E e \in Execution : StartCycle(e))
    <3>0. UNCHANGED <<held, caller, events>>
      BY <2>2, CallsKeep
    <3>1. InCall
      BY <1>7, <2>2 DEF CallMove, Calls, ProcessOrder, VerifyApproved, VerifyRejected, VerifyRaises,
         SubmitIntent, SubmitRaises, SubmitAccepted, Poll, LeaveRecord, Calling, SkipCycle,
         CallAgain, StartCycle, Reconcile, LoadUnresolved, EndReconcile, ReconcileRaises,
         ConfirmUnsubmitted, AdoptByReference, EscalateToAmbiguous, LeaveRow, ConfirmTerminal,
         AdoptBrokerState, Checked, Reconciling, PassOver, InCall
    <3>2. Entries(held) = 0 /\ held \in events.live \cup events.archived
      BY <1>7, <3>0, <3>1 DEF AuditInv
    <3> QED BY <1>0, <3>0, <3>2 DEF Entries
  <2> QED BY <2>1, <2>2
<1> QED BY <1>2, <1>5, <1>6, <1>7 DEF AuditInv

\* FinishCycle writes the entry of its record: the first, and of what the
\* record in memory says was executed.
LEMMA AuditFinish ==
  ASSUME SessionInv, SessionInv', AuditInv, FinishCycle, [AnyNext]_allVars, program # "stress"
  PROVE  AuditInv'
<1>0. /\ log \in Log /\ InCall /\ Busy /\ caller = "cycle"
      /\ log' = [log EXCEPT !.live = @ \cup {held}, !.executed[held] = mem.executed]
      /\ pc' = "cycles" /\ UNCHANGED <<row, book, events, placed, bygone>>
      /\ held' = Nobody /\ caller' = "cycle"
  BY TypeParts
     DEF SessionInv, DataType, FinishCycle, CycleOver, LetGo, Busy, InCall, history
<1>1. /\ held \in Execution /\ MemAgrees /\ RowAgrees(held) /\ row[held] \in Row /\ mem \in Row
      /\ \A e \in Execution : Trail(e) /\ Figures(e)
      /\ Entries(held) = 0 /\ held \in events.live \cup events.archived
  BY <1>0, HeldFacts DEF AuditInv
<1>2. /\ \A e \in Execution : log'.archived[e] = log.archived[e]
      /\ \A e \in Execution \ {held} : log'.executed[e] = log.executed[e]
      /\ log'.executed[held] = mem.executed /\ log'.live = log.live \cup {held}
  BY <1>0, <1>1 DEF Log
<1>3. \A e \in Execution : log.archived[e] \in Nat
  BY <1>0 DEF Log
<1>4. ASSUME NEW e \in Execution, e # held
      PROVE  Trail(e)' /\ Figures(e)'
  <2>1. Entries(e)' = Entries(e)
    BY <1>2, <1>4 DEF Entries
  <2>2. Released(e)
    BY <1>4 DEF Released
  <2>3. Trail(e)'
    BY <1>0, <1>1, <1>2, <1>4, <2>1, <2>2 DEF Trail, Here
  <2> QED BY <1>1, <1>2, <1>4, <2>3, FiguresStand
<1>5. /\ log.archived[held] = 0 /\ held \notin log.live
  BY <1>1, <1>3 DEF Entries
<1>6. PICK e \in Execution : e = held
  BY <1>1
<1>7. Trail(e)'
  <2>1. Entries(e)' = 1
    BY <1>2, <1>5, <1>6 DEF Entries
  <2>2. row'[e] # NoRow
    BY <1>0, <1>1, <1>6 DEF MemAgrees
  <2> QED BY <1>0, <1>1, <1>2, <1>5, <1>6, <2>1, <2>2 DEF Trail
<1>8. Figures(e)'
  <2>0. /\ mem.executed \in Nat /\ row[held].executed \in Nat
        /\ book[held] # NoOrder => book[held].executed \in Nat
    <3>1. 0..Proposed \subseteq Nat
      BY SessionAssumption
    <3>2. book[held] \in PaperOrder \cup {NoOrder}
      BY <1>1, TypeParts DEF SessionInv, DataType
    <3> QED BY <1>1, <3>1, <3>2 DEF Row, PaperOrder
  <2>1. CASE ~Unsynced
    <3>1. mem = row[held]
      BY <1>1, <2>1 DEF MemAgrees
    <3>2. held \notin placed => mem.executed = 0
      BY <1>1, <3>1 DEF RowAgrees, Agrees, RowShape
    <3>3. book[held] # NoOrder => mem.executed <= book[held].executed
      BY <1>1, <2>0, <3>1 DEF RowAgrees, Agrees, RowShape, Behind
    <3> QED BY <1>0, <1>2, <1>6, <2>0, <3>1, <3>2, <3>3 DEF Figures
  <2>2. CASE Unsynced
    <3>1. /\ row[held].status \in Unsent \cup {"SUBMITTED"} \cup Live
          /\ held \notin placed => mem.executed = 0
          /\ book[held] # NoOrder => mem.executed <= book[held].executed
      BY <1>1, <2>2 DEF MemAgrees
    <3> QED BY <1>0, <1>2, <1>6, <3>1 DEF Figures, Unsent, Live
  <2> QED BY <2>1, <2>2
<1>9. \A d \in Execution : Trail(d)' /\ Figures(d)'
  BY <1>4, <1>6, <1>7, <1>8
<1> QED BY <1>0, <1>9 DEF AuditInv, InCall

LEMMA AuditOthers ==
  ASSUME SessionInv, SessionInv', AuditInv, [AnyNext]_allVars, program # "stress",
         (SweepMove /\ ~FinishCycle) \/ DayMove \/ DrillMove \/ VerifyMove \/ UNCHANGED allVars
  PROVE  AuditInv'
<1>0. /\ log \in Log /\ events \in Events /\ (\A e \in Execution : log.archived[e] \in Nat)
      /\ \A e \in Execution : e # Nobody
  <2>1. log \in Log /\ events \in Events
    BY TypeParts DEF SessionInv, DataType
  <2>2. \A e \in Execution : log.archived[e] \in Nat
    BY <2>1 DEF Log
  <2> QED BY <2>1, <2>2 DEF Execution, Nobody
<1>1. \A e \in Execution : Trail(e) /\ Figures(e)
  BY DEF AuditInv
<1>2. ASSUME \A e \in Execution : log'.executed[e] = log.executed[e]
      PROVE  \A e \in Execution : Figures(e)'
  BY <1>1, <1>2, FiguresStand
<1>3. CASE \/ (SweepMove /\ ~FinishCycle) \/ DrillMove \/ VerifyMove \/ UNCHANGED allVars
           \/ (DayMove /\ (Purge \/ \E due \in BOOLEAN : Dawn(due) \/ Evening(due)))
  <2>1. /\ UNCHANGED <<row, bygone, log, events>>
        /\ UNCHANGED <<held, caller>> \/ ~Busy \/ caller = "sweep"
        /\ InCall' /\ caller' = "cycle" => InCall /\ UNCHANGED <<held, caller>>
        /\ pc' = "trimming" => pc = "trimming"
    <3>1. CASE SweepMove /\ ~FinishCycle
      BY <3>1 DEF SweepMove, Sweeps, BeginSweep, SweepLoad, SweepLoadRaises, SweepNext, EndSweep,
         LetGo, history, audit, InCall, InPass, Paused, Busy
    <3>2. CASE DrillMove \/ VerifyMove
      BY <3>2 DEF DrillMove, Drill, Verified, DrillDawn, DrillEvening, VerifyMove, TryAgain,
         Conclude, Pass, Resume, Resting, history, audit, InCall
    <3>3. CASE UNCHANGED allVars
      BY <3>3 DEF allVars, vars, session, history, audit, InCall
    <3>4. CASE Purge \/ \E due \in BOOLEAN : Dawn(due) \/ Evening(due)
      BY <3>4 DEF Purge, Dawn, Evening, history, audit, InCall
    <3> QED BY <1>3, <3>1, <3>2, <3>3, <3>4
  <2>2. ASSUME NEW e \in Execution
        PROVE  Trail(e)'
    <3>1. Released(e)' => Released(e)
      BY <1>0, <2>1 DEF Released, SessionInv, ControlInv
    <3>2. Entries(e)' = Entries(e)
      BY <2>1 DEF Entries
    <3> QED BY <1>1, <2>1, <3>1, <3>2 DEF Trail, Here
  <2>3. InCall' /\ caller' = "cycle" =>
          Entries(held)' = 0 /\ held' \in events'.live \cup events'.archived
    BY <2>1 DEF AuditInv, Entries
  <2> QED BY <1>2, <2>1, <2>2, <2>3 DEF AuditInv
<1>4. CASE ArchiveEvents
  <2>1. /\ UNCHANGED <<row, bygone, log, held, caller>> /\ pc' = "trimming"
        /\ events'.live = {} /\ events'.archived = events.archived \cup events.live
    BY <1>4 DEF ArchiveEvents, history
  <2>2. ASSUME NEW e \in Execution
        PROVE  Trail(e)'
    <3>1. Entries(e)' = Entries(e)
      BY <2>1 DEF Entries
    <3> QED BY <1>1, <2>1, <3>1 DEF Trail, Here, Released
  <2>3. log'.live \subseteq events'.archived
    <3>1. log.live \subseteq Execution
      BY <1>0 DEF Log
    <3> QED BY <1>1, <2>1, <3>1 DEF Trail
  <2> QED BY <1>2, <2>1, <2>2, <2>3 DEF AuditInv, InCall
<1>5. CASE ArchiveLog
  <2> DEFINE lines == [e \in Execution |-> log.archived[e] + IF e \in log.live THEN 1 ELSE 0]
  <2>1. /\ UNCHANGED <<row, bygone, events, held, caller>> /\ pc' = "dawn" /\ pc = "trimming"
        /\ log' = [log EXCEPT !.live = {}, !.archived = lines]
    BY <1>5 DEF ArchiveLog, history
  <2>2. \A e \in Execution : lines[e] = Entries(e)
    BY DEF Entries
  <2> HIDE DEF lines
  <2>3. log'.live = {} /\ log'.archived = lines /\ log'.executed = log.executed
    BY <1>0, <2>1 DEF Log
  <2>4. ASSUME NEW e \in Execution
        PROVE  Trail(e)'
    <3>1. Entries(e) \in Nat
      BY <1>0 DEF Entries
    <3>2. Entries(e)' = Entries(e)
      BY <2>2, <2>3, <3>1 DEF Entries
    <3>3. e \in log.live => e \in events.archived
      BY <2>1 DEF AuditInv
    <3>4. lines[e] > 0 => e \in events.archived
      BY <1>0, <1>1, <2>2, <3>3 DEF Entries, Trail
    <3> QED BY <1>1, <2>1, <2>3, <3>2, <3>4 DEF Trail, Here, Released
  <2> QED BY <1>2, <2>1, <2>3, <2>4 DEF AuditInv, InCall
<1>6. CASE Die
  <2>1. /\ UNCHANGED row /\ pc' = "dawn" /\ bygone' = {e \in Execution : row[e] # NoRow}
        /\ log' = [log EXCEPT !.live = {}] /\ events' = [events EXCEPT !.live = {}]
    BY <1>6 DEF Die
  <2>2. /\ log'.live = {} /\ log'.archived = log.archived /\ log'.executed = log.executed
        /\ events'.archived = events.archived
    BY <1>0, <2>1 DEF Log, Events
  <2>3. ASSUME NEW e \in Execution
        PROVE  Trail(e)'
    <3>1. Entries(e)' = log.archived[e] /\ log.archived[e] <= Entries(e)
      BY <1>0, <2>2 DEF Entries
    <3>2. Entries(e) \in Nat
      BY <1>0 DEF Entries
    <3>3. row[e] = NoRow \/ e \notin Here'
      BY <2>1 DEF Here
    <3> QED BY <1>0, <1>1, <2>1, <2>2, <3>1, <3>2, <3>3 DEF Trail
  <2> QED BY <1>2, <2>1, <2>2, <2>3 DEF AuditInv, InCall
<1> QED BY <1>3, <1>4, <1>5, <1>6 DEF DayMove, Days

LEMMA AuditInit == HarnessInit => AuditInv
<1> SUFFICES ASSUME HarnessInit PROVE AuditInv
  OBVIOUS
<1>1. /\ log.live = {} /\ \A e \in Execution : log.archived[e] = 0 /\ log.executed[e] = 0
      /\ \A e \in Execution : row[e] = NoRow /\ book[e] = NoOrder
      /\ pc = "dawn"
  BY DEF HarnessInit, Init
<1>2. \A e \in Execution : Entries(e) = 0
  BY <1>1 DEF Entries
<1>3. \A e \in Execution : Trail(e) /\ Figures(e)
  BY <1>1, <1>2 DEF Trail, Figures, NoRow
<1> QED BY <1>1, <1>3 DEF AuditInv, InCall

\* Every cycle that ran to its end is in the full log exactly once and has its
\* events, before and after archiving; and no report counts as executed what
\* the database does not have.
THEOREM TrailComplete == ProgramSpec => []AuditTrailComplete
<1>1. SessionInv /\ SessionInv' /\ AuditInv /\ [AnyNext]_allVars => AuditInv'
  <2> SUFFICES ASSUME SessionInv, SessionInv', AuditInv, [AnyNext]_allVars PROVE AuditInv'
    OBVIOUS
  <2>1. program' = program
    BY Moves DEF CallMove, SweepMove, DayMove, StressMove, DrillMove, VerifyMove, harness, allVars
  <2>2. CASE program = "stress"
    BY <2>1, <2>2 DEF AuditInv
  <2>3. CASE program # "stress"
    BY <2>3, Moves, AuditCalls, AuditFinish, AuditOthers DEF StressMove
  <2> QED BY <2>2, <2>3
<1>2. SessionInv /\ AuditInv => AuditTrailComplete
  <2> SUFFICES ASSUME SessionInv, AuditInv, program # "stress", NEW e \in Execution
               PROVE  /\ Entries(e) <= 1
                      /\ e \in FullCycleLog => e \in events.live \cup events.archived
                      /\ (e \in Here /\ row[e] # NoRow /\ e # held) => e \in FullCycleLog
                      /\ e \in ReportedAs("executed") => log.executed[e] <= row[e].executed
    BY DEF AuditTrailComplete
  <2>1. Trail(e) /\ Figures(e)
    BY DEF AuditInv
  <2>2. log.archived[e] \in Nat
    BY TypeParts DEF SessionInv, DataType, Log
  <2>3. Entries(e) > 0 => log.archived[e] > 0 \/ e \in log.live
    BY <2>2 DEF Entries
  <2>4. e \in ReportedAs("executed") => row[e].status \in {"FILLED", "RECONCILED"}
    BY DEF ReportedAs, Category
  <2> QED BY <2>1, <2>2, <2>3, <2>4 DEF Trail, Figures, FullCycleLog, Released
<1> QED BY <1>1, <1>2, AuditInit, SessionSound, PTL DEF ProgramSpec

-----------------------------------------------------------------------------
(* The broker's cash.                                                      *)

\* A step that leaves the cash and what is committed alone.
LEMMA MoneyRest ==
  ASSUME SessionInv, MoneyInv, overlap => overlap', bygone \subseteq bygone', cash' = cash,
         \A e \in Execution : Committed(e)' => Committed(e) /\ Owed(e)' = Owed(e)
  PROVE  MoneyInv'
BY DEF MoneyInv, Here

\* What an order still open costs is not touched by anything but its own polls.
LEMMA MoneyFrame ==
  ASSUME SessionInv, MoneyInv, [AnyNext]_allVars, ~VerifyApproved, ~SubmitIntent, ~Poll, ~Die,
         ~(\E scenario \in Scenario : SubmitAccepted(scenario))
  PROVE  MoneyInv'
<1>0. CASE UNCHANGED allVars
  BY <1>0 DEF allVars, vars, session, history, MoneyInv, Committed, Owed, Open, Here
<1> SUFFICES ASSUME ~UNCHANGED allVars PROVE MoneyInv'
  BY <1>0
<1>1. UNCHANGED <<cash, overlap, bygone>> /\ pc' # "placing"
  BY Moves
     DEF Calls, ProcessOrder, VerifyRejected, VerifyRaises, SubmitRaises, LeaveRecord, Save,
         SkipCycle, CallAgain, StartCycle, Reconcile, LoadUnresolved, EndReconcile,
         ReconcileRaises, PassOver, Reconciling, ConfirmUnsubmitted, AdoptByReference,
         EscalateToAmbiguous, LeaveRow, ConfirmTerminal, AdoptBrokerState, Checked, CallMove,
         SweepMove, Sweeps, FinishCycle, BeginSweep, SweepLoad, SweepLoadRaises, SweepNext,
         EndSweep, DayMove, Days, Purge, ArchiveEvents, ArchiveLog, Dawn, Evening, StressMove,
         DrillMove, VerifyMove, Stress, StressBegins, RestartBeforeCall, Reload, ReloadRaises,
         StressCycleOver, Interim, InterimOver, StressEnds, Drill, Verified, DrillDawn,
         DrillEvening, TryAgain, Conclude, Pass, Resume, Resting, history, allVars, vars, session
<1>2. ASSUME NEW e \in Execution
      PROVE  (Open(e)' <=> Open(e)) /\ (Open(e) => book'[e] = book[e])
  <2>1. CASE book'[e] = book[e]
    BY <2>1 DEF Open
  <2>2. CASE book'[e] # book[e]
    <3>1. Purge \/ InterimOver
      BY <2>2, BookFrame
    <3>2. book' = [d \in Execution |-> IF Open(d) THEN book[d] ELSE NoOrder]
      BY <2>2, <3>1 DEF Purge, InterimOver, PurgeTerminalOrders
    <3> QED BY <2>2, <3>2 DEF Open, NoOrder, Live
  <2> QED BY <2>1, <2>2
<1>3. ASSUME NEW e \in Execution, row'[e].status = "VERIFIED"
      PROVE  row'[e] = row[e]
  <2>0. row[e] \in Row /\ row \in [Execution -> Row] /\ (Busy => mem \in Row)
    BY TypeParts, HeldFacts DEF SessionInv, DataType
  <2> SUFFICES ASSUME row'[e] # row[e] PROVE FALSE
    OBVIOUS
  <2>1. CASE \/ ConfirmUnsubmitted(e) \/ AdoptByReference(e) \/ EscalateToAmbiguous(e)
             \/ ConfirmTerminal(e) \/ AdoptBrokerState(e) \/ StartCycle(e)
    <3>1. row'[e].status \in {"RECONCILED", "AMBIGUOUS", "PROPOSAL"} \cup Live
      BY <2>0, <2>1 DEF ConfirmUnsubmitted, AdoptByReference, EscalateToAmbiguous,
         ConfirmTerminal, AdoptBrokerState, Open, Row, StartCycle, NoRow
    <3> QED BY <1>3, <3>1 DEF Live
  <2>2. CASE ProcessOrder /\ pc \in {"call", "placing"} /\ e = held /\ row'[e] = mem'
    <3>1. CASE VerifyRejected
      <4>1. mem'.status = "FAILED"
        BY <2>0, <2>2, <3>1 DEF VerifyRejected, Save, Row, Busy, InCall
      <4> QED BY <1>3, <2>2, <4>1
    <3>2. CASE VerifyRaises \/ SubmitRaises \/ LeaveRecord
      BY <3>2 DEF VerifyRaises, SubmitRaises, LeaveRecord
    <3> QED BY <2>2, <3>1, <3>2 DEF ProcessOrder
  <2> QED BY <2>1, <2>2, RowFrame
<1>4. \A e \in Execution : Committed(e)' => Committed(e) /\ Owed(e)' = Owed(e)
  BY <1>1, <1>2, <1>3 DEF Committed, Owed, Open
<1> QED BY <1>1, <1>4, MoneyRest

\* What can be charged is what is owed.
LEMMA Splits ==
  ASSUME NEW p \in Nat, NEW q \in Nat, NEW x \in Nat, NEW y \in Nat, x <= y, y <= q
  PROVE  /\ p * (q - x) = p * (y - x) + p * (q - y)
         /\ p * (y - x) \in Nat /\ p * (q - y) \in Nat
OBVIOUS

LEMMA MoneyVerify ==
  ASSUME SessionInv, MoneyInv, VerifyApproved
  PROVE  MoneyInv'
<1> SUFFICES ASSUME ~overlap'
             PROVE  /\ cash' >= 0
                    /\ \A e \in Here' : Committed(e)' =>
                         Owed(e)' <= cash' /\ \A d \in Here' : Committed(d)' => d = e
  BY DEF MoneyInv
<1> DEFINE final == Affordable
           rec == [mem EXCEPT !.status = "VERIFIED", !.final = final]
<1>1. /\ pc = "call" /\ mem.status = "PROPOSAL" /\ final > 0 /\ Save(rec)
      /\ UNCHANGED <<book, cash>>
      /\ ~overlap /\ \A e \in Execution \ {held} : ~Unpaid(e)
  BY DEF VerifyApproved, Calling
<1>2. /\ held \in Execution /\ mem = row[held] /\ RowAgrees(held) /\ mem \in Row
      /\ row \in [Execution -> Row] /\ cash \in Int
  BY <1>1, HeldFacts, TypeParts
     DEF Busy, InCall, MemAgrees, Unsynced, SessionInv, DataType
<1>3. book[held] = NoOrder /\ ~Open(held)
  BY <1>1, <1>2 DEF RowAgrees, Agrees, Open, NoOrder, Live, Unsent
<1>4. final \in Nat /\ final * (Price + Fee) <= cash
  BY <1>1, AffordableFits, SessionAssumption DEF SessionInv
<1>5. final \in 0..Proposed
  BY AffordableFits DEF SessionInv
<1> HIDE DEF final
<1>6. rec.final = final
  BY <1>2 DEF Row
<1> HIDE DEF rec
<1>7. row' = [row EXCEPT ![held] = rec] \/ row' = row
  BY <1>1 DEF Save
<1>8. pc' # "placing" /\ held' = held
  BY <1>1 DEF Save
<1>9. \A e \in Execution : Committed(e)' => e = held /\ row'[e] = rec
  BY <1>1, <1>2, <1>3, <1>7, <1>8 DEF Committed, Unpaid, Open
<1>10. Price * final <= cash /\ cash >= 0
  <2>1. Price \in Nat /\ Fee \in Nat
    BY SessionAssumption
  <2>2. final * (Price + Fee) = Price * final + Fee * final /\ Fee * final \in Nat
        /\ Price * final \in Nat
    BY <1>4, <2>1
  <2> QED BY <1>2, <1>4, <2>2
<1>11. \A e \in Execution : Committed(e)' => Owed(e)' = Price * final
  BY <1>1, <1>3, <1>6, <1>9 DEF Owed, Open
<1> QED BY <1>1, <1>9, <1>10, <1>11 DEF Here

\* The intent and the order keep what was approved committed.
LEMMA MoneyIntent ==
  ASSUME SessionInv, MoneyInv, SubmitIntent
  PROVE  MoneyInv'
<1> DEFINE rec == [mem EXCEPT !.status = "SUBMITTED"]
<1>1. /\ pc = "call" /\ mem.status = "VERIFIED" /\ UNCHANGED <<book, cash, overlap, bygone, held>>
      /\ \/ row' = [row EXCEPT ![held] = rec] /\ pc' = "placing"
         \/ row' = row /\ pc' = "raised"
  BY DEF SubmitIntent, Calling
<1>2. /\ held \in Execution /\ mem = row[held] /\ mem \in Row /\ row \in [Execution -> Row]
  BY <1>1, HeldFacts, TypeParts DEF Busy, InCall, MemAgrees, Unsynced, SessionInv, DataType
<1>3. rec.final = mem.final
  BY <1>2 DEF Row
<1> HIDE DEF rec
<1>4. \A e \in Execution : row'[e] = row[e] \/ (e = held /\ row'[e].final = row[e].final)
  BY <1>1, <1>2, <1>3
<1>5. \A e \in Execution : Committed(e)' => Committed(e)
  BY <1>1, <1>2, <1>4 DEF Committed, Open
<1>6. \A e \in Execution : Owed(e)' = Owed(e)
  BY <1>1, <1>4 DEF Owed, Open
<1> QED BY <1>1, <1>5, <1>6, MoneyRest

LEMMA MoneyAccepted ==
  ASSUME SessionInv, MoneyInv, NEW scenario \in Scenario, SubmitAccepted(scenario)
  PROVE  MoneyInv'
<1> DEFINE size == IF mem.final = 0 THEN Proposed ELSE mem.final
           order == [scenario |-> scenario, state |-> "PENDING", executed |-> 0, polls |-> 0,
                     quantity |-> size]
           rec == [mem EXCEPT !.status = "PENDING", !.sent = TRUE]
<1>1. /\ pc = "placing" /\ book' = [book EXCEPT ![held] = order] /\ Save(rec)
      /\ UNCHANGED <<cash, overlap>>
  BY DEF SubmitAccepted
<1>2. /\ held \in Execution /\ mem = row[held] /\ RowAgrees(held) /\ mem \in Row
      /\ mem.status = "SUBMITTED" /\ row \in [Execution -> Row] /\ held \notin placed
      /\ book \in [Execution -> PaperOrder \cup {NoOrder}]
  BY <1>1, HeldFacts, TypeParts
     DEF Busy, InCall, MemAgrees, Unsynced, SessionInv, DataType
<1>3. mem.final > 0 /\ book[held] = NoOrder /\ ~Open(held)
  BY <1>2 DEF RowAgrees, Agrees, RowShape, Open, NoOrder, Live
<1>4. size = mem.final /\ mem.final \in Nat
  BY <1>2, <1>3, SessionAssumption DEF Row
<1> HIDE DEF size
<1>5. order.state = "PENDING" /\ order.executed = 0 /\ order.quantity = size
  OBVIOUS
<1> HIDE DEF order
<1>6. rec.status = "PENDING"
  BY <1>2 DEF Row
<1> HIDE DEF rec
<1>7. /\ book'[held] = order /\ \A e \in Execution \ {held} : book'[e] = book[e]
      /\ \A e \in Execution : row'[e] = row[e] \/ row'[e] = rec
      /\ \A e \in Execution \ {held} : row'[e] = row[e]
      /\ pc' # "placing" /\ UNCHANGED <<held, bygone>>
  BY <1>1, <1>2 DEF Save
<1>8. ASSUME NEW e \in Execution, Committed(e)'
      PROVE  Committed(e) /\ Owed(e)' = Owed(e)
  <2>1. CASE e = held
    <3>1. Committed(e)
      BY <1>1, <2>1 DEF Committed
    <3>2. Owed(e) = Price * mem.final
      BY <1>2, <1>3, <2>1 DEF Owed
    <3>3. Owed(e)' = Price * (order.quantity - order.executed)
      BY <1>5, <1>7, <2>1 DEF Owed, Open, Live
    <3>4. order.quantity - order.executed = mem.final
      BY <1>4, <1>5
    <3> QED BY <3>1, <3>2, <3>3, <3>4
  <2>2. CASE e # held
    BY <1>7, <1>8, <2>2 DEF Committed, Owed, Open
  <2> QED BY <2>1, <2>2
<1> QED BY <1>1, <1>7, <1>8, MoneyRest

\* A poll charges a part of what is owed.
LEMMA MoneyPoll ==
  ASSUME SessionInv, MoneyInv, Poll
  PROVE  MoneyInv'
<1>1. pc = "call" /\ mem.status \in Live /\ UNCHANGED <<overlap, bygone, held>> /\ pc' # "placing"
  BY DEF Poll, Calling, Save
<1>2. /\ held \in Execution /\ mem = row[held] /\ RowAgrees(held) /\ mem \in Row
      /\ held \notin bygone
      /\ row \in [Execution -> Row] /\ cash \in Int
      /\ book \in [Execution -> PaperOrder \cup {NoOrder}]
  BY <1>1, HeldFacts, TypeParts
     DEF Busy, InCall, MemAgrees, Unsynced, SessionInv, DataType
<1>3. CASE book[held] = NoOrder
  <2>1. UNCHANGED <<row, book, cash>>
    BY <1>3 DEF Poll
  <2>2. \A e \in Execution : Committed(e)' => Committed(e) /\ Owed(e)' = Owed(e)
    BY <1>1, <2>1 DEF Committed, Owed, Open
  <2> QED BY <1>1, <2>1, <2>2, MoneyRest
<1>4. CASE book[held] # NoOrder
  <2> DEFINE old == book[held]
             order == Polled(old)
             rec == [mem EXCEPT !.status = order.state, !.executed = order.executed]
  <2>1. OrderSound(old) /\ row[held].status # "VERIFIED"
    BY <1>1, <1>2, <1>4 DEF RowAgrees, Agrees, Live
  <2>2. /\ OrderSound(order) /\ order.quantity = old.quantity /\ old.executed <= order.executed
        /\ old.state \notin Live => order = old
    BY <2>1, PolledSound DEF OrderSound
  <2>3. /\ book' = [book EXCEPT ![held] = order] /\ book'[held] = order
        /\ cash' = cash - Price * (order.executed - old.executed)
    BY <1>2, <1>4 DEF Poll, GetOrderStatus
  <2>4. /\ old.executed \in Nat /\ order.executed \in Nat /\ old.quantity \in Nat
        /\ order.executed <= old.quantity
        /\ order.state \in {"PENDING", "PARTIALLY_FILLED", "FILLED", "CANCELLED"}
    <3>1. 0..Proposed \subseteq Nat /\ 1..Proposed \subseteq Nat
      BY SessionAssumption
    <3>2. old \in PaperOrder /\ order \in PaperOrder
      BY <2>1, <2>2 DEF OrderSound
    <3> QED BY <2>2, <3>1, <3>2 DEF OrderSound, PaperOrder
  <2> HIDE DEF order
  <2>5. row' = row \/ row' = [row EXCEPT ![held] = rec]
    BY <1>2, <1>4, <2>3 DEF Poll, Save
  <2>6. rec.status = order.state
    BY <1>2 DEF Row
  <2> HIDE DEF rec
  <2>7. \A e \in Execution \ {held} : (Committed(e)' => Committed(e)) /\ Owed(e)' = Owed(e)
    BY <1>1, <1>2, <2>3, <2>5 DEF Committed, Owed, Open
  <2>8. Committed(held)' => Open(held)'
    BY <1>1, <1>2, <2>1, <2>3, <2>4, <2>5, <2>6 DEF Committed
  <2>9. CASE old.state \in Live
    <3>1. Committed(held) /\ Owed(held) = Price * (old.quantity - old.executed) /\ held \in Here
      BY <1>2, <2>9 DEF Committed, Owed, Open, Here
    <3> SUFFICES ASSUME ~overlap PROVE MoneyInv'
      BY <1>1 DEF MoneyInv
    <3>2. /\ Owed(held) <= cash /\ \A d \in Here : Committed(d) => d = held
      BY <3>1 DEF MoneyInv
    <3>3. \A d \in Here' : Committed(d)' => d = held
      BY <1>1, <1>2, <2>7, <3>2 DEF Here
    <3>4. cash' >= 0 /\ Price * (order.quantity - order.executed) <= cash'
      <4>1. /\ Price * (old.quantity - old.executed)
                 = Price * (order.executed - old.executed) + Price * (old.quantity - order.executed)
            /\ Price * (order.executed - old.executed) \in Nat
            /\ Price * (old.quantity - order.executed) \in Nat
        BY <2>2, <2>4, SessionAssumption, Splits
      <4> QED BY <1>2, <2>2, <2>3, <3>1, <3>2, <4>1
    <3>5. Open(held)' => Owed(held)' = Price * (order.quantity - order.executed)
      BY <1>1, <2>3 DEF Owed, Open
    <3> QED BY <1>1, <2>8, <3>3, <3>4, <3>5 DEF MoneyInv
  <2>10. CASE old.state \notin Live
    <3>1. cash' = cash
      BY <1>2, <2>2, <2>3, <2>4, <2>10, SessionAssumption
    <3>2. ~Open(held)'
      BY <1>1, <2>2, <2>3, <2>10 DEF Open
    <3>3. \A e \in Execution : Committed(e)' => Committed(e) /\ Owed(e)' = Owed(e)
      BY <1>1, <2>7, <2>8, <3>2
    <3> QED BY <1>1, <3>1, <3>3, MoneyRest
  <2> QED BY <2>9, <2>10
<1> QED BY <1>3, <1>4

\* The broker of a new process owes nothing and is owed nothing.
LEMMA MoneyDie ==
  ASSUME SessionInv, Die
  PROVE  MoneyInv'
<1>1. /\ \A e \in Execution : book'[e] = NoOrder
      /\ bygone' = {e \in Execution : row[e] # NoRow} /\ row' = row
      /\ cash' = StartingCash /\ pc' = "dawn"
  BY DEF Die
<1>2. \A e \in Here' : ~Committed(e)'
  BY <1>1 DEF Here, Committed, Open, NoOrder, NoRow, Live
<1> QED BY <1>1, <1>2, SessionAssumption DEF MoneyInv

LEMMA MoneyInit == HarnessInit => MoneyInv
BY SessionAssumption DEF HarnessInit, Init, MoneyInv, Committed, Open, NoOrder, NoRow, Live, Here

\* One order in flight never overdraws the cash: an overdraft takes two orders
\* approved on the same money, whatever the price, the fee and the quantities.
THEOREM OverdraftsNeedOverlap == ProgramSpec => []OverdraftNeedsOverlap
<1>1. SessionInv /\ MoneyInv /\ [AnyNext]_allVars => MoneyInv'
  BY MoneyFrame, MoneyVerify, MoneyIntent, MoneyAccepted, MoneyPoll, MoneyDie
<1>2. SessionInv /\ MoneyInv => OverdraftNeedsOverlap
  BY TypeParts DEF MoneyInv, OverdraftNeedsOverlap, SessionInv, DataType
<1> QED BY <1>1, <1>2, MoneyInit, SessionSound, PTL DEF ProgramSpec

-----------------------------------------------------------------------------
(* The books.                                                              *)

\* What the broker was paid for: what it executed, and for an order it forgot
\* or never had, what the row has.  Its cash is what is left after that.
Paid(r, o) == IF o = NoOrder THEN r.executed ELSE o.executed

Payments == [e \in Execution |-> IF e \in bygone THEN 0 ELSE Paid(row[e], book[e])]

BooksInv == cash = StartingCash - Price * SumOver(Payments, Execution)

LEMMA PaidNat ==
  ASSUME NEW r \in Row, NEW o \in PaperOrder \cup {NoOrder}
  PROVE  r.executed \in Nat /\ Paid(r, o) \in Nat
<1>1. 0..Proposed \subseteq Nat
  BY SessionAssumption
<1> QED BY <1>1 DEF Row, PaperOrder, Paid

LEMMA PaymentsAre ==
  ASSUME SessionInv
  PROVE  /\ IsFiniteSet(Execution)
         /\ \A e \in Execution : Payments[e] \in Nat /\ row[e].executed \in Nat
         /\ \A e \in Execution : e \notin bygone => Payments[e] = Paid(row[e], book[e])
         /\ SumOver(Payments, Execution) \in Nat
<1>1. IsFiniteSet(Execution)
  BY FS_Interval, SessionAssumption DEF Execution
<1>2. row \in [Execution -> Row] /\ book \in [Execution -> PaperOrder \cup {NoOrder}]
  BY TypeParts DEF SessionInv, DataType
<1>3. \A e \in Execution : row[e].executed \in Nat /\ Paid(row[e], book[e]) \in Nat
  BY <1>2, PaidNat
<1>4. \A e \in Execution : Payments[e] \in Nat /\ row[e].executed \in Nat
  BY <1>3 DEF Payments
<1>5. SumOver(Payments, Execution) \in Nat
  BY <1>1, <1>4, SumOverNat
<1> QED BY <1>1, <1>4, <1>5 DEF Payments

\* Only polls cost cash, and only a death makes records bygone.
LEMMA CashStays ==
  ASSUME [AnyNext]_allVars, ~Die
  PROVE  bygone' = bygone /\ (~Poll => cash' = cash)
BY Moves
   DEF Calls, ProcessOrder, VerifyApproved, VerifyRejected, VerifyRaises, SubmitIntent,
       SubmitRaises, SubmitAccepted, Poll, LeaveRecord, Save, SkipCycle, CallAgain, StartCycle,
       Reconcile, LoadUnresolved, EndReconcile, ReconcileRaises, ConfirmUnsubmitted,
       AdoptByReference, EscalateToAmbiguous, LeaveRow, ConfirmTerminal, AdoptBrokerState,
       Checked, CallMove, SweepMove, Sweeps, FinishCycle, BeginSweep, SweepLoad,
       SweepLoadRaises, SweepNext, EndSweep, DayMove, Days, Purge, ArchiveEvents, ArchiveLog,
       Dawn, Evening, StressMove, DrillMove, VerifyMove, Stress,
       StressBegins, RestartBeforeCall, Reload, ReloadRaises, StressCycleOver, Interim,
       InterimOver, StressEnds, Drill, Verified, DrillDawn, DrillEvening, TryAgain, Conclude,
       Pass, Resume, Resting, history, allVars, vars

\* No other step changes what is paid for a record: an order comes with nothing
\* executed, one that goes is in its row, and a row without one says nothing new.
LEMMA PaidStays ==
  ASSUME SessionInv, PassInv, [AnyNext]_allVars, ~Die, NEW e \in Execution,
         ~(Poll /\ e = held /\ book[e] # NoOrder)
  PROVE  Paid(row[e], book[e])' = Paid(row[e], book[e])
<1>0. /\ row \in [Execution -> Row] /\ RowAgrees(e) /\ bygone' = bygone
      /\ (Busy => held \in Execution /\ mem \in Row)
  BY CashStays, TypeParts, HeldFacts DEF SessionInv, DataType, RecordInv
<1>1. ASSUME book'[e] # book[e]
      PROVE  Paid(row[e], book[e])' = Paid(row[e], book[e])
  <2>1. CASE book'[e] = NoOrder /\ (Purge \/ InterimOver)
    <3>1. row'[e] = row[e]
      BY <2>1 DEF Purge, InterimOver
    <3>2. row[e].executed = book[e].executed /\ book[e] # NoOrder
      BY <1>0, <1>1, <2>1, PurgeStep
    <3> QED BY <2>1, <3>1, <3>2 DEF Paid
  <2>2. CASE e \notin placed /\ book'[e].state = "PENDING" /\ book'[e].executed = 0
    <3>1. book[e] = NoOrder /\ row[e].executed = 0
      BY <1>0, <2>2 DEF RowAgrees, Agrees, RowShape
    <3> QED BY <2>2, <3>1 DEF Paid, NoOrder
  <2>3. CASE Poll /\ e = held /\ OrderSound(book[e])
    BY <2>3 DEF OrderSound, PaperOrder, NoOrder
  <2> QED BY <1>1, <2>1, <2>2, <2>3, BookFrame
<1>2. ASSUME book'[e] = book[e], book[e] = NoOrder, row'[e] # row[e]
      PROVE  row'[e].executed = row[e].executed
  <2>1. CASE StartCycle(e)
    BY <1>0, <2>1 DEF StartCycle, NoRow
  <2>2. CASE ConfirmUnsubmitted(e) \/ EscalateToAmbiguous(e) \/ ConfirmTerminal(e)
    BY <1>0, <2>2 DEF ConfirmUnsubmitted, EscalateToAmbiguous, ConfirmTerminal, Row
  <2>3. CASE AdoptByReference(e) \/ AdoptBrokerState(e)
    BY <1>2, <2>3 DEF AdoptByReference, AdoptBrokerState, Open, NoOrder, Live
  <2>4. CASE /\ ProcessOrder /\ pc \in {"call", "placing"} /\ e = held /\ row'[e] = mem'
             /\ mem = row[e]
    <3>1. ASSUME NEW scenario \in Scenario, SubmitAccepted(scenario)
          PROVE  FALSE
      <4>1. book \in [Execution -> PaperOrder \cup {NoOrder}]
        BY TypeParts DEF SessionInv, DataType
      <4>2. book'[e].state = "PENDING"
        BY <2>4, <3>1, <4>1 DEF SubmitAccepted
      <4> QED BY <1>2, <4>2 DEF NoOrder
    <3>2. CASE VerifyApproved \/ VerifyRejected \/ SubmitIntent
      BY <1>0, <2>4, <3>2 DEF VerifyApproved, VerifyRejected, SubmitIntent, Save, Row, Busy, InCall
    <3>3. CASE VerifyRaises \/ SubmitRaises \/ LeaveRecord \/ Poll
      BY <1>2, <2>4, <3>3 DEF VerifyRaises, SubmitRaises, LeaveRecord, Poll
    <3> QED BY <2>4, <3>1, <3>2, <3>3 DEF ProcessOrder
  <2> QED BY <1>2, <2>1, <2>2, <2>3, <2>4, RowFrame
<1> QED BY <1>1, <1>2 DEF Paid

LEMMA BooksStep ==
  ASSUME SessionInv, SessionInv', PassInv, BooksInv, [AnyNext]_allVars
  PROVE  BooksInv'
<1> DEFINE sum == SumOver(Payments, Execution)
<1>0. /\ IsFiniteSet(Execution) /\ sum \in Nat /\ Price \in Nat /\ StartingCash \in Nat
      /\ \A e \in Execution : Payments[e] \in Int /\ Payments'[e] \in Int
  <2>1. row' \in [Execution -> Row] /\ book' \in [Execution -> PaperOrder \cup {NoOrder}]
    BY DEF SessionInv, TypeOK
  <2>2. \A e \in Execution : Paid(row'[e], book'[e]) \in Nat
    BY <2>1, PaidNat
  <2>3. \A e \in Execution : Payments'[e] \in Nat
    BY <2>2 DEF Payments
  <2> QED BY <2>3, PaymentsAre, SessionAssumption
<1>1. CASE Die
  <2>1. /\ bygone' = {e \in Execution : row[e] # NoRow} /\ row' = row
        /\ book' = [e \in Execution |-> NoOrder] /\ cash' = StartingCash
    BY <1>1 DEF Die
  <2>2. \A e \in Execution : Payments'[e] = 0
    BY <2>1 DEF Payments, Paid, NoRow
  <2>3. SumOver(Payments', Execution) = 0
    BY <1>0, <2>2, SumOverNone
  <2> QED BY <1>0, <2>1, <2>3 DEF BooksInv
<1>2. CASE Poll /\ book[held] # NoOrder /\ ~Die
  <2> DEFINE order == Polled(book[held])
             more == order.executed - book[held].executed
  <2>1. /\ held \in Execution /\ held \notin bygone /\ RowAgrees(held)
        /\ book[held] \in PaperOrder
    BY <1>2, HeldFacts DEF Poll, Calling, Busy, InCall, MemAgrees
  <2>2. /\ book' = [book EXCEPT ![held] = order]
        /\ cash' = cash - Price * (book'[held].executed - book[held].executed)
    BY <1>2 DEF Poll, GetOrderStatus
  <2>3. book \in [Execution -> PaperOrder \cup {NoOrder}] /\ book'[held] = order
    BY <2>1, <2>2, TypeParts DEF SessionInv, DataType
  <2>4. order \in PaperOrder
    BY <1>2, <2>1, PolledSound DEF RowAgrees, Agrees, OrderSound
  <2> HIDE DEF order
  <2>5. order # NoOrder /\ bygone' = bygone
    BY <1>2, <2>4, CashStays DEF NoOrder, PaperOrder
  <2>6. Payments[held] = book[held].executed /\ Payments'[held] = order.executed
    BY <1>2, <2>1, <2>3, <2>5 DEF Payments, Paid
  <2>7. ASSUME NEW e \in Execution \ {held}
        PROVE  Payments[e] = Payments'[e]
    <3>1. Paid(row[e], book[e])' = Paid(row[e], book[e])
      BY <1>2, PaidStays
    <3> QED BY <2>5, <3>1 DEF Payments
  <2>8. SumOver(Payments', Execution) = sum - Payments[held] + Payments'[held]
    <3>1. /\ \A e \in Execution : Payments[e] \in Int /\ Payments'[e] \in Int
          /\ \A e \in Execution \ {held} : Payments[e] = Payments'[e]
          /\ IsFiniteSet(Execution) /\ held \in Execution
      BY <1>0, <2>1, <2>7
    <3> DEFINE was == Payments
               is == Payments'
    <3>2. /\ \A e \in Execution : was[e] \in Int /\ is[e] \in Int
          /\ \A e \in Execution \ {held} : was[e] = is[e]
      BY <3>1
    <3> HIDE DEF was, is
    <3>3. SumOver(is, Execution) = SumOver(was, Execution) - was[held] + is[held]
      BY <3>1, <3>2, SumOverChange
    <3> QED BY <3>3 DEF was, is
  <2>9. cash' = cash - Price * (Payments'[held] - Payments[held])
    BY <2>2, <2>3, <2>6
  <2>10. Payments[held] \in Int /\ Payments'[held] \in Int
    BY <1>0, <2>1
  <2>11. \A a, b, s, p \in Int : p * (s - a + b) = p * s + p * (b - a)
    OBVIOUS
  <2>12. Price * SumOver(Payments', Execution)
           = Price * sum + Price * (Payments'[held] - Payments[held])
    BY <1>0, <2>8, <2>10, <2>11
  <2>13. \A x, y \in Int : StartingCash - x - y = StartingCash - (x + y)
    BY <1>0
  <2>14. Price * sum \in Int /\ Price * (Payments'[held] - Payments[held]) \in Int
    BY <1>0, <2>10
  <2> QED BY <2>9, <2>12, <2>13, <2>14 DEF BooksInv
<1>3. CASE ~Die /\ ~(Poll /\ book[held] # NoOrder)
  <2>1. \A e \in Execution : Paid(row[e], book[e])' = Paid(row[e], book[e])
    BY <1>3, PaidStays
  <2>2. bygone' = bygone /\ cash' = cash
    <3>1. CASE Poll
      BY <1>3, <3>1, CashStays DEF Poll
    <3> QED BY <1>3, <3>1, CashStays
  <2>3. \A e \in Execution : Payments[e] = Payments'[e]
    BY <2>1, <2>2 DEF Payments
  <2>4. SumOver(Payments, Execution) = SumOver(Payments', Execution)
    BY <1>0, <2>3, SumOverSame
  <2> QED BY <2>2, <2>4 DEF BooksInv
<1> QED BY <1>1, <1>2, <1>3

LEMMA BooksInit == HarnessInit => BooksInv
<1> SUFFICES ASSUME HarnessInit PROVE BooksInv
  OBVIOUS
<1>1. cash = StartingCash /\ \A e \in Execution : Payments[e] = 0
  BY DEF HarnessInit, Init, Payments, Paid, NoRow
<1>2. IsFiniteSet(Execution) /\ Price \in Nat /\ StartingCash \in Nat
  BY FS_Interval, SessionAssumption DEF Execution
<1>3. SumOver(Payments, Execution) = 0
  BY <1>1, <1>2, SumOverNone
<1> QED BY <1>1, <1>2, <1>3 DEF BooksInv

\* A row never has more than was paid, and when it is settled all of it.
LEMMA RowsArePaid ==
  ASSUME SessionInv, NEW e \in Here
  PROVE  /\ row[e].executed <= Payments[e]
         /\ row[e].status = "RECONCILED" => Payments[e] = row[e].executed
         /\ row[e].status \in Unsent \cup {"ABSENT", "AMBIGUOUS"} => Payments[e] = 0
<1>1. e \in Execution /\ e \notin bygone /\ RowAgrees(e) /\ row[e] \in Row
  BY TypeParts DEF SessionInv, DataType, RecordInv, Here
<1>2. Payments[e] = Paid(row[e], book[e]) /\ row[e].executed \in Nat /\ Payments[e] \in Nat
  BY <1>1, PaymentsAre
<1>3. CASE book[e] = NoOrder
  BY <1>1, <1>2, <1>3 DEF Paid, RowAgrees, Agrees, RowShape, NoRow
<1>4. CASE book[e] # NoOrder
  <2>1. CASE row[e].sent
    BY <1>1, <1>2, <1>4, <2>1 DEF Paid, RowAgrees, Agrees, RowShape, Behind, NoRow
  <2>2. CASE ~row[e].sent
    BY <1>1, <1>2, <1>4, <2>2 DEF Paid, RowAgrees, Agrees, RowShape, Unsent
  <2> QED BY <2>1, <2>2
<1> QED BY <1>3, <1>4

LEMMA BooksAre == SessionInv /\ BooksInv => BooksBalance
<1> SUFFICES ASSUME SessionInv, BooksInv PROVE BooksBalance
  OBVIOUS
<1> DEFINE sum == SumOver(Payments, Execution)
<1>0. /\ IsFiniteSet(Execution) /\ sum \in Nat /\ Price \in Nat
      /\ \A e \in Execution : Payments[e] \in Int
      /\ \A e \in Execution : row[e].executed \in Nat
      /\ \A e \in Execution : Executed[e] = row[e].executed
      /\ StartingCash - cash = Price * sum
  <2>1. Price * sum \in Int /\ StartingCash \in Int
    BY PaymentsAre, SessionAssumption
  <2> QED BY <2>1, PaymentsAre, SessionAssumption DEF Executed, BooksInv
<1>1. Spent(Here) <= StartingCash - cash
  <2> DEFINE claimed == [e \in Execution |-> IF e \in Here THEN row[e].executed ELSE 0]
  <2>1. /\ \A e \in Here : Executed[e] \in Int /\ claimed[e] = Executed[e]
        /\ \A e \in Execution \ Here : claimed[e] = 0
        /\ Here \in SUBSET Execution
    BY <1>0 DEF Here
  <2>2. \A e \in Execution : claimed[e] \in Int /\ Payments[e] \in Int /\ claimed[e] <= Payments[e]
    BY <1>0, RowsArePaid, PaymentsAre
  <2> HIDE DEF claimed
  <2>3. SumOver(claimed, Execution) = SumOver(Executed, Here)
    BY <1>0, <2>1, SumOverPart
  <2>4. SumOver(claimed, Execution) <= sum
    BY <1>0, <2>2, SumOverLess
  <2>5. SumOver(claimed, Execution) \in Int
    BY <1>0, <2>2, SumOverInt
  <2>6. \A p \in Nat, a, b \in Int : a <= b => p * a <= p * b
    OBVIOUS
  <2> QED BY <1>0, <2>3, <2>4, <2>5, <2>6 DEF Spent
<1>2. ASSUME \A e \in Here : row[e].status \in {"ABSENT", "PROPOSAL", "VERIFIED", "AMBIGUOUS",
                                                 "RECONCILED"}
      PROVE  BuildPortfolio(Here).invested = StartingCash - cash
  <2> DEFINE bought == {e \in LoadReconciledRecords(Here) : row[e].executed > 0}
  <2>1. bought \in SUBSET Execution
    BY DEF LoadReconciledRecords, Here
  <2>2. ASSUME NEW e \in bought
        PROVE  Executed[e] \in Int /\ Payments[e] = Executed[e]
    BY <1>0, <2>2, RowsArePaid DEF LoadReconciledRecords, Here
  <2>3. ASSUME NEW e \in Execution \ bought
        PROVE  Payments[e] = 0
    <3>1. CASE e \in bygone
      BY <3>1 DEF Payments
    <3>2. CASE e \in Here
      BY <1>0, <1>2, <2>3, <3>2, RowsArePaid DEF LoadReconciledRecords, Unsent
    <3> QED BY <3>1, <3>2 DEF Here
  <2> HIDE DEF bought
  <2>4. sum = SumOver(Executed, bought)
    BY <1>0, <2>1, <2>2, <2>3, SumOverPart
  <2>5. SumOver(Executed, bought) * Price = Price * sum
    BY <1>0, <2>4
  <2> QED BY <1>0, <2>5 DEF BuildPortfolio, Holding, bought
<1>3. ASSUME NEW e \in Execution, book[e] # NoOrder
      PROVE  /\ book[e].executed <= book[e].quantity
             /\ book[e].state = "FILLED" => book[e].executed = book[e].quantity
  BY <1>3 DEF SessionInv, RecordInv, RowAgrees, Agrees, OrderSound
<1> QED BY <1>1, <1>2, <1>3 DEF BooksBalance

\* The database never claims more fills than the cash paid for; a portfolio
\* rebuilt from settled records is worth what was paid, whatever saves were lost
\* and whatever was purged; and no order executes more than was ordered.
THEOREM BooksAlwaysBalance == ProgramSpec => []BooksBalance
<1>1. SessionInv /\ SessionInv' /\ PassInv /\ BooksInv /\ [AnyNext]_allVars => BooksInv'
  BY BooksStep
<1> QED BY <1>1, BooksInit, BooksAre, SessionSound, PassSound, PTL DEF ProgramSpec
=============================================================================
