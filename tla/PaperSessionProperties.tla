---------------------- MODULE PaperSessionProperties ----------------------
(***************************************************************************)
(* What a paper session promises, alone or driven by one of its harnesses: *)
(* its books agree with the broker's cash, nothing is forgotten, the audit *)
(* trail is whole, a purge destroys only what was reconciled, a recovery   *)
(* that is reported took place, and every order it follows is settled.     *)
(***************************************************************************)
EXTENDS SessionHarnesses, Bookkeeping

\* Every variable keeps the shape its code gives it.
TypeOK ==
  /\ row \in [Execution -> Row]
  /\ book \in [Execution -> PaperOrder \cup {NoOrder}]
  /\ cash \in Int
  /\ outstanding \subseteq Execution /\ todo \subseteq Execution
  /\ pc \in {"dawn", "cycles", "call", "placing", "called", "raised", "sweep", "listing",
             "reconciling", "evening", "purging", "archiving", "trimming",
             "confirmed", "unconfirmed", "over"}
  /\ purpose \in {"restart", "scheduled", "purge", "reload", "interim", "verify", "final"}
  /\ slot \in 0..CyclesPerDay /\ calls \in 0..MaxCalls
  /\ caller \in {"cycle", "sweep"}
  /\ held \in Execution \cup {Nobody} /\ mem \in Row
  /\ events \in [live : SUBSET Execution, archived : SUBSET Execution]
  /\ log \in [live : SUBSET Execution, archived : [Execution -> Nat],
              executed : [Execution -> 0..Proposed]]
  /\ placed \subseteq Execution /\ bygone \subseteq Execution /\ unsaved \subseteq Execution
  /\ overlap \in BOOLEAN /\ faults \in 0..MaxFaults
  /\ program \in Programs /\ tries \in 0..MaxTries
  /\ report \in {"none", "recovered", "failed", "converged", "diverged"}

Here == Execution \ bygone

Spent(S) == Price * SumOver(Executed, S)

\* The database never claims more fills than the broker's cash paid for; once
\* every record of the session is settled the portfolio rebuilt from it is
\* worth exactly what was paid, whatever saves were lost and whatever orders
\* were purged on the way; and retried polls and partial fills never execute
\* more than was ordered, and all of it once the order is FILLED.
BooksBalance ==
  /\ Spent(Here) <= StartingCash - cash
  /\ (\A e \in Here : row[e].status \in {"ABSENT", "PROPOSAL", "VERIFIED", "AMBIGUOUS",
                                         "RECONCILED"})
       => BuildPortfolio(Here).invested = StartingCash - cash
  /\ \A e \in Execution : book[e] # NoOrder =>
       /\ book[e].executed <= book[e].quantity
       /\ book[e].state = "FILLED" => book[e].executed = book[e].quantity

\* Verification looks at cash already paid only; a single order in flight can
\* then never overdraw it.  Overdrafts take two orders approved on the same
\* money, the second while the first was unpaid (the "no negative cash" check
\* of the stress harness).
OverdraftNeedsOverlap == cash < 0 => overlap

\* Between cycles, a record the session has not seen settle is in the set the
\* sweep works from; only a record that lost a save can have slipped out of it
\* (outstanding_execution_ids goes by memory, not by the row).
ForgottenOnlyAfterLostSave ==
  pc \in {"dawn", "sweep", "evening"} =>
    \A e \in Here : row[e].status \notin Settled \cup {"ABSENT"} =>
      e \in outstanding \/ e \in unsaved

\* Every cycle that ran to its end is in the full cycle log exactly once, and
\* has an event to reconstruct it from, before and after archiving; and no
\* report counts as executed what the database does not have.  (The stress run
\* keeps no cycle log.)
AuditTrailComplete ==
  program # "stress" => \A e \in Execution :
    /\ Entries(e) <= 1
    /\ e \in FullCycleLog => e \in events.live \cup events.archived
    /\ (e \in Here /\ row[e] # NoRow /\ e # held) => e \in FullCycleLog
    /\ e \in ReportedAs("executed") => log.executed[e] <= row[e].executed

\* What reports.py says of itself: a report reflects the latest known truth,
\* not what was known when the cycle was logged.
ReportsLatestTruth ==
  \A e \in FullCycleLog :
    row[e].status \in {"FILLED", "RECONCILED"} /\ row[e].executed > 0
      => e \in ReportedAs("executed")

\* The broker forgets an order only when its row is RECONCILED and holds what
\* was executed: reconcile first, purge after (the stress harness's rule).
\* The broker of a dead process forgets everything.
PurgeOnlyReconciled ==
  [][\A e \in Execution :
       book[e] # NoOrder /\ book'[e] = NoOrder /\ bygone' = bygone
         => row[e].status = "RECONCILED" /\ row[e].executed = book[e].executed]_vars

\* A record reconciliation has done all it can for.
Resolved(e) ==
  \/ row[e].status \in Unsent \cup {"ABSENT", "AMBIGUOUS", "RECONCILED"}
  \/ row[e].status \in Live /\ row[e].sent /\ Open(e)

Orphaned(e) == row[e].sent /\ row[e].status # "RECONCILED" /\ book[e] = NoOrder

\* A recovery a harness reports took place: every record it confirmed is
\* resolved, and it gives up only when every try raised; and no restart between
\* two calls, stale record or purge ever orphans an order of a run whose broker
\* lives on (orphan_orders_at_end, recoveries_confirmed).
RecoveryIsReal ==
  /\ (report = "recovered" /\ pc = "cycles" /\ slot = 0) \/ report = "converged"
       => \A e \in Execution : Resolved(e)
  /\ report \in {"failed", "diverged"} => faults >= MaxTries
  /\ program # "session" => \A e \in Execution : ~Orphaned(e)

-----------------------------------------------------------------------------
(* Refinement: the session is one more user of the submission contract.    *)

Stage(e) ==
  CASE row[e].status \in Unsent \cup {"ABSENT"} -> "planned"
    [] row[e].status \in {"SUBMITTED"} \cup Live -> "intended"
    [] row[e].status = "AMBIGUOUS" -> "doubtful"
    [] OTHER -> "closed"

Contract == INSTANCE SubmissionContract
  WITH Record <- Execution, OrderId <- Execution,
       stage <- [e \in Execution |-> Stage(e)],
       placed <- [e \in Execution |-> placed \cap {e}]

\* Sweeps, restarts, lost saves and purges keep DDR-001's promise: one order
\* at most per record, asked for after the intent is durable, none in doubt.
ImplementsContract == Contract!Spec

\* A place in every sweep is taken by a record that waits for the operator: such
\* an id never leaves the set, and a sweep looks at the first MaxPerSweep only.
Starved(e) ==
  Cardinality({d \in outstanding : d < e /\ row[d].status = "AMBIGUOUS"}) >= MaxPerSweep

\* A proposal whose outcome was decided in memory, but not saved.
LeftProposed(e) == row[e].status = "PROPOSAL" /\ e \in unsaved \ outstanding

\* Every record is eventually closed, or waits for the operator, however often
\* polls, saves and loads fail, though a sweep looks at a bounded number of
\* records in the order of their ids.  The exceptions are the code's own: the
\* process that knew the record died, its rejection was lost with a save, or
\* records in doubt fill the sweep.  (The stress run has no sweep, and a drill
\* ends some day.)
EveryRecordSettles ==
  \A e \in Execution :
    row[e].status # "ABSENT" /\ program # "stress"
      ~> \/ row[e].status \in {"RECONCILED", "AMBIGUOUS"}
         \/ e \in bygone \/ LeftProposed(e) \/ Starved(e)
         \/ pc = "over"
=============================================================================
