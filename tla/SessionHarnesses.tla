-------------------------- MODULE SessionHarnesses --------------------------
(***************************************************************************)
(* The two programs that exercise the parts of a session: run_stress_test, *)
(* which restarts the client between two calls for one record and purges   *)
(* between cycles, and run_disaster_recovery_exercise, which puts a        *)
(* disaster before a session's day and verifies the recovery.  The broker  *)
(* outlives every restart.  Reopening the store changes nothing modelled   *)
(* here, and in a "broker_failure" every first save raises, so its three   *)
(* cycles are skipped.                                                     *)
(***************************************************************************)
EXTENDS PaperSession

CONSTANT MaxTries   \* reconcile() calls before a harness gives up

ASSUME HarnessAssumption == MaxTries \in Nat \ {0}

VARIABLES
  program,   \* which program runs
  tries,     \* restarts before this call, or reconcile() calls so far
  report     \* what it has reported of its last verification

harness == <<program, tries, report>>

Programs == {"session", "stress", "drill"}

HarnessInit ==
  /\ Init
  /\ program \in Programs /\ tries = 0 /\ report = "none"

\* What a harness step leaves alone beside the named variables.
Resting == UNCHANGED <<outstanding, todo, calls, caller, audit, history>>

Unpurposed == purpose' = "scheduled"

Pass(why) ==
  /\ pc' = "listing" /\ purpose' = why
  /\ UNCHANGED <<row, book, cash, slot, held, mem, faults>> /\ Resting

Resume(where) ==
  /\ pc' = where /\ Unpurposed
  /\ UNCHANGED <<row, book, cash, slot, held, mem, faults>> /\ Resting

Judged(why) == pc \in {"confirmed", "unconfirmed"} /\ purpose = why

\* A pass that raised is tried again, a bounded number of times.
TryAgain ==
  /\ program \in {"stress", "drill"} /\ purpose \in {"verify", "final"}
  /\ pc = "unconfirmed" /\ tries < MaxTries
  /\ tries' = tries + 1
  /\ Pass(purpose) /\ UNCHANGED <<program, report>>

-----------------------------------------------------------------------------
(* run_stress_test.                                                        *)

StressBegins ==
  /\ program = "stress" /\ pc = "dawn"
  /\ Resume("cycles") /\ UNCHANGED harness

\* A restart before a call: reconcile, then go on with the record reloaded.
RestartBeforeCall ==
  /\ program = "stress" /\ pc = "call" /\ tries = 0
  /\ tries' = 1
  /\ Pass("reload") /\ UNCHANGED <<program, report>>

Reload ==
  /\ program = "stress" /\ Judged("reload")
  /\ mem' = row[held] /\ pc' = "call" /\ Unpurposed
  /\ UNCHANGED <<row, book, cash, slot, held, faults, harness>> /\ Resting

\* The load raises: the record in memory is used on.
ReloadRaises ==
  /\ program = "stress" /\ Judged("reload")
  /\ Fault /\ pc' = "call" /\ Unpurposed
  /\ UNCHANGED <<row, book, cash, slot, held, mem, harness>> /\ Resting

StressCallAgain ==
  /\ program = "stress" /\ CallAgain
  /\ tries' = 0 /\ UNCHANGED <<program, report>>

\* Nothing follows the record up after its cycle but reconciliation.
StressCycleOver ==
  /\ program = "stress" /\ CycleOver
  /\ LetGo /\ pc' = "cycles" /\ tries' = 0
  /\ UNCHANGED <<row, book, cash, outstanding, purpose, todo, slot, audit, history, faults,
                 program, report>>

\* Every purge_interval cycles: reconcile, and purge only after a pass that
\* succeeded.  The events are cleared, not archived.
Interim ==
  /\ program = "stress" /\ pc = "cycles" /\ slot > 0
  /\ events' = [events EXCEPT !.live = {}]
  /\ pc' = "listing" /\ purpose' = "interim"
  /\ UNCHANGED <<row, book, cash, outstanding, todo, slot, caller, held, mem, calls, log,
                 history, faults, harness>>

\* Mutant of InterimOver: purged whether or not the pass succeeded.
InterimOverAlwaysPurges ==
  /\ program = "stress" /\ Judged("interim")
  /\ PurgeTerminalOrders
  /\ pc' = "cycles" /\ Unpurposed
  /\ UNCHANGED <<row, cash, slot, held, mem, faults, harness>> /\ Resting

InterimOver ==
  /\ program = "stress" /\ Judged("interim")
  /\ IF pc = "confirmed" THEN PurgeTerminalOrders ELSE UNCHANGED book
  /\ pc' = "cycles" /\ Unpurposed
  /\ UNCHANGED <<row, cash, slot, held, mem, faults, harness>> /\ Resting

StressEnds ==
  /\ program = "stress" /\ pc = "cycles"
  /\ slot = CyclesPerDay \/ \A e \in Execution : row[e] # NoRow
  /\ tries' = 1
  /\ Pass("final") /\ UNCHANGED <<program, report>>

-----------------------------------------------------------------------------
(* run_disaster_recovery_exercise.                                         *)

DrillDawn(disaster) ==
  /\ program = "drill" /\ pc = "dawn" /\ slot' = 0
  /\ IF disaster THEN pc' = "listing" /\ purpose' = "verify" /\ tries' = 1
                 ELSE pc' = "cycles" /\ UNCHANGED <<purpose, tries>>
  /\ report' = "none"
  /\ UNCHANGED <<row, book, cash, held, mem, faults, program>> /\ Resting

\* _verify_recovery's answer.
Verified ==
  /\ program = "drill" /\ Judged("verify")
  /\ pc = "confirmed" \/ tries = MaxTries
  /\ report' = IF pc = "confirmed" THEN "recovered" ELSE "failed"
  /\ Resume("cycles") /\ UNCHANGED <<program, tries>>

\* A day is over: the next one, or the final reconciliation.
DrillEvening(last) ==
  /\ program = "drill" /\ pc = "evening"
  /\ IF last THEN Pass("final") /\ tries' = 1
             ELSE Resume("dawn") /\ UNCHANGED tries
  /\ UNCHANGED <<program, report>>

-----------------------------------------------------------------------------
\* The final counts are taken of a pass that succeeded, or of nothing.
Conclude ==
  /\ program \in {"stress", "drill"} /\ Judged("final")
  /\ pc = "confirmed" \/ tries = MaxTries
  /\ report' = IF pc = "confirmed" THEN "converged" ELSE "diverged"
  /\ Resume("over") /\ UNCHANGED <<program, tries>>

\* The session's own steps that a harness takes as they are.
Shared ==
  \/ SkipCycle \/ ProcessOrder \/ Reconcile
  \/ \E e \in Execution : StartCycle(e)

\* The drill runs a session's cycles, sweeps and scheduled passes.
Drilled == CallAgain \/ FinishCycle \/ BeginSweep \/ SweepLoad \/ SweepLoadRaises \/ SweepNext
           \/ EndSweep

HarnessStep ==
  \/ program \in {"stress", "drill"} /\ Shared /\ UNCHANGED harness
  \/ program = "drill" /\ Drilled /\ UNCHANGED harness
  \/ TryAgain \/ Conclude
  \/ StressBegins \/ RestartBeforeCall \/ Reload \/ ReloadRaises \/ StressCallAgain
  \/ StressCycleOver \/ Interim \/ InterimOver \/ StressEnds
  \/ \E due \in BOOLEAN : DrillDawn(due) \/ DrillEvening(due)
  \/ Verified

AnyStep == (program = "session" /\ Step /\ UNCHANGED harness) \/ HarnessStep

allVars == <<vars, harness>>

\* A harness returns its report.
Ended == pc = "over" /\ UNCHANGED allVars

AnyNext == AnyStep \/ (program = "session" /\ Die /\ UNCHANGED harness) \/ Ended

\* Each program is a loop of its own process: it takes steps until it dies or
\* has ended.
ProgramSpec == HarnessInit /\ [][AnyNext]_allVars /\ WF_allVars(AnyStep)
=============================================================================
