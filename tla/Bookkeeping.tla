----------------------------- MODULE Bookkeeping -----------------------------
(***************************************************************************)
(* What the readers of a session's database make of it: the operational    *)
(* reports over the full cycle log, and the portfolio rebuilt from the     *)
(* execution history.  The period of a report is any that has the entry;   *)
(* a status that cannot be read is reported as it was logged, which is     *)
(* left out.  All records are of one symbol at one price.                  *)
(***************************************************************************)
EXTENDS PaperSession, Sums

\* get_full_cycle_log: the entries in memory and the lines of the archive.
Entries(e) == log.archived[e] + (IF e \in log.live THEN 1 ELSE 0)
FullCycleLog == {e \in Execution : Entries(e) > 0}

\* generate_report: the status is read anew, the quantity is the entry's.
Category(e) ==
  CASE row[e].status \in {"FILLED", "RECONCILED"} ->
         IF log.executed[e] > 0 THEN "executed" ELSE "rejected"
    [] row[e].status = "CANCELLED" -> "cancelled"
    [] row[e].status = "FAILED" -> "rejected"
    [] OTHER -> "pending"

ReportedAs(category) == {e \in FullCycleLog : Category(e) = category}

\* build_portfolio: a holding's average price is its cost over its quantity.
LoadReconciledRecords(S) == {e \in S : row[e].status = "RECONCILED"}

Holding(quantity) == [quantity |-> quantity, invested |-> quantity * Price]

Executed == [e \in Execution |-> row[e].executed]

BuildPortfolio(S) ==
  Holding(SumOver(Executed, {e \in LoadReconciledRecords(S) : row[e].executed > 0}))
=============================================================================
