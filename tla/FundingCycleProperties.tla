----------------------- MODULE FundingCycleProperties -----------------------
(***************************************************************************)
(* What FundingCycle is checked against.                                   *)
(***************************************************************************)
EXTENDS FundingCycle

\* Every variable keeps the shape its code gives it.
FundingTypeOK ==
  /\ policy \in Policy
  /\ row \in State \cup {NoState}
  /\ pc \in {"idle", "loaded", "saved"}
  /\ mem \in State \cup {NoState}
  /\ pool \in BOOLEAN
  /\ duties \subseteq Effect
  /\ heard \in Seq(Command) /\ inbox \in Seq(Command)
  /\ told \in [paused : BOOLEAN, discontinued : BOOLEAN]
  /\ today \in [month : Month, day : 1..LastDay]
  /\ funded \in BOOLEAN
  /\ open \subseteq Month /\ submitted \subseteq Month
  /\ due \subseteq [cycle : Month, ok : BOOLEAN]
  /\ done \in [Effect -> [Month -> Nat]]

\* No month passes for done without having been invested, whatever dies
\* between computing the orders, submitting them and confirming the outcome
\* (run_daily_cycle's two-phase completion).
NoMonthSkipped ==
  row # NoState /\ row.funding = "IDLE" => row.month \in submitted

\* A reminder or an announcement is made at most once a month: checkpoint 1 is
\* taken before, so a crash can lose it and cannot repeat it.
EffectsAtMostOnce ==
  \A e \in Effect, m \in Month : done[e][m] <= 1

\* A run goes on to propose orders only if the commands given to the engine so
\* far, in earlier months and by processes that died since, allow it.
CommandsAreObeyed ==
  pool => ~told.paused /\ ~told.discontinued

\* A month that is done stays done: no run, retry or repeated confirmation
\* takes it up again.
DoneMonthStaysDone ==
  [][row # NoState /\ row.funding = "IDLE" =>
       row'.month # row.month \/ row'.funding = "IDLE"]_vars

-----------------------------------------------------------------------------
(* What the run, the row and the caller know of each other: the            *)
(* strengthenings the proofs rest on.                                      *)

\* What a run holds in memory at each point.
RunShape ==
  /\ pc = "idle" => mem = NoState
  /\ pc = "saved" => mem # NoState /\ row # NoState
  /\ pc # "saved" => ~pool /\ duties = {}
  /\ pc # "loaded" => heard = <<>>
  /\ mem # NoState /\ row # NoState => mem.month = row.month /\ mem.reminded = row.reminded
  /\ mem # NoState /\ row = NoState => mem.month = today.month
  /\ pc = "loaded" /\ mem = NoState => row = NoState
  /\ row # NoState => row.month <= today.month

\* A side effect once done, or to be done, is recorded in the row.
EffectsRecorded ==
  /\ \A e \in Effect, m \in Month : done[e][m] > 0 =>
       /\ row # NoState /\ m <= row.month
       /\ e = "reminder" /\ m = row.month => row.reminded
  /\ \A e \in duties : done[e][mem.month] = 0
  /\ "reminder" \in duties => row.reminded

\* The flags in the row are those the commands amount to.
FlagsAgree(s, t) == s.paused = t.paused /\ s.discontinued = t.discontinued

CommandsRecorded ==
  /\ row = NoState => ~told.paused /\ ~told.discontinued
  /\ row # NoState => FlagsAgree(row, told)
  /\ pc = "loaded" => IF mem = NoState THEN heard = <<>> ELSE FlagsAgree(mem, After(told, heard))
  /\ pool => ~mem.paused /\ ~mem.discontinued /\ FlagsAgree(mem, told)

\* A caller that confirms in time has one cycle in hand, the row's.
OneCycleInHand ==
  /\ pc # "idle" => open = {} /\ due = {}
  /\ open # {} => due = {} /\ row # NoState /\ open = {row.month} /\ row.funding = "EXECUTING"
  /\ \A o \in due :
       /\ due = {o} /\ row # NoState /\ o.cycle = row.month
       /\ IF o.ok THEN row.month \in submitted ELSE row.funding # "IDLE"
  /\ mem # NoState /\ row # NoState => mem.funding = row.funding
  /\ mem # NoState /\ row = NoState => mem.funding = "AWAITING_FUNDS"
  /\ pool => mem.funding = "EXECUTING"

-----------------------------------------------------------------------------
\* The scheduler invokes the engine every day, a run ends and not every one
\* dies; the caller deals with a result in the end, and the market lets
\* something be bought on some trading day.
FundingFairness ==
  /\ SF_vars(Load)
  /\ SF_vars(Checkpoint)
  /\ \A e \in Effect : SF_vars(Perform(e))
  /\ SF_vars(ProposeOrders)
  /\ WF_vars(ReturnWithoutOrders)
  /\ SF_vars(\E c \in Month : Submit(c))
  /\ SF_vars(\E o \in due : Confirm(o))

FundingFairSpec == Spec /\ FundingFairness

Invited == funded /\ ~told.paused /\ ~told.discontinued

\* Once the money stays and nobody tells the engine to wait, the month is
\* invested and confirmed: EXECUTING is not a state a crash can strand it in.
FundedMonthIsInvested ==
  <>[]Invited => <>[](row # NoState /\ row.funding = "IDLE" /\ row.month \in submitted)
=============================================================================
