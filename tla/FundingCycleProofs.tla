------------------------- MODULE FundingCycleProofs -------------------------
(***************************************************************************)
(* Theorems about the funding cycle, for every calendar and every number   *)
(* of commands.                                                            *)
(***************************************************************************)
EXTENDS FundingCycleProperties, TLAPS

USE DEF Month, Policy, Command, Effect

-----------------------------------------------------------------------------
(* Operators on states.                                                    *)

\* Commands change nothing but the two flags.
LEMMA AfterType ==
  ASSUME NEW s \in State, NEW commands \in Seq(Command)
  PROVE  /\ After(s, commands) \in State
         /\ After(s, commands).month = s.month
         /\ After(s, commands).funding = s.funding
         /\ After(s, commands).reminded = s.reminded
BY DEF State, After, Says

LEMMA AfterTold ==
  ASSUME NEW t \in [paused : BOOLEAN, discontinued : BOOLEAN], NEW commands \in Seq(Command)
  PROVE  After(t, commands) \in [paused : BOOLEAN, discontinued : BOOLEAN]
BY DEF After, Says

\* Flags that agree still do after the same commands.
LEMMA AfterAgrees ==
  ASSUME NEW s \in State, NEW t \in [paused : BOOLEAN, discontinued : BOOLEAN],
         NEW commands \in Seq(Command), FlagsAgree(s, t)
  PROVE  FlagsAgree(After(s, commands), After(t, commands))
BY DEF State, After, Says, FlagsAgree

LEMMA AfterNothing ==
  ASSUME NEW t \in [paused : BOOLEAN, discontinued : BOOLEAN]
  PROVE  FlagsAgree(After(t, <<>>), t)
<1> DEFINE none == <<>>
<1>1. DOMAIN none = {}
  OBVIOUS
<1>2. After(t, none).discontinued = (t.discontinued \/ FALSE)
  BY <1>1, Zenon DEF After, Says
<1>3. After(t, none).paused = (FALSE \/ (t.paused /\ TRUE))
  BY <1>1, Zenon DEF After, Says
<1> QED BY <1>2, <1>3 DEF FlagsAgree

LEMMA FreshType ==
  ASSUME FundingTypeOK, NEW p \in BOOLEAN, NEW d \in BOOLEAN
  PROVE  /\ Fresh(p, d) \in State
         /\ Fresh(p, d).month = today.month /\ Fresh(p, d).funding = "AWAITING_FUNDS"
         /\ Fresh(p, d).reminded = FALSE
         /\ Fresh(p, d).paused = p /\ Fresh(p, d).discontinued = d
BY DEF FundingTypeOK, Fresh, State

LEMMA ApplyType ==
  ASSUME FundingTypeOK, NEW commands \in Seq(Command)
  PROVE  /\ ApplyCommands(row, commands) \in State \cup {NoState}
         /\ ApplyCommands(row, commands) = NoState <=> row = NoState /\ commands = <<>>
         /\ row # NoState =>
              /\ ApplyCommands(row, commands).month = row.month
              /\ ApplyCommands(row, commands).funding = row.funding
              /\ ApplyCommands(row, commands).reminded = row.reminded
         /\ row = NoState /\ commands # <<>> =>
              /\ ApplyCommands(row, commands).month = today.month
              /\ ApplyCommands(row, commands).funding = "AWAITING_FUNDS"
<1>1. Recognised(commands) \in Seq(Command)
  BY DEF Recognised
<1>2. row \in State \cup {NoState} /\ NoState \notin State
  BY NoStateAssumption DEF FundingTypeOK
<1>3. CASE commands = <<>>
  BY <1>2, <1>3 DEF ApplyCommands
<1>4. CASE commands # <<>> /\ row = NoState
  <2> DEFINE s == Fresh(FALSE, FALSE)
  <2>1. ApplyCommands(row, commands) = After(s, Recognised(commands))
    BY <1>4 DEF ApplyCommands
  <2>2. s \in State /\ s.month = today.month /\ s.funding = "AWAITING_FUNDS"
    BY FreshType
  <2>3. /\ After(s, Recognised(commands)) \in State
        /\ After(s, Recognised(commands)).month = s.month
        /\ After(s, Recognised(commands)).funding = s.funding
    BY <2>2, <1>1, AfterType
  <2> QED BY <2>1, <2>2, <2>3, <1>2, <1>4
<1>5. CASE commands # <<>> /\ row # NoState
  <2>1. ApplyCommands(row, commands) = After(row, Recognised(commands))
    BY <1>5 DEF ApplyCommands
  <2>2. row \in State
    BY <1>2, <1>5
  <2> QED BY <2>1, <2>2, <1>1, <1>2, <1>5, AfterType
<1> QED BY <1>3, <1>4, <1>5

\* The state the policy starts from: of this month, or as it was.
LEMMA StateOfMonthType ==
  ASSUME FundingTypeOK
  PROVE  /\ StateOfMonth(mem) \in State
         /\ MonthBegins(mem) =>
              /\ StateOfMonth(mem).month = today.month
              /\ StateOfMonth(mem).funding = "AWAITING_FUNDS"
              /\ StateOfMonth(mem).reminded = FALSE
         /\ ~MonthBegins(mem) => mem # NoState /\ StateOfMonth(mem) = mem
         /\ mem = NoState =>
              MonthBegins(mem) /\ ~StateOfMonth(mem).paused /\ ~StateOfMonth(mem).discontinued
         /\ mem # NoState => FlagsAgree(StateOfMonth(mem), mem)
<1>1. mem \in State \cup {NoState} /\ NoState \notin State
  BY NoStateAssumption DEF FundingTypeOK
<1>2. mem # NoState => mem.paused \in BOOLEAN /\ mem.discontinued \in BOOLEAN
  BY <1>1 DEF State
<1>3. CASE mem = NoState
  BY <1>3, FreshType DEF StateOfMonth, MonthBegins, FlagsAgree
<1>4. CASE mem # NoState /\ MonthBegins(mem)
  BY <1>1, <1>2, <1>4, FreshType DEF StateOfMonth, FlagsAgree
<1>5. CASE mem # NoState /\ ~MonthBegins(mem)
  BY <1>1, <1>5 DEF StateOfMonth, FlagsAgree
<1> QED BY <1>3, <1>4, <1>5

LEMMA DecidedType ==
  ASSUME FundingTypeOK, NEW s \in State
  PROVE  /\ Decided(s) \in State
         /\ Decided(s).month = s.month /\ FlagsAgree(Decided(s), s)
         /\ Decided(s).reminded = (s.reminded \/ Reminds(s))
         /\ Decided(s).funding = IF ChecksFunds(s) /\ funded THEN "EXECUTING" ELSE s.funding
         /\ ChecksFunds(s) \in BOOLEAN /\ Reminds(s) \in BOOLEAN
<1>1. ChecksFunds(s) \in BOOLEAN /\ Reminds(s) \in BOOLEAN
  BY DEF ChecksFunds, Reminds
<1> QED BY <1>1 DEF State, Decided, FlagsAgree

LEMMA MarkCompleteType ==
  ASSUME NEW s \in State, NEW ok \in BOOLEAN
  PROVE  /\ MarkComplete(s, ok) \in State
         /\ MarkComplete(s, ok).month = s.month
         /\ MarkComplete(s, ok).reminded = s.reminded
         /\ FlagsAgree(MarkComplete(s, ok), s)
         /\ MarkComplete(s, ok).funding = IF ok THEN "IDLE" ELSE "AWAITING_FUNDS"
BY DEF State, MarkComplete, FlagsAgree

-----------------------------------------------------------------------------
(* Types, with what a run holds in memory at each point.                   *)

TypeAndShape == FundingTypeOK /\ RunShape

\* The empty sequence is one of commands.
LEMMA NoCommands == <<>> \in Seq(Command)
OBVIOUS

LEMMA TypeAndShapeInit == Init => TypeAndShape
<1> SUFFICES ASSUME Init PROVE TypeAndShape
  OBVIOUS
<1>1. today \in [month : Month, day : 1..LastDay]
  BY CalendarAssumption DEF Init
<1>2. done \in [Effect -> [Month -> Nat]]
  BY DEF Init
<1>3. FundingTypeOK
  BY <1>1, <1>2, NoCommands DEF Init, FundingTypeOK
<1>4. RunShape
  BY DEF Init, RunShape
<1> QED BY <1>3, <1>4 DEF TypeAndShape

\* The actions of a run that has nothing left to perform.
LEMMA EndRunShape ==
  ASSUME TypeAndShape, Returning, EndRun, UNCHANGED submitted,
         row' \in State, row'.month = row.month, row'.reminded = row.reminded,
         funded' = funded, due' = due, open' \subseteq Month
  PROVE  TypeAndShape'
<1>1. FundingTypeOK'
  BY NoCommands DEF TypeAndShape, FundingTypeOK, EndRun
<1>2. row # NoState /\ row.month <= today.month
  BY DEF TypeAndShape, RunShape, Returning
<1>3. RunShape'
  BY <1>2 DEF RunShape, EndRun
<1> QED BY <1>1, <1>3 DEF TypeAndShape

LEMMA TypeAndShapeNext == TypeAndShape /\ [Next]_vars => TypeAndShape'
<1> SUFFICES ASSUME TypeAndShape, [Next]_vars PROVE TypeAndShape'
  OBVIOUS
<1> USE DEF TypeAndShape
<1>1. row \in State \cup {NoState} /\ mem \in State \cup {NoState} /\ NoState \notin State
  BY NoStateAssumption DEF FundingTypeOK
<1>2. CASE Load
  <2>1. heard' \in Seq(Command)
    BY <1>2, NoCommands DEF Load, FundingTypeOK
  <2>2. mem' = ApplyCommands(row, heard')
    BY <1>2 DEF Load
  <2>3. /\ mem' \in State \cup {NoState}
        /\ mem' = NoState => row = NoState
        /\ mem' # NoState /\ row # NoState =>
             mem'.month = row.month /\ mem'.reminded = row.reminded
        /\ mem' # NoState /\ row = NoState => mem'.month = today.month
    BY <2>1, <2>2, ApplyType
  <2>4. FundingTypeOK'
    BY <1>2, <2>1, <2>3 DEF Load, FundingTypeOK, pipeline
  <2>5. RunShape'
    BY <1>2, <2>3 DEF Load, RunShape, pipeline
  <2> QED BY <2>4, <2>5
<1>3. CASE Checkpoint
  <2> DEFINE s == StateOfMonth(mem)
  <2>1. s \in State /\ (s.month = today.month \/ (mem # NoState /\ s = mem))
    <3>1. StateOfMonth(mem) \in State
      BY StateOfMonthType
    <3>2. MonthBegins(mem) => StateOfMonth(mem).month = today.month
      BY StateOfMonthType
    <3>3. ~MonthBegins(mem) => mem # NoState /\ StateOfMonth(mem) = mem
      BY StateOfMonthType
    <3> QED BY <3>1, <3>2, <3>3
  <2>2. mem' = Decided(s) /\ row' = mem'
    BY <1>3 DEF Checkpoint
  <2>3. mem' \in State /\ mem'.month = s.month
    BY <2>1, <2>2, DecidedType
  <2>4. told' \in [paused : BOOLEAN, discontinued : BOOLEAN]
    BY <1>3, AfterTold DEF Checkpoint, FundingTypeOK
  <2>5. pool' \in BOOLEAN /\ duties' \subseteq Effect
    BY <1>3, <2>1, DecidedType DEF Checkpoint, FundingTypeOK
  <2>6. FundingTypeOK'
    BY <1>3, <2>2, <2>3, <2>4, <2>5 DEF Checkpoint, FundingTypeOK, pipeline
  <2>7. mem'.month <= today.month
    <3>1. today.month \in Nat
      BY CalendarAssumption DEF FundingTypeOK
    <3>2. mem # NoState /\ row # NoState => mem.month = row.month /\ row.month <= today.month
      BY DEF RunShape
    <3>3. mem # NoState /\ row = NoState => mem.month = today.month
      BY DEF RunShape
    <3> QED BY <2>1, <2>3, <3>1, <3>2, <3>3
  <2>8. mem' # NoState
    BY <1>1, <2>3
  <2>9. RunShape'
    BY <1>3, <2>2, <2>7, <2>8 DEF Checkpoint, RunShape
  <2> QED BY <2>6, <2>9
<1>4. ASSUME NEW e \in Effect, Perform(e) PROVE TypeAndShape'
  <2>1. mem \in State /\ mem.month \in Month
    BY <1>1, <1>4 DEF Perform, RunShape, State
  <2>2. done' \in [Effect -> [Month -> Nat]]
    <3>1. done' = [done EXCEPT ![e] = [done[e] EXCEPT ![mem.month] = @ + 1]]
      BY <1>4 DEF Perform
    <3>0. done[e] \in [Month -> Nat]
      BY DEF FundingTypeOK
    <3>4. done[e][mem.month] \in Nat
      BY <2>1, <3>0
    <3>2. done[e][mem.month] + 1 \in Nat
      BY <3>4
    <3>3. [done[e] EXCEPT ![mem.month] = @ + 1] \in [Month -> Nat]
      BY <2>1, <3>0, <3>2
    <3> QED BY <3>1, <3>3 DEF FundingTypeOK
  <2>3. FundingTypeOK'
    BY <1>4, <2>2 DEF Perform, FundingTypeOK, pipeline
  <2>4. RunShape'
    BY <1>4 DEF Perform, RunShape, pipeline
  <2> QED BY <2>3, <2>4
<1>5. CASE ReturnWithoutOrders
  <2>1. row \in State
    BY <1>1, <1>5 DEF ReturnWithoutOrders, Returning, RunShape
  <2>2. Returning /\ EndRun /\ row' = row /\ funded' = funded /\ open' = open
        /\ submitted' = submitted /\ due' = due
    BY <1>5 DEF ReturnWithoutOrders, pipeline
  <2>3. open' \subseteq Month
    BY <2>2 DEF FundingTypeOK
  <2> QED BY <2>1, <2>2, <2>3, EndRunShape
<1>6. CASE ProposeOrders
  <2>1. row \in State /\ mem \in State
    BY <1>1, <1>6 DEF ProposeOrders, Returning, RunShape
  <2>2. Returning /\ EndRun /\ row' = row /\ funded' = funded
        /\ submitted' = submitted /\ due' = due
    BY <1>6 DEF ProposeOrders
  <2>3. open' \subseteq Month
    BY <1>6, <2>1 DEF ProposeOrders, FundingTypeOK, State
  <2> QED BY <2>1, <2>2, <2>3, EndRunShape
<1>7. CASE NothingToBuy
  <2>1. mem \in State /\ row # NoState /\ mem.month = row.month /\ mem.reminded = row.reminded
    BY <1>1, <1>7 DEF NothingToBuy, Returning, RunShape
  <2>2. /\ row' \in State /\ row'.month = row.month /\ row'.reminded = row.reminded
    BY <1>7, <2>1, MarkCompleteType DEF NothingToBuy
  <2> QED BY <1>7, <2>2, EndRunShape DEF NothingToBuy, pipeline, FundingTypeOK
<1>8. CASE Crash
  BY <1>1, <1>8, NoCommands DEF Crash, EndRun, RunShape, pipeline, FundingTypeOK
<1>9. ASSUME NEW c \in Month, Submit(c) \/ Fail(c) PROVE TypeAndShape'
  <2>1. /\ open' \subseteq Month /\ submitted' \subseteq Month
        /\ due' \subseteq [cycle : Month, ok : BOOLEAN]
    <3>1. \A ok \in BOOLEAN : [cycle |-> c, ok |-> ok] \in [cycle : Month, ok : BOOLEAN]
      OBVIOUS
    <3>2. /\ open' \subseteq Month /\ submitted' \subseteq Month
      BY <1>9 DEF Submit, Fail, FundingTypeOK
    <3>3. \/ due' = due \cup {[cycle |-> c, ok |-> TRUE]}
          \/ due' = due \cup {[cycle |-> c, ok |-> FALSE]}
      BY <1>9 DEF Submit, Fail
    <3>4. due \subseteq [cycle : Month, ok : BOOLEAN]
      BY DEF FundingTypeOK
    <3>5. due' \subseteq [cycle : Month, ok : BOOLEAN]
      BY <3>1, <3>3, <3>4
    <3> QED BY <3>2, <3>5
  <2>2. FundingTypeOK'
    BY <1>9, <2>1 DEF Submit, Fail, run, FundingTypeOK
  <2>3. RunShape'
    BY <1>9 DEF Submit, Fail, run, RunShape
  <2> QED BY <2>2, <2>3
<1>10. ASSUME NEW o \in due, Confirm(o) PROVE TypeAndShape'
  <2>1. o.ok \in BOOLEAN
    BY DEF FundingTypeOK
  <2>2. row' \in State \cup {NoState} /\ (row' = NoState <=> row = NoState)
    BY <1>1, <1>10, <2>1, MarkCompleteType DEF Confirm
  <2>3. row # NoState => row'.month = row.month /\ row'.reminded = row.reminded
    BY <1>1, <1>10, <2>1, MarkCompleteType DEF Confirm
  <2>4. FundingTypeOK'
    BY <1>10, <2>2 DEF Confirm, run, FundingTypeOK
  <2>5. RunShape'
    BY <1>10, <2>2, <2>3 DEF Confirm, run, RunShape
  <2> QED BY <2>4, <2>5
<1>11. CASE LoseResults
  BY <1>11 DEF LoseResults, run, RunShape, FundingTypeOK
<1>12. CASE Tomorrow
  <2>1. today' \in [month : Month, day : 1..LastDay] /\ today.month <= today'.month
    BY <1>12, CalendarAssumption DEF Tomorrow, FundingTypeOK
  <2>2. FundingTypeOK'
    BY <1>12, <2>1 DEF Tomorrow, run, pipeline, FundingTypeOK
  <2>3. row # NoState => row.month <= today'.month
    BY <1>1, <2>1 DEF RunShape, FundingTypeOK, State
  <2>4. RunShape'
    BY <1>12, <2>3 DEF Tomorrow, run, RunShape
  <2> QED BY <2>2, <2>4
<1>13. CASE CashChanges
  BY <1>13 DEF CashChanges, run, pipeline, RunShape, FundingTypeOK
<1>14. ASSUME NEW c \in Command, SendCommand(c) PROVE TypeAndShape'
  BY <1>14 DEF SendCommand, run, pipeline, RunShape, FundingTypeOK
<1>15. CASE ForgetCommand
  BY <1>15 DEF ForgetCommand, run, pipeline, RunShape, FundingTypeOK
<1>16. CASE UNCHANGED vars
  BY <1>16 DEF vars, RunShape, FundingTypeOK
<1> QED
  BY <1>2, <1>3, <1>4, <1>5, <1>6, <1>7, <1>8, <1>9, <1>10, <1>11, <1>12, <1>13,
     <1>14, <1>15, <1>16
  DEF Next, Run, Caller, World

\* Every variable keeps the shape its code gives it, whatever the calendar and
\* the order in which runs, caller and operator act.
THEOREM FundingTypeCorrect == Spec => []FundingTypeOK
<1>1. TypeAndShape => FundingTypeOK
  BY DEF TypeAndShape
<1> QED BY <1>1, TypeAndShapeInit, TypeAndShapeNext, PTL DEF Spec

-----------------------------------------------------------------------------
(* Side effects.                                                           *)

EffectsInv == TypeAndShape /\ EffectsRecorded /\ EffectsAtMostOnce

\* A step that performs no effect, decides on none and keeps what the row says
\* of the month.
LEMMA EffectsFrame ==
  ASSUME EffectsRecorded, EffectsAtMostOnce, done' = done,
         \/ row' = row
         \/ /\ row # NoState /\ row' # NoState
            /\ row'.month = row.month /\ row'.reminded = row.reminded,
         duties' = {} \/ (duties' = duties /\ mem' = mem)
  PROVE  EffectsRecorded' /\ EffectsAtMostOnce'
BY DEF EffectsRecorded, EffectsAtMostOnce

\* What a run decides to do has not been done for its month.
LEMMA CheckpointEffects ==
  ASSUME EffectsInv, Checkpoint
  PROVE  EffectsRecorded'
<1> USE DEF EffectsInv, TypeAndShape
<1> DEFINE s == StateOfMonth(mem)
<1>1. s \in State
  BY StateOfMonthType
<1>2. row' = Decided(s) /\ mem' = Decided(s) /\ done' = done
  BY DEF Checkpoint
<1>3. /\ Decided(s) \in State /\ Decided(s).month = s.month
      /\ Decided(s).reminded = (s.reminded \/ Reminds(s))
  BY <1>1, DecidedType
<1>4. /\ row \in State \cup {NoState} /\ mem \in State \cup {NoState} /\ NoState \notin State
      /\ today.month \in Nat
      /\ \A e \in Effect, m \in Month : done[e][m] \in Nat
  BY NoStateAssumption, CalendarAssumption DEF FundingTypeOK
<1>5. row # NoState => row.month \in Nat /\ row.month <= today.month
  BY <1>4 DEF RunShape, State
<1>6. MonthBegins(mem) =>
        s.month = today.month /\ (row # NoState => row.month < s.month)
  <2> SUFFICES ASSUME MonthBegins(mem)
               PROVE  s.month = today.month /\ (row # NoState => row.month < s.month)
    OBVIOUS
  <2>1. s.month = today.month
    BY StateOfMonthType
  <2>2. row # NoState => mem # NoState
    BY DEF RunShape, Checkpoint
  <2>3. row # NoState => row.month = mem.month
    BY <2>2 DEF RunShape
  <2>4. mem # NoState => mem.month # today.month
    BY DEF MonthBegins
  <2> QED BY <2>1, <2>2, <2>3, <2>4, <1>5, <1>4
<1>7. ~MonthBegins(mem) =>
        /\ s = mem /\ mem # NoState
        /\ row # NoState => row.month = s.month /\ row.reminded = s.reminded
  BY StateOfMonthType DEF RunShape
<1>8. \A e \in Effect, m \in Month : done[e][m] > 0 =>
        row # NoState /\ m <= row.month
  BY DEF EffectsRecorded
<1>9. \A m \in Month : done["reminder"][m] > 0 /\ m = row.month => row.reminded
  BY DEF EffectsRecorded
<1>10. s.month \in Month
  BY <1>1 DEF State
<1>11. MonthBegins(mem) => \A e \in Effect : done[e][s.month] = 0
  BY <1>4, <1>5, <1>6, <1>8, <1>10
<1>12. Reminds(s) => done["reminder"][s.month] = 0
  <2>1. ~MonthBegins(mem) /\ ~s.reminded => done["reminder"][s.month] = 0
    BY <1>4, <1>7, <1>8, <1>9, <1>10
  <2> QED BY <2>1, <1>11 DEF Reminds
<1>13. \A e \in duties' : done[e][s.month] = 0
  BY <1>11, <1>12 DEF Checkpoint
<1>14. "reminder" \in duties' => Decided(s).reminded
  BY <1>3 DEF Checkpoint
<1>15. ASSUME NEW e \in Effect, NEW m \in Month, done[e][m] > 0
       PROVE  m <= s.month /\ (e = "reminder" /\ m = s.month => Decided(s).reminded)
  <2>1. row # NoState /\ m <= row.month
    BY <1>8, <1>15
  <2>2. CASE MonthBegins(mem)
    BY <2>1, <2>2, <1>5, <1>6, <1>4
  <2>3. CASE ~MonthBegins(mem)
    BY <2>1, <2>3, <1>3, <1>7, <1>9, <1>15
  <2> QED BY <2>2, <2>3
<1>16. Decided(s) # NoState
  BY <1>3, <1>4
<1>17. \A e \in Effect, m \in Month : done'[e][m] > 0 =>
         /\ row' # NoState /\ m <= row'.month
         /\ e = "reminder" /\ m = row'.month => row'.reminded
  BY <1>2, <1>3, <1>15, <1>16
<1>18. \A e \in duties' : done'[e][mem'.month] = 0
  BY <1>2, <1>3, <1>13
<1>19. "reminder" \in duties' => row'.reminded
  BY <1>2, <1>14
<1> QED BY <1>17, <1>18, <1>19 DEF EffectsRecorded

LEMMA PerformEffects ==
  ASSUME EffectsInv, NEW e \in Effect, Perform(e)
  PROVE  EffectsRecorded' /\ EffectsAtMostOnce'
<1> USE DEF EffectsInv, TypeAndShape
<1>1. /\ mem # NoState /\ row # NoState /\ mem.month = row.month /\ mem.month \in Month
  BY NoStateAssumption DEF Perform, RunShape, FundingTypeOK, State
<1>2. done[e][mem.month] = 0 /\ (e = "reminder" => row.reminded)
  BY DEF EffectsRecorded, Perform
<1>3. done \in [Effect -> [Month -> Nat]]
  BY DEF FundingTypeOK
<1>4. done' = [done EXCEPT ![e] = [done[e] EXCEPT ![mem.month] = @ + 1]]
  BY DEF Perform
<1>5. \A f \in Effect, m \in Month :
        done'[f][m] = IF f = e /\ m = mem.month THEN 1 ELSE done[f][m]
  <2>1. \A f \in Effect :
          done'[f] = IF f = e THEN [done[e] EXCEPT ![mem.month] = @ + 1] ELSE done[f]
    BY <1>3, <1>4
  <2>2. DOMAIN done[e] = Month
    BY <1>3
  <2>3. \A m \in Month : [done[e] EXCEPT ![mem.month] = @ + 1][m] =
          IF m = mem.month THEN done[e][mem.month] + 1 ELSE done[e][m]
    BY <1>1, <2>2
  <2>4. done[e][mem.month] + 1 = 1
    BY <1>2
  <2> QED BY <2>1, <2>3, <2>4
<1>6. row' = row /\ mem' = mem /\ duties' = duties \ {e}
  BY DEF Perform
<1>7. EffectsAtMostOnce'
  BY <1>5 DEF EffectsAtMostOnce
<1>8. row.month \in Nat
  BY <1>1
<1>9. \A f \in Effect, m \in Month : done'[f][m] > 0 =>
         /\ row' # NoState /\ m <= row'.month
         /\ f = "reminder" /\ m = row'.month => row'.reminded
  BY <1>1, <1>2, <1>5, <1>6, <1>8 DEF EffectsRecorded
<1>10. duties \subseteq Effect
  BY DEF FundingTypeOK
<1>11. \A f \in duties' : done'[f][mem'.month] = 0
  BY <1>1, <1>5, <1>6, <1>10 DEF EffectsRecorded
<1>12. "reminder" \in duties' => row'.reminded
  BY <1>6 DEF EffectsRecorded
<1> QED BY <1>7, <1>9, <1>11, <1>12 DEF EffectsRecorded

LEMMA EffectsInit == Init => EffectsInv
<1> SUFFICES ASSUME Init PROVE EffectsInv
  OBVIOUS
<1>1. \A e \in Effect, m \in Month : done[e][m] = 0
  BY DEF Init
<1>2. EffectsRecorded
  BY <1>1 DEF Init, EffectsRecorded
<1> QED BY <1>1, <1>2, TypeAndShapeInit DEF EffectsInv, EffectsAtMostOnce

LEMMA EffectsNext == EffectsInv /\ [Next]_vars => EffectsInv'
<1> SUFFICES ASSUME EffectsInv, [Next]_vars PROVE EffectsInv'
  OBVIOUS
<1> USE DEF EffectsInv
<1>0. TypeAndShape'
  BY TypeAndShapeNext
<1>1. mem \in State \cup {NoState} /\ row \in State \cup {NoState} /\ NoState \notin State
  BY NoStateAssumption DEF TypeAndShape, FundingTypeOK
<1>2. CASE Checkpoint
  BY <1>0, <1>2, CheckpointEffects DEF Checkpoint, EffectsAtMostOnce
<1>3. ASSUME NEW e \in Effect, Perform(e) PROVE EffectsInv'
  BY <1>0, <1>3, PerformEffects
<1>4. CASE Load
  BY <1>0, <1>4, EffectsFrame DEF Load, TypeAndShape, RunShape
<1>5. CASE ReturnWithoutOrders \/ ProposeOrders \/ Crash
  BY <1>0, <1>5, EffectsFrame DEF ReturnWithoutOrders, ProposeOrders, Crash, EndRun
<1>6. CASE NothingToBuy
  <2>1. mem \in State /\ row # NoState /\ mem.month = row.month /\ mem.reminded = row.reminded
    BY <1>1, <1>6 DEF NothingToBuy, Returning, TypeAndShape, RunShape
  <2>2. row' \in State /\ row'.month = row.month /\ row'.reminded = row.reminded
    BY <1>6, <2>1, MarkCompleteType DEF NothingToBuy
  <2> QED BY <1>0, <1>1, <1>6, <2>1, <2>2, EffectsFrame DEF NothingToBuy, EndRun
<1>7. ASSUME NEW c \in Month, Submit(c) \/ Fail(c) PROVE EffectsInv'
  BY <1>0, <1>7, EffectsFrame DEF Submit, Fail, run
<1>8. ASSUME NEW o \in due, Confirm(o) PROVE EffectsInv'
  <2>1. o.ok \in BOOLEAN
    BY DEF TypeAndShape, FundingTypeOK
  <2>2. row = NoState => row' = row
    BY <1>8 DEF Confirm
  <2>3. row # NoState => row' \in State /\ row'.month = row.month /\ row'.reminded = row.reminded
    BY <1>1, <1>8, <2>1, MarkCompleteType DEF Confirm
  <2> QED BY <1>0, <1>1, <1>8, <2>2, <2>3, EffectsFrame DEF Confirm, run
<1>9. CASE LoseResults
  BY <1>0, <1>9, EffectsFrame DEF LoseResults, run
<1>10. CASE World
  <2>1. done' = done /\ row' = row /\ duties' = duties /\ mem' = mem
    BY <1>10 DEF World, Tomorrow, CashChanges, ForgetCommand, SendCommand, run
  <2> QED BY <1>0, <2>1, EffectsFrame
<1>11. CASE UNCHANGED vars
  BY <1>0, <1>11, EffectsFrame DEF vars
<1> QED
  BY <1>2, <1>3, <1>4, <1>5, <1>6, <1>7, <1>8, <1>9, <1>10, <1>11 DEF Next, Run, Caller

\* A month is announced and its reminder sent at most once each, however often
\* runs die and are repeated, in any number of months.
THEOREM EffectsCorrect == Spec => []EffectsAtMostOnce
<1>1. EffectsInv => EffectsAtMostOnce
  BY DEF EffectsInv
<1> QED BY <1>1, EffectsInit, EffectsNext, PTL DEF Spec

-----------------------------------------------------------------------------
(* Commands, for a port that returns Command members.                      *)

CommandsInv == TypeAndShape /\ CommandsRecorded /\ CommandsAreObeyed

\* A step of a run or of the world that leaves commands and flags alone.
LEMMA CommandsFrame ==
  ASSUME CommandsRecorded, CommandsAreObeyed, told' = told,
         \/ row' = row
         \/ row # NoState /\ row' # NoState /\ FlagsAgree(row', row),
         pc' # "loaded" \/ (pc' = pc /\ mem' = mem /\ heard' = heard),
         pool' => pool /\ mem' = mem
  PROVE  CommandsRecorded' /\ CommandsAreObeyed'
BY DEF CommandsRecorded, CommandsAreObeyed, FlagsAgree

LEMMA LoadCommands ==
  ASSUME EnumCommands, CommandsInv, Load
  PROVE  CommandsRecorded' /\ CommandsAreObeyed'
<1> USE DEF CommandsInv, TypeAndShape
<1>1. /\ row \in State \cup {NoState} /\ NoState \notin State
      /\ told \in [paused : BOOLEAN, discontinued : BOOLEAN]
  BY NoStateAssumption DEF FundingTypeOK
<1>2. heard' \in Seq(Command) /\ mem' = ApplyCommands(row, heard')
  BY NoCommands DEF Load, FundingTypeOK
<1>3. /\ row' = row /\ told' = told /\ pc' = "loaded" /\ pool' = pool /\ ~pool
  BY DEF Load, RunShape
<1>4. ASSUME mem' # NoState PROVE FlagsAgree(mem', After(told, heard'))
  <2>1. CASE heard' = <<>>
    <3>1. mem' = row /\ row # NoState
      BY <1>2, <1>4, <2>1 DEF ApplyCommands
    <3>2. FlagsAgree(row, told)
      BY <3>1 DEF CommandsRecorded
    <3>3. FlagsAgree(After(told, <<>>), told)
      BY <1>1, AfterNothing
    <3> QED BY <2>1, <3>1, <3>2, <3>3 DEF FlagsAgree
  <2>2. CASE heard' # <<>> /\ row # NoState
    <3>1. mem' = After(row, heard')
      BY <1>2, <2>2 DEF ApplyCommands, Recognised
    <3>2. row \in State /\ FlagsAgree(row, told)
      BY <1>1, <2>2 DEF CommandsRecorded
    <3> QED BY <1>1, <1>2, <3>1, <3>2, AfterAgrees
  <2>3. CASE heard' # <<>> /\ row = NoState
    <3> DEFINE s == Fresh(FALSE, FALSE)
    <3>1. mem' = After(s, heard')
      BY <1>2, <2>3 DEF ApplyCommands, Recognised
    <3>2. s \in State /\ s.paused = FALSE /\ s.discontinued = FALSE
      BY FreshType
    <3>3. told.paused = FALSE /\ told.discontinued = FALSE
      BY <1>1, <2>3 DEF CommandsRecorded
    <3>4. FlagsAgree(s, told)
      BY <3>2, <3>3 DEF FlagsAgree
    <3> QED BY <1>1, <1>2, <3>1, <3>2, <3>4, AfterAgrees
  <2> QED BY <2>1, <2>2, <2>3
<1>5. mem' = NoState => heard' = <<>>
  BY <1>2, ApplyType
<1>6. CommandsRecorded'
  BY <1>3, <1>4, <1>5 DEF CommandsRecorded
<1> QED BY <1>3, <1>6 DEF CommandsAreObeyed

LEMMA CheckpointCommands ==
  ASSUME CommandsInv, Checkpoint
  PROVE  CommandsRecorded' /\ CommandsAreObeyed'
<1> USE DEF CommandsInv, TypeAndShape
<1> DEFINE s == StateOfMonth(mem)
<1>1. told \in [paused : BOOLEAN, discontinued : BOOLEAN] /\ heard \in Seq(Command)
      /\ NoState \notin State
  BY NoStateAssumption DEF FundingTypeOK
<1>2. s \in State
  BY StateOfMonthType
<1>3. told' = After(told, heard) /\ row' = Decided(s) /\ mem' = Decided(s)
      /\ pc' = "saved" /\ pool' = (ChecksFunds(s) /\ funded)
  BY DEF Checkpoint
<1>4. FlagsAgree(Decided(s), s) /\ Decided(s) \in State
  BY <1>2, DecidedType
<1>5. FlagsAgree(s, After(told, heard))
  <2>1. CASE mem = NoState
    <3>1. s.paused = FALSE /\ s.discontinued = FALSE
      BY <2>1, <1>2, StateOfMonthType DEF State
    <3>2. heard = <<>> /\ row = NoState
      BY <2>1 DEF CommandsRecorded, RunShape, Checkpoint
    <3>3. told.paused = FALSE /\ told.discontinued = FALSE
      BY <1>1, <3>2 DEF CommandsRecorded
    <3>4. FlagsAgree(After(told, <<>>), told)
      BY <1>1, AfterNothing
    <3> QED BY <3>1, <3>2, <3>3, <3>4 DEF FlagsAgree
  <2>2. CASE mem # NoState
    <3>1. FlagsAgree(s, mem)
      BY <2>2, StateOfMonthType
    <3>2. FlagsAgree(mem, After(told, heard))
      BY <2>2 DEF CommandsRecorded, Checkpoint
    <3> QED BY <3>1, <3>2 DEF FlagsAgree
  <2> QED BY <2>1, <2>2
<1>6. FlagsAgree(row', told') /\ FlagsAgree(mem', told') /\ row' # NoState
  BY <1>1, <1>3, <1>4, <1>5 DEF FlagsAgree
<1>7. pool' => ~mem'.paused /\ ~mem'.discontinued
  BY <1>3, <1>4 DEF ChecksFunds, FlagsAgree
<1> QED BY <1>3, <1>6, <1>7 DEF CommandsRecorded, CommandsAreObeyed, FlagsAgree

LEMMA CommandsInit == Init => CommandsInv
BY TypeAndShapeInit DEF Init, CommandsInv, CommandsRecorded, CommandsAreObeyed

LEMMA CommandsNext ==
  ASSUME EnumCommands
  PROVE  CommandsInv /\ [Next]_vars => CommandsInv'
<1> SUFFICES ASSUME CommandsInv, [Next]_vars PROVE CommandsInv'
  OBVIOUS
<1> USE DEF CommandsInv
<1>0. TypeAndShape'
  BY TypeAndShapeNext
<1>1. mem \in State \cup {NoState} /\ row \in State \cup {NoState} /\ NoState \notin State
  BY NoStateAssumption DEF TypeAndShape, FundingTypeOK
<1>2. CASE Load
  BY <1>0, <1>2, LoadCommands
<1>3. CASE Checkpoint
  BY <1>0, <1>3, CheckpointCommands
<1>4. ASSUME NEW e \in Effect, Perform(e) PROVE CommandsInv'
  BY <1>0, <1>4, CommandsFrame DEF Perform
<1>5. CASE ReturnWithoutOrders \/ ProposeOrders \/ Crash
  BY <1>0, <1>5, CommandsFrame DEF ReturnWithoutOrders, ProposeOrders, Crash, EndRun
<1>6. CASE NothingToBuy
  <2>1. mem \in State /\ row # NoState /\ FlagsAgree(row, told) /\ FlagsAgree(mem, told)
    BY <1>1, <1>6 DEF NothingToBuy, Returning, TypeAndShape, RunShape, CommandsRecorded
  <2>2. row' \in State /\ FlagsAgree(row', mem)
    BY <1>6, <2>1, MarkCompleteType DEF NothingToBuy
  <2>3. FlagsAgree(row', row)
    BY <2>1, <2>2 DEF FlagsAgree
  <2> QED BY <1>0, <1>1, <1>6, <2>1, <2>2, <2>3, CommandsFrame DEF NothingToBuy, EndRun
<1>7. ASSUME NEW c \in Month, Submit(c) \/ Fail(c) PROVE CommandsInv'
  BY <1>0, <1>7, CommandsFrame DEF Submit, Fail, run
<1>8. ASSUME NEW o \in due, Confirm(o) PROVE CommandsInv'
  <2>1. o.ok \in BOOLEAN
    BY DEF TypeAndShape, FundingTypeOK
  <2>2. row = NoState => row' = row
    BY <1>8 DEF Confirm
  <2>3. row # NoState => row' \in State /\ FlagsAgree(row', row)
    BY <1>1, <1>8, <2>1, MarkCompleteType DEF Confirm
  <2> QED BY <1>0, <1>1, <1>8, <2>2, <2>3, CommandsFrame DEF Confirm, run
<1>9. CASE LoseResults
  BY <1>0, <1>9, CommandsFrame DEF LoseResults, run
<1>10. CASE World
  <2>1. UNCHANGED <<told, row, pc, mem, heard, pool>>
    BY <1>10 DEF World, Tomorrow, CashChanges, ForgetCommand, SendCommand, run
  <2> QED BY <1>0, <2>1, CommandsFrame
<1>11. CASE UNCHANGED vars
  BY <1>0, <1>11, CommandsFrame DEF vars
<1> QED
  BY <1>2, <1>3, <1>4, <1>5, <1>6, <1>7, <1>8, <1>9, <1>10, <1>11 DEF Next, Run, Caller

\* With a port that returns Command members, no run proposes orders against
\* the commands given so far, however many were given and however runs died.
THEOREM CommandsCorrect ==
  ASSUME EnumCommands
  PROVE  Spec => []CommandsAreObeyed
<1>1. CommandsInv => CommandsAreObeyed
  BY DEF CommandsInv
<1> QED BY <1>1, CommandsInit, CommandsNext, PTL DEF Spec

-----------------------------------------------------------------------------
(* Months, for a caller that confirms before the next daily run.           *)

MonthInv == TypeAndShape /\ OneCycleInHand /\ NoMonthSkipped

MonthDone == row # NoState /\ row.funding = "IDLE"

DoneStays == MonthDone => row'.month # row.month \/ row'.funding = "IDLE"

\* A step that leaves the cycle in hand alone, or drops it.
LEMMA MonthFrame ==
  ASSUME MonthInv, row' = row, submitted' = submitted,
         \/ open' = open /\ due' = due
         \/ open' = {} /\ due' = {},
         \/ pc' = pc /\ mem' = mem /\ pool' = pool
         \/ pc' = "idle" /\ mem' = NoState /\ pool' = FALSE
  PROVE  OneCycleInHand' /\ NoMonthSkipped' /\ DoneStays
BY DEF MonthInv, OneCycleInHand, NoMonthSkipped, DoneStays, MonthDone

LEMMA MonthInit == Init => MonthInv
BY TypeAndShapeInit DEF Init, MonthInv, OneCycleInHand, NoMonthSkipped

LEMMA MonthNext ==
  ASSUME ConfirmsInTime
  PROVE  MonthInv /\ [Next]_vars => MonthInv' /\ DoneStays
<1> SUFFICES ASSUME MonthInv, [Next]_vars PROVE MonthInv' /\ DoneStays
  OBVIOUS
<1> USE DEF MonthInv
<1>0. TypeAndShape'
  BY TypeAndShapeNext
<1>1. mem \in State \cup {NoState} /\ row \in State \cup {NoState} /\ NoState \notin State
  BY NoStateAssumption DEF TypeAndShape, FundingTypeOK
<1>2. CASE Load
  <2>1. /\ open = {} /\ due = {} /\ ~pool
        /\ UNCHANGED <<row, pool, open, due, submitted>>
    BY <1>2 DEF Load, pipeline, TypeAndShape, RunShape
  <2>2. heard' \in Seq(Command) /\ mem' = ApplyCommands(row, heard')
    BY <1>2, NoCommands DEF Load, TypeAndShape, FundingTypeOK
  <2>3. /\ mem' # NoState /\ row # NoState => mem'.funding = row.funding
        /\ mem' # NoState /\ row = NoState => mem'.funding = "AWAITING_FUNDS"
    BY <2>2, ApplyType DEF TypeAndShape
  <2>4. OneCycleInHand'
    BY <2>1, <2>3 DEF OneCycleInHand
  <2>5. NoMonthSkipped' /\ DoneStays
    BY <2>1 DEF NoMonthSkipped, DoneStays, MonthDone
  <2> QED BY <1>0, <2>4, <2>5
<1>3. CASE Checkpoint
  <2> DEFINE s == StateOfMonth(mem)
  <2>1. s \in State /\ MonthBegins(mem) \in BOOLEAN
    BY StateOfMonthType DEF TypeAndShape, MonthBegins
  <2>2. row' = Decided(s) /\ mem' = Decided(s) /\ pool' = (ChecksFunds(s) /\ funded)
    BY <1>3 DEF Checkpoint
  <2>3. open = {} /\ due = {} /\ open' = {} /\ due' = {} /\ submitted' = submitted
    BY <1>3 DEF Checkpoint, pipeline, OneCycleInHand
  <2>4. /\ Decided(s) \in State /\ Decided(s).month = s.month
        /\ Decided(s).funding = IF ChecksFunds(s) /\ funded THEN "EXECUTING" ELSE s.funding
    BY <2>1, DecidedType DEF TypeAndShape
  <2>5. MonthBegins(mem) => s.month = today.month /\ s.funding = "AWAITING_FUNDS"
    BY StateOfMonthType DEF TypeAndShape
  <2>6. ~MonthBegins(mem) => mem # NoState /\ s = mem
    BY StateOfMonthType DEF TypeAndShape
  <2>7. row # NoState => mem # NoState /\ mem.month = row.month /\ mem.funding = row.funding
    BY <1>3 DEF Checkpoint, OneCycleInHand, TypeAndShape, RunShape
  <2>8. mem # NoState /\ row = NoState => mem.funding = "AWAITING_FUNDS"
    BY DEF OneCycleInHand
  <2>9. OneCycleInHand'
    BY <1>1, <2>2, <2>3, <2>4 DEF OneCycleInHand
  <2>10. s.funding = "IDLE" => row # NoState /\ row.funding = "IDLE" /\ s.month = row.month
    BY <2>5, <2>6, <2>7, <2>8
  <2>11. NoMonthSkipped'
    BY <2>2, <2>3, <2>4, <2>10 DEF NoMonthSkipped
  <2>12. ASSUME MonthDone, row'.month = row.month PROVE row'.funding = "IDLE"
    <3>1. mem # NoState /\ mem.month = row.month /\ mem.funding = "IDLE"
      BY <2>7, <2>12 DEF MonthDone
    <3>2. ~MonthBegins(mem)
      BY <2>2, <2>4, <2>5, <2>12, <3>1 DEF MonthBegins
    <3>3. s.funding = "IDLE" /\ ~ChecksFunds(s)
      BY <2>6, <3>1, <3>2 DEF ChecksFunds
    <3> QED BY <2>2, <2>4, <3>3
  <2> QED BY <1>0, <2>9, <2>11, <2>12 DEF DoneStays
<1>4. ASSUME NEW e \in Effect, Perform(e) PROVE MonthInv' /\ DoneStays
  BY <1>0, <1>4, MonthFrame DEF Perform, pipeline
<1>5. CASE ReturnWithoutOrders \/ Crash
  BY <1>0, <1>5, MonthFrame DEF ReturnWithoutOrders, Crash, EndRun, pipeline
<1>6. CASE ProposeOrders
  <2>1. /\ row # NoState /\ mem # NoState /\ mem.month = row.month
        /\ row.funding = "EXECUTING" /\ open = {} /\ due = {}
    BY <1>6 DEF ProposeOrders, Returning, OneCycleInHand, TypeAndShape, RunShape
  <2>2. /\ open' = {row.month} /\ due' = {} /\ row' = row /\ submitted' = submitted
        /\ pc' = "idle" /\ mem' = NoState /\ pool' = FALSE
    BY <1>6, <2>1 DEF ProposeOrders, EndRun
  <2> QED BY <1>0, <2>1, <2>2 DEF OneCycleInHand, NoMonthSkipped, DoneStays, MonthDone
<1>7. CASE NothingToBuy
  <2>1. /\ row # NoState /\ row.funding = "EXECUTING" /\ open = {} /\ due = {}
        /\ mem \in State
    BY <1>1, <1>7 DEF NothingToBuy, Returning, OneCycleInHand, TypeAndShape, RunShape
  <2>2. row' \in State /\ row'.funding = "AWAITING_FUNDS"
    BY <1>7, <2>1, MarkCompleteType DEF NothingToBuy
  <2>3. /\ open' = {} /\ due' = {} /\ submitted' = submitted
        /\ pc' = "idle" /\ mem' = NoState /\ pool' = FALSE
    BY <1>7, <2>1 DEF NothingToBuy, EndRun, pipeline
  <2> QED BY <1>0, <2>1, <2>2, <2>3 DEF OneCycleInHand, NoMonthSkipped, DoneStays, MonthDone
<1>8. ASSUME NEW c \in Month, Submit(c) \/ Fail(c) PROVE MonthInv' /\ DoneStays
  <2>1. /\ due = {} /\ row # NoState /\ open = {c} /\ c = row.month
        /\ row.funding = "EXECUTING" /\ pc = "idle"
    BY <1>8 DEF Submit, Fail, OneCycleInHand, TypeAndShape, FundingTypeOK
  <2>2. mem = NoState /\ ~pool
    BY <2>1 DEF TypeAndShape, RunShape
  <2>3. UNCHANGED <<row, pc, mem, pool>> /\ open' = {}
    BY <1>8, <2>1 DEF Submit, Fail, run
  <2>4. \/ due' = {[cycle |-> c, ok |-> TRUE]} /\ c \in submitted'
        \/ due' = {[cycle |-> c, ok |-> FALSE]}
    BY <1>8, <2>1 DEF Submit, Fail
  <2>5. \A o \in due' : due' = {o} /\ o.cycle = row.month /\ (o.ok => row.month \in submitted')
    <3> DEFINE yes == [cycle |-> c, ok |-> TRUE]
               no  == [cycle |-> c, ok |-> FALSE]
    <3>1. yes.cycle = c /\ no.cycle = c /\ no.ok = FALSE
      OBVIOUS
    <3>2. (due' = {yes} /\ c \in submitted') \/ due' = {no}
      BY <2>4
    <3> HIDE DEF yes, no
    <3> QED BY <2>1, <3>1, <3>2
  <2>6. OneCycleInHand'
    BY <2>1, <2>2, <2>3, <2>5 DEF OneCycleInHand
  <2> QED BY <1>0, <2>1, <2>3, <2>6 DEF NoMonthSkipped, DoneStays, MonthDone
<1>9. ASSUME NEW o \in due, Confirm(o) PROVE MonthInv' /\ DoneStays
  <2>1. /\ o.ok \in BOOLEAN /\ row \in State /\ due = {o} /\ o.cycle = row.month
        /\ pc = "idle" /\ open = {}
        /\ IF o.ok THEN row.month \in submitted ELSE row.funding # "IDLE"
    BY <1>1 DEF OneCycleInHand, TypeAndShape, FundingTypeOK
  <2>2. mem = NoState /\ ~pool
    BY <2>1 DEF TypeAndShape, RunShape
  <2>3. /\ UNCHANGED <<pc, mem, pool, open, submitted>>
        /\ due' = due \/ due' = {}
    BY <1>9, <2>1 DEF Confirm, run
  <2>4. /\ row' \in State /\ row'.month = row.month
        /\ row'.funding = IF o.ok THEN "IDLE" ELSE "AWAITING_FUNDS"
    BY <1>1, <1>9, <2>1, MarkCompleteType DEF Confirm
  <2>5. OneCycleInHand'
    BY <1>1, <2>1, <2>2, <2>3, <2>4 DEF OneCycleInHand
  <2>6. NoMonthSkipped' /\ DoneStays
    BY <1>1, <2>1, <2>3, <2>4 DEF NoMonthSkipped, DoneStays, MonthDone
  <2> QED BY <1>0, <2>5, <2>6
<1>10. CASE LoseResults
  BY <1>0, <1>10, MonthFrame DEF LoseResults, run
<1>11. CASE World
  <2>1. UNCHANGED <<row, submitted, open, due, pc, mem, pool>>
    BY <1>11 DEF World, Tomorrow, CashChanges, ForgetCommand, SendCommand, run, pipeline
  <2> QED BY <1>0, <2>1, MonthFrame
<1>12. CASE UNCHANGED vars
  BY <1>0, <1>12, MonthFrame DEF vars
<1> QED
  BY <1>2, <1>3, <1>4, <1>5, <1>6, <1>7, <1>8, <1>9, <1>10, <1>11, <1>12
  DEF Next, Run, Caller

\* With a caller that confirms before the next daily run, no month passes for
\* done without its orders submitted, whatever dies in between.
THEOREM NoMonthSkippedCorrect ==
  ASSUME ConfirmsInTime
  PROVE  Spec => []NoMonthSkipped
<1>1. MonthInv => NoMonthSkipped
  BY DEF MonthInv
<1> QED BY <1>1, MonthInit, MonthNext, PTL DEF Spec

\* Under the same caller a month that is done is never taken up again.
THEOREM DoneMonthCorrect ==
  ASSUME ConfirmsInTime
  PROVE  Spec => DoneMonthStaysDone
<1>1. MonthInv /\ [Next]_vars => [MonthDone => row'.month # row.month \/ row'.funding = "IDLE"]_vars
  BY MonthNext DEF DoneStays
<1> QED BY <1>1, MonthInit, MonthNext, PTL DEF Spec, DoneMonthStaysDone, MonthDone
=============================================================================
