-------------------------- MODULE PerformanceReport --------------------------
(***************************************************************************)
(* The figures of a report that are computed in one pass over its equity   *)
(* curve: the maximum drawdown, the drawdown episodes and the pairs of     *)
(* points whose values the rolling returns compare.  One step is one point *)
(* of the curve.                                                           *)
(***************************************************************************)
EXTENDS Naturals, Sequences, FiniteSets

CONSTANTS
  CurveValues,       \* what the portfolio may be worth, above 0
  Gaps,              \* days from one point to the next
  MaxPoints,         \* bound: the length of the curve
  MinDrawdownPct,
  WindowDays         \* of rolling_returns

VARIABLES
  curve,             \* the points so far, with date and value
  runningMax, worst, \* max_drawdown: the highest value, the fall furthest below one
  peak, trough,      \* drawdown_episodes: the date of each; no trough out of a drawdown
  episodes,
  startIdx, rolled,  \* rolling_returns: its left index, the pairs of points compared
  reported

reportVars == <<curve, runningMax, worst, peak, trough, episodes, startIdx, rolled, reported>>

None == 0
Date(i) == curve'[i].date
Value(i) == curve'[i].value

(* A fall from one value to another; falls are compared as fractions of    *)
(* the value they start from.                                              *)
Deeper(a, b) == (a.from - a.to) * b.from > (b.from - b.to) * a.from
Counts(fall) == (fall.from - fall.to) * 100 >= MinDrawdownPct * fall.from

Init ==
  /\ curve = <<>>
  /\ runningMax = 0
  /\ worst = [from |-> 1, to |-> 1]
  /\ peak = None
  /\ trough = None
  /\ episodes = {}
  /\ startIdx = 1
  /\ rolled = {}
  /\ reported = FALSE

-----------------------------------------------------------------------------
(* max_drawdown_from_equity_curve                                          *)

ExtendMaximum(value) ==
  LET highest == IF value > runningMax THEN value ELSE runningMax
      fall == [from |-> highest, to |-> value]
  IN  /\ runningMax' = highest
      /\ worst' = IF Deeper(fall, worst) THEN fall ELSE worst

-----------------------------------------------------------------------------
(* drawdown_episodes: points are named by their index.                     *)

Fall(from, to) == [from |-> curve[from].value, to |-> curve[to].value]

Episode(recovery) ==
  IF trough # None /\ Counts(Fall(peak, trough))
  THEN {[peak |-> peak, trough |-> trough, recovery |-> recovery]} ELSE {}

(* As if the trough of the drawdown before were kept.                      *)
ExtendEpisodesKeepingTrough(i, value) ==
  IF peak = None \/ (peak # None /\ value >= curve[peak].value)
  THEN /\ episodes' = episodes \cup Episode(i)
       /\ peak' = i
       /\ UNCHANGED trough
  ELSE /\ trough' = IF trough = None \/ value < curve[trough].value THEN i ELSE trough
       /\ UNCHANGED <<peak, episodes>>

ExtendEpisodes(i, value) ==
  IF peak = None \/ (peak # None /\ value >= curve[peak].value)
  THEN /\ episodes' = episodes \cup Episode(i)
       /\ peak' = i
       /\ trough' = None
  ELSE /\ trough' = IF trough = None \/ value < curve[trough].value THEN i ELSE trough
       /\ UNCHANGED <<peak, episodes>>

-----------------------------------------------------------------------------
(* rolling_returns: the left index only moves forward, to the first point  *)
(* not before the start of the window.                                     *)

WindowStart(i) == Date(i) - WindowDays
Beginning(i) ==
  CHOOSE s \in startIdx..i :
    /\ s = i \/ Date(s) >= WindowStart(i)
    /\ \A before \in startIdx..(s - 1) : Date(before) < WindowStart(i)

ExtendRolling(i) ==
  LET s == Beginning(i)
  IN  /\ startIdx' = s
      /\ rolled' = IF s = i \/ Date(s) > WindowStart(i) THEN rolled ELSE rolled \cup {<<s, i>>}

-----------------------------------------------------------------------------
Point(gap, value) ==
  /\ ~reported
  /\ Len(curve) < MaxPoints
  /\ LET i == Len(curve) + 1
         date == IF curve = <<>> THEN WindowDays ELSE curve[i - 1].date + gap
     IN  /\ curve' = Append(curve, [date |-> date, value |-> value])
         /\ ExtendMaximum(value)
         /\ ExtendEpisodes(i, value)
         /\ ExtendRolling(i)
  /\ UNCHANGED reported

(* What is still a drawdown at the end has no recovery.                    *)
Report ==
  /\ ~reported
  /\ Len(curve) >= 2
  /\ episodes' = episodes \cup Episode(None)
  /\ reported' = TRUE
  /\ UNCHANGED <<curve, runningMax, worst, peak, trough, startIdx, rolled>>

Next == Report \/ \E gap \in Gaps : \E value \in CurveValues : Point(gap, value)

Spec == Init /\ [][Next]_reportVars

-----------------------------------------------------------------------------
(* The figures read off the finished curve.                                *)

Points == DOMAIN curve
V(i) == curve[i].value

(* A peak is a point nothing before exceeds and that a fall follows at     *)
(* once; its drawdown lasts until a value reaches the peak's again.        *)
PeaksOfCurve ==
  {p \in Points : /\ \A k \in 1..(p - 1) : V(k) <= V(p)
                  /\ p + 1 \in Points /\ V(p + 1) < V(p)}
RecoveriesFrom(p) == {r \in Points : r > p /\ V(r) >= V(p)}
RecoveryOf(p) ==
  IF RecoveriesFrom(p) = {} THEN None
  ELSE CHOOSE r \in RecoveriesFrom(p) : \A other \in RecoveriesFrom(p) : r <= other
Below(p) == {i \in Points : i > p /\ \A k \in (p + 1)..i : V(k) < V(p)}
TroughOf(p) ==
  CHOOSE t \in Below(p) : /\ \A i \in Below(p) : V(t) <= V(i)
                          /\ \A i \in Below(p) : V(i) = V(t) => t <= i

EpisodesOfCurve ==
  {[peak |-> p, trough |-> TroughOf(p), recovery |-> RecoveryOf(p)] :
     p \in {q \in PeaksOfCurve : Counts(Fall(q, TroughOf(q)))}}

(* A curve with a point on every day, and the points of any curve that     *)
(* have a whole window behind them.                                        *)
Daily == \A i \in Points : i > 1 => curve[i].date = curve[i - 1].date + 1
HasFullWindow(i) == curve[1].date + WindowDays <= curve[i].date

(* The report agrees with the curve, whatever its order of rises, falls    *)
(* and repeated values: no pair of points falls further than the maximum   *)
(* drawdown and some pair falls as far; the episodes are exactly the       *)
(* drawdowns of the curve that reach the threshold; and a rolling return   *)
(* never compares points less or more than a whole window apart, and on a  *)
(* daily curve is there for each point with a whole window behind it.  (On *)
(* a curve with gaps the code leaves out more: a point whose window begins *)
(* between two points has no return, however long its history.)            *)
ReportMatchesCurve ==
  reported =>
    /\ \A i, j \in Points : i < j => ~Deeper(Fall(i, j), worst)
    /\ worst.to < worst.from => \E i, j \in Points : i < j /\ Fall(i, j) = worst
    /\ episodes = EpisodesOfCurve
    /\ \A pair \in rolled :
         /\ pair \in Points \X Points
         /\ curve[pair[1]].date + WindowDays = curve[pair[2]].date
    /\ Daily => \A j \in Points : HasFullWindow(j) => \E i \in Points : <<i, j>> \in rolled
=============================================================================
