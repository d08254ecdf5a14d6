---------------------------- MODULE ReportProofs ----------------------------
(***************************************************************************)
(* Proofs about the performance report: what its loops know of the curve   *)
(* after any number of points, for every curve with positive values and    *)
(* growing dates.                                                          *)
(***************************************************************************)
EXTENDS ServiceProofs

-----------------------------------------------------------------------------
(* A fall is a fraction of the value it starts from, and fractions are     *)
(* compared by their cross products.                                       *)

LEMMA NoDeeper ==
  ASSUME NEW a \in Int, NEW b \in Int, NEW c \in Int,
         NEW f \in Nat \ {0}, NEW g \in Nat \ {0}, NEW h \in Nat \ {0},
         a * g <= b * f, b * h <= c * g
  PROVE  a * h <= c * f
<1>1. (a * g) * h <= (b * f) * h
  <2>1. \A x, y \in Int : x <= y => x * h <= y * h
    OBVIOUS
  <2>2. a * g \in Int /\ b * f \in Int
    OBVIOUS
  <2> QED BY <2>1, <2>2
<1>2. (b * h) * f <= (c * g) * f
  <2>1. \A x, y \in Int : x <= y => x * f <= y * f
    OBVIOUS
  <2>2. b * h \in Int /\ c * g \in Int
    OBVIOUS
  <2> QED BY <2>1, <2>2
<1>3. /\ (a * g) * h = (a * h) * g /\ (b * f) * h = (b * h) * f /\ (c * g) * f = (c * f) * g
      /\ a * h \in Int /\ c * f \in Int
  OBVIOUS
<1>4. (a * h) * g <= (c * f) * g
  <2>1. (a * h) * g \in Int /\ (b * h) * f \in Int /\ (c * f) * g \in Int
    OBVIOUS
  <2> QED BY <1>1, <1>2, <1>3, <2>1
<1>5. \A x, y \in Int : x * g <= y * g => x <= y
  <2> SUFFICES ASSUME NEW x \in Int, NEW y \in Int, x > y PROVE x * g > y * g
    OBVIOUS
  <2>1. PICK d \in Nat \ {0} : x = y + d
    <3>1. x - y \in Nat \ {0} /\ x = y + (x - y)
      OBVIOUS
    <3> QED BY <3>1
  <2>2. x * g = y * g + d * g
    BY <2>1
  <2>3. d * g > 0 /\ y * g \in Int /\ d * g \in Int
    OBVIOUS
  <2> QED BY <2>2, <2>3
<1> QED BY <1>3, <1>4, <1>5

\* From a higher value the same end is the deeper fall.
LEMMA FromHigher ==
  ASSUME NEW v \in Nat \ {0}, NEW from \in Nat \ {0}, NEW high \in Nat \ {0}, from <= high
  PROVE  (from - v) * high <= (high - v) * from
<1>1. (from - v) * high = from * high - v * high /\ (high - v) * from = high * from - v * from
  OBVIOUS
<1>2. v * from <= v * high
  <2>1. PICK d \in Nat : high = from + d
    <3>1. high - from \in Nat /\ high = from + (high - from)
      OBVIOUS
    <3> QED BY <3>1
  <2>2. v * high = v * from + v * d /\ v * d \in Nat /\ v * from \in Nat
    BY <2>1
  <2> QED BY <2>2
<1>3. from * high = high * from /\ from * high \in Int /\ v * high \in Int /\ v * from \in Int
  OBVIOUS
<1> QED BY <1>1, <1>2, <1>3

-----------------------------------------------------------------------------
(* A curve as a sequence, and what appending a point leaves of its falls.  *)

PointRow == [date : Nat, value : Nat \ {0}]

UnderIn(c, p) ==
  {i \in DOMAIN c : i > p /\ \A k \in (p + 1)..i : c[k].value < c[p].value}
IsTrough(c, p, t) ==
  /\ \A i \in UnderIn(c, p) : c[t].value <= c[i].value
  /\ \A i \in UnderIn(c, p) : c[i].value = c[t].value => t <= i
LowestIn(c, p) == CHOOSE t \in UnderIn(c, p) : IsTrough(c, p, t)
RegainedIn(c, p) == {r \in DOMAIN c : r > p /\ c[r].value >= c[p].value}
FirstOf(points) == CHOOSE r \in points : \A other \in points : r <= other
RecoveredIn(c, p) ==
  IF RegainedIn(c, p) = {} THEN Figures!None ELSE FirstOf(RegainedIn(c, p))
Summits(c) ==
  {p \in DOMAIN c : /\ \A k \in 1..(p - 1) : c[k].value <= c[p].value
                    /\ p + 1 \in DOMAIN c /\ c[p + 1].value < c[p].value}
FallIn(c, i, j) == [from |-> c[i].value, to |-> c[j].value]
Drawdown(c, p) == [peak |-> p, trough |-> LowestIn(c, p), recovery |-> RecoveredIn(c, p)]
DrawdownsOf(c, tops) ==
  {Drawdown(c, p) : p \in {q \in tops : Figures!Counts(FallIn(c, q, LowestIn(c, q)))}}

LEMMA Grown ==
  ASSUME NEW c \in Seq(PointRow), NEW x \in PointRow
  PROVE  /\ Append(c, x) \in Seq(PointRow) /\ Len(Append(c, x)) = Len(c) + 1
         /\ Len(c) \in Nat /\ DOMAIN c = 1..Len(c) /\ DOMAIN Append(c, x) = 1..(Len(c) + 1)
         /\ \A k \in 1..Len(c) : Append(c, x)[k] = c[k]
         /\ Append(c, x)[Len(c) + 1] = x
<1> HIDE DEF PointRow
<1> QED OBVIOUS

LEMMA PointFacts ==
  ASSUME NEW c \in Seq(PointRow)
  PROVE  /\ Len(c) \in Nat /\ DOMAIN c = 1..Len(c)
         /\ \A k \in 1..Len(c) : c[k].date \in Nat /\ c[k].value \in Nat \ {0}
<1>1. Len(c) \in Nat /\ DOMAIN c = 1..Len(c) /\ \A k \in 1..Len(c) : c[k] \in PointRow
  <2> HIDE DEF PointRow
  <2> QED OBVIOUS
<1> QED BY <1>1 DEF PointRow

LEMMA TroughIs ==
  ASSUME NEW c \in Seq(PointRow), NEW p \in Nat, NEW t \in UnderIn(c, p), IsTrough(c, p, t)
  PROVE  LowestIn(c, p) = t
<1> DEFINE s == LowestIn(c, p)
<1>1. s \in UnderIn(c, p) /\ IsTrough(c, p, s)
  BY Zenon DEF LowestIn
<1> HIDE DEF s
<1>2. /\ s \in 1..Len(c) /\ t \in 1..Len(c)
      /\ c[s].value \in Nat /\ c[t].value \in Nat /\ Len(c) \in Nat
  BY <1>1, PointFacts DEF UnderIn
<1>3. c[s].value <= c[t].value /\ c[t].value <= c[s].value
  BY <1>1, Zenon DEF IsTrough
<1>4. c[s].value = c[t].value
  BY <1>2, <1>3
<1>5. s <= t /\ t <= s
  BY <1>1, <1>4, Zenon DEF IsTrough
<1>6. s = t
  BY <1>2, <1>5
<1> QED BY <1>6 DEF s

LEMMA RecoveryIs ==
  ASSUME NEW c \in Seq(PointRow), NEW p \in Nat, NEW r \in RegainedIn(c, p),
         \A other \in RegainedIn(c, p) : r <= other
  PROVE  RecoveredIn(c, p) = r
<1> DEFINE s == CHOOSE s \in RegainedIn(c, p) : \A other \in RegainedIn(c, p) : s <= other
<1>1. s \in RegainedIn(c, p) /\ \A other \in RegainedIn(c, p) : s <= other
  OBVIOUS
<1>2. RecoveredIn(c, p) = s
  BY DEF RecoveredIn, FirstOf
<1> HIDE DEF s
<1>3. s <= r /\ r <= s
  BY <1>1
<1>4. s \in Nat /\ r \in Nat
  BY <1>1, PointFacts DEF RegainedIn
<1> QED BY <1>2, <1>3, <1>4

\* A set of points has a first.
LEMMA FirstPoint ==
  ASSUME NEW S, S \subseteq Nat, S # {}
  PROVE  \E m \in S : \A k \in S : m <= k
<1>1. PICK m \in S : \A k \in S : ~(<<k, m>> \in OpToRel(<, Nat))
  BY WFMin, NatLessThanWellFounded, Zenon
<1>2. \A k \in S : ~(k < m)
  BY <1>1 DEF OpToRel
<1> QED BY <1>2

LEMMA TroughExists ==
  ASSUME NEW c \in Seq(PointRow), NEW p \in Nat, UnderIn(c, p) # {}
  PROVE  \E t \in UnderIn(c, p) : IsTrough(c, p, t)
<1>1. \A i \in UnderIn(c, p) : i \in Nat /\ c[i].value \in Nat
  BY PointFacts DEF UnderIn
<1> DEFINE values == {c[i].value : i \in UnderIn(c, p)}
<1>2. PICK least \in values : \A v \in values : least <= v
  <2>1. values \subseteq Nat /\ values # {}
    BY <1>1
  <2> HIDE DEF values
  <2> QED BY <2>1, FirstPoint
<1> DEFINE lows == {i \in UnderIn(c, p) : c[i].value = least}
<1>3. lows \subseteq Nat /\ lows # {}
  BY <1>1
<1>4. PICK t \in lows : \A i \in lows : t <= i
  <2> HIDE DEF lows
  <2> QED BY <1>3, FirstPoint
<1>5. \A i \in UnderIn(c, p) : c[i].value \in values
  OBVIOUS
<1>6. t \in UnderIn(c, p) /\ c[t].value = least
  BY <1>4
<1>7. \A i \in UnderIn(c, p) : c[t].value <= c[i].value
  <2> HIDE DEF values, lows
  <2> QED BY <1>2, <1>5, <1>6
<1>8. \A i \in UnderIn(c, p) : c[i].value = c[t].value => t <= i
  BY <1>4, <1>6
<1> QED BY <1>6, <1>7, <1>8 DEF IsTrough

\* A drawdown that has ended is not changed by what follows.
LEMMA EndedStays ==
  ASSUME NEW c \in Seq(PointRow), NEW x \in PointRow, NEW p \in DOMAIN c, NEW q \in DOMAIN c,
         p < q, c[q].value >= c[p].value, UnderIn(c, p) # {}
  PROVE  /\ LowestIn(Append(c, x), p) = LowestIn(c, p)
         /\ RecoveredIn(Append(c, x), p) = RecoveredIn(c, p)
         /\ LowestIn(c, p) \in DOMAIN c
<1> DEFINE d == Append(c, x)
<1>1. /\ d \in Seq(PointRow) /\ Len(d) = Len(c) + 1 /\ Len(c) \in Nat /\ DOMAIN c = 1..Len(c)
      /\ DOMAIN d = 1..(Len(c) + 1) /\ \A k \in 1..Len(c) : d[k] = c[k]
  BY Grown
<1>2. /\ \A k \in 1..Len(c) : c[k].value \in Nat
      /\ \A k \in 1..Len(d) : d[k].value \in Nat
  BY <1>1, PointFacts
<1> HIDE DEF d
<1>3. UnderIn(d, p) = UnderIn(c, p)
  <2>1. ASSUME NEW i \in UnderIn(d, p) PROVE i \in UnderIn(c, p)
    <3>1. i \in 1..(Len(c) + 1) /\ i > p /\ \A k \in (p + 1)..i : d[k].value < d[p].value
      BY <1>1, <2>1 DEF UnderIn
    <3>2. ~(i >= q)
      <4> SUFFICES ASSUME i >= q PROVE FALSE
        OBVIOUS
      <4>1. q \in (p + 1)..i
        BY <1>1, <3>1
      <4>2. d[q].value < d[p].value /\ d[q] = c[q] /\ d[p] = c[p]
        BY <1>1, <3>1, <4>1
      <4> QED BY <1>1, <1>2, <4>2
    <3>3. i \in 1..Len(c) /\ \A k \in (p + 1)..i : k \in 1..Len(c)
      BY <1>1, <3>1, <3>2
    <3> QED BY <1>1, <3>1, <3>3 DEF UnderIn
  <2>2. ASSUME NEW i \in UnderIn(c, p) PROVE i \in UnderIn(d, p)
    <3>1. i \in 1..Len(c) /\ i > p /\ \A k \in (p + 1)..i : c[k].value < c[p].value
      BY <1>1, <2>2 DEF UnderIn
    <3>2. \A k \in (p + 1)..i : k \in 1..Len(c)
      BY <1>1, <3>1
    <3> QED BY <1>1, <3>1, <3>2 DEF UnderIn
  <2> QED BY <2>1, <2>2
<1>4. p \in Nat
  BY <1>1
<1>5. PICK t \in UnderIn(c, p) : IsTrough(c, p, t)
  BY <1>4, TroughExists
<1>6. \A i \in UnderIn(c, p) : i \in 1..Len(c) /\ d[i] = c[i]
  BY <1>1 DEF UnderIn
<1>7. IsTrough(d, p, t)
  BY <1>3, <1>5, <1>6 DEF IsTrough
<1>8. LowestIn(c, p) = t /\ LowestIn(d, p) = t /\ t \in DOMAIN c
  BY <1>1, <1>3, <1>4, <1>5, <1>6, <1>7, TroughIs
<1>9. RecoveredIn(d, p) = RecoveredIn(c, p)
  <2>1. q \in RegainedIn(c, p) /\ RegainedIn(c, p) \subseteq Nat
    BY <1>1 DEF RegainedIn
  <2>2. PICK r \in RegainedIn(c, p) : \A other \in RegainedIn(c, p) : r <= other
    BY <2>1, FirstPoint
  <2>3. r \in 1..Len(c) /\ r > p /\ c[r].value >= c[p].value
    BY <1>1, <2>2 DEF RegainedIn
  <2>4. r \in RegainedIn(d, p)
    BY <1>1, <2>3 DEF RegainedIn
  <2>5. \A other \in RegainedIn(d, p) : r <= other
    <3> SUFFICES ASSUME NEW other \in RegainedIn(d, p) PROVE r <= other
      OBVIOUS
    <3>1. other \in 1..(Len(c) + 1) /\ other > p /\ d[other].value >= d[p].value
      BY <1>1 DEF RegainedIn
    <3>2. CASE other \in 1..Len(c)
      <4>1. other \in RegainedIn(c, p)
        BY <1>1, <3>1, <3>2 DEF RegainedIn
      <4> QED BY <2>2, <4>1
    <3>3. CASE other \notin 1..Len(c)
      BY <1>1, <2>3, <3>1, <3>3
    <3> QED BY <3>2, <3>3
  <2>6. RecoveredIn(c, p) = r
    BY <1>4, <2>2, RecoveryIs
  <2>7. RecoveredIn(d, p) = r
    BY <1>1, <1>4, <2>4, <2>5, RecoveryIs
  <2> QED BY <2>6, <2>7
<1> QED BY <1>8, <1>9 DEF d

\* Drawdowns of the same tops with the same troughs and recoveries.
LEMMA SameDrawdowns ==
  ASSUME NEW c, NEW d, NEW tops,
         \A p \in tops : /\ LowestIn(d, p) = LowestIn(c, p) /\ RecoveredIn(d, p) = RecoveredIn(c, p)
                         /\ FallIn(d, p, LowestIn(d, p)) = FallIn(c, p, LowestIn(c, p))
  PROVE  DrawdownsOf(d, tops) = DrawdownsOf(c, tops)
<1>1. \A p \in tops : Drawdown(d, p) = Drawdown(c, p)
  BY DEF Drawdown
<1>2. {q \in tops : Figures!Counts(FallIn(d, q, LowestIn(d, q)))} =
      {q \in tops : Figures!Counts(FallIn(c, q, LowestIn(c, q)))}
  OBVIOUS
<1> QED BY <1>1, <1>2 DEF DrawdownsOf

LEMMA OneMoreDrawdown ==
  ASSUME NEW c, NEW tops, NEW p
  PROVE  DrawdownsOf(c, tops \cup {p}) =
           DrawdownsOf(c, tops) \cup
             IF Figures!Counts(FallIn(c, p, LowestIn(c, p))) THEN {Drawdown(c, p)} ELSE {}
BY DEF DrawdownsOf

\* The fall furthest below the highest value so far.
MaximumFits(c, high, deepest) ==
  /\ high \in Nat /\ deepest \in [from : Nat \ {0}, to : Nat \ {0}] /\ deepest.to <= deepest.from
  /\ \A k \in DOMAIN c : c[k].value <= high
  /\ high > 0 => \E k \in DOMAIN c : c[k].value = high
  /\ \A i, j \in DOMAIN c : i < j => ~Figures!Deeper(FallIn(c, i, j), deepest)
  /\ deepest.to < deepest.from => \E i, j \in DOMAIN c : i < j /\ FallIn(c, i, j) = deepest

LEMMA DeeperIs ==
  ASSUME NEW a, NEW b
  PROVE  Figures!Deeper(a, b) <=> (a.from - a.to) * b.from > (b.from - b.to) * a.from
BY DEF Figures!Deeper

LEMMA MaximumGrows ==
  ASSUME NEW c \in Seq(PointRow), NEW x \in PointRow, NEW high, NEW deepest,
         MaximumFits(c, high, deepest),
         NEW highest, highest = IF x.value > high THEN x.value ELSE high,
         NEW fall, fall = [from |-> highest, to |-> x.value],
         NEW outcome, outcome = IF Figures!Deeper(fall, deepest) THEN fall ELSE deepest
  PROVE  MaximumFits(Append(c, x), highest, outcome)
<1> DEFINE d == Append(c, x)
           n == Len(c) + 1
           v == x.value
<1>1. /\ d \in Seq(PointRow) /\ Len(c) \in Nat /\ DOMAIN c = 1..Len(c) /\ DOMAIN d = 1..n
      /\ n \in Nat /\ n \in 1..n /\ n = Len(c) + 1
      /\ (\A k \in 1..Len(c) : d[k] = c[k]) /\ d[n] = x
  BY Grown
<1>2. v \in Nat \ {0} /\ \A k \in 1..Len(c) : c[k].value \in Nat \ {0}
  BY PointFacts DEF PointRow
<1>3. /\ high \in Nat /\ deepest.from \in Nat \ {0} /\ deepest.to \in Nat \ {0}
      /\ deepest.to <= deepest.from /\ \A k \in 1..Len(c) : c[k].value <= high
      /\ deepest = [from |-> deepest.from, to |-> deepest.to]
  BY <1>1 DEF MaximumFits
<1>4. fall.from = highest /\ fall.to = v
  OBVIOUS
<1> HIDE DEF d, n, v
<1>5. /\ highest \in Nat \ {0} /\ v <= highest /\ \A k \in 1..n : d[k].value <= highest
      /\ \E k \in 1..n : d[k].value = highest
  <2>1. d[n].value = v /\ \A k \in 1..n : k \in 1..Len(c) \/ k = n
    BY <1>1 DEF v
  <2>2. highest = IF v > high THEN v ELSE high
    BY DEF v
  <2>3. highest \in Nat \ {0} /\ v <= highest /\ high <= highest
    BY <1>2, <1>3, <2>2
  <2>4. \A k \in 1..n : d[k].value <= highest
    <3> SUFFICES ASSUME NEW k \in 1..n PROVE d[k].value <= highest
      OBVIOUS
    <3>1. CASE k \in 1..Len(c)
      <4>1. d[k].value = c[k].value /\ c[k].value \in Nat /\ c[k].value <= high
        BY <1>1, <1>2, <1>3, <3>1
      <4> QED BY <1>3, <2>3, <4>1
    <3>2. CASE k = n
      BY <2>1, <2>3, <3>2
    <3> QED BY <2>1, <3>1, <3>2
  <2>5. CASE v > high
    BY <1>1, <2>1, <2>2, <2>3, <2>4, <2>5
  <2>6. CASE ~(v > high)
    <3>1. highest = high /\ high > 0
      BY <1>2, <1>3, <2>2, <2>6
    <3>2. PICK k \in 1..Len(c) : c[k].value = high
      BY <1>1, <3>1 DEF MaximumFits
    <3>3. k \in 1..n /\ d[k].value = highest
      BY <1>1, <3>1, <3>2
    <3> QED BY <2>3, <2>4, <3>3
  <2> QED BY <2>5, <2>6
<1>6. outcome \in [from : Nat \ {0}, to : Nat \ {0}] /\ outcome.to <= outcome.from
  <2>1. CASE Figures!Deeper(fall, deepest)
    <3>1. outcome = [from |-> highest, to |-> v]
      BY <2>1 DEF v
    <3> QED BY <1>2, <1>5, <3>1
  <2>2. CASE ~Figures!Deeper(fall, deepest)
    BY <1>3, <2>2 DEF MaximumFits
  <2> QED BY <2>1, <2>2
<1>7. ASSUME NEW a \in Int, NEW f \in Nat \ {0},
             \/ a * deepest.from <= (deepest.from - deepest.to) * f
             \/ a * highest <= (highest - v) * f
      PROVE  a * outcome.from <= (outcome.from - outcome.to) * f
  <2> DEFINE w == deepest.from - deepest.to
             u == highest - v
  <2>1. w \in Int /\ u \in Int
    BY <1>2, <1>3, <1>5
  <2>2. CASE Figures!Deeper(fall, deepest)
    <3>1. outcome.from = highest /\ outcome.from - outcome.to = u
      BY <1>4, <2>2
    <3>2. w * highest <= u * deepest.from
      <4>1. u * deepest.from > w * highest
        BY <1>4, <2>2, DeeperIs
      <4>2. u * deepest.from \in Int /\ w * highest \in Int
        BY <1>3, <1>5, <2>1
      <4> HIDE DEF w, u
      <4> QED BY <4>1, <4>2
    <3> HIDE DEF w, u
    <3>3. a * deepest.from <= w * f => a * highest <= u * f
      BY <1>3, <1>5, <2>1, <3>2, NoDeeper
    <3> USE DEF w, u
    <3> QED BY <1>7, <3>1, <3>3
  <2>3. CASE ~Figures!Deeper(fall, deepest)
    <3>1. outcome = deepest
      BY <2>3
    <3>2. u * deepest.from <= w * highest
      <4>1. ~(u * deepest.from > w * highest)
        BY <1>4, <2>3, DeeperIs
      <4>2. u * deepest.from \in Int /\ w * highest \in Int
        BY <1>3, <1>5, <2>1
      <4> HIDE DEF w, u
      <4> QED BY <4>1, <4>2
    <3> HIDE DEF w, u
    <3>3. a * highest <= u * f => a * deepest.from <= w * f
      BY <1>3, <1>5, <2>1, <3>2, NoDeeper
    <3> USE DEF w, u
    <3> QED BY <1>7, <3>1, <3>3
  <2> QED BY <2>2, <2>3
<1>8. ASSUME NEW i \in 1..n, NEW j \in 1..n, i < j
      PROVE  ~Figures!Deeper(FallIn(d, i, j), outcome)
  <2> DEFINE f == d[i].value
             t == d[j].value
  <2>1. f \in Nat \ {0} /\ t \in Nat \ {0} /\ f <= highest /\ i \in 1..Len(c) /\ d[i] = c[i]
    BY <1>1, <1>2, <1>5, <1>8, PointFacts
  <2>2. (f - t) * deepest.from <= (deepest.from - deepest.to) * f
        \/ (f - t) * highest <= (highest - v) * f
    <3>1. CASE j = n
      <4>1. t = v
        BY <1>1, <3>1 DEF v
      <4> HIDE DEF f, t
      <4> QED BY <1>2, <1>5, <2>1, <4>1, FromHigher DEF v
    <3>2. CASE j # n
      <4>1. j \in 1..Len(c) /\ d[j] = c[j]
        BY <1>1, <3>2
      <4>2. ~Figures!Deeper(FallIn(c, i, j), deepest)
        BY <1>1, <1>8, <2>1, <4>1 DEF MaximumFits
      <4>3. ~((f - t) * deepest.from > (deepest.from - deepest.to) * f)
        BY <2>1, <4>1, <4>2, DeeperIs DEF FallIn
      <4>4. (f - t) * deepest.from \in Int /\ (deepest.from - deepest.to) * f \in Int
        <5> HIDE DEF f, t
        <5> QED BY <1>3, <2>1
      <4> HIDE DEF f, t
      <4> QED BY <4>3, <4>4
    <3> QED BY <3>1, <3>2
  <2>3. FallIn(d, i, j).from = f /\ FallIn(d, i, j).to = t
    BY DEF FallIn
  <2> HIDE DEF f, t
  <2>4. f - t \in Int
    BY <2>1
  <2>5. (f - t) * outcome.from <= (outcome.from - outcome.to) * f
    BY <1>7, <2>1, <2>2, <2>4
  <2>6. (f - t) * outcome.from \in Int /\ (outcome.from - outcome.to) * f \in Int
    BY <1>6, <2>1, <2>4
  <2>7. ~((f - t) * outcome.from > (outcome.from - outcome.to) * f)
    BY <2>5, <2>6
  <2> QED BY <2>3, <2>7, DeeperIs
<1>9. ASSUME outcome.to < outcome.from
      PROVE  \E i, j \in 1..n : i < j /\ FallIn(d, i, j) = outcome
  <2>1. CASE Figures!Deeper(fall, deepest)
    <3>1. outcome = [from |-> highest, to |-> v] /\ v < highest
      BY <1>9, <2>1 DEF v
    <3>2. PICK k \in 1..n : d[k].value = highest
      BY <1>5
    <3>3. d[n].value = v
      BY <1>1 DEF v
    <3>4. k < n
      BY <1>1, <1>2, <1>5, <3>1, <3>2, <3>3
    <3>5. FallIn(d, k, n) = outcome
      BY <3>1, <3>2, <3>3 DEF FallIn
    <3> QED BY <1>1, <3>4, <3>5
  <2>2. CASE ~Figures!Deeper(fall, deepest)
    <3>1. outcome = deepest
      BY <2>2
    <3>2. PICK i \in 1..Len(c), j \in 1..Len(c) : i < j /\ FallIn(c, i, j) = deepest
      BY <1>1, <1>9, <3>1 DEF MaximumFits
    <3>3. FallIn(d, i, j) = outcome /\ i \in 1..n /\ j \in 1..n
      BY <1>1, <3>1, <3>2 DEF FallIn
    <3> QED BY <3>2, <3>3
  <2> QED BY <2>1, <2>2
<1>10. highest \in Nat /\ \A k \in DOMAIN d : d[k].value <= highest
  BY <1>1, <1>5
<1> HIDE DEF d
<1>11. MaximumFits(d, highest, outcome)
  BY <1>1, <1>5, <1>6, <1>8, <1>9, <1>10 DEF MaximumFits
<1> QED BY <1>11 DEF d

\* The left index of the rolling window, and the pairs of points compared.
PairsIn(c) ==
  {pair \in (DOMAIN c) \X (DOMAIN c) : c[pair[1]].date + WindowDays = c[pair[2]].date}
RollingFits(c, start, pairs) ==
  /\ start \in Nat \ {0} /\ (start = 1 \/ start \in DOMAIN c)
  /\ \A j, k \in DOMAIN c : j < k => c[j].date < c[k].date
  /\ \A k \in 1..(start - 1) : c[k].date < c[Len(c)].date - WindowDays
  /\ pairs = PairsIn(c)

Opens(d, start, s) ==
  LET n == Len(d) IN
    /\ s = n \/ d[s].date >= d[n].date - WindowDays
    /\ \A before \in start..(s - 1) : d[before].date < d[n].date - WindowDays

PairsWith(d, s, pairs) ==
  IF s = Len(d) \/ d[s].date > d[Len(d)].date - WindowDays
  THEN pairs ELSE pairs \cup {<<s, Len(d)>>}

Follows(c, x) == c # <<>> => x.date > c[Len(c)].date

LEMMA SomeOpens ==
  ASSUME NEW d, Len(d) \in Nat, NEW start \in Nat, start <= Len(d),
         \A k \in start..Len(d) : d[k].date \in Nat
  PROVE  \E s \in start..Len(d) : Opens(d, start, s)
<1> DEFINE n == Len(d)
           late == {s \in start..n : s = n \/ d[s].date >= d[n].date - WindowDays}
<1>1. n \in late /\ late \subseteq Nat
  OBVIOUS
<1>2. PICK s \in late : \A k \in late : s <= k
  <2> HIDE DEF late
  <2> QED BY <1>1, FirstPoint
<1>3. \A before \in start..(s - 1) : d[before].date < d[n].date - WindowDays
  <2> SUFFICES ASSUME NEW before \in start..(s - 1),
                      ~(d[before].date < d[n].date - WindowDays)
               PROVE  FALSE
    OBVIOUS
  <2>1. before \in start..n /\ before < s
    OBVIOUS
  <2>2. d[before].date >= d[n].date - WindowDays
    <3>1. d[before].date \in Nat /\ d[n].date \in Nat /\ WindowDays \in Nat
      BY <2>1, ReportAssumption
    <3> QED BY <3>1
  <2>3. before \in late
    BY <2>1, <2>2
  <2> HIDE DEF late
  <2> QED BY <1>1, <1>2, <2>1, <2>3
<1> QED BY <1>2, <1>3 DEF Opens

LEMMA LaterStill ==
  ASSUME NEW a \in Nat, NEW b \in Nat, NEW e \in Nat, NEW w \in Nat, a < b - w, b < e
  PROVE  a < e - w
OBVIOUS

\* The one point a whole window before another is where the window opens.
LEMMA OneBefore ==
  ASSUME NEW j \in Nat, NEW s \in Nat, NEW n \in Nat, j < n,
         NEW dj \in Nat, NEW ds \in Nat, NEW dn \in Nat, NEW w \in Nat,
         s = n \/ ds >= dn - w, j < s => dj < dn - w, s < j => s # n /\ ds < dj,
         j = s => dj = ds
  PROVE  dj + w = dn <=> j = s /\ ~(s = n \/ ds > dn - w)
<1>1. CASE j < s
  BY <1>1
<1>2. CASE j = s
  BY <1>2
<1>3. CASE s < j
  BY <1>3
<1> QED BY <1>1, <1>2, <1>3

LEMMA RollingGrows ==
  ASSUME NEW c \in Seq(PointRow), NEW x \in PointRow, NEW start, NEW pairs,
         RollingFits(c, start, pairs),
         Follows(c, x), NEW d, d = Append(c, x),
         NEW s \in start..Len(d), Opens(d, start, s)
  PROVE  RollingFits(d, s, PairsWith(d, s, pairs))
<1> DEFINE more == PairsWith(d, s, pairs)
<1> DEFINE n == Len(c) + 1
<1>1. /\ d \in Seq(PointRow) /\ Len(c) \in Nat /\ DOMAIN c = 1..Len(c) /\ DOMAIN d = 1..n
      /\ n \in Nat /\ n \in 1..n /\ Len(d) = n /\ n - 1 = Len(c)
      /\ (\A k \in 1..Len(c) : d[k] = c[k]) /\ d[n] = x
  BY Grown
<1>0. Len(c) \in Nat /\ n \in Nat /\ n = Len(c) + 1
  BY <1>1
<1>2. /\ \A k \in 1..n : d[k].date \in Nat
      /\ \A k \in 1..Len(c) : c[k].date \in Nat
      /\ WindowDays \in Nat \ {0}
  BY <1>1, PointFacts, ReportAssumption
<1>3. \A k \in 1..n : k \in 1..Len(c) \/ k = n
  BY <1>1
<1>4. start \in Nat \ {0} /\ (start = 1 \/ start \in 1..Len(c)) /\ s \in 1..n
  BY <1>1 DEF RollingFits
<1>5. \A k \in 1..Len(c) : d[k].date < d[n].date
  <2> SUFFICES ASSUME NEW k \in 1..Len(c) PROVE d[k].date < d[n].date
    OBVIOUS
  <2>1. c # <<>> /\ Len(c) \in 1..Len(c)
    <3>1. Len(c) # 0
      BY <1>1
    <3> QED BY <1>1, <3>1
  <2>2. c[Len(c)].date < x.date
    <3>1. x.date \in Nat /\ c[Len(c)].date \in Nat
      BY <1>1, <1>2, <2>1
    <3> QED BY <2>1, <3>1 DEF Follows
  <2>3. k = Len(c) \/ c[k].date < c[Len(c)].date
    <3>1. k = Len(c) \/ k < Len(c)
      <4> HIDE DEF n
      <4> QED BY <1>0
    <3> QED BY <1>1, <2>1, <3>1 DEF RollingFits
  <2>4. c[k].date \in Nat /\ c[Len(c)].date \in Nat /\ d[n].date \in Nat
    BY <1>1, <1>2, <2>1
  <2>5. d[n] = x /\ d[k] = c[k] /\ x.date \in Nat
    BY <1>1, <2>4
  <2>6. c[k].date < x.date
    BY <2>2, <2>3, <2>4, <2>5
  <2> QED BY <2>5, <2>6
<1> HIDE DEF n
<1>6. \A j, k \in 1..n : j < k => d[j].date < d[k].date
  <2> SUFFICES ASSUME NEW j \in 1..n, NEW k \in 1..n, j < k PROVE d[j].date < d[k].date
    OBVIOUS
  <2>1. j \in 1..Len(c)
    BY <1>1
  <2>2. CASE k = n
    BY <1>5, <2>1, <2>2
  <2>3. CASE k \in 1..Len(c)
    BY <1>1, <2>1, <2>3 DEF RollingFits
  <2> QED BY <1>3, <2>2, <2>3
<1> DEFINE opening == d[n].date - WindowDays
<1>7. \A k \in 1..(s - 1) : d[k].date < opening
  <2> SUFFICES ASSUME NEW k \in 1..(s - 1) PROVE d[k].date < opening
    OBVIOUS
  <2>1. CASE k \in start..(s - 1)
    BY <1>1, <2>1 DEF Opens
  <2>2. CASE k \notin start..(s - 1)
    <3>1. k \in 1..(start - 1) /\ start \in 1..Len(c)
      BY <1>1, <1>4, <2>2
    <3>2. k \in 1..Len(c) /\ Len(c) \in 1..Len(c)
      BY <1>1, <3>1
    <3>3. c[k].date < c[Len(c)].date - WindowDays
      BY <3>1 DEF RollingFits
    <3>4. d[k] = c[k] /\ c[Len(c)].date < d[n].date
      BY <1>1, <1>5, <3>2
    <3>5. c[k].date \in Nat /\ c[Len(c)].date \in Nat /\ d[n].date \in Nat
      BY <1>1, <1>2, <3>2
    <3>6. WindowDays \in Nat
      BY <1>2
    <3>7. c[k].date < d[n].date - WindowDays
      <4> HIDE DEF opening
      <4> QED BY <3>3, <3>4, <3>5, <3>6, LaterStill
    <3> QED BY <3>4, <3>7
  <2> QED BY <2>1, <2>2
<1>8. s = n \/ d[s].date >= opening
  BY <1>1 DEF Opens
<1>9. \A k \in 1..n : d[n].date + WindowDays # d[k].date
  <2> SUFFICES ASSUME NEW k \in 1..n PROVE d[n].date + WindowDays # d[k].date
    OBVIOUS
  <2>1. d[k].date <= d[n].date
    <3>1. CASE k = n
      BY <1>1, <1>2, <3>1
    <3>2. CASE k \in 1..Len(c)
      BY <1>1, <1>2, <1>5, <3>2
    <3> QED BY <1>3, <3>1, <3>2
  <2> QED BY <1>1, <1>2, <2>1
<1>10. \A j \in 1..Len(c) : d[j].date + WindowDays = d[n].date <=>
         j = s /\ ~(s = n \/ d[s].date > opening)
  <2> SUFFICES ASSUME NEW j \in 1..Len(c)
               PROVE  d[j].date + WindowDays = d[n].date <=>
                        j = s /\ ~(s = n \/ d[s].date > opening)
    OBVIOUS
  <2>1. j \in 1..n /\ j # n
    BY <1>1
  <2>2. d[j].date \in Nat /\ d[s].date \in Nat /\ d[n].date \in Nat
    BY <1>1, <1>2, <1>4, <2>1
  <2>3. WindowDays \in Nat /\ j \in Nat /\ s \in Nat /\ n \in Nat /\ j < n
    BY <1>0, <1>2, <1>4
  <2>4. /\ j < s => d[j].date < opening
        /\ s < j => s # n /\ d[s].date < d[j].date
    <3>1. j < s => j \in 1..(s - 1)
      BY <1>0, <1>4
    <3>2. s < j => s # n
      BY <1>0, <1>4
    <3> HIDE DEF opening
    <3> QED BY <1>4, <1>6, <1>7, <2>1, <3>1, <3>2
  <2>5. s = n \/ d[s].date >= d[n].date - WindowDays
    BY <1>8
  <2>6. j < s => d[j].date < d[n].date - WindowDays
    BY <2>4
  <2>7. j = s => d[j].date = d[s].date
    OBVIOUS
  <2>8. d[j].date + WindowDays = d[n].date <=>
          j = s /\ ~(s = n \/ d[s].date > d[n].date - WindowDays)
    <3> HIDE DEF opening, n
    <3>1. PICK dj, ds, dn, w : dj = d[j].date /\ ds = d[s].date /\ dn = d[n].date /\ w = WindowDays
      OBVIOUS
    <3>2. dj \in Nat /\ ds \in Nat /\ dn \in Nat /\ w \in Nat
      BY <2>2, <2>3, <3>1
    <3>3. /\ s = n \/ ds >= dn - w
          /\ j < s => dj < dn - w
          /\ s < j => s # n /\ ds < dj
          /\ j = s => dj = ds
      BY <2>4, <2>5, <2>6, <2>7, <3>1, Zenon
    <3>4. dj + w = dn <=> j = s /\ ~(s = n \/ ds > dn - w)
      BY <2>3, <3>2, <3>3, OneBefore
    <3> QED BY <3>1, <3>4
  <2> QED BY <2>8
<1>11. more = PairsIn(d)
  <2> DEFINE new == IF s = n \/ d[s].date > opening THEN {} ELSE {<<s, n>>}
  <2>1. more = pairs \cup new
    BY <1>1 DEF PairsWith
  <2>2. pairs = {pair \in (1..Len(c)) \X (1..Len(c)) :
                   d[pair[1]].date + WindowDays = d[pair[2]].date}
    <3>1. pairs = {pair \in (1..Len(c)) \X (1..Len(c)) :
                     c[pair[1]].date + WindowDays = c[pair[2]].date}
      BY <1>1 DEF RollingFits, PairsIn
    <3>2. \A pair \in (1..Len(c)) \X (1..Len(c)) : d[pair[1]] = c[pair[1]] /\ d[pair[2]] = c[pair[2]]
      BY <1>1
    <3> QED BY <3>1, <3>2
  <2>3. ASSUME NEW j \in 1..n, NEW k \in 1..n
        PROVE  <<j, k>> \in PairsIn(d) <=> <<j, k>> \in pairs \cup new
    <3>1. <<j, k>> \in PairsIn(d) <=> d[j].date + WindowDays = d[k].date
      <4>1. DOMAIN d = 1..n
        BY <1>1
      <4> HIDE DEF new, opening, n
      <4> QED BY <4>1 DEF PairsIn
    <3>2. <<j, k>> \in pairs <=>
            j \in 1..Len(c) /\ k \in 1..Len(c) /\ d[j].date + WindowDays = d[k].date
      BY <2>2
    <3>3. <<j, k>> \in new <=> k = n /\ j = s /\ ~(s = n \/ d[s].date > opening)
      OBVIOUS
    <3>4. n \notin 1..Len(c)
      BY <1>1
    <3> HIDE DEF new, opening
    <3>5. CASE j = n
      <4>1. ~(d[j].date + WindowDays = d[k].date)
        BY <1>9, <3>5
      <4> QED BY <3>1, <3>2, <3>3, <3>5, <4>1
    <3>6. CASE j \in 1..Len(c) /\ k = n
      BY <1>10, <3>1, <3>2, <3>3, <3>4, <3>6
    <3>7. CASE j \in 1..Len(c) /\ k \in 1..Len(c)
      BY <3>1, <3>2, <3>3, <3>4, <3>7
    <3> QED BY <1>3, <3>5, <3>6, <3>7
  <2>4. PairsIn(d) \subseteq (1..n) \X (1..n)
    <3>1. DOMAIN d = 1..n
      BY <1>1
    <3> HIDE DEF new, opening, n
    <3> QED BY <3>1 DEF PairsIn
  <2>5. pairs \cup new \subseteq (1..n) \X (1..n)
    <3>1. 1..Len(c) \subseteq 1..n
      BY <1>1
    <3>2. pairs \subseteq (1..n) \X (1..n)
      BY <2>2, <3>1
    <3>3. new \subseteq (1..n) \X (1..n)
      BY <1>1, <1>4
    <3> QED BY <3>2, <3>3
  <2> HIDE DEF new
  <2>6. \A pair : pair \in PairsIn(d) <=> pair \in pairs \cup new
    <3> SUFFICES ASSUME NEW pair PROVE pair \in PairsIn(d) <=> pair \in pairs \cup new
      OBVIOUS
    <3>1. CASE pair \in (1..n) \X (1..n)
      <4>1. PICK j \in 1..n, k \in 1..n : pair = <<j, k>>
        BY <3>1
      <4> QED BY <2>3, <4>1
    <3>2. CASE pair \notin (1..n) \X (1..n)
      BY <2>4, <2>5, <3>2
    <3> QED BY <3>1, <3>2
  <2> QED BY <2>1, <2>6
<1> HIDE DEF more
<1>12. s \in Nat \ {0} /\ s \in DOMAIN d
  BY <1>1, <1>4
<1>13. RollingFits(d, s, more)
  BY <1>1, <1>6, <1>7, <1>11, <1>12 DEF RollingFits
<1> QED BY <1>13 DEF more

\* The running peak with its trough, and the drawdowns that ended before it.
EpisodesFit(c, top, low, found) ==
  /\ c = <<>> => top = Figures!None /\ low = Figures!None
  /\ c # <<>> =>
       /\ top \in DOMAIN c
       /\ \A k \in 1..(top - 1) : c[k].value <= c[top].value
       /\ \A k \in (top + 1)..Len(c) : c[k].value < c[top].value
       /\ top = Len(c) => low = Figures!None
       /\ top # Len(c) => low \in UnderIn(c, top) /\ IsTrough(c, top, low)
  /\ found = DrawdownsOf(c, {p \in Summits(c) : p < top})

Closing(c, top, low, recovery) ==
  IF low # Figures!None /\ Figures!Counts(FallIn(c, top, low))
  THEN {[peak |-> top, trough |-> low, recovery |-> recovery]} ELSE {}

LEMMA UnderIs ==
  ASSUME NEW c \in Seq(PointRow), NEW p \in DOMAIN c, NEW m \in p..Len(c),
         \A k \in (p + 1)..m : c[k].value < c[p].value,
         m = Len(c) \/ c[m + 1].value >= c[p].value
  PROVE  UnderIn(c, p) = (p + 1)..m
<1>1. Len(c) \in Nat /\ DOMAIN c = 1..Len(c) /\ \A k \in 1..Len(c) : c[k].value \in Nat
  BY PointFacts
<1>0. PICK n \in Nat : n = Len(c)
  BY <1>1
<1>4. p \in Nat /\ m \in Nat /\ 1 <= p /\ p <= m /\ m <= n
  BY <1>0, <1>1
<1>2. ASSUME NEW i \in (p + 1)..m PROVE i \in UnderIn(c, p)
  <2>1. i \in 1..n /\ i > p /\ \A k \in (p + 1)..i : k \in (p + 1)..m
    BY <1>0, <1>4
  <2> QED BY <1>0, <1>1, <2>1 DEF UnderIn
<1>3. ASSUME NEW i \in UnderIn(c, p) PROVE i \in (p + 1)..m
  <2>1. i \in 1..Len(c) /\ i > p /\ \A k \in (p + 1)..i : c[k].value < c[p].value
    BY <1>1 DEF UnderIn
  <2>2. SUFFICES ASSUME i > m PROVE FALSE
    BY <1>0, <1>4, <2>1
  <2>3. m + 1 \in (p + 1)..i /\ m # n /\ m + 1 \in 1..n /\ p \in 1..n
    BY <1>0, <1>4, <2>1, <2>2
  <2>4. c[m + 1].value < c[p].value /\ c[m + 1].value >= c[p].value
    <3>1. m # Len(c)
      BY <1>0, <2>3
    <3> QED BY <2>1, <2>3, <3>1
  <2>5. c[m + 1].value \in Nat /\ c[p].value \in Nat
    BY <1>0, <1>1, <2>3
  <2> QED BY <2>4, <2>5
<1> QED BY <1>2, <1>3

LEMMA UnderToTheEnd ==
  ASSUME NEW c \in Seq(PointRow), NEW p \in DOMAIN c, NEW n, n = Len(c),
         \A k \in (p + 1)..n : c[k].value < c[p].value
  PROVE  UnderIn(c, p) = (p + 1)..n
<1>1. Len(c) \in p..Len(c)
  <2>1. Len(c) \in Nat /\ p \in 1..Len(c)
    BY PointFacts
  <2> QED BY <2>1
<1>2. Len(c) = Len(c) \/ c[Len(c) + 1].value >= c[p].value
  OBVIOUS
<1> QED BY <1>1, <1>2, UnderIs

\* No summit lies past the running peak.
LEMMA SummitsAre ==
  ASSUME NEW c \in Seq(PointRow), NEW top \in DOMAIN c,
         \A k \in 1..(top - 1) : c[k].value <= c[top].value,
         \A k \in (top + 1)..Len(c) : c[k].value < c[top].value
  PROVE  /\ Summits(c) = {p \in Summits(c) : p < top} \cup (IF top = Len(c) THEN {} ELSE {top})
         /\ RegainedIn(c, top) = {}
<1>1. Len(c) \in Nat /\ DOMAIN c = 1..Len(c) /\ \A k \in 1..Len(c) : c[k].value \in Nat
  BY PointFacts
<1>2. ASSUME NEW p \in Summits(c), ~(p < top) PROVE p = top /\ top # Len(c)
  <2>1. /\ p \in 1..Len(c) /\ p + 1 \in 1..Len(c)
        /\ \A k \in 1..(p - 1) : c[k].value <= c[p].value
    BY <1>1 DEF Summits
  <2>2. SUFFICES ASSUME p > top PROVE FALSE
    BY <1>1, <1>2, <2>1
  <2>3. top \in 1..(p - 1) /\ p \in (top + 1)..Len(c)
    BY <1>1, <2>1, <2>2
  <2>4. c[top].value <= c[p].value /\ c[p].value < c[top].value
    BY <2>1, <2>3
  <2>5. c[top].value \in Nat /\ c[p].value \in Nat
    BY <1>1, <2>1
  <2> QED BY <2>4, <2>5
<1>3. ASSUME top # Len(c) PROVE top \in Summits(c)
  <2>1. top + 1 \in 1..Len(c) /\ top + 1 \in (top + 1)..Len(c)
    BY <1>1, <1>3
  <2> QED BY <1>1, <2>1 DEF Summits
<1>4. RegainedIn(c, top) = {}
  <2> SUFFICES ASSUME NEW r \in RegainedIn(c, top) PROVE FALSE
    OBVIOUS
  <2>1. r \in 1..Len(c) /\ r > top /\ c[r].value >= c[top].value
    BY <1>1 DEF RegainedIn
  <2>2. r \in (top + 1)..Len(c)
    BY <1>1, <2>1
  <2>3. c[r].value < c[top].value /\ c[r].value \in Nat /\ c[top].value \in Nat
    BY <1>1, <2>1, <2>2
  <2> QED BY <2>1, <2>3
<1> QED BY <1>2, <1>3, <1>4

LEMMA AllDrawdowns ==
  ASSUME NEW c \in Seq(PointRow), NEW top, NEW low, NEW found, EpisodesFit(c, top, low, found),
         c # <<>>
  PROVE  found \cup Closing(c, top, low, Figures!None) = DrawdownsOf(c, Summits(c))
<1>1. /\ Len(c) \in Nat /\ DOMAIN c = 1..Len(c) /\ top \in DOMAIN c /\ top \in Nat
  BY PointFacts DEF EpisodesFit
<1>2. /\ Summits(c) = {p \in Summits(c) : p < top} \cup (IF top = Len(c) THEN {} ELSE {top})
      /\ RegainedIn(c, top) = {}
  BY <1>1, SummitsAre DEF EpisodesFit
<1>3. CASE top = Len(c)
  <2>1. Summits(c) = {p \in Summits(c) : p < top} /\ low = Figures!None
    BY <1>2, <1>3 DEF EpisodesFit
  <2>2. Closing(c, top, low, Figures!None) = {}
    BY <2>1 DEF Closing
  <2> QED BY <2>1, <2>2 DEF EpisodesFit
<1>4. CASE top # Len(c)
  <2>1. low \in UnderIn(c, top) /\ IsTrough(c, top, low)
    BY <1>4 DEF EpisodesFit
  <2>2. LowestIn(c, top) = low
    BY <1>1, <2>1, TroughIs
  <2>3. low # Figures!None
    BY <1>1, <2>1 DEF UnderIn, Figures!None
  <2>4. RecoveredIn(c, top) = Figures!None
    BY <1>2 DEF RecoveredIn
  <2>5. Drawdown(c, top) = [peak |-> top, trough |-> low, recovery |-> Figures!None]
    BY <2>2, <2>4 DEF Drawdown
  <2> DEFINE before == {p \in Summits(c) : p < top}
  <2>6. Summits(c) = before \cup {top} /\ found = DrawdownsOf(c, before)
    BY <1>2, <1>4 DEF EpisodesFit
  <2> HIDE DEF before
  <2>7. DrawdownsOf(c, before \cup {top}) = found \cup Closing(c, top, low, Figures!None)
    BY <2>2, <2>3, <2>5, <2>6, OneMoreDrawdown DEF Closing
  <2> QED BY <2>6, <2>7
<1> QED BY <1>3, <1>4

\* The drawdowns that ended before the peak, after one more point.
LEMMA EndedSame ==
  ASSUME NEW c \in Seq(PointRow), NEW x \in PointRow, NEW top \in DOMAIN c,
         \A k \in 1..(top - 1) : c[k].value <= c[top].value,
         NEW d, d = Append(c, x)
  PROVE  /\ {p \in Summits(d) : p < top} = {p \in Summits(c) : p < top}
         /\ DrawdownsOf(d, {p \in Summits(c) : p < top}) =
            DrawdownsOf(c, {p \in Summits(c) : p < top})
<1> DEFINE before == {p \in Summits(c) : p < top}
<1>1. /\ d \in Seq(PointRow) /\ Len(d) = Len(c) + 1 /\ Len(c) \in Nat /\ DOMAIN c = 1..Len(c)
      /\ DOMAIN d = 1..(Len(c) + 1) /\ \A k \in 1..Len(c) : d[k] = c[k]
  BY Grown
<1>2. ASSUME NEW p \in 1..(Len(c) + 1), p < top
      PROVE  p \in Summits(d) <=> p \in Summits(c)
  <2>1. p \in 1..Len(c) /\ p + 1 \in 1..Len(c) /\ p + 1 \in 1..(Len(c) + 1)
    BY <1>1, <1>2
  <2>2. d[p] = c[p] /\ d[p + 1] = c[p + 1] /\ \A k \in 1..(p - 1) : d[k] = c[k]
    BY <1>1, <2>1
  <2> QED BY <1>1, <2>1, <2>2 DEF Summits
<1>3. {p \in Summits(d) : p < top} = before
  <2>1. Summits(d) \subseteq 1..(Len(c) + 1) /\ Summits(c) \subseteq 1..(Len(c) + 1)
    BY <1>1 DEF Summits
  <2> QED BY <1>2, <2>1
<1>4. ASSUME NEW p \in before
      PROVE  /\ LowestIn(d, p) = LowestIn(c, p) /\ RecoveredIn(d, p) = RecoveredIn(c, p)
             /\ FallIn(d, p, LowestIn(d, p)) = FallIn(c, p, LowestIn(c, p))
  <2>1. /\ p \in DOMAIN c /\ p < top /\ c[p + 1].value < c[p].value /\ p + 1 \in DOMAIN c
    BY DEF Summits
  <2>2. c[top].value >= c[p].value
    <3>1. c[top].value \in Nat /\ c[p].value \in Nat /\ p \in 1..(top - 1)
      BY <1>1, <2>1, PointFacts
    <3>2. c[p].value <= c[top].value
      BY <3>1
    <3> QED BY <3>1, <3>2
  <2>3. p + 1 \in UnderIn(c, p)
    <3>1. p \in Nat /\ p + 1 > p /\ \A k \in (p + 1)..(p + 1) : k = p + 1
      BY <1>1, <2>1
    <3> QED BY <2>1, <3>1 DEF UnderIn
  <2>4. UnderIn(c, p) # {}
    BY <2>3
  <2> HIDE DEF before
  <2>5. /\ LowestIn(d, p) = LowestIn(c, p) /\ RecoveredIn(d, p) = RecoveredIn(c, p)
        /\ LowestIn(c, p) \in DOMAIN c
    BY <2>1, <2>2, <2>4, EndedStays
  <2> QED BY <1>1, <2>1, <2>5 DEF FallIn
<1> HIDE DEF before
<1>5. DrawdownsOf(d, before) = DrawdownsOf(c, before)
  BY <1>4, SameDrawdowns
<1> QED BY <1>3, <1>5 DEF before

\* A value that reaches the peak's closes its drawdown and is the next peak.
LEMMA NextPeak ==
  ASSUME NEW c \in Seq(PointRow), NEW x \in PointRow, NEW top, NEW low, NEW found,
         EpisodesFit(c, top, low, found), c # <<>>, x.value >= c[top].value,
         NEW d, d = Append(c, x), NEW n, n = Len(c) + 1
  PROVE  EpisodesFit(d, n, Figures!None, found \cup Closing(c, top, low, n))
<1>1. /\ d \in Seq(PointRow) /\ Len(d) = n /\ Len(c) \in Nat /\ DOMAIN c = 1..Len(c)
      /\ DOMAIN d = 1..n /\ (\A k \in 1..Len(c) : d[k] = c[k]) /\ d[n] = x
      /\ d # <<>>
  BY Grown
<1>2. n \in Nat /\ n \in 1..n /\ \A k \in 1..n : k \in 1..Len(c) \/ k = n
  BY <1>1
<1>3. /\ top \in 1..Len(c) /\ top \in 1..n /\ top < n /\ top \in Nat
      /\ \A k \in 1..(top - 1) : c[k].value <= c[top].value
      /\ \A k \in (top + 1)..Len(c) : c[k].value < c[top].value
  BY <1>1 DEF EpisodesFit
<1>4. /\ \A k \in 1..Len(c) : c[k].value \in Nat
      /\ \A k \in 1..n : d[k].value \in Nat
      /\ x.value \in Nat
  BY <1>1, PointFacts DEF PointRow
<1>5. \A k \in 1..(n - 1) : d[k].value <= d[n].value
  <2> SUFFICES ASSUME NEW k \in 1..(n - 1) PROVE d[k].value <= d[n].value
    OBVIOUS
  <2>1. k \in 1..Len(c) /\ d[k] = c[k] /\ n - 1 = Len(c)
    BY <1>1, <1>2
  <2>2. c[k].value <= c[top].value
    <3>1. k \in 1..(top - 1) \/ k = top \/ k \in (top + 1)..Len(c)
      BY <1>1, <1>3, <2>1
    <3> QED BY <1>3, <1>4, <2>1, <3>1
  <2>3. c[k].value \in Nat /\ c[top].value \in Nat
    BY <1>3, <1>4, <2>1
  <2> QED BY <1>1, <1>4, <2>1, <2>2, <2>3
<1> DEFINE before == {p \in Summits(c) : p < top}
<1>6. found = DrawdownsOf(c, before)
  BY DEF EpisodesFit
<1>7. before = {p \in Summits(d) : p < top} /\ DrawdownsOf(d, before) = DrawdownsOf(c, before)
  <2>1. top \in DOMAIN c
    BY <1>1, <1>3
  <2>2. /\ {p \in Summits(d) : p < top} = {p \in Summits(c) : p < top}
        /\ DrawdownsOf(d, {p \in Summits(c) : p < top}) =
           DrawdownsOf(c, {p \in Summits(c) : p < top})
    BY <1>3, <2>1, EndedSame, Zenon
  <2> QED BY <2>2
<1> HIDE DEF before
<1>8. ASSUME NEW p \in Summits(d), p < n, ~(p < top) PROVE p = top /\ top # Len(c)
  <2>1. /\ p \in 1..n /\ p + 1 \in 1..n /\ d[p + 1].value < d[p].value
        /\ \A k \in 1..(p - 1) : d[k].value <= d[p].value
    BY <1>1 DEF Summits
  <2>2. p \in 1..Len(c) /\ d[p] = c[p] /\ d[top] = c[top]
    BY <1>1, <1>3, <1>8, <2>1
  <2>3. ~(p > top)
    <3> SUFFICES ASSUME p > top PROVE FALSE
      OBVIOUS
    <3>1. top \in 1..(p - 1) /\ p \in (top + 1)..Len(c)
      BY <1>3, <2>2
    <3>2. d[top].value <= d[p].value /\ c[p].value < c[top].value
      BY <1>3, <2>1, <3>1
    <3> QED BY <1>3, <1>4, <2>2, <3>2
  <2>4. p = top
    BY <1>3, <1>8, <2>2, <2>3
  <2>5. top # Len(c)
    <3> SUFFICES ASSUME top = Len(c) PROVE FALSE
      OBVIOUS
    <3>1. p + 1 = n
      BY <2>4
    <3>2. x.value < c[top].value
      BY <1>1, <2>1, <2>2, <2>4, <3>1
    <3> QED BY <1>3, <1>4, <3>2
  <2> QED BY <2>4, <2>5
<1>9. DrawdownsOf(d, {p \in Summits(d) : p < n}) = found \cup Closing(c, top, low, n)
  <2>1. CASE top = Len(c)
    <3>1. {p \in Summits(d) : p < n} = before
      <4>1. \A p \in Summits(d) : p < n <=> p < top
        <5> SUFFICES ASSUME NEW p \in Summits(d) PROVE p < n <=> p < top
          OBVIOUS
        <5>1. p \in 1..n
          BY <1>1 DEF Summits
        <5>2. p < n => p < top
          BY <1>8, <2>1
        <5> QED BY <1>2, <1>3, <5>1, <5>2
      <4> QED BY <1>7, <4>1
    <3>2. low = Figures!None
      BY <2>1 DEF EpisodesFit
    <3>3. Closing(c, top, low, n) = {}
      BY <3>2 DEF Closing
    <3> QED BY <1>6, <1>7, <3>1, <3>3
  <2>2. CASE top # Len(c)
    <3>1. low \in UnderIn(c, top) /\ IsTrough(c, top, low)
      BY <2>2 DEF EpisodesFit
    <3>2. top + 1 \in 1..Len(c) /\ top + 1 \in 1..n /\ top + 1 \in (top + 1)..Len(c)
          /\ \A k \in 1..top : k \in 1..Len(c)
      <4>1. top \in Nat /\ Len(c) \in Nat /\ top < Len(c) /\ 1 <= top /\ n = Len(c) + 1
        <5>1. PICK m \in Nat : m = Len(c) /\ top \in 1..m /\ top # m
          BY <1>1, <1>3, <2>2
        <5>2. top \in Nat /\ top < m /\ 1 <= top
          BY <5>1
        <5> QED BY <5>1, <5>2
      <4> QED BY <4>1
    <3>3. top \in Summits(d)
      <4>1. d[top] = c[top] /\ d[top + 1] = c[top + 1] /\ \A k \in 1..(top - 1) : d[k] = c[k]
        BY <1>1, <1>3, <3>2
      <4> QED BY <1>1, <1>3, <3>2, <4>1 DEF Summits
    <3>4. {p \in Summits(d) : p < n} = before \cup {top}
      <4>1. \A p \in Summits(d) : p < n <=> p < top \/ p = top
        <5> SUFFICES ASSUME NEW p \in Summits(d) PROVE p < n <=> p < top \/ p = top
          OBVIOUS
        <5>1. p \in 1..n
          BY <1>1 DEF Summits
        <5>2. p < n => p < top \/ p = top
          BY <1>8
        <5> QED BY <1>2, <1>3, <5>1, <5>2
      <4> QED BY <1>7, <3>3, <4>1
    <3>5. UnderIn(c, top) = (top + 1)..Len(c)
      BY <1>1, <1>3, UnderToTheEnd
    <3>6. UnderIn(d, top) = (top + 1)..Len(c)
      <4>1. \A k \in (top + 1)..Len(c) : d[k].value < d[top].value
        <5>1. \A k \in (top + 1)..Len(c) : k \in 1..Len(c)
          BY <1>1, <1>3
        <5> QED BY <1>1, <1>3, <5>1
      <4>2. d[Len(c) + 1].value >= d[top].value
        BY <1>1, <1>3
      <4>3. Len(c) \in top..Len(d) /\ top \in DOMAIN d
        BY <1>1, <1>2, <1>3
      <4>4. Len(c) = Len(d) \/ d[Len(c) + 1].value >= d[top].value
        BY <4>2
      <4>5. d \in Seq(PointRow)
        BY <1>1
      <4>6. PICK last : last = Len(c)
        OBVIOUS
      <4>7. /\ last \in top..Len(d) /\ \A k \in (top + 1)..last : d[k].value < d[top].value
            /\ last = Len(d) \/ d[last + 1].value >= d[top].value
        BY <4>1, <4>3, <4>4, <4>6
      <4>8. UnderIn(d, top) = (top + 1)..last
        BY <4>3, <4>5, <4>7, UnderIs
      <4> QED BY <4>6, <4>8
    <3>7. low \in UnderIn(d, top) /\ IsTrough(d, top, low) /\ low \in 1..Len(c)
      <4>1. \A i \in (top + 1)..Len(c) : i \in 1..Len(c)
        BY <1>1, <1>3
      <4> QED BY <1>1, <3>1, <3>5, <3>6, <4>1 DEF IsTrough
    <3>8. LowestIn(d, top) = low
      BY <1>1, <1>3, <3>7, TroughIs
    <3>9. RecoveredIn(d, top) = n
      <4>1. n \in RegainedIn(d, top)
        BY <1>1, <1>2, <1>3 DEF RegainedIn
      <4>2. ASSUME NEW r \in RegainedIn(d, top) PROVE n <= r
        <5>1. r \in 1..n /\ r > top /\ d[r].value >= d[top].value
          BY <1>1 DEF RegainedIn
        <5>2. r \notin (top + 1)..Len(c)
          <6> SUFFICES ASSUME r \in (top + 1)..Len(c) PROVE FALSE
            OBVIOUS
          <6>1. r \in 1..Len(c) /\ c[r].value < c[top].value
            BY <1>2, <1>3
          <6> QED BY <1>1, <1>3, <1>4, <5>1, <6>1
        <5> QED BY <1>1, <1>2, <1>3, <5>1, <5>2
      <4> QED BY <1>1, <1>3, <4>1, <4>2, RecoveryIs
    <3>10. FallIn(d, top, low) = FallIn(c, top, low) /\ low # Figures!None
      BY <1>1, <1>3, <3>7 DEF FallIn, Figures!None
    <3>11. Drawdown(d, top) = [peak |-> top, trough |-> low, recovery |-> n]
      BY <3>8, <3>9 DEF Drawdown
    <3>12. DrawdownsOf(d, before \cup {top}) = DrawdownsOf(d, before) \cup Closing(c, top, low, n)
      BY <3>8, <3>10, <3>11, OneMoreDrawdown DEF Closing
    <3> QED BY <1>6, <1>7, <3>4, <3>12
  <2> QED BY <2>1, <2>2
<1>10. \A k \in (n + 1)..Len(d) : FALSE
  BY <1>1, <1>2
<1> QED BY <1>1, <1>2, <1>5, <1>9, <1>10 DEF EpisodesFit

\* A value below the peak's is in its drawdown, and may be the trough of it.
LEMMA FurtherDown ==
  ASSUME NEW c \in Seq(PointRow), NEW x \in PointRow, NEW top, NEW low, NEW found,
         EpisodesFit(c, top, low, found), c # <<>>, ~(x.value >= c[top].value),
         NEW d, d = Append(c, x), NEW n, n = Len(c) + 1,
         NEW bottom, bottom = IF low = Figures!None \/ x.value < c[low].value THEN n ELSE low
  PROVE  EpisodesFit(d, top, bottom, found)
<1>1. /\ d \in Seq(PointRow) /\ Len(d) = n /\ Len(c) \in Nat /\ DOMAIN c = 1..Len(c)
      /\ DOMAIN d = 1..n /\ (\A k \in 1..Len(c) : d[k] = c[k]) /\ d[n] = x
      /\ d # <<>>
  BY Grown
<1>2. n \in Nat /\ n \in 1..n /\ \A k \in 1..n : k \in 1..Len(c) \/ k = n
  BY <1>1
<1>3. /\ top \in 1..Len(c) /\ top \in 1..n /\ top < n /\ top \in Nat /\ d[top] = c[top]
      /\ \A k \in 1..(top - 1) : c[k].value <= c[top].value
      /\ \A k \in (top + 1)..Len(c) : c[k].value < c[top].value
  BY <1>1 DEF EpisodesFit
<1>4. /\ \A k \in 1..Len(c) : c[k].value \in Nat
      /\ \A k \in 1..n : d[k].value \in Nat
      /\ x.value \in Nat
  BY <1>1, PointFacts DEF PointRow
<1>5. \A k \in 1..(top - 1) : d[k].value <= d[top].value
  <2>1. \A k \in 1..(top - 1) : k \in 1..Len(c)
    BY <1>1, <1>3
  <2> QED BY <1>1, <1>3, <2>1
<1>6. \A k \in (top + 1)..n : d[k].value < d[top].value
  <2> SUFFICES ASSUME NEW k \in (top + 1)..n PROVE d[k].value < d[top].value
    OBVIOUS
  <2>1. (k \in (top + 1)..Len(c) /\ k \in 1..Len(c)) \/ k = n
    BY <1>1, <1>2, <1>3
  <2>2. CASE k = n
    BY <1>1, <1>3, <1>4, <2>2
  <2>3. CASE k \in (top + 1)..Len(c) /\ k \in 1..Len(c)
    BY <1>1, <1>3, <2>3
  <2> QED BY <2>1, <2>2, <2>3
<1>7. UnderIn(d, top) = (top + 1)..n
  <2>1. n = Len(d) /\ top \in DOMAIN d
    BY <1>1, <1>2, <1>3
  <2> QED BY <1>1, <1>6, <2>1, UnderToTheEnd
<1>8. UnderIn(c, top) = (top + 1)..Len(c)
  <2>1. top \in DOMAIN c
    BY <1>1, <1>3
  <2> QED BY <1>1, <1>3, <2>1, UnderToTheEnd
<1>9. bottom \in UnderIn(d, top) /\ IsTrough(d, top, bottom)
  <2>1. CASE top = Len(c)
    <3>1. bottom = n
      BY <2>1 DEF EpisodesFit
    <3>2. \A i \in (top + 1)..n : i = n
      BY <1>2, <1>3, <2>1
    <3>3. n \in (top + 1)..n
      BY <1>2, <1>3
    <3>4. d[n].value \in Nat
      BY <1>2, <1>4
    <3> QED BY <1>2, <1>7, <3>1, <3>2, <3>3, <3>4 DEF IsTrough
  <2>2. CASE top # Len(c)
    <3>1. low \in UnderIn(c, top) /\ IsTrough(c, top, low)
      BY <2>2 DEF EpisodesFit
    <3>2. low \in (top + 1)..Len(c) /\ low \in 1..Len(c) /\ low # Figures!None /\ d[low] = c[low]
      BY <1>1, <1>3, <1>8, <3>1 DEF Figures!None
    <3>3. \A i \in (top + 1)..n : i = n \/ (i \in (top + 1)..Len(c) /\ i \in 1..Len(c))
      BY <1>2, <1>3
    <3>4. \A i \in (top + 1)..Len(c) :
            c[low].value <= c[i].value /\ (c[i].value = c[low].value => low <= i)
      BY <1>8, <3>1 DEF IsTrough
    <3>5. c[low].value \in Nat /\ d[n].value = x.value
      BY <1>1, <1>4, <3>2
    <3>6. CASE x.value < c[low].value
      <4>1. bottom = n /\ n \in (top + 1)..n
        BY <1>2, <1>3, <3>6
      <4>2. ASSUME NEW i \in (top + 1)..n
            PROVE  d[n].value <= d[i].value /\ (d[i].value = d[n].value => n <= i)
        <5>1. CASE i = n
          BY <1>2, <1>4, <5>1
        <5>2. CASE i \in (top + 1)..Len(c) /\ i \in 1..Len(c)
          <6>1. c[low].value <= c[i].value /\ d[i] = c[i] /\ c[i].value \in Nat
            BY <1>1, <1>4, <3>4, <5>2
          <6> QED BY <1>4, <3>5, <3>6, <6>1
        <5> QED BY <3>3, <5>1, <5>2
      <4> QED BY <1>7, <4>1, <4>2 DEF IsTrough
    <3>7. CASE ~(x.value < c[low].value)
      <4>1. bottom = low /\ low \in (top + 1)..n
        BY <1>2, <1>3, <3>2, <3>7
      <4>2. ASSUME NEW i \in (top + 1)..n
            PROVE  d[low].value <= d[i].value /\ (d[i].value = d[low].value => low <= i)
        <5>1. CASE i = n
          <6>1. low <= n
            BY <1>2, <1>3, <4>1
          <6> QED BY <1>4, <3>2, <3>5, <3>7, <5>1, <6>1
        <5>2. CASE i \in (top + 1)..Len(c) /\ i \in 1..Len(c)
          BY <1>1, <3>2, <3>4, <5>2
        <5> QED BY <3>3, <5>1, <5>2
      <4> QED BY <1>7, <4>1, <4>2 DEF IsTrough
    <3> QED BY <3>6, <3>7
  <2> QED BY <2>1, <2>2
<1>10. found = DrawdownsOf(d, {p \in Summits(d) : p < top})
  <2>1. found = DrawdownsOf(c, {p \in Summits(c) : p < top})
    BY DEF EpisodesFit
  <2>2. top \in DOMAIN c
    BY <1>1, <1>3
  <2>3. /\ {p \in Summits(d) : p < top} = {p \in Summits(c) : p < top}
        /\ DrawdownsOf(d, {p \in Summits(c) : p < top}) =
           DrawdownsOf(c, {p \in Summits(c) : p < top})
    BY <1>3, <2>2, EndedSame, Zenon
  <2> QED BY <2>1, <2>3
<1>11. top # Len(d)
  BY <1>1, <1>2, <1>3
<1> QED BY <1>1, <1>3, <1>5, <1>6, <1>9, <1>10, <1>11 DEF EpisodesFit

\* The first point is the first peak.
LEMMA FirstPeak ==
  ASSUME NEW x \in PointRow, NEW low, NEW found, EpisodesFit(<<>>, Figures!None, low, found),
         NEW d, d = Append(<<>>, x)
  PROVE  EpisodesFit(d, 1, Figures!None, found \cup Closing(<<>>, Figures!None, low, 1))
<1>1. d \in Seq(PointRow) /\ Len(d) = 1 /\ DOMAIN d = 1..1 /\ d # <<>>
  <2>1. <<>> \in Seq(PointRow) /\ Len(<<>>) = 0
    OBVIOUS
  <2> QED BY <2>1, Grown
<1>2. Closing(<<>>, Figures!None, low, 1) = {}
  BY DEF EpisodesFit, Closing
<1>3. {p \in Summits(<<>>) : p < Figures!None} = {} /\ {p \in Summits(d) : p < 1} = {}
  <2>1. DOMAIN <<>> = {}
    OBVIOUS
  <2> QED BY <1>1, <2>1 DEF Summits
<1>4. DrawdownsOf(<<>>, {}) = {} /\ DrawdownsOf(d, {}) = {}
  BY DEF DrawdownsOf
<1>5. found = {}
  BY <1>3, <1>4 DEF EpisodesFit
<1>6. /\ \A k \in 1..(1 - 1) : d[k].value <= d[1].value
      /\ \A k \in (1 + 1)..Len(d) : d[k].value < d[1].value
  BY <1>1
<1>7. found \cup Closing(<<>>, Figures!None, low, 1) = DrawdownsOf(d, {p \in Summits(d) : p < 1})
  BY <1>2, <1>3, <1>4, <1>5
<1> HIDE DEF PointRow
<1>8. /\ 1 \in DOMAIN d /\ 1 = Len(d) /\ d # <<>>
  BY <1>1
<1> QED BY <1>6, <1>7, <1>8 DEF EpisodesFit

\* A step is one of the report's, or leaves it alone.
LEMMA FiguresMove ==
  ASSUME [Next]_vars
  PROVE  Figures!Next \/ UNCHANGED reportVars
BY DEF Next, vars, ResearchMoves, AllocationMoves, ProviderMoves, NoticeMoves, ClaimsMoves,
       SecretsMoves, KiteMoves, FiguresMoves, ResolverMoves, BundleMoves, EngineMoves,
       StartMoves

\* The loops after any number of points: the highest value and the deepest fall,
\* the open drawdown and those that ended, and the rolling window's left index.
FiguresInv ==
  /\ curve \in Seq(PointRow) /\ reported \in BOOLEAN
  /\ MaximumFits(curve, runningMax, worst)
  /\ RollingFits(curve, startIdx, rolled)
  /\ ~reported => EpisodesFit(curve, peak, trough, episodes)
  /\ reported => episodes = DrawdownsOf(curve, Summits(curve))

LEMMA FiguresInitial == Figures!Init => FiguresInv
<1> SUFFICES ASSUME Figures!Init PROVE FiguresInv
  OBVIOUS
<1>1. /\ curve = <<>> /\ runningMax = 0 /\ worst = [from |-> 1, to |-> 1]
      /\ peak = Figures!None /\ trough = Figures!None /\ episodes = {}
      /\ startIdx = 1 /\ rolled = {} /\ reported = FALSE
  BY DEF Figures!Init
<1>2. <<>> \in Seq(PointRow) /\ DOMAIN <<>> = {} /\ Len(<<>>) = 0
  OBVIOUS
<1>3. MaximumFits(<<>>, 0, [from |-> 1, to |-> 1])
  BY <1>2 DEF MaximumFits
<1>4. RollingFits(<<>>, 1, {})
  <2>1. 1 \in Nat \ {0} /\ 1..(1 - 1) = {}
    OBVIOUS
  <2>2. PairsIn(<<>>) = {}
    BY <1>2 DEF PairsIn
  <2> QED BY <1>2, <2>1, <2>2 DEF RollingFits
<1>5. EpisodesFit(<<>>, Figures!None, Figures!None, {})
  <2>1. {p \in Summits(<<>>) : p < Figures!None} = {}
    BY <1>2 DEF Summits
  <2>2. DrawdownsOf(<<>>, {}) = {}
    BY DEF DrawdownsOf
  <2> QED BY <2>1, <2>2 DEF EpisodesFit
<1> QED BY <1>1, <1>2, <1>3, <1>4, <1>5 DEF FiguresInv

\* A drawdown that closes, in the terms of the curve.
LEMMA EpisodeIs == \A r : Figures!Episode(r) = Closing(curve, peak, trough, r)
BY DEF Figures!Episode, Figures!Fall, Closing, FallIn

LEMMA PointStep ==
  ASSUME FiguresInv, NEW gap \in Gaps, NEW value \in CurveValues, Figures!Point(gap, value)
  PROVE  FiguresInv'
<1> DEFINE date == IF curve = <<>> THEN WindowDays ELSE curve[(Len(curve) + 1) - 1].date + gap
<1>1. PICK n : n = Len(curve) + 1
  OBVIOUS
<1>2. PICK x : x = [date |-> date, value |-> value]
  OBVIOUS
<1>3. /\ curve \in Seq(PointRow) /\ ~reported /\ reported' = reported
      /\ MaximumFits(curve, runningMax, worst) /\ RollingFits(curve, startIdx, rolled)
      /\ EpisodesFit(curve, peak, trough, episodes)
  BY DEF FiguresInv, Figures!Point
<1>4. /\ curve' = Append(curve, x)
      /\ Figures!ExtendMaximum(value) /\ Figures!ExtendEpisodes(n, value)
      /\ Figures!ExtendRolling(n)
  BY <1>1, <1>2, Zenon DEF Figures!Point
<1>5. /\ Len(curve) \in Nat /\ DOMAIN curve = 1..Len(curve) /\ n \in Nat
      /\ \A k \in 1..Len(curve) : curve[k].date \in Nat
  BY <1>1, <1>3, PointFacts
<1>6. curve # <<>> => Len(curve) \in 1..Len(curve)
  <2>1. curve # <<>> => Len(curve) # 0
    BY <1>3
  <2> QED BY <1>5, <2>1
<1>7. gap \in Nat \ {0} /\ value \in Nat \ {0} /\ WindowDays \in Nat \ {0}
  BY ReportAssumption
<1>8. date \in Nat /\ (curve # <<>> => date > curve[Len(curve)].date)
  <2>1. (Len(curve) + 1) - 1 = Len(curve)
    BY <1>5
  <2>2. CASE curve = <<>>
    BY <1>7, <2>2
  <2>3. CASE curve # <<>>
    <3>1. curve[Len(curve)].date \in Nat /\ date = curve[Len(curve)].date + gap
      BY <1>5, <1>6, <2>1, <2>3
    <3> HIDE DEF date
    <3> QED BY <1>7, <3>1
  <2> QED BY <2>2, <2>3
<1> HIDE DEF date
<1>9. x \in PointRow /\ x.value = value /\ x.date = date
  BY <1>2, <1>7, <1>8 DEF PointRow
<1>10. curve' \in Seq(PointRow)
  BY <1>3, <1>4, <1>9, Grown
<1>11. MaximumFits(curve', runningMax', worst')
  <2>1. PICK highest : highest = IF value > runningMax THEN value ELSE runningMax
    OBVIOUS
  <2>2. PICK fall : fall = [from |-> highest, to |-> value]
    OBVIOUS
  <2>3. runningMax' = highest /\ worst' = IF Figures!Deeper(fall, worst) THEN fall ELSE worst
    BY <1>4, <2>1, <2>2, Zenon DEF Figures!ExtendMaximum
  <2> QED BY <1>3, <1>4, <1>9, <2>1, <2>2, <2>3, MaximumGrows
<1>12. EpisodesFit(curve', peak', trough', episodes')
  <2>1. CASE curve = <<>>
    <3>1. peak = Figures!None /\ n = 1
      BY <1>1, <1>3, <2>1 DEF EpisodesFit
    <3>2. episodes' = episodes \cup Closing(curve, peak, trough, n) /\ peak' = n /\ trough' = Figures!None
      BY <1>4, <3>1, EpisodeIs, Zenon DEF Figures!ExtendEpisodes
    <3> QED BY <1>3, <1>4, <1>9, <2>1, <3>1, <3>2, FirstPeak
  <2>2. CASE curve # <<>> /\ x.value >= curve[peak].value
    <3>1. peak # Figures!None
      BY <1>3, <1>5, <2>2 DEF EpisodesFit, Figures!None
    <3>2. episodes' = episodes \cup Closing(curve, peak, trough, n) /\ peak' = n /\ trough' = Figures!None
      BY <1>4, <1>9, <2>2, <3>1, EpisodeIs, Zenon DEF Figures!ExtendEpisodes
    <3>3. EpisodesFit(curve', n, Figures!None, episodes \cup Closing(curve, peak, trough, n))
      BY <1>1, <1>3, <1>4, <1>9, <2>2, NextPeak, Zenon
    <3> QED BY <3>2, <3>3
  <2>3. CASE curve # <<>> /\ ~(x.value >= curve[peak].value)
    <3>1. peak # Figures!None
      BY <1>3, <1>5, <2>3 DEF EpisodesFit, Figures!None
    <3>2. PICK bottom : bottom = IF trough = Figures!None \/ x.value < curve[trough].value
                                 THEN n ELSE trough
      OBVIOUS
    <3>3. trough' = bottom /\ peak' = peak /\ episodes' = episodes
      BY <1>4, <1>9, <2>3, <3>1, <3>2, Zenon DEF Figures!ExtendEpisodes
    <3>4. EpisodesFit(curve', peak, bottom, episodes)
      BY <1>1, <1>3, <1>4, <1>9, <2>3, <3>2, FurtherDown, Zenon
    <3> QED BY <3>3, <3>4
  <2> QED BY <2>1, <2>2, <2>3
<1>13. RollingFits(curve', startIdx', rolled')
  <2>1. PICK d : d = curve'
    OBVIOUS
  <2>2. /\ d \in Seq(PointRow) /\ Len(d) = n /\ DOMAIN d = 1..n
        /\ \A k \in 1..n : d[k].date \in Nat
    <3>1. d \in Seq(PointRow) /\ Len(d) = n
      BY <1>1, <1>3, <1>4, <1>9, <2>1, Grown
    <3> QED BY <3>1, PointFacts
  <2>3. startIdx \in Nat /\ startIdx >= 1 /\ startIdx <= n
    BY <1>1, <1>3, <1>5 DEF RollingFits
  <2>4. \E s \in startIdx..n : Opens(d, startIdx, s)
    <3>1. \A k \in startIdx..Len(d) : d[k].date \in Nat
      BY <1>5, <2>2, <2>3
    <3>2. Len(d) \in Nat /\ startIdx <= Len(d)
      BY <1>5, <2>2, <2>3
    <3>3. \E s \in startIdx..Len(d) : Opens(d, startIdx, s)
      BY <2>3, <3>1, <3>2, SomeOpens
    <3> QED BY <2>2, <3>3
  <2>5. PICK s : s = CHOOSE first \in startIdx..n :
                       /\ first = n \/ d[first].date >= d[n].date - WindowDays
                       /\ \A before \in startIdx..(first - 1) : d[before].date < d[n].date - WindowDays
    OBVIOUS
  <2>6. s \in startIdx..n /\ Opens(d, startIdx, s)
    <3>1. \E first \in startIdx..n :
            /\ first = n \/ d[first].date >= d[n].date - WindowDays
            /\ \A before \in startIdx..(first - 1) : d[before].date < d[n].date - WindowDays
      BY <2>2, <2>4, Zenon DEF Opens
    <3>2. /\ s \in startIdx..n
          /\ s = n \/ d[s].date >= d[n].date - WindowDays
          /\ \A before \in startIdx..(s - 1) : d[before].date < d[n].date - WindowDays
      BY <2>5, <3>1, Zenon
    <3> QED BY <2>2, <3>2, Zenon DEF Opens
  <2>7. s = Figures!Beginning(n)
    BY <2>1, <2>5, Zenon DEF Figures!Beginning, Figures!Date, Figures!WindowStart
  <2>8. PICK more : more = IF s = n \/ d[s].date > d[n].date - WindowDays
                           THEN rolled ELSE rolled \cup {<<s, n>>}
    OBVIOUS
  <2>9. startIdx' = s /\ rolled' = more
    BY <1>4, <2>1, <2>7, <2>8, Zenon DEF Figures!ExtendRolling, Figures!Date, Figures!WindowStart
  <2>10. curve # <<>> => x.date > curve[Len(curve)].date
    BY <1>8, <1>9
  <2>11. RollingFits(d, s, more)
    <3>1. s \in startIdx..Len(d) /\ d = Append(curve, x) /\ more = PairsWith(d, s, rolled)
      BY <1>4, <2>1, <2>2, <2>6, <2>8 DEF PairsWith
    <3>2. Follows(curve, x)
      BY <2>10 DEF Follows
    <3> QED BY <1>3, <1>9, <2>6, <3>1, <3>2, RollingGrows
  <2> QED BY <2>1, <2>9, <2>11
<1> QED BY <1>3, <1>10, <1>11, <1>12, <1>13 DEF FiguresInv

LEMMA FiguresStep == FiguresInv /\ [Next]_vars => FiguresInv'
<1> SUFFICES ASSUME FiguresInv, [Next]_vars PROVE FiguresInv'
  OBVIOUS
<1>1. CASE UNCHANGED reportVars
  BY <1>1 DEF FiguresInv, reportVars
<1>2. CASE Figures!Report
  <2>1. /\ ~reported /\ reported' = TRUE /\ Len(curve) >= 2
        /\ episodes' = episodes \cup Closing(curve, peak, trough, Figures!None)
        /\ curve' = curve /\ runningMax' = runningMax /\ worst' = worst
        /\ startIdx' = startIdx /\ rolled' = rolled
    BY <1>2, EpisodeIs DEF Figures!Report
  <2>2. curve # <<>>
    BY <2>1 DEF FiguresInv
  <2>3. episodes' = DrawdownsOf(curve, Summits(curve))
    BY <2>1, <2>2, AllDrawdowns DEF FiguresInv
  <2> QED BY <2>1, <2>3 DEF FiguresInv
<1>3. ASSUME NEW gap \in Gaps, NEW value \in CurveValues, Figures!Point(gap, value)
      PROVE  FiguresInv'
  BY <1>3, PointStep
<1> QED BY <1>1, <1>2, <1>3, FiguresMove DEF Figures!Next

LEMMA SameEpisodes == Figures!EpisodesOfCurve = DrawdownsOf(curve, Summits(curve))
<1>1. Figures!PeaksOfCurve = Summits(curve)
  BY Zenon DEF Figures!PeaksOfCurve, Figures!Points, Figures!V, Summits
<1>2. \A p : Figures!Below(p) = UnderIn(curve, p)
  BY Zenon DEF Figures!Below, Figures!Points, Figures!V, UnderIn
<1>3. \A p : Figures!TroughOf(p) = LowestIn(curve, p)
  BY <1>2, Zenon DEF Figures!TroughOf, Figures!V, LowestIn, IsTrough
<1>4. \A p : Figures!RecoveriesFrom(p) = RegainedIn(curve, p)
  BY Zenon DEF Figures!RecoveriesFrom, Figures!Points, Figures!V, RegainedIn
<1>5. \A p : Figures!RecoveryOf(p) = RecoveredIn(curve, p)
  <2> SUFFICES ASSUME NEW p PROVE Figures!RecoveryOf(p) = RecoveredIn(curve, p)
    OBVIOUS
  <2>1. Figures!RecoveryOf(p) = IF Figures!RecoveriesFrom(p) = {} THEN Figures!None
                                ELSE FirstOf(Figures!RecoveriesFrom(p))
    BY Zenon DEF Figures!RecoveryOf, FirstOf
  <2> QED BY <1>4, <2>1 DEF RecoveredIn
<1>6. \A i, j : Figures!Fall(i, j) = FallIn(curve, i, j)
  BY DEF Figures!Fall, FallIn
<1> QED BY <1>1, <1>3, <1>5, <1>6 DEF Figures!EpisodesOfCurve, DrawdownsOf, Drawdown

\* On a daily curve the date of a point is as many days after the first's as it is points.
LEMMA DailyDates ==
  ASSUME curve \in Seq(PointRow), Figures!Daily, NEW k \in DOMAIN curve
  PROVE  1 \in DOMAIN curve /\ curve[k].date = curve[1].date + (k - 1)
<1> DEFINE S == {m \in Nat : m + 1 \in DOMAIN curve => curve[m + 1].date = curve[1].date + m}
<1>0. /\ DOMAIN curve = 1..Len(curve) /\ Len(curve) \in Nat /\ 1 \in DOMAIN curve
      /\ \A i \in DOMAIN curve : curve[i].date \in Nat
  BY PointFacts
<1>1. 0 \in S
  <2>1. 0 + 1 = 1 /\ curve[1].date + 0 = curve[1].date
    BY <1>0
  <2> QED BY <2>1
<1>2. ASSUME NEW m \in Nat, m \in S PROVE m + 1 \in S
  <2> SUFFICES ASSUME (m + 1) + 1 \in DOMAIN curve
               PROVE  curve[(m + 1) + 1].date = curve[1].date + (m + 1)
    OBVIOUS
  <2>1. m + 1 \in DOMAIN curve
    BY <1>0
  <2>2. curve[m + 1].date = curve[1].date + m
    BY <1>2, <2>1
  <2>3. curve[(m + 1) + 1].date = curve[m + 1].date + 1
    <3>1. (m + 1) + 1 > 1 /\ ((m + 1) + 1) - 1 = m + 1
      OBVIOUS
    <3> QED BY <3>1 DEF Figures!Daily, Figures!Points
  <2>4. curve[1].date \in Nat
    BY <1>0
  <2>5. (curve[1].date + m) + 1 = curve[1].date + (m + 1)
    BY <2>4
  <2> QED BY <2>2, <2>3, <2>5
<1>3. S = Nat
  <2> HIDE DEF S
  <2>1. S \subseteq Nat
    BY DEF S
  <2> QED BY <1>1, <1>2, <2>1, NatInduct
<1>4. k - 1 \in Nat /\ (k - 1) + 1 = k
  BY <1>0
<1>5. k - 1 \in S
  BY <1>3, <1>4
<1> QED BY <1>0, <1>4, <1>5

\* On every curve, whatever its rises, falls, repeated values and gaps: the maximum
\* drawdown and the episodes, each computed in one pass, are those of the curve; every
\* rolling return spans a whole window, and a daily curve has all of them.
THEOREM ReportAgrees == Spec => []ReportMatchesCurve
<1>1. Init => FiguresInv
  BY FiguresInitial DEF Init
<1>2. FiguresInv => ReportMatchesCurve
  <2> SUFFICES ASSUME FiguresInv, reported PROVE Figures!ReportMatchesCurve
    BY DEF ReportMatchesCurve, Figures!ReportMatchesCurve
  <2>1. episodes = Figures!EpisodesOfCurve
    BY SameEpisodes DEF FiguresInv
  <2>2. /\ \A i, j \in Figures!Points : i < j => ~Figures!Deeper(Figures!Fall(i, j), worst)
        /\ worst.to < worst.from =>
             \E i, j \in Figures!Points : i < j /\ Figures!Fall(i, j) = worst
    BY DEF FiguresInv, MaximumFits, Figures!Points, Figures!Fall, FallIn
  <2>3. rolled = {pair \in Figures!Points \X Figures!Points :
                    curve[pair[1]].date + WindowDays = curve[pair[2]].date}
    BY DEF FiguresInv, RollingFits, PairsIn, Figures!Points
  <2>4. ASSUME Figures!Daily, NEW j \in Figures!Points, Figures!HasFullWindow(j)
        PROVE  \E i \in Figures!Points : <<i, j>> \in rolled
    <3>1. /\ curve \in Seq(PointRow) /\ j \in DOMAIN curve /\ WindowDays \in Nat \ {0}
          /\ DOMAIN curve = 1..Len(curve) /\ Len(curve) \in Nat
      BY ReportAssumption DEF FiguresInv, Figures!Points
    <3>0. 1 \in DOMAIN curve /\ curve[j].date = curve[1].date + (j - 1)
      BY <2>4, <3>1, DailyDates
    <3>2. 1 \in DOMAIN curve /\ curve[j].date = curve[1].date + (j - 1) /\ curve[1].date \in Nat
      BY <3>0, <3>1, PointFacts
    <3>3. PICK i \in DOMAIN curve : i = j - WindowDays
      BY <2>4, <3>1, <3>2 DEF Figures!HasFullWindow
    <3>4. curve[i].date = curve[1].date + (i - 1)
      BY <2>4, <3>1, DailyDates
    <3>5. curve[i].date + WindowDays = curve[j].date
      BY <3>1, <3>2, <3>3, <3>4
    <3> QED BY <2>3, <3>1, <3>5 DEF Figures!Points
  <2>5. \A pair \in rolled : /\ pair \in Figures!Points \X Figures!Points
                             /\ curve[pair[1]].date + WindowDays = curve[pair[2]].date
    BY <2>3
  <2> QED BY <2>1, <2>2, <2>4, <2>5 DEF Figures!ReportMatchesCurve
<1> QED BY <1>1, <1>2, FiguresStep, PTL DEF Spec
=============================================================================
