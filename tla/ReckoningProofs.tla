--------------------------- MODULE ReckoningProofs ---------------------------
(***************************************************************************)
(* Proofs about the services that reckon: the allocation and the orders of *)
(* a contribution, the simple engine's money and the rate limiter's        *)
(* tokens, for every universe, price list, trade and rate.                 *)
(***************************************************************************)
EXTENDS ServiceProofs

-----------------------------------------------------------------------------
(* The allocation of a contribution: weights under the caps.               *)

LEMMA SameSums == \A f, S : Allocate!SumOver(f, S) = SumOver(f, S)
BY DEF Allocate!SumOver, Allocate!MapThenSumSet, Allocate!MapThenFoldSet,
       SumOver, MapThenSumSet, MapThenFoldSet

\* Shares in proportion, rounded down, are together no more than the amount.
LEMMA Shares ==
  ASSUME NEW S, IsFiniteSet(S), NEW f, NEW g, NEW amount \in Nat,
         \A x \in S : f[x] \in Nat /\ g[x] \in Nat,
         NEW total, total = SumOver(f, S), total > 0,
         \A x \in S : g[x] * total <= f[x] * amount
  PROVE  SumOver(g, S) <= amount
<1> DEFINE gross == [x \in S |-> total * g[x]]
           due == [x \in S |-> amount * f[x]]
<1>1. total \in Nat /\ SumOver(g, S) \in Nat
  BY SumOverNat
<1>2. \A x \in S : g[x] \in Int /\ f[x] \in Int
  OBVIOUS
<1>3. SumOver(gross, S) = total * SumOver(g, S)
  <2>1. total \in Int /\ \A x \in S : g[x] \in Int /\ gross[x] = total * g[x]
    BY <1>1
  <2> HIDE DEF gross
  <2> QED BY <1>1, <2>1, SumOverTimes
<1>4. SumOver(due, S) = amount * SumOver(f, S)
  <2>1. amount \in Int /\ \A x \in S : f[x] \in Int /\ due[x] = amount * f[x]
    OBVIOUS
  <2> HIDE DEF due
  <2> QED BY <2>1, SumOverTimes
<1>5. SumOver(gross, S) <= SumOver(due, S)
  <2>1. ASSUME NEW x \in S
        PROVE  gross[x] \in Int /\ due[x] \in Int /\ gross[x] <= due[x]
    <3>1. \A a, b \in Nat : a * b = b * a /\ a * b \in Nat
      OBVIOUS
    <3> QED BY <1>1, <3>1
  <2> HIDE DEF gross, due
  <2> QED BY <2>1, SumOverLess
<1>6. total * SumOver(g, S) <= amount * total
  BY <1>3, <1>4, <1>5
<1>7. \A t \in Nat \ {0}, a, b \in Nat : t * a <= b * t => a <= b
  OBVIOUS
<1> QED BY <1>1, <1>6, <1>7

Weights == [Symbols -> Nat]

LEMMA WeightSum ==
  ASSUME NEW w \in Weights, NEW S \in SUBSET Symbols
  PROVE  IsFiniteSet(S) /\ SumOver(w, S) \in Nat
<1>1. IsFiniteSet(S)
  BY FS_Subset, AllocationAssumption
<1> QED BY <1>1, SumOverNat DEF Weights

\* What is shared out is at most what there is to share.
LEMMA SpreadKeeps ==
  ASSUME NEW w \in Weights, NEW amount \in Nat, NEW receivers \in SUBSET Symbols
  PROVE  /\ Allocate!Spread(w, amount, receivers) \in Weights
         /\ SumOver(Allocate!Spread(w, amount, receivers), Symbols)
              <= SumOver(w, Symbols) + amount
<1> DEFINE total == SumOver(w, receivers)
           share == [s \in Symbols |-> (amount * w[s]) \div total]
           extra == [s \in Symbols |-> IF s \in receivers THEN share[s] ELSE 0]
           result == [s \in Symbols |-> IF s \in receivers /\ total > 0
                                          THEN w[s] + (amount * w[s]) \div total ELSE w[s]]
<1>0. /\ IsFiniteSet(Symbols) /\ IsFiniteSet(receivers) /\ total \in Nat
      /\ SumOver(w, Symbols) \in Nat /\ \A s \in Symbols : w[s] \in Nat
  BY WeightSum DEF Weights
<1>1. Allocate!Spread(w, amount, receivers) = result
  BY SameSums DEF Allocate!Spread
<1>2. CASE total = 0
  <2>1. result = w
    BY <1>2 DEF Weights
  <2> QED BY <1>0, <1>1, <2>1
<1>3. CASE total > 0
  <2>1. \A s \in Symbols : share[s] \in Nat /\ share[s] * total <= w[s] * amount
    <3>1. ASSUME NEW a \in Nat, NEW b \in Nat, NEW t \in Nat \ {0}
          PROVE  (a * b) \div t \in Nat /\ ((a * b) \div t) * t <= b * a
      <4>1. a * b \in Nat /\ a * b = b * a
        OBVIOUS
      <4> QED BY <4>1
    <3>2. ASSUME NEW s \in Symbols
          PROVE  share[s] \in Nat /\ share[s] * total <= w[s] * amount
      <4>1. share[s] = (amount * w[s]) \div total /\ w[s] \in Nat /\ total \in Nat \ {0}
        BY <1>0, <1>3
      <4> HIDE DEF share, total
      <4> QED BY <3>1, <4>1
    <3> QED BY <3>2
  <2>2. \A s \in Symbols : result[s] = w[s] + extra[s]
    BY <1>0, <1>3
  <2>3. /\ \A s \in receivers : share[s] \in Int /\ extra[s] = share[s]
        /\ \A s \in Symbols \ receivers : extra[s] = 0
        /\ \A s \in Symbols : extra[s] \in Nat
    BY <2>1
  <2>4. result \in Weights
    BY <1>0, <2>1, <1>3 DEF Weights
  <2> HIDE DEF share, extra, result
  <2>5. SumOver(extra, Symbols) = SumOver(share, receivers)
    BY <1>0, <2>3, SumOverPart
  <2>6. SumOver(share, receivers) <= amount
    <3>1. \A s \in receivers : w[s] \in Nat /\ share[s] \in Nat /\ share[s] * total <= w[s] * amount
      BY <1>0, <2>1
    <3> QED BY <1>0, <1>3, <3>1, Shares
  <2>7. SumOver(result, Symbols) = SumOver(w, Symbols) + SumOver(extra, Symbols)
    <3>1. \A s \in Symbols : w[s] \in Int /\ extra[s] \in Int /\ result[s] = w[s] + extra[s]
      BY <1>0, <2>2, <2>3
    <3> QED BY <1>0, <3>1, SumOverPlus
  <2>8. SumOver(extra, Symbols) \in Nat
    BY <1>0, <2>3, SumOverNat
  <2> QED BY <1>0, <1>1, <2>4, <2>5, <2>6, <2>7, <2>8
<1> QED BY <1>0, <1>2, <1>3

LEMMA MinOfTwo ==
  ASSUME NEW a \in Int, NEW b \in Int
  PROVE  /\ Allocate!Min({a, b}) \in {a, b}
         /\ Allocate!Min({a, b}) <= a /\ Allocate!Min({a, b}) <= b
<1>1. \E x \in {a, b} : \A y \in {a, b} : x =< y
  OBVIOUS
<1> QED BY <1>1 DEF Allocate!Min

\* Weights above no cap by more than t.
Capped(t, w) ==
  /\ \A s \in Symbols : w[s] <= hard.etf + t
  /\ \A c \in Classes : SumOver(w, {s \in Symbols : class[s] = c}) <= hard.class + t

LEMMA Clipped ==
  ASSUME NEW w \in Weights, NEW t \in Nat, hard.etf \in Nat
  PROVE  /\ Allocate!ClipEtfs(w, t) \in Weights
         /\ \A s \in Symbols : /\ Allocate!ClipEtfs(w, t)[s] <= w[s]
                               /\ Allocate!ClipEtfs(w, t)[s] <= hard.etf + t
                               /\ t = 0 => Allocate!ClipEtfs(w, t)[s] <= hard.etf
<1>1. ASSUME NEW s \in Symbols,
             NEW x, x = IF w[s] > hard.etf + t THEN hard.etf ELSE w[s]
      PROVE  x \in Nat /\ x <= w[s] /\ x <= hard.etf + t /\ (t = 0 => x <= hard.etf)
  BY <1>1 DEF Weights
<1> QED BY <1>1 DEF Allocate!ClipEtfs, Weights

\* Weights that are nowhere larger leave something to share.
LEMMA Freed ==
  ASSUME NEW w \in Weights, NEW v \in Weights, \A s \in Symbols : v[s] <= w[s]
  PROVE  /\ SumOver(w, Symbols) - SumOver(v, Symbols) \in Nat
         /\ SumOver(v, Symbols) <= SumOver(w, Symbols)
<1>1. \A s \in Symbols : v[s] \in Int /\ w[s] \in Int
  BY DEF Weights
<1> QED BY <1>1, WeightSum, SumOverLess

LEMMA CapEtfsKeeps ==
  ASSUME NEW w \in Weights, hard.etf \in Nat
  PROVE  /\ Allocate!CapEtfs(w) \in Weights
         /\ SumOver(Allocate!CapEtfs(w), Symbols) <= SumOver(w, Symbols)
<1> DEFINE clipped == Allocate!ClipEtfs(w, 0)
           amount == SumOver(w, Symbols) - SumOver(clipped, Symbols)
           receivers == {s \in Symbols : clipped[s] < hard.etf}
<1>1. clipped \in Weights /\ amount \in Nat /\ receivers \in SUBSET Symbols
  BY Clipped, Freed, 0 \in Nat
<1>2. Allocate!CapEtfs(w) = Allocate!Spread(clipped, amount, receivers)
  BY SameSums DEF Allocate!CapEtfs
<1>3. SumOver(w, Symbols) \in Nat /\ SumOver(clipped, Symbols) \in Nat
  BY <1>1, WeightSum
<1>4. SumOver(clipped, Symbols) + amount = SumOver(w, Symbols)
  BY <1>3
<1> HIDE DEF clipped, amount, receivers
<1> QED BY <1>1, <1>2, <1>4, SpreadKeeps

LEMMA ShareIsLess ==
  ASSUME NEW a \in Nat, NEW h \in Nat, NEW t \in Nat, t > h
  PROVE  /\ (a * h) \div t \in Nat /\ (a * h) \div t <= a
         /\ ((a * h) \div t) * t <= a * h
<1>1. a * h \in Nat /\ t \in Nat \ {0} /\ h <= t
  OBVIOUS
<1>2. \A n \in Nat : n \div t \in Nat /\ (n \div t) * t <= n
  BY <1>1
<1>3. (a * h) \div t <= a
  BY <1>1
<1> QED BY <1>1, <1>2, <1>3

\* Scaling brings every class to its cap, up to the tolerance, and raises no weight.
LEMMA Scaled ==
  ASSUME NEW w \in Weights, NEW t \in Nat, hard.class \in Nat,
         class \in [Symbols -> Classes \cup {Unclassified}]
  PROVE  /\ Allocate!ScaleClasses(w, t) \in Weights
         /\ \A s \in Symbols : Allocate!ScaleClasses(w, t)[s] <= w[s]
         /\ \A c \in Classes :
              SumOver(Allocate!ScaleClasses(w, t), {s \in Symbols : class[s] = c}) <= hard.class + t
<1> DEFINE members(c) == {s \in Symbols : class[s] = c}
           scaled == Allocate!ScaleClasses(w, t)
<1>0. /\ \A c : members(c) \in SUBSET Symbols /\ IsFiniteSet(members(c))
                 /\ SumOver(w, members(c)) \in Nat
      /\ \A c : Allocate!ClassTotal(w, c) = SumOver(w, members(c))
      /\ \A s \in Symbols : w[s] \in Nat
  <2>1. ASSUME NEW c
        PROVE  members(c) \in SUBSET Symbols /\ IsFiniteSet(members(c))
               /\ SumOver(w, members(c)) \in Nat
    BY WeightSum
  <2> QED BY <2>1, SameSums DEF Allocate!ClassTotal, Weights
<1>1. \A c : c \in Allocate!Crowded(w, t) <=> c \in Classes /\ SumOver(w, members(c)) > hard.class + t
  BY <1>0 DEF Allocate!Crowded
<1>2. \A s \in Symbols :
        scaled[s] = IF class[s] \in Allocate!Crowded(w, t)
                      THEN (w[s] * hard.class) \div SumOver(w, members(class[s])) ELSE w[s]
  BY <1>0 DEF Allocate!ScaleClasses
<1>4. \A s \in Symbols : scaled[s] \in Nat /\ scaled[s] <= w[s]
  <2> SUFFICES ASSUME NEW s \in Symbols PROVE scaled[s] \in Nat /\ scaled[s] <= w[s]
    OBVIOUS
  <2> DEFINE total == SumOver(w, members(class[s]))
  <2>1. w[s] \in Nat /\ total \in Nat
    BY <1>0
  <2>2. CASE class[s] \in Allocate!Crowded(w, t)
    <3>1. total > hard.class + t /\ scaled[s] = (w[s] * hard.class) \div total
      BY <1>1, <1>2, <2>2
    <3> HIDE DEF total, scaled
    <3>2. total > hard.class
      BY <2>1, <3>1
    <3> QED BY <2>1, <3>1, <3>2, ShareIsLess
  <2>3. CASE class[s] \notin Allocate!Crowded(w, t)
    <3>1. scaled[s] = w[s]
      BY <1>2, <2>3
    <3> QED BY <2>1, <3>1
  <2> QED BY <2>2, <2>3
<1>5. scaled \in Weights
  <2>1. scaled = [s \in Symbols |-> scaled[s]]
    BY DEF Allocate!ScaleClasses
  <2> HIDE DEF scaled
  <2> QED BY <1>4, <2>1 DEF Weights
<1>6. ASSUME NEW c \in Classes
      PROVE  SumOver(scaled, members(c)) <= hard.class + t
  <2> DEFINE M == members(c)
             total == SumOver(w, M)
  <2>0. IsFiniteSet(M) /\ M \in SUBSET Symbols /\ \A s \in M : class[s] = c
    BY <1>0
  <2>1. CASE c \in Allocate!Crowded(w, t)
    <3>1. total \in Nat /\ total > hard.class /\ total > 0
      <4>1. total \in Nat /\ total > hard.class + t
        BY <1>0, <1>1, <2>1
      <4> HIDE DEF total
      <4> QED BY <4>1
    <3>2. ASSUME NEW s \in M
          PROVE  w[s] \in Nat /\ scaled[s] \in Nat /\ scaled[s] * total <= w[s] * hard.class
      <4>1. scaled[s] = (w[s] * hard.class) \div total
        BY <1>2, <2>0, <2>1
      <4>2. w[s] \in Nat
        BY <1>0, <2>0
      <4> HIDE DEF total, scaled
      <4> QED BY <3>1, <4>1, <4>2, ShareIsLess
    <3> HIDE DEF M, scaled
    <3>3. SumOver(scaled, M) <= hard.class
      BY <2>0, <3>1, <3>2, Shares
    <3>4. SumOver(scaled, M) \in Nat
      <4>1. M \in SUBSET Symbols
        BY <2>0
      <4> QED BY <1>5, <4>1, WeightSum
    <3>5. SumOver(scaled, M) <= hard.class + t
      BY <3>3, <3>4
    <3> QED BY <3>5 DEF M
  <2>2. CASE c \notin Allocate!Crowded(w, t)
    <3>1. total <= hard.class + t
      <4>1. ~(total > hard.class + t) /\ total \in Nat
        BY <1>0, <1>1, <2>2
      <4> HIDE DEF total
      <4> QED BY <4>1
    <3>2. ASSUME NEW s \in M
          PROVE  scaled[s] \in Int /\ scaled[s] = w[s]
      <4>1. s \in Symbols /\ class[s] \notin Allocate!Crowded(w, t)
        BY <2>0, <2>2
      <4>2. scaled[s] = w[s]
        BY <1>2, <4>1
      <4> QED BY <1>0, <4>1, <4>2
    <3> HIDE DEF M, scaled
    <3>3. SumOver(scaled, M) = total
      BY <2>0, <3>2, SumOverSame
    <3> QED BY <3>1, <3>3 DEF M
  <2> QED BY <2>1, <2>2
<1> QED BY <1>4, <1>5, <1>6

LEMMA CapClassesKeeps ==
  ASSUME NEW w \in Weights, hard.class \in Nat, hard.etf \in Nat,
         class \in [Symbols -> Classes \cup {Unclassified}]
  PROVE  /\ Allocate!CapClasses(w) \in Weights
         /\ SumOver(Allocate!CapClasses(w), Symbols) <= SumOver(w, Symbols)
<1> DEFINE scaled == Allocate!ScaleClasses(w, 0)
           amount == SumOver(w, Symbols) - SumOver(scaled, Symbols)
           receivers == {s \in Symbols : class[s] \notin Allocate!Crowded(w, 0) /\ scaled[s] < hard.etf}
<1>1. scaled \in Weights /\ amount \in Nat /\ receivers \in SUBSET Symbols
  BY Scaled, Freed, 0 \in Nat
<1>2. Allocate!CapClasses(w) = Allocate!Spread(scaled, amount, receivers)
  BY SameSums DEF Allocate!CapClasses
<1>3. SumOver(w, Symbols) \in Nat /\ SumOver(scaled, Symbols) \in Nat
  BY <1>1, WeightSum
<1>4. SumOver(scaled, Symbols) + amount = SumOver(w, Symbols)
  BY <1>3
<1> HIDE DEF scaled, amount, receivers
<1> QED BY <1>1, <1>2, <1>4, SpreadKeeps

\* Clamping brings every weight and every class to its cap, up to the tolerance, and
\* raises no weight.
LEMMA ClampKeeps ==
  ASSUME NEW w \in Weights, NEW t \in Nat, hard.class \in Nat, hard.etf \in Nat,
         class \in [Symbols -> Classes \cup {Unclassified}],
         NEW v, v = Allocate!ScaleClasses(Allocate!ClipEtfs(w, t), t)
  PROVE  /\ v \in Weights /\ Capped(t, v)
         /\ \A s \in Symbols : v[s] <= w[s]
         /\ SumOver(w, Symbols) - SumOver(v, Symbols) \in Nat
         /\ SumOver(v, Symbols) <= SumOver(w, Symbols)
<1> DEFINE clipped == Allocate!ClipEtfs(w, t)
<1>1. clipped \in Weights
      /\ \A s \in Symbols : clipped[s] <= w[s] /\ clipped[s] <= hard.etf + t
  BY Clipped
<1>2. v = Allocate!ScaleClasses(clipped, t)
  OBVIOUS
<1> HIDE DEF clipped
<1>3. /\ v \in Weights
      /\ \A s \in Symbols : v[s] <= clipped[s]
      /\ \A c \in Classes : SumOver(v, {s \in Symbols : class[s] = c}) <= hard.class + t
  BY <1>1, <1>2, Scaled
<1>4. \A s \in Symbols : v[s] \in Nat /\ clipped[s] \in Nat /\ w[s] \in Nat
  BY <1>1, <1>3 DEF Weights
<1>5. \A s \in Symbols : v[s] <= w[s] /\ v[s] <= hard.etf + t
  BY <1>1, <1>3, <1>4
<1>6. Capped(t, v)
  BY <1>3, <1>5 DEF Capped
<1> QED BY <1>3, <1>5, <1>6, Freed

\* What is above no cap is neither clipped nor scaled.
LEMMA NothingToCap ==
  ASSUME NEW w \in Weights, NEW t \in Nat, hard.class \in Nat, hard.etf \in Nat, Capped(0, w)
  PROVE  /\ Allocate!ClipEtfs(w, t) = w
         /\ Allocate!Crowded(w, t) = {}
         /\ Allocate!ScaleClasses(w, t) = w
<1>0. w = [s \in Symbols |-> w[s]] /\ \A s \in Symbols : w[s] \in Nat
  BY DEF Weights
<1>1. Allocate!ClipEtfs(w, t) = w
  <2>1. \A s \in Symbols : ~(w[s] > hard.etf + t)
    BY <1>0 DEF Capped
  <2>2. Allocate!ClipEtfs(w, t) = [s \in Symbols |-> w[s]]
    BY <2>1 DEF Allocate!ClipEtfs
  <2> QED BY <1>0, <2>2
<1>2. Allocate!Crowded(w, t) = {}
  <2>1. ASSUME NEW c \in Classes PROVE ~(Allocate!ClassTotal(w, c) > hard.class + t)
    <3> DEFINE M == {s \in Symbols : class[s] = c}
    <3>1. SumOver(w, M) \in Nat /\ SumOver(w, M) <= hard.class + 0
      BY WeightSum DEF Capped
    <3>2. Allocate!ClassTotal(w, c) = SumOver(w, M)
      BY SameSums DEF Allocate!ClassTotal
    <3> HIDE DEF M
    <3> QED BY <3>1, <3>2
  <2> QED BY <2>1 DEF Allocate!Crowded
<1>3. Allocate!ScaleClasses(w, t) = w
  <2>1. Allocate!ScaleClasses(w, t) = [s \in Symbols |-> w[s]]
    BY <1>2 DEF Allocate!ScaleClasses
  <2> QED BY <1>0, <2>1
<1> QED BY <1>1, <1>2, <1>3

\* Weights in inverse proportion to volatility share out the whole at most.
LEMMA RawWeightsFit ==
  ASSUME NEW inverse \in InverseVols, Allocate!SumOver(inverse, Symbols) # 0,
         NEW w, w = Allocate!RawWeights(inverse)
  PROVE  w \in Weights /\ SumOver(w, Symbols) <= Whole
<1> DEFINE total == SumOver(inverse, Symbols)
<1>1. /\ IsFiniteSet(Symbols) /\ Whole \in Nat
      /\ \A s \in Symbols : inverse[s] \in Nat
  BY AllocationAssumption
<1>2. total \in Nat /\ total > 0
  <2>1. total # 0
    BY SameSums
  <2>2. total \in Nat
    BY <1>1, SumOverNat
  <2> QED BY <2>1, <2>2
<1>3. w = [s \in Symbols |-> (inverse[s] * Whole) \div total]
  BY SameSums DEF Allocate!RawWeights
<1> HIDE DEF total
<1>4. ASSUME NEW a \in Nat
      PROVE  (a * Whole) \div total \in Nat /\ ((a * Whole) \div total) * total <= a * Whole
  <2>1. a * Whole \in Nat /\ total \in Nat \ {0}
    BY <1>1, <1>2
  <2>2. \A n \in Nat : n \div total \in Nat /\ (n \div total) * total <= n
    BY <2>1
  <2> QED BY <2>1, <2>2
<1>5. \A s \in Symbols : w[s] \in Nat /\ w[s] * total <= inverse[s] * Whole
  BY <1>1, <1>3, <1>4
<1>6. w \in Weights
  BY <1>3, <1>5 DEF Weights
<1>7. SumOver(w, Symbols) <= Whole
  BY <1>1, <1>2, <1>5, Shares DEF total
<1> QED BY <1>6, <1>7

-----------------------------------------------------------------------------
(* What the capping loop leaves idle.                                      *)

\* Shares in proportion, rounded up, are together no less than the amount.
LEMMA SharesCover ==
  ASSUME NEW S, IsFiniteSet(S), NEW f, NEW g, NEW amount \in Nat,
         \A x \in S : f[x] \in Nat /\ g[x] \in Nat,
         NEW total, total = SumOver(f, S), total > 0,
         \A x \in S : f[x] * amount <= g[x] * total
  PROVE  amount <= SumOver(g, S)
<1> DEFINE gross == [x \in S |-> total * g[x]]
           due == [x \in S |-> amount * f[x]]
<1>1. total \in Nat /\ SumOver(g, S) \in Nat
  BY SumOverNat
<1>2. \A x \in S : g[x] \in Int /\ f[x] \in Int
  OBVIOUS
<1>3. SumOver(gross, S) = total * SumOver(g, S)
  <2>1. total \in Int /\ \A x \in S : g[x] \in Int /\ gross[x] = total * g[x]
    BY <1>1
  <2> HIDE DEF gross
  <2> QED BY <1>1, <2>1, SumOverTimes
<1>4. SumOver(due, S) = amount * SumOver(f, S)
  <2>1. amount \in Int /\ \A x \in S : f[x] \in Int /\ due[x] = amount * f[x]
    OBVIOUS
  <2> HIDE DEF due
  <2> QED BY <2>1, SumOverTimes
<1>5. SumOver(due, S) <= SumOver(gross, S)
  <2>1. ASSUME NEW x \in S
        PROVE  gross[x] \in Int /\ due[x] \in Int /\ due[x] <= gross[x]
    <3>1. \A a, b \in Nat : a * b = b * a /\ a * b \in Nat
      OBVIOUS
    <3> QED BY <1>1, <3>1
  <2> HIDE DEF gross, due
  <2> QED BY <2>1, SumOverLess
<1>6. amount * total <= total * SumOver(g, S)
  BY <1>3, <1>4, <1>5
<1>7. \A t \in Nat \ {0}, a, b \in Nat : a * t <= t * b => a <= b
  OBVIOUS
<1> QED BY <1>1, <1>6, <1>7

\* A part for each ETF is as many parts as there are ETFs.
LEMMA PartsEach ==
  ASSUME NEW w \in Weights, NEW v \in Weights, \A s \in Symbols : v[s] <= w[s] + 1
  PROVE  SumOver(v, Symbols) <= SumOver(w, Symbols) + Cardinality(Symbols)
<1> DEFINE ones == [s \in Symbols |-> 1]
           more == [s \in Symbols |-> w[s] + 1]
<1>1. IsFiniteSet(Symbols) /\ \A s \in Symbols : w[s] \in Nat /\ v[s] \in Nat
  BY AllocationAssumption DEF Weights
<1>2. /\ \A s \in Symbols : ones[s] \in {0, 1} /\ ones[s] = 1 /\ ones[s] \in Int
      /\ \A s \in Symbols : more[s] \in Int /\ more[s] = w[s] + ones[s] /\ v[s] <= more[s]
  BY <1>1
<1> HIDE DEF ones, more
<1>3. SumOver(ones, Symbols) = Cardinality(Symbols)
  <2>1. Symbols = {s \in Symbols : ones[s] = 1}
    BY <1>2
  <2> QED BY <1>1, <1>2, <2>1, SumCounts
<1>4. SumOver(more, Symbols) = SumOver(w, Symbols) + SumOver(ones, Symbols)
  <2>1. \A s \in Symbols : w[s] \in Int /\ ones[s] \in Int /\ more[s] = w[s] + ones[s]
    BY <1>1, <1>2
  <2> QED BY <1>1, <2>1, SumOverPlus
<1>5. SumOver(v, Symbols) <= SumOver(more, Symbols)
  <2>1. \A s \in Symbols : v[s] \in Int /\ more[s] \in Int /\ v[s] <= more[s]
    BY <1>1, <1>2
  <2> QED BY <1>1, <2>1, SumOverLess
<1> QED BY <1>3, <1>4, <1>5

\* A quotient rounded down and one more part are no less than the fraction.
LEMMA RoundedDown ==
  ASSUME NEW a \in Nat, NEW b \in Nat, NEW t \in Nat, t > 0
  PROVE  /\ (a * b) \div t \in Nat /\ (a * b) \div t + 1 \in Nat
         /\ b * a <= ((a * b) \div t + 1) * t
<1>1. a * b \in Nat /\ a * b = b * a /\ t \in Nat \ {0}
  OBVIOUS
<1>2. \A n \in Nat : n \div t \in Nat /\ n <= (n \div t + 1) * t
  BY <1>1
<1> QED BY <1>1, <1>2

\* With somebody to receive it, all but a part for each ETF is shared out.
LEMMA SpreadLoses ==
  ASSUME NEW w \in Weights, NEW amount \in Nat, NEW receivers \in SUBSET Symbols,
         NEW v, v = Allocate!Spread(w, amount, receivers)
  PROVE  /\ v \in Weights
         /\ \A s \in Symbols : w[s] = 0 => v[s] = 0
         /\ amount = 0 => v = w
         /\ SumOver(w, receivers) = 0 => v = w
         /\ SumOver(w, receivers) > 0 =>
              SumOver(w, Symbols) + amount <= SumOver(v, Symbols) + Cardinality(Symbols)
<1> DEFINE total == SumOver(w, receivers)
           share == [s \in Symbols |-> (amount * w[s]) \div total]
           extra == [s \in Symbols |-> IF s \in receivers THEN share[s] ELSE 0]
           up == [s \in Symbols |-> share[s] + 1]
           more == [s \in Symbols |-> IF s \in receivers THEN up[s] ELSE 0]
<1>0. /\ IsFiniteSet(Symbols) /\ IsFiniteSet(receivers) /\ total \in Nat
      /\ SumOver(w, Symbols) \in Nat /\ \A s \in Symbols : w[s] \in Nat
      /\ Cardinality(Symbols) \in Nat
  BY WeightSum, FS_CardinalityType DEF Weights
<1>1. v = [s \in Symbols |-> IF s \in receivers /\ total > 0
                               THEN w[s] + (amount * w[s]) \div total ELSE w[s]]
  BY SameSums DEF Allocate!Spread
<1>2. CASE total = 0
  <2>1. v = w
    BY <1>0, <1>1, <1>2 DEF Weights
  <2>2. ~(total > 0)
    BY <1>2
  <2> QED BY <2>1, <2>2
<1>3. CASE total > 0
  <2>1. \A s \in Symbols : /\ share[s] \in Nat /\ up[s] \in Nat /\ up[s] = share[s] + 1
                           /\ w[s] * amount <= up[s] * total
    <3> SUFFICES ASSUME NEW s \in Symbols
                 PROVE  /\ share[s] \in Nat /\ up[s] \in Nat /\ up[s] = share[s] + 1
                        /\ w[s] * amount <= up[s] * total
      OBVIOUS
    <3>1. share[s] = (amount * w[s]) \div total /\ up[s] = share[s] + 1 /\ w[s] \in Nat
      BY <1>0
    <3> HIDE DEF share, total, up
    <3> QED BY <1>0, <1>3, <3>1, RoundedDown
  <2>2. \A s \in Symbols : w[s] = 0 \/ amount = 0 => share[s] = 0
    <3>1. \A n \in Nat \ {0} : 0 \div n = 0
      OBVIOUS
    <3>2. \A n \in Nat : n * 0 = 0 /\ 0 * n = 0
      OBVIOUS
    <3>3. total \in Nat \ {0}
      BY <1>0, <1>3
    <3> HIDE DEF total
    <3> QED BY <1>0, <3>1, <3>2, <3>3
  <2>3. \A s \in Symbols : v[s] = w[s] + extra[s]
    <3> HIDE DEF total
    <3> QED BY <1>0, <1>1, <1>3
  <2>4. /\ \A s \in Symbols : extra[s] \in Nat /\ more[s] \in Nat /\ more[s] <= extra[s] + 1
        /\ \A s \in receivers : up[s] \in Int /\ more[s] = up[s]
        /\ \A s \in Symbols \ receivers : more[s] = 0
        /\ \A s \in Symbols : share[s] = 0 => extra[s] = 0
    <3> HIDE DEF share
    <3> QED BY <2>1
  <2>5. extra \in Weights /\ more \in Weights
    <3>1. extra = [s \in Symbols |-> extra[s]] /\ more = [s \in Symbols |-> more[s]]
      OBVIOUS
    <3> HIDE DEF extra, more
    <3> QED BY <2>4, <3>1 DEF Weights
  <2>6. v \in Weights
    <3>1. v = [s \in Symbols |-> v[s]]
      BY <1>1
    <3> HIDE DEF extra, share
    <3> QED BY <1>0, <2>3, <2>4, <3>1 DEF Weights
  <2> HIDE DEF total, share, extra, up, more
  <2>7. amount <= SumOver(up, receivers)
    <3>1. \A s \in receivers : w[s] \in Nat /\ up[s] \in Nat /\ w[s] * amount <= up[s] * total
      BY <1>0, <2>1
    <3>2. total = SumOver(w, receivers)
      BY DEF total
    <3> QED BY <1>0, <1>3, <3>1, <3>2, SharesCover
  <2>8. SumOver(more, Symbols) = SumOver(up, receivers)
    BY <1>0, <2>4, SumOverPart
  <2>9. SumOver(more, Symbols) <= SumOver(extra, Symbols) + Cardinality(Symbols)
    BY <2>4, <2>5, PartsEach
  <2>10. SumOver(v, Symbols) = SumOver(w, Symbols) + SumOver(extra, Symbols)
    <3>1. \A s \in Symbols : w[s] \in Int /\ extra[s] \in Int /\ v[s] = w[s] + extra[s]
      BY <1>0, <2>3, <2>4
    <3> QED BY <1>0, <3>1, SumOverPlus
  <2>11. SumOver(extra, Symbols) \in Nat /\ SumOver(more, Symbols) \in Nat
    BY <2>5, WeightSum
  <2>12. SumOver(w, Symbols) + amount <= SumOver(v, Symbols) + Cardinality(Symbols)
    BY <1>0, <2>7, <2>8, <2>9, <2>10, <2>11
  <2>13. \A s \in Symbols : w[s] = 0 => v[s] = 0
    BY <1>0, <2>2, <2>3, <2>4
  <2>14. amount = 0 => v = w
    <3>1. amount = 0 => \A s \in Symbols : v[s] = w[s]
      BY <1>0, <2>2, <2>3, <2>4
    <3> QED BY <2>6, <3>1 DEF Weights
  <2>15. total # 0
    BY <1>3
  <2> QED BY <2>6, <2>12, <2>13, <2>14, <2>15 DEF total
<1> QED BY <1>0, <1>2, <1>3

\* Weights that need no round of the loop are under the caps, and changed by no round.
LEMMA SettledStays ==
  ASSUME NEW w \in Weights, hard.etf \in Nat, hard.class \in Nat, ~Allocate!Unsettled(w)
  PROVE  Capped(0, w) /\ Allocate!CapClasses(Allocate!CapEtfs(w)) = w
<1> DEFINE all == {s \in Symbols : w[s] < hard.etf}
<1>1. \A s \in Symbols : w[s] \in Nat /\ w[s] <= hard.etf
  BY DEF Allocate!Unsettled, Weights
<1>2. w = [s \in Symbols |-> w[s]] /\ SumOver(w, Symbols) \in Nat
  BY WeightSum DEF Weights
<1>3. Allocate!ClipEtfs(w, 0) = w
  <2>1. \A s \in Symbols : ~(w[s] > hard.etf + 0)
    BY <1>1
  <2>2. Allocate!ClipEtfs(w, 0) = [s \in Symbols |-> w[s]]
    BY <2>1 DEF Allocate!ClipEtfs
  <2> QED BY <1>2, <2>2
<1>4. SumOver(w, Symbols) - SumOver(w, Symbols) = 0
  BY <1>2
<1>5. Allocate!CapEtfs(w) = w
  <2>1. Allocate!CapEtfs(w) = Allocate!Spread(w, 0, all)
    BY <1>3, <1>4, SameSums DEF Allocate!CapEtfs
  <2>2. all \in SUBSET Symbols
    OBVIOUS
  <2> HIDE DEF all
  <2> QED BY <2>1, <2>2, SpreadLoses
<1>6. Allocate!Crowded(w, 0) = {}
  BY <1>5 DEF Allocate!Unsettled
<1>7. Capped(0, w)
  <2>1. ASSUME NEW c \in Classes
        PROVE  SumOver(w, {s \in Symbols : class[s] = c}) <= hard.class + 0
    <3> DEFINE M == {s \in Symbols : class[s] = c}
    <3>1. SumOver(w, M) \in Nat
      BY WeightSum
    <3>2. ~(SumOver(w, M) > hard.class + 0)
      BY <1>6, SameSums DEF Allocate!Crowded, Allocate!ClassTotal
    <3> HIDE DEF M
    <3>3. SumOver(w, M) <= hard.class + 0
      BY <3>1, <3>2
    <3> QED BY <3>3 DEF M
  <2>2. \A s \in Symbols : w[s] <= hard.etf + 0
    BY <1>1
  <2> QED BY <2>1, <2>2 DEF Capped
<1>8. Allocate!CapClasses(w) = w
  <2>1. Allocate!ScaleClasses(w, 0) = w
    BY <1>7, NothingToCap, 0 \in Nat
  <2>2. Allocate!CapClasses(w) = Allocate!Spread(w, 0, all)
    BY <1>4, <1>6, <2>1, SameSums DEF Allocate!CapClasses
  <2>3. all \in SUBSET Symbols
    OBVIOUS
  <2> HIDE DEF all
  <2> QED BY <2>2, <2>3, SpreadLoses
<1> QED BY <1>5, <1>7, <1>8

-----------------------------------------------------------------------------
(* Targets under the caps, whether the loop settles or runs out of rounds. *)

\* A loop that broke off before its last round did so because nothing was left to cap.
Settled == round < maxRounds
Evaluated == phase \in {"funding", "buying", "done"}

CapsInv ==
  /\ hard \in Constraints /\ class \in ClassMaps /\ current \in Portfolios
  /\ weights \in Weights /\ SumOver(weights, Symbols) <= Whole
  /\ round \in Nat /\ maxRounds \in Nat /\ trimmed \in Nat
  /\ ~Allocate!Offered => trimmed = 0
  /\ phase = "clamping" /\ Settled => Capped(0, weights)
  /\ Allocate!Offered => Capped(Allocate!Tolerated, weights)
  /\ Allocate!Offered /\ Settled => trimmed = 0
  /\ ~Evaluated => proposal.events = {}
  /\ Evaluated /\ Settled => \A event \in proposal.events : event.type \in {"drift", "max_drawdown"}

\* Weights under the caps are no breach to the risk engine.
LEMMA NoBreach ==
  ASSUME NEW w \in Weights, Capped(0, w), hard.class \in Nat, hard.etf \in Nat, NEW approved
  PROVE  \A event \in Allocate!Evaluate(w, approved) : event.type = "drift"
<1>1. {t \in Symbols : w[t] > hard.etf} = {}
  BY DEF Capped, Weights
<1>2. Allocate!Crowded(w, 0) = {}
  BY NothingToCap, 0 \in Nat
<1>3. \A event \in Allocate!DetectDrift(w, approved) : event.type = "drift"
  BY DEF Allocate!DetectDrift, Allocate!Event
<1>4. Allocate!Evaluate(w, approved) = Allocate!DetectDrift(w, approved)
  BY <1>1, <1>2 DEF Allocate!Evaluate
<1> QED BY <1>3, <1>4

LEMMA CapsInit == Init => CapsInv
<1> SUFFICES ASSUME Allocate!Init PROVE CapsInv
  BY DEF Init
<1>1. hard \in Constraints /\ class \in ClassMaps /\ current \in Portfolios
  BY AllocationAssumption DEF Allocate!Init
<1>2. weights \in Weights /\ \A s \in Symbols : weights[s] = 0
  BY DEF Allocate!Init, Weights
<1>3. SumOver(weights, Symbols) <= Whole
  <2>1. IsFiniteSet(Symbols) /\ Whole \in Nat
    BY AllocationAssumption
  <2>2. SumOver(weights, Symbols) = 0
    BY <1>2, <2>1, SumOverNone
  <2> QED BY <2>1, <2>2
<1>4. ~Allocate!Offered /\ phase # "clamping" /\ ~Evaluated
  BY DEF Allocate!Init, Allocate!Offered, Evaluated
<1>5. proposal.events = {} /\ round = 0 /\ maxRounds = 0 /\ trimmed = 0
  BY DEF Allocate!Init
<1> QED BY <1>1, <1>2, <1>3, <1>4, <1>5 DEF CapsInv

\* The same weights under the same caps.
LEMMA CappedSame ==
  ASSUME UNCHANGED <<hard, class>>, NEW w, NEW t, w = weights', t = Allocate!Tolerated', Capped(t, w)
  PROVE  Capped(Allocate!Tolerated, weights)'
BY DEF Capped

LEMMA CapsStep == CapsInv /\ [Next]_vars => CapsInv'
<1> SUFFICES ASSUME CapsInv, Allocate!Next \/ UNCHANGED allocationVars PROVE CapsInv'
  BY ServiceMoves
<1>0. /\ hard.etf \in Nat /\ hard.class \in Nat /\ ClampTolerance \in Nat
      /\ class \in [Symbols -> Classes \cup {Unclassified}]
      /\ weights \in Weights /\ SumOver(weights, Symbols) \in Nat /\ Whole \in Nat
      /\ round \in Nat /\ maxRounds \in Nat
  BY WeightSum, AllocationAssumption DEF CapsInv
<1>1. CASE Allocate!Optimize
  <2>1. /\ phase = "idle" /\ ~Allocate!Offered
        /\ phase' # "clamping" /\ ~Allocate!Offered' /\ ~Evaluated' /\ ~Evaluated
        /\ hard' \in Constraints /\ class' \in ClassMaps /\ current' \in Portfolios
        /\ UNCHANGED <<round, trimmed, proposal>>
    BY <1>1 DEF Allocate!Optimize, Allocate!Offered, Evaluated
  <2>2. weights' \in Weights /\ SumOver(weights', Symbols) <= Whole
    <3>1. PICK inverse \in InverseVols :
            \/ UNCHANGED weights
            \/ /\ Allocate!SumOver(inverse, Symbols) # 0
               /\ weights' = Allocate!RawWeights(inverse)
      BY <1>1 DEF Allocate!Optimize
    <3>2. CASE UNCHANGED weights
      BY <3>2 DEF CapsInv
    <3>3. CASE /\ Allocate!SumOver(inverse, Symbols) # 0
               /\ weights' = Allocate!RawWeights(inverse)
      BY <3>3, RawWeightsFit
    <3> QED BY <3>1, <3>2, <3>3
  <2>3. maxRounds' \in Nat
    <3>1. PICK inverse \in InverseVols :
            \/ UNCHANGED maxRounds
            \/ maxRounds' = 3 * Allocate!Cardinality({s \in Symbols : inverse[s] > 0}) + 10
      BY <1>1 DEF Allocate!Optimize
    <3>2. Allocate!Cardinality({s \in Symbols : inverse[s] > 0}) \in Nat
      <4> DEFINE S == {s \in Symbols : inverse[s] > 0}
      <4>1. Allocate!Cardinality(S) = Cardinality(S)
        BY DEF Allocate!Cardinality, Cardinality
      <4>2. IsFiniteSet(S)
        BY AllocationAssumption, FS_Subset
      <4> HIDE DEF S
      <4>3. Cardinality(S) \in Nat
        BY <4>2, FS_CardinalityType
      <4> QED BY <4>1, <4>3 DEF S
    <3> QED BY <1>0, <3>1, <3>2
  <2> QED BY <2>1, <2>2, <2>3 DEF CapsInv
<1>2. CASE Allocate!CapRound
  <2> DEFINE w == Allocate!CapEtfs(weights)
  <2>1. /\ ~Allocate!Offered /\ ~Allocate!Offered' /\ ~Evaluated /\ ~Evaluated'
        /\ UNCHANGED <<hard, class, maxRounds, trimmed, current, proposal>>
        /\ round' = round + 1 /\ weights' = Allocate!CapClasses(w)
        /\ phase' = "clamping" => ~Allocate!Unsettled(weights)
    BY <1>2 DEF Allocate!CapRound, Allocate!Offered, Evaluated
  <2>2. w \in Weights /\ SumOver(w, Symbols) <= SumOver(weights, Symbols)
    BY <1>0, CapEtfsKeeps
  <2>3. phase' = "clamping" => Capped(0, weights)'
    <3> SUFFICES ASSUME phase' = "clamping" PROVE Capped(0, weights)'
      OBVIOUS
    <3>1. Capped(0, weights) /\ weights' = weights
      BY <1>0, <2>1, SettledStays
    <3> QED BY <2>1, <3>1 DEF Capped
  <2> HIDE DEF w
  <2>4. weights' \in Weights /\ SumOver(weights', Symbols) <= SumOver(w, Symbols)
    BY <1>0, <2>1, <2>2, CapClassesKeeps
  <2>5. SumOver(weights', Symbols) <= Whole
    <3>1. SumOver(weights', Symbols) \in Nat /\ SumOver(w, Symbols) \in Nat
      BY <2>2, <2>4, WeightSum
    <3> QED BY <1>0, <2>2, <2>4, <3>1 DEF CapsInv
  <2> QED BY <1>0, <2>1, <2>3, <2>4, <2>5 DEF CapsInv
<1>3. CASE Allocate!RoundsExhausted
  <2>1. /\ UNCHANGED <<hard, class, weights, round, maxRounds, trimmed, current, proposal>>
        /\ ~Allocate!Offered /\ ~Allocate!Offered' /\ ~Evaluated /\ ~Evaluated'
        /\ round = maxRounds
    BY <1>3 DEF Allocate!RoundsExhausted, Allocate!optimizerVars, Allocate!Offered, Evaluated
  <2>2. ~Settled'
    BY <1>0, <2>1 DEF Settled
  <2> QED BY <2>1, <2>2 DEF CapsInv
<1>4. CASE Allocate!FinalClamp
  <2>1. PICK v : /\ v = Allocate!ScaleClasses(Allocate!ClipEtfs(weights, ClampTolerance), ClampTolerance)
                 /\ v = weights'
    BY <1>4 DEF Allocate!FinalClamp
  <2>2. /\ UNCHANGED <<hard, class, round, maxRounds, current, proposal>>
        /\ phase = "clamping" /\ ~Allocate!Offered /\ ~Evaluated
        /\ phase' = "proposing" /\ Allocate!Offered' /\ ~Evaluated'
        /\ trimmed' = SumOver(weights, Symbols) - SumOver(v, Symbols)
    BY <1>4, <2>1, SameSums DEF Allocate!FinalClamp, Allocate!Offered, Evaluated
  <2>3. /\ v \in Weights /\ Capped(ClampTolerance, v)
        /\ SumOver(weights, Symbols) - SumOver(v, Symbols) \in Nat
        /\ SumOver(v, Symbols) <= SumOver(weights, Symbols)
    BY <1>0, <2>1, ClampKeeps
  <2>4. SumOver(weights', Symbols) <= Whole
    <3>1. SumOver(v, Symbols) \in Nat
      BY <2>3, WeightSum
    <3> QED BY <1>0, <2>1, <2>3, <3>1 DEF CapsInv
  <2>5. Settled' => Capped(0, weights) /\ v = weights
    <3> SUFFICES ASSUME Settled PROVE Capped(0, weights) /\ v = weights
      BY <2>2 DEF Settled
    <3>1. Capped(0, weights)
      BY <2>2 DEF CapsInv
    <3>2. Allocate!ClipEtfs(weights, ClampTolerance) = weights
      BY <1>0, <3>1, NothingToCap
    <3>3. Allocate!ScaleClasses(weights, ClampTolerance) = weights
      BY <1>0, <3>1, NothingToCap
    <3> QED BY <2>1, <3>1, <3>2, <3>3
  <2>6. Settled' => trimmed' = 0
    BY <1>0, <2>2, <2>5
  <2>7. Capped(Allocate!Tolerated, weights)'
    <3>1. CASE Settled'
      <4>1. Allocate!Tolerated' = 0 /\ Capped(0, v)
        BY <2>5, <3>1 DEF Settled, Allocate!Tolerated
      <4>2. UNCHANGED <<hard, class>>
        BY <2>2
      <4> QED BY <2>1, <4>1, <4>2, CappedSame
    <3>2. CASE ~Settled'
      <4>1. Allocate!Tolerated' = ClampTolerance
        BY <3>2 DEF Settled, Allocate!Tolerated
      <4>2. UNCHANGED <<hard, class>>
        BY <2>2
      <4> QED BY <2>1, <2>3, <4>1, <4>2, CappedSame
    <3> QED BY <3>1, <3>2
  <2>8. trimmed' \in Nat /\ weights' \in Weights
    BY <2>1, <2>2, <2>3
  <2> QED BY <2>2, <2>4, <2>6, <2>7, <2>8 DEF CapsInv
<1>5. CASE Allocate!Propose
  <2>1. /\ UNCHANGED <<hard, class, weights, round, maxRounds, trimmed, current>>
        /\ phase = "proposing" /\ phase' = "funding" /\ Allocate!Offered /\ Allocate!Offered'
        /\ Evaluated'
    BY <1>5 DEF Allocate!Propose, Allocate!optimizerVars, Allocate!Offered, Evaluated
  <2>2. PICK drawdown :
          proposal'.events = Allocate!Evaluate(weights, current)
                               \cup Allocate!CheckDrawdown(drawdown)
    BY <1>5 DEF Allocate!Propose
  <2>3. \A event \in Allocate!CheckDrawdown(drawdown) : event.type = "max_drawdown"
    BY DEF Allocate!CheckDrawdown, Allocate!Event
  <2>4. Settled => \A event \in Allocate!Evaluate(weights, current) : event.type = "drift"
    <3> SUFFICES ASSUME Settled
                 PROVE  \A event \in Allocate!Evaluate(weights, current) : event.type = "drift"
      OBVIOUS
    <3>1. Capped(0, weights)
      BY <2>1 DEF CapsInv, Settled, Allocate!Tolerated
    <3> QED BY <1>0, <3>1, NoBreach
  <2>5. Settled' => \A event \in proposal'.events : event.type \in {"drift", "max_drawdown"}
    BY <2>1, <2>2, <2>3, <2>4 DEF Settled
  <2>6. Capped(Allocate!Tolerated, weights)'
    BY <2>1 DEF CapsInv, Capped, Allocate!Tolerated
  <2>7. Settled' => Settled
    BY <2>1 DEF Settled
  <2> QED BY <2>1, <2>5, <2>6, <2>7 DEF CapsInv
<1>6. ASSUME \/ Allocate!StartCycle \/ Allocate!ReturnOrders \/ UNCHANGED allocationVars
             \/ \E s \in Symbols : Allocate!Buy(s) \/ Allocate!PassOver(s)
      PROVE  CapsInv'
  <2>1. /\ UNCHANGED <<hard, class, weights, round, maxRounds, trimmed, current, proposal>>
        /\ Allocate!Offered' <=> Allocate!Offered
        /\ Evaluated' <=> Evaluated
        /\ phase' = "clamping" => phase = "clamping"
    BY <1>6 DEF Allocate!StartCycle, Allocate!ReturnOrders, Allocate!Buy, Allocate!PassOver,
         Allocate!Considering, Allocate!optimizerVars, Allocate!Offered, Evaluated, allocationVars
  <2>2. Capped(0, weights) => Capped(0, weights)'
    BY <2>1 DEF Capped
  <2>3. Capped(Allocate!Tolerated, weights) => Capped(Allocate!Tolerated, weights)'
    BY <2>1 DEF Capped, Allocate!Tolerated
  <2>4. Settled' <=> Settled
    BY <2>1 DEF Settled
  <2> QED BY <2>1, <2>2, <2>3, <2>4 DEF CapsInv
<1> QED BY <1>1, <1>2, <1>3, <1>4, <1>5, <1>6 DEF Allocate!Next

LEMMA CapsKeepTargets == CapsInv => Allocate!TargetsCapped
<1> SUFFICES ASSUME CapsInv, Allocate!Offered
             PROVE  /\ Capped(Allocate!Tolerated, weights)
                    /\ SumOver(weights, Symbols) <= Whole
                    /\ Settled => /\ trimmed = 0
                                  /\ \A event \in proposal.events :
                                       event.type \in {"drift", "max_drawdown"}
  BY SameSums DEF Capped, Settled, Allocate!TargetsCapped
<1> QED BY DEF CapsInv

\* The weights offered respect every ETF cap and every class cap, up to the clamp's
\* tolerance if the rounds ran out, and add up to no more than the whole; a loop that
\* settled leaves the clamp nothing to trim and the risk engine no breach to report.
THEOREM TargetsRespectCaps == Spec => [](subject = "allocation" => Allocate!TargetsCapped)
<1>1. Spec => []CapsInv
  BY CapsInit, CapsStep, PTL DEF Spec
<1>2. CapsInv => (subject = "allocation" => Allocate!TargetsCapped)
  BY CapsKeepTargets
<1> QED BY <1>1, <1>2, PTL

-----------------------------------------------------------------------------
(* What the capping loop leaves idle.                                      *)

\* Either all of the portfolio is invested up to slack, or it is up to slack
\* what no weights under the caps (t above them at most) can be more than: some
\* classes are at their cap, and every ETF of another class is at its own or left out.
Ceiling(t, top, full, w) ==
  /\ top \in Weights /\ full \subseteq Classes
  /\ \A s \in Symbols : class[s] \notin full => w[s] = 0 \/ hard.etf + t <= top[s]
  /\ \A c \in full : hard.class + t <= SumOver(top, {s \in Symbols : class[s] = c})

Invested(w, slack) ==
  \/ Whole <= SumOver(w, Symbols) + slack
  \/ \E top, full : /\ Ceiling(0, top, full, w)
                    /\ SumOver(top, Symbols) <= SumOver(w, Symbols) + slack

\* Moving weights about costs what their sum falls by.
LEMMA InvestedMoved ==
  ASSUME NEW w \in Weights, NEW v \in Weights, NEW slack \in Nat, NEW loss \in Nat,
         Invested(w, slack),
         \A s \in Symbols : w[s] = 0 => v[s] = 0,
         SumOver(w, Symbols) <= SumOver(v, Symbols) + loss
  PROVE  Invested(v, slack + loss)
<1>1. SumOver(w, Symbols) \in Nat /\ SumOver(v, Symbols) \in Nat
  BY WeightSum
<1>2. CASE Whole <= SumOver(w, Symbols) + slack
  <2>1. Whole \in Nat
    BY AllocationAssumption
  <2>2. Whole <= SumOver(v, Symbols) + (slack + loss)
    BY <1>1, <1>2, <2>1
  <2> QED BY <2>2 DEF Invested
<1>3. ASSUME NEW top, NEW full, Ceiling(0, top, full, w),
             SumOver(top, Symbols) <= SumOver(w, Symbols) + slack
      PROVE  Invested(v, slack + loss)
  <2>1. Ceiling(0, top, full, v)
    BY <1>3 DEF Ceiling
  <2>2. SumOver(top, Symbols) \in Nat
    BY <1>3, WeightSum DEF Ceiling
  <2>3. SumOver(top, Symbols) <= SumOver(v, Symbols) + (slack + loss)
    BY <1>1, <1>3, <2>2
  <2> QED BY <2>1, <2>3 DEF Invested
<1> QED BY <1>2, <1>3 DEF Invested

\* Weights that are a ceiling of their own need no slack.
LEMMA InvestedAtOnce ==
  ASSUME NEW v \in Weights, NEW top, NEW full, Ceiling(0, top, full, v), NEW slack \in Nat,
         SumOver(top, Symbols) <= SumOver(v, Symbols) + slack
  PROVE  Invested(v, slack)
BY DEF Invested

LEMMA NothingAmong ==
  ASSUME NEW w \in Weights, NEW S \in SUBSET Symbols, ~(SumOver(w, S) > 0)
  PROVE  SumOver(w, S) = 0 /\ \A s \in S : w[s] = 0
<1>1. IsFiniteSet(S) /\ SumOver(w, S) \in Nat /\ \A s \in S : w[s] \in Nat
  BY WeightSum DEF Weights
<1>2. SumOver(w, S) = 0
  BY <1>1
<1>3. ASSUME NEW s \in S PROVE w[s] = 0
  <2>1. w[s] <= SumOver(w, S)
    BY <1>1, SumOverHas
  <2> QED BY <1>1, <1>2, <2>1
<1> QED BY <1>2, <1>3

\* Clipping and sharing out lose a part for each ETF, unless all are at their caps.
LEMMA CapEtfsLoses ==
  ASSUME NEW w \in Weights, NEW slack \in Nat, hard.etf \in Nat, Invested(w, slack),
         NEW u, u = Allocate!CapEtfs(w)
  PROVE  u \in Weights /\ Invested(u, slack + Cardinality(Symbols))
<1> DEFINE clipped == Allocate!ClipEtfs(w, 0)
           amount == SumOver(w, Symbols) - SumOver(clipped, Symbols)
           receivers == {s \in Symbols : clipped[s] < hard.etf}
<1>1. /\ clipped \in Weights /\ amount \in Nat /\ receivers \in SUBSET Symbols
      /\ \A s \in Symbols : clipped[s] <= w[s] /\ clipped[s] <= hard.etf
      /\ \A s \in Symbols : s \notin receivers => ~(clipped[s] < hard.etf)
  BY Clipped, Freed, 0 \in Nat
<1>2. u = Allocate!Spread(clipped, amount, receivers)
  BY SameSums DEF Allocate!CapEtfs
<1>3. /\ SumOver(w, Symbols) \in Nat /\ SumOver(clipped, Symbols) \in Nat
      /\ SumOver(clipped, Symbols) + amount = SumOver(w, Symbols)
  <2>1. SumOver(w, Symbols) \in Nat /\ SumOver(clipped, Symbols) \in Nat
    BY <1>1, WeightSum
  <2> QED BY <2>1
<1> HIDE DEF clipped, amount, receivers
<1>4. /\ u \in Weights
      /\ \A s \in Symbols : clipped[s] = 0 => u[s] = 0
      /\ SumOver(clipped, receivers) = 0 => u = clipped
      /\ SumOver(clipped, receivers) > 0 =>
           SumOver(clipped, Symbols) + amount <= SumOver(u, Symbols) + Cardinality(Symbols)
  BY <1>1, <1>2, SpreadLoses
<1>5. Cardinality(Symbols) \in Nat /\ \A s \in Symbols : w[s] \in Nat /\ clipped[s] \in Nat
  BY <1>1, FS_CardinalityType, AllocationAssumption DEF Weights
<1>6. CASE SumOver(clipped, receivers) > 0
  <2>1. SumOver(w, Symbols) <= SumOver(u, Symbols) + Cardinality(Symbols)
    BY <1>3, <1>4, <1>6
  <2>2. \A s \in Symbols : w[s] = 0 => u[s] = 0
    BY <1>1, <1>4, <1>5
  <2> QED BY <1>4, <1>5, <2>1, <2>2, InvestedMoved
<1>7. CASE ~(SumOver(clipped, receivers) > 0)
  <2>1. u = clipped /\ \A s \in receivers : u[s] = 0
    BY <1>1, <1>4, <1>7, NothingAmong
  <2>2. Ceiling(0, u, {}, u)
    <3>1. \A s \in Symbols : u[s] = 0 \/ hard.etf + 0 <= u[s]
      BY <1>1, <1>5, <2>1
    <3> QED BY <1>4, <3>1 DEF Ceiling
  <2>3. SumOver(u, Symbols) <= SumOver(u, Symbols) + (slack + Cardinality(Symbols))
    BY <1>3, <1>5, <2>1
  <2>4. slack + Cardinality(Symbols) \in Nat
    BY <1>5
  <2> QED BY <1>4, <2>2, <2>3, <2>4, InvestedAtOnce
<1> QED BY <1>4, <1>6, <1>7

\* Scaling a crowded class, rounded down, leaves it a part for each of its ETFs
\* short of its cap at most.
LEMMA ScaledCovers ==
  ASSUME NEW w \in Weights, hard.class \in Nat, class \in [Symbols -> Classes \cup {Unclassified}],
         NEW top, top \in Weights,
         \A s \in Symbols :
           top[s] = IF class[s] \in Allocate!Crowded(w, 0)
                      THEN Allocate!ScaleClasses(w, 0)[s] + 1 ELSE Allocate!ScaleClasses(w, 0)[s]
  PROVE  \A c \in Allocate!Crowded(w, 0) : hard.class <= SumOver(top, {s \in Symbols : class[s] = c})
<1> SUFFICES ASSUME NEW c \in Allocate!Crowded(w, 0)
             PROVE  hard.class <= SumOver(top, {s \in Symbols : class[s] = c})
  OBVIOUS
<1> DEFINE M == {s \in Symbols : class[s] = c}
           total == SumOver(w, M)
<1>1. M \in SUBSET Symbols /\ IsFiniteSet(M) /\ total \in Nat /\ \A s \in M : class[s] = c
  BY WeightSum
<1>2. Allocate!ClassTotal(w, c) = total
  BY SameSums DEF Allocate!ClassTotal
<1>3. total > 0
  <2>1. total > hard.class + 0
    BY <1>2 DEF Allocate!Crowded
  <2> HIDE DEF total
  <2> QED BY <1>1, <2>1
<1>4. ASSUME NEW s \in M
      PROVE  w[s] \in Nat /\ top[s] \in Nat /\ w[s] * hard.class <= top[s] * total
  <2>1. s \in Symbols /\ class[s] = c
    OBVIOUS
  <2>2. w[s] \in Nat /\ top[s] \in Nat
    BY <2>1 DEF Weights
  <2>3. Allocate!ScaleClasses(w, 0)[s] = (w[s] * hard.class) \div total
    BY <1>2, <2>1 DEF Allocate!ScaleClasses
  <2>4. top[s] = (w[s] * hard.class) \div total + 1
    BY <2>1, <2>3
  <2> HIDE DEF total, M
  <2>5. hard.class * w[s] = w[s] * hard.class
    BY <2>2
  <2>6. hard.class * w[s] <= ((w[s] * hard.class) \div total + 1) * total
    BY <1>1, <1>3, <2>2, RoundedDown
  <2> QED BY <2>2, <2>4, <2>5, <2>6
<1> HIDE DEF M
<1>5. hard.class <= SumOver(top, M)
  BY <1>1, <1>3, <1>4, SharesCover
<1> QED BY <1>5 DEF M

\* Scaling and sharing out lose a part for each ETF, unless there is no room.
LEMMA CapClassesLoses ==
  ASSUME NEW u \in Weights, NEW slack \in Nat, hard.etf \in Nat, hard.class \in Nat,
         class \in [Symbols -> Classes \cup {Unclassified}], Invested(u, slack),
         NEW v, v = Allocate!CapClasses(u)
  PROVE  v \in Weights /\ Invested(v, slack + Cardinality(Symbols))
<1> DEFINE crowded == Allocate!Crowded(u, 0)
           scaled == Allocate!ScaleClasses(u, 0)
           amount == SumOver(u, Symbols) - SumOver(scaled, Symbols)
           receivers == {s \in Symbols : class[s] \notin crowded /\ scaled[s] < hard.etf}
           top == [s \in Symbols |-> IF class[s] \in crowded THEN scaled[s] + 1 ELSE scaled[s]]
<1>1. /\ scaled \in Weights /\ amount \in Nat /\ receivers \in SUBSET Symbols
      /\ \A s \in Symbols : scaled[s] <= u[s]
      /\ crowded \subseteq Classes
  BY Scaled, Freed, 0 \in Nat DEF Allocate!Crowded
<1>2. v = Allocate!Spread(scaled, amount, receivers)
  BY SameSums DEF Allocate!CapClasses
<1>3. /\ SumOver(u, Symbols) \in Nat /\ SumOver(scaled, Symbols) \in Nat
      /\ SumOver(scaled, Symbols) + amount = SumOver(u, Symbols)
  <2>1. SumOver(u, Symbols) \in Nat /\ SumOver(scaled, Symbols) \in Nat
    BY <1>1, WeightSum
  <2> QED BY <2>1
<1>4. \A s \in Symbols : scaled[s] \in Nat /\ u[s] \in Nat
  BY <1>1 DEF Weights
<1>5. /\ top \in Weights
      /\ \A s \in Symbols : /\ top[s] = IF class[s] \in crowded THEN scaled[s] + 1 ELSE scaled[s]
                            /\ top[s] <= scaled[s] + 1
      /\ \A s \in Symbols : class[s] \notin crowded /\ s \notin receivers =>
                              ~(scaled[s] < hard.etf) /\ top[s] = scaled[s]
  <2> HIDE DEF scaled, crowded
  <2> QED BY <1>4 DEF Weights
<1>6. \A c \in crowded : hard.class + 0 <= SumOver(top, {s \in Symbols : class[s] = c})
  <2> HIDE DEF top
  <2>1. \A c \in crowded : hard.class <= SumOver(top, {s \in Symbols : class[s] = c})
    BY <1>5, ScaledCovers
  <2> HIDE DEF crowded
  <2> QED BY <2>1
<1> HIDE DEF crowded, scaled, amount, receivers, top
<1>7. /\ v \in Weights
      /\ \A s \in Symbols : scaled[s] = 0 => v[s] = 0
      /\ SumOver(scaled, receivers) = 0 => v = scaled
      /\ SumOver(scaled, receivers) > 0 =>
           SumOver(scaled, Symbols) + amount <= SumOver(v, Symbols) + Cardinality(Symbols)
  BY <1>1, <1>2, SpreadLoses
<1>8. Cardinality(Symbols) \in Nat
  BY FS_CardinalityType, AllocationAssumption
<1>9. CASE SumOver(scaled, receivers) > 0
  <2>1. SumOver(u, Symbols) <= SumOver(v, Symbols) + Cardinality(Symbols)
    BY <1>3, <1>7, <1>9
  <2>2. \A s \in Symbols : u[s] = 0 => v[s] = 0
    BY <1>1, <1>4, <1>7
  <2> QED BY <1>7, <1>8, <2>1, <2>2, InvestedMoved
<1>10. CASE ~(SumOver(scaled, receivers) > 0)
  <2>1. v = scaled /\ \A s \in receivers : v[s] = 0
    BY <1>1, <1>7, <1>10, NothingAmong
  <2>2. Ceiling(0, top, crowded, v)
    <3>1. \A s \in Symbols : class[s] \notin crowded => v[s] = 0 \/ hard.etf + 0 <= top[s]
      BY <1>4, <1>5, <2>1
    <3> QED BY <1>1, <1>5, <1>6, <3>1 DEF Ceiling
  <2>3. SumOver(top, Symbols) <= SumOver(scaled, Symbols) + Cardinality(Symbols)
    BY <1>1, <1>5, PartsEach
  <2>4. SumOver(top, Symbols) \in Nat
    BY <1>5, WeightSum
  <2>5. SumOver(top, Symbols) <= SumOver(v, Symbols) + (slack + Cardinality(Symbols))
    BY <1>3, <1>8, <2>1, <2>3, <2>4
  <2>6. slack + Cardinality(Symbols) \in Nat
    BY <1>8
  <2> QED BY <1>7, <2>2, <2>5, <2>6, InvestedAtOnce
<1> QED BY <1>7, <1>9, <1>10

\* A sum over two sets that share nothing.
LEMMA SumOverBoth ==
  ASSUME NEW w \in Weights, NEW S \in SUBSET Symbols, NEW T \in SUBSET Symbols, S \cap T = {}
  PROVE  /\ SumOver(w, S \cup T) = SumOver(w, S) + SumOver(w, T)
         /\ SumOver(w, S) \in Nat /\ SumOver(w, T) \in Nat
<1> DEFINE U == S \cup T
           inS == [s \in U |-> IF s \in S THEN w[s] ELSE 0]
           inT == [s \in U |-> IF s \in T THEN w[s] ELSE 0]
<1>1. /\ IsFiniteSet(U) /\ S \in SUBSET U /\ T \in SUBSET U
      /\ \A s \in U : w[s] \in Nat
      /\ SumOver(w, S) \in Nat /\ SumOver(w, T) \in Nat
  BY WeightSum DEF Weights
<1>2. /\ \A s \in U : inS[s] \in Int /\ inT[s] \in Int /\ w[s] = inS[s] + inT[s]
      /\ \A s \in S : w[s] \in Int /\ inS[s] = w[s]
      /\ \A s \in T : w[s] \in Int /\ inT[s] = w[s]
      /\ \A s \in U \ S : inS[s] = 0
      /\ \A s \in U \ T : inT[s] = 0
  BY <1>1
<1> HIDE DEF inS, inT, U
<1>3. SumOver(inS, U) = SumOver(w, S) /\ SumOver(inT, U) = SumOver(w, T)
  BY <1>1, <1>2, SumOverPart
<1>4. SumOver(w, U) = SumOver(inS, U) + SumOver(inT, U)
  BY <1>1, <1>2, SumOverPlus
<1> QED BY <1>1, <1>3, <1>4 DEF U

LEMMA SumOfRest ==
  ASSUME NEW w \in Weights, NEW S \in SUBSET Symbols, NEW R, R = Symbols \ S
  PROVE  /\ SumOver(w, Symbols) = SumOver(w, S) + SumOver(w, R)
         /\ SumOver(w, S) \in Nat /\ SumOver(w, R) \in Nat
<1>1. R \in SUBSET Symbols /\ S \cap R = {} /\ S \cup R = Symbols
  OBVIOUS
<1> QED BY <1>1, SumOverBoth

LEMMA OneWeightChanged ==
  ASSUME NEW w \in Weights, NEW v \in Weights, NEW s \in Symbols,
         \A t \in Symbols \ {s} : w[t] = v[t]
  PROVE  SumOver(v, Symbols) = SumOver(w, Symbols) - w[s] + v[s]
<1>1. IsFiniteSet(Symbols) /\ \A t \in Symbols : w[t] \in Int /\ v[t] \in Int
  BY AllocationAssumption DEF Weights
<1> QED BY <1>1, SumOverChange

\* The classes of finitely many ETFs are finitely many.
LEMMA ClassesMet == IsFiniteSet({class[s] : s \in Symbols})
<1> DEFINE of(S) == {class[s] : s \in S}
           C == {S \in SUBSET Symbols : IsFiniteSet(of(S))}
<1>1. {} \in C
  <2>1. of({}) = {} /\ IsFiniteSet({})
    BY FS_EmptySet
  <2>2. IsFiniteSet(of({}))
    BY <2>1
  <2> QED BY <2>2
<1>2. ASSUME NEW S \in SUBSET Symbols, S \in C, NEW s \in Symbols \ S PROVE S \cup {s} \in C
  <2>1. of(S \cup {s}) = of(S) \cup {class[s]} /\ IsFiniteSet(of(S))
    BY <1>2
  <2> HIDE DEF of
  <2>2. IsFiniteSet(of(S \cup {s}))
    <3>1. PICK T : T = of(S)
      OBVIOUS
    <3>2. IsFiniteSet(T) /\ of(S \cup {s}) = T \cup {class[s]}
      BY <2>1, <3>1
    <3>3. IsFiniteSet(T \cup {class[s]})
      BY <3>2, FS_AddElement
    <3> QED BY <3>2, <3>3
  <2> QED BY <2>2
<1>3. Symbols \in C
  <2>1. \A S \in SUBSET Symbols : S \in C => \A s \in Symbols \ S : S \cup {s} \in C
    BY <1>2
  <2> HIDE DEF C
  <2> QED BY <1>1, <2>1, SetInduct, AllocationAssumption
<1> QED BY <1>3

\* What is no more in every full class and in every other ETF is no more.
LEMMA Dominated ==
  ASSUME NEW w \in Weights, NEW top \in Weights, NEW full,
         \A s \in Symbols : class[s] \notin full => w[s] <= top[s],
         \A c \in full : SumOver(w, {s \in Symbols : class[s] = c})
                           <= SumOver(top, {s \in Symbols : class[s] = c})
  PROVE  SumOver(w, Symbols) <= SumOver(top, Symbols)
<1> DEFINE met == {class[s] : s \in Symbols} \cap full
           of(cs) == {s \in Symbols : class[s] \in cs}
           members(c) == {s \in Symbols : class[s] = c}
           Good == {cs \in SUBSET met : SumOver(w, of(cs)) <= SumOver(top, of(cs))}
<1>1. IsFiniteSet(met)
  <2>1. IsFiniteSet({class[s] : s \in Symbols})
    BY ClassesMet
  <2> QED BY <2>1, FS_Subset
<1>2. {} \in Good
  <2>1. of({}) = {} /\ SumOver(w, {}) = 0 /\ SumOver(top, {}) = 0
    BY SumOverEmpty
  <2>2. SumOver(w, of({})) <= SumOver(top, of({}))
    BY <2>1
  <2> QED BY <2>2
<1>3. ASSUME NEW cs \in SUBSET met, cs \in Good, NEW c \in met \ cs
      PROVE  cs \cup {c} \in Good
  <2>1. of(cs \cup {c}) = of(cs) \cup members(c) /\ of(cs) \cap members(c) = {}
    OBVIOUS
  <2>2. of(cs) \in SUBSET Symbols /\ members(c) \in SUBSET Symbols
    OBVIOUS
  <2>3. SumOver(w, of(cs)) <= SumOver(top, of(cs))
    BY <1>3
  <2>4. SumOver(w, members(c)) <= SumOver(top, members(c))
    OBVIOUS
  <2> HIDE DEF of, members
  <2>5. SumOver(w, of(cs \cup {c})) <= SumOver(top, of(cs \cup {c}))
    <3>1. PICK A, B, AB : A = of(cs) /\ B = members(c) /\ AB = of(cs \cup {c})
      OBVIOUS
    <3>2. A \in SUBSET Symbols /\ B \in SUBSET Symbols /\ A \cap B = {} /\ AB = A \cup B
      BY <2>1, <2>2, <3>1
    <3>3. SumOver(w, A) <= SumOver(top, A) /\ SumOver(w, B) <= SumOver(top, B)
      BY <2>3, <2>4, <3>1
    <3>4. /\ SumOver(w, AB) = SumOver(w, A) + SumOver(w, B)
          /\ SumOver(w, A) \in Nat /\ SumOver(w, B) \in Nat
      BY <3>2, SumOverBoth
    <3>5. /\ SumOver(top, AB) = SumOver(top, A) + SumOver(top, B)
          /\ SumOver(top, A) \in Nat /\ SumOver(top, B) \in Nat
      BY <3>2, SumOverBoth
    <3>6. SumOver(w, AB) <= SumOver(top, AB)
      BY <3>3, <3>4, <3>5
    <3> QED BY <3>1, <3>6
  <2> HIDE DEF met
  <2> QED BY <2>5
<1>4. met \in Good
  <2>1. \A cs \in SUBSET met : cs \in Good => \A c \in met \ cs : cs \cup {c} \in Good
    BY <1>3
  <2> HIDE DEF Good, met
  <2> QED BY <1>1, <1>2, <2>1, SetInduct
<1>5. SumOver(w, of(met)) <= SumOver(top, of(met))
  BY <1>4
<1> DEFINE rest == Symbols \ of(met)
<1>6. \A s \in rest : class[s] \notin full
  OBVIOUS
<1>7. /\ of(met) \in SUBSET Symbols /\ rest \in SUBSET Symbols
      /\ rest = Symbols \ of(met)
  OBVIOUS
<1> HIDE DEF met, of, rest
<1>8. SumOver(w, rest) <= SumOver(top, rest)
  <2>1. \A s \in rest : w[s] \in Int /\ top[s] \in Int /\ w[s] <= top[s]
    BY <1>6, <1>7 DEF Weights
  <2>2. IsFiniteSet(rest)
    BY <1>7, WeightSum
  <2> QED BY <2>1, <2>2, SumOverLess
<1>9. /\ SumOver(w, Symbols) = SumOver(w, of(met)) + SumOver(w, rest)
      /\ SumOver(w, of(met)) \in Nat /\ SumOver(w, rest) \in Nat
  BY <1>7, SumOfRest
<1>10. /\ SumOver(top, Symbols) = SumOver(top, of(met)) + SumOver(top, rest)
       /\ SumOver(top, of(met)) \in Nat /\ SumOver(top, rest) \in Nat
  BY <1>7, SumOfRest
<1> QED BY <1>5, <1>8, <1>9, <1>10

\* Weights under the caps that come up to a ceiling come up to each part of it.
LEMMA AtTheCeiling ==
  ASSUME NEW w \in Weights, NEW u \in Nat, Capped(u, w), hard.etf \in Nat, hard.class \in Nat, NEW slack \in Nat,
         NEW top, NEW full, Ceiling(u, top, full, w),
         SumOver(top, Symbols) <= SumOver(w, Symbols) + slack,
         NEW s \in Symbols, w[s] # 0
  PROVE  \/ hard.etf <= w[s] + slack
         \/ class[s] \in full
            /\ hard.class <= SumOver(w, {t \in Symbols : class[t] = class[s]}) + slack
<1>0. /\ top \in Weights /\ full \subseteq Classes /\ IsFiniteSet(Symbols)
      /\ \A t \in Symbols : w[t] \in Nat /\ top[t] \in Nat
      /\ SumOver(w, Symbols) \in Nat /\ SumOver(top, Symbols) \in Nat
  BY WeightSum DEF Ceiling, Weights
<1> DEFINE members(c) == {t \in Symbols : class[t] = c}
<1>1. \A c : members(c) \in SUBSET Symbols
  OBVIOUS
<1>2. /\ \A t \in Symbols : class[t] \notin full => w[t] <= top[t]
      /\ \A c \in full : hard.class + u <= SumOver(top, members(c))
      /\ \A c \in full : SumOver(w, members(c)) <= hard.class + u
  <2>1. /\ \A t \in Symbols : class[t] \notin full => w[t] = 0 \/ hard.etf + u <= top[t]
        /\ \A t \in Symbols : w[t] <= hard.etf + u
    BY DEF Ceiling, Capped
  <2>2. \A t \in Symbols : class[t] \notin full => w[t] <= top[t]
    BY <1>0, <2>1
  <2>3. /\ \A c \in full : hard.class + u <= SumOver(top, members(c))
        /\ \A c \in full : SumOver(w, members(c)) <= hard.class + u
    BY <1>0 DEF Ceiling, Capped
  <2> QED BY <2>2, <2>3
<1>3. \A c : SumOver(w, members(c)) \in Nat /\ SumOver(top, members(c)) \in Nat
  BY <1>0, <1>1, WeightSum
<1>4. CASE class[s] \notin full
  <2> DEFINE lower == [top EXCEPT ![s] = w[s]]
  <2>1. lower \in Weights /\ lower[s] = w[s] /\ \A t \in Symbols \ {s} : lower[t] = top[t]
    BY <1>0 DEF Weights
  <2> HIDE DEF lower
  <2>2. \A t \in Symbols : class[t] \notin full => w[t] <= lower[t]
    BY <1>0, <1>2, <2>1
  <2>3. \A c \in full : SumOver(w, members(c)) <= SumOver(lower, members(c))
    <3> SUFFICES ASSUME NEW c \in full
                 PROVE  SumOver(w, members(c)) <= SumOver(lower, members(c))
      OBVIOUS
    <3>1. IsFiniteSet(members(c)) /\ \A t \in members(c) : top[t] \in Int /\ top[t] = lower[t]
      BY <1>0, <1>4, <2>1, WeightSum
    <3>2. SumOver(top, members(c)) = SumOver(lower, members(c))
      <4> HIDE DEF members
      <4> QED BY <3>1, SumOverSame
    <3> HIDE DEF members
    <3> QED BY <1>0, <1>2, <1>3, <3>2
  <2>4. SumOver(w, Symbols) <= SumOver(lower, Symbols)
    BY <2>1, <2>2, <2>3, Dominated
  <2>5. SumOver(lower, Symbols) = SumOver(top, Symbols) - top[s] + lower[s]
    <3>1. \A t \in Symbols \ {s} : top[t] = lower[t]
      BY <2>1
    <3> QED BY <1>0, <2>1, <3>1, OneWeightChanged
  <2>6. hard.etf + u <= top[s]
    BY <1>4 DEF Ceiling
  <2> QED BY <1>0, <2>1, <2>4, <2>5, <2>6
<1>5. CASE class[s] \in full
  <2> DEFINE M == members(class[s])
             R == Symbols \ M
             lower == [t \in Symbols |-> IF t \in M THEN w[t] ELSE top[t]]
  <2>1. /\ lower \in Weights
        /\ \A t \in M : lower[t] = w[t]
        /\ \A t \in R : lower[t] = top[t]
        /\ M \in SUBSET Symbols /\ R \in SUBSET Symbols /\ M \cap R = {} /\ Symbols = M \cup R
        /\ IsFiniteSet(M) /\ IsFiniteSet(R)
    BY <1>0, WeightSum DEF Weights
  <2>2. \A t \in R : class[t] # class[s]
    OBVIOUS
  <2>3. \A t \in Symbols : class[t] \notin full => w[t] <= lower[t]
    BY <1>0, <1>2
  <2>4. SumOver(lower, M) = SumOver(w, M) /\ SumOver(lower, R) = SumOver(top, R)
    <3>1. /\ \A t \in M : lower[t] \in Int /\ lower[t] = w[t]
          /\ \A t \in R : lower[t] \in Int /\ lower[t] = top[t]
      BY <1>0, <2>1 DEF Weights
    <3> HIDE DEF M, R, lower
    <3> QED BY <2>1, <3>1, SumOverSame
  <2>5. \A c \in full : SumOver(w, members(c)) <= SumOver(lower, members(c))
    <3> SUFFICES ASSUME NEW c \in full
                 PROVE  SumOver(w, members(c)) <= SumOver(lower, members(c))
      OBVIOUS
    <3>1. CASE c = class[s]
      <4>1. SumOver(lower, members(c)) = SumOver(w, members(c))
        BY <2>4, <3>1
      <4> HIDE DEF members
      <4> QED BY <1>3, <4>1
    <3>2. CASE c # class[s]
      <4>1. IsFiniteSet(members(c)) /\ \A t \in members(c) : top[t] \in Int /\ top[t] = lower[t]
        BY <1>0, <3>2, WeightSum
      <4> HIDE DEF members, lower
      <4>2. SumOver(top, members(c)) = SumOver(lower, members(c))
        BY <4>1, SumOverSame
      <4> QED BY <1>0, <1>2, <1>3, <4>2
    <3> QED BY <3>1, <3>2
  <2> HIDE DEF lower, R
  <2>6. SumOver(w, Symbols) <= SumOver(lower, Symbols)
    BY <2>1, <2>3, <2>5, Dominated
  <2> HIDE DEF M
  <2>7. /\ SumOver(lower, Symbols) = SumOver(lower, M) + SumOver(lower, R)
        /\ SumOver(top, Symbols) = SumOver(top, M) + SumOver(top, R)
        /\ SumOver(top, M) \in Nat /\ SumOver(top, R) \in Nat
    <3>1. top \in Weights /\ lower \in Weights /\ M \in SUBSET Symbols /\ R = Symbols \ M
      BY <1>0, <2>1 DEF R
    <3>2. SumOver(lower, Symbols) = SumOver(lower, M) + SumOver(lower, R)
      BY <3>1, SumOfRest
    <3> QED BY <3>1, <3>2, SumOfRest
  <2>8. hard.class + u <= SumOver(top, M) /\ SumOver(w, M) \in Nat
    BY <1>2, <1>3, <1>5 DEF M
  <2>9. hard.class <= SumOver(w, M) + slack
    BY <1>0, <2>4, <2>6, <2>7, <2>8
  <2> QED BY <1>5, <2>9 DEF M
<1> QED BY <1>4, <1>5
\* Room above the caps raises a ceiling by that room for each ETF at most.
LEMMA RaisedCeiling ==
  ASSUME NEW w \in Weights, NEW t \in Nat, hard.etf \in Nat, hard.class \in Nat,
         NEW top, NEW full, Ceiling(0, top, full, w)
  PROVE  \E higher, met :
           /\ Ceiling(t, higher, met, w)
           /\ SumOver(higher, Symbols) = SumOver(top, Symbols) + t * Cardinality(Symbols)
<1> DEFINE ones == [s \in Symbols |-> 1]
           rise == [s \in Symbols |-> t]
           higher == [s \in Symbols |-> top[s] + t]
           met == {class[s] : s \in Symbols} \cap full
           members(c) == {s \in Symbols : class[s] = c}
<1>0. /\ IsFiniteSet(Symbols) /\ top \in Weights /\ full \subseteq Classes
      /\ \A s \in Symbols : top[s] \in Nat
      /\ \A s \in Symbols : class[s] \notin full => w[s] = 0 \/ hard.etf + 0 <= top[s]
      /\ \A c \in full : hard.class + 0 <= SumOver(top, members(c))
  BY AllocationAssumption DEF Ceiling, Weights
<1>1. /\ \A s \in Symbols : ones[s] = 1 /\ ones[s] \in {0, 1} /\ ones[s] \in Int
      /\ \A s \in Symbols : rise[s] = t /\ rise[s] \in Nat /\ rise[s] = t * ones[s]
      /\ \A s \in Symbols : higher[s] = top[s] + rise[s] /\ higher[s] = top[s] + t
      /\ higher \in Weights
  BY <1>0 DEF Weights
<1>2. /\ met \subseteq full
      /\ \A s \in Symbols : class[s] \notin met => class[s] \notin full
      /\ \A c \in met : \E s \in Symbols : s \in members(c)
      /\ \A c : members(c) \in SUBSET Symbols
  OBVIOUS
<1> HIDE DEF ones, rise, higher, met, members
<1>3. ASSUME NEW M \in SUBSET Symbols
      PROVE  /\ IsFiniteSet(M) /\ SumOver(top, M) \in Nat
             /\ SumOver(higher, M) = SumOver(top, M) + SumOver(rise, M)
  <2>1. IsFiniteSet(M) /\ SumOver(top, M) \in Nat
    BY <1>0, WeightSum
  <2>2. \A s \in M : top[s] \in Int /\ rise[s] \in Int /\ higher[s] = top[s] + rise[s]
    BY <1>0, <1>1
  <2> QED BY <2>1, <2>2, SumOverPlus
<1>4. SumOver(rise, Symbols) = t * Cardinality(Symbols)
  <2>1. SumOver(ones, Symbols) = Cardinality(Symbols)
    <3>1. Symbols = {s \in Symbols : ones[s] = 1}
      BY <1>1
    <3> QED BY <1>0, <1>1, <3>1, SumCounts
  <2>2. t \in Int /\ \A s \in Symbols : ones[s] \in Int /\ rise[s] = t * ones[s]
    BY <1>1
  <2> QED BY <1>0, <2>1, <2>2, SumOverTimes
<1>5. ASSUME NEW c \in met PROVE hard.class + t <= SumOver(higher, members(c))
  <2>1. PICK s \in members(c) : TRUE
    BY <1>2
  <2>2. PICK M : M = members(c)
    OBVIOUS
  <2>3. M \in SUBSET Symbols /\ s \in M /\ c \in full
    BY <1>2, <2>1, <2>2
  <2>4. \A x \in M : rise[x] \in Nat
    BY <1>1, <2>3
  <2>5. IsFiniteSet(M) /\ rise[s] <= SumOver(rise, M) /\ rise[s] = t /\ SumOver(rise, M) \in Nat
    BY <1>1, <1>3, <2>3, <2>4, SumOverHas, SumOverNat
  <2>6. hard.class + 0 <= SumOver(top, M) /\ SumOver(top, M) \in Nat
    BY <1>0, <1>3, <2>2, <2>3
  <2>7. SumOver(higher, M) = SumOver(top, M) + SumOver(rise, M)
    BY <1>3, <2>3
  <2> QED BY <2>2, <2>5, <2>6, <2>7
<1>6. Ceiling(t, higher, met, w)
  <2>1. ASSUME NEW s \in Symbols, class[s] \notin met PROVE w[s] = 0 \/ hard.etf + t <= higher[s]
    BY <1>0, <1>1, <1>2, <2>1
  <2>2. \A c \in met : hard.class + t <= SumOver(higher, {s \in Symbols : class[s] = c})
    BY <1>5 DEF members
  <2> QED BY <1>0, <1>1, <1>2, <2>1, <2>2 DEF Ceiling
<1>7. SumOver(higher, Symbols) = SumOver(top, Symbols) + t * Cardinality(Symbols)
  BY <1>3, <1>4
<1> QED BY <1>6, <1>7

\* A part for each ETF to begin with, and two in every round.
RoundingLoss == Cardinality(Symbols) * (2 * round + 1)
Loss == RoundingLoss + trimmed

InvestedInv ==
  phase \in {"capping", "clamping"} \/ Allocate!Offered => Invested(weights, Loss)

\* Weights in inverse proportion, rounded down, lose a part for each ETF.
LEMMA RawWeightsLose ==
  ASSUME NEW inverse \in InverseVols, Allocate!SumOver(inverse, Symbols) # 0,
         NEW w, w = Allocate!RawWeights(inverse)
  PROVE  w \in Weights /\ Whole <= SumOver(w, Symbols) + Cardinality(Symbols)
<1> DEFINE total == SumOver(inverse, Symbols)
           up == [s \in Symbols |-> w[s] + 1]
<1>1. /\ IsFiniteSet(Symbols) /\ Whole \in Nat
      /\ \A s \in Symbols : inverse[s] \in Nat
  BY AllocationAssumption
<1>2. total \in Nat /\ total > 0
  <2>1. total # 0
    BY SameSums
  <2>2. total \in Nat
    BY <1>1, SumOverNat
  <2> QED BY <2>1, <2>2
<1>3. w = [s \in Symbols |-> (inverse[s] * Whole) \div total] /\ w \in Weights
  BY SameSums, RawWeightsFit DEF Allocate!RawWeights
<1>4. \A s \in Symbols : inverse[s] * Whole <= up[s] * total
  <2> SUFFICES ASSUME NEW s \in Symbols PROVE inverse[s] * Whole <= up[s] * total
    OBVIOUS
  <2>1. up[s] = (inverse[s] * Whole) \div total + 1 /\ inverse[s] \in Nat
    BY <1>1, <1>3
  <2> HIDE DEF up, total
  <2>2. Whole * inverse[s] = inverse[s] * Whole
    BY <1>1, <2>1
  <2>3. Whole * inverse[s] <= ((inverse[s] * Whole) \div total + 1) * total
    BY <1>1, <1>2, <2>1, RoundedDown
  <2> QED BY <2>1, <2>2, <2>3
<1>5. up \in Weights /\ \A s \in Symbols : up[s] \in Nat /\ up[s] <= w[s] + 1
  BY <1>3 DEF Weights
<1> HIDE DEF up
<1>6. Whole <= SumOver(up, Symbols)
  <2>1. \A s \in Symbols : inverse[s] \in Nat /\ up[s] \in Nat /\ inverse[s] * Whole <= up[s] * total
    BY <1>1, <1>4, <1>5
  <2> QED BY <1>1, <1>2, <2>1, SharesCover
<1>7. SumOver(up, Symbols) <= SumOver(w, Symbols) + Cardinality(Symbols)
  BY <1>3, <1>5, PartsEach
<1>8. SumOver(up, Symbols) \in Nat /\ SumOver(w, Symbols) \in Nat /\ Cardinality(Symbols) \in Nat
  BY <1>1, <1>3, <1>5, WeightSum, FS_CardinalityType
<1> QED BY <1>1, <1>3, <1>6, <1>7, <1>8

\* The same weights under the same caps.
LEMMA InvestedSame ==
  ASSUME UNCHANGED <<hard, class>>, NEW w, NEW slack, w = weights', slack = Loss',
         Invested(w, slack)
  PROVE  Invested(weights, Loss)'
<1>1. CASE Whole <= SumOver(w, Symbols) + slack
  BY <1>1 DEF Invested
<1>2. ASSUME NEW top, NEW full, Ceiling(0, top, full, w),
             SumOver(top, Symbols) <= SumOver(w, Symbols) + slack
      PROVE  Invested(weights, Loss)'
  <2>1. Ceiling(0, top, full, weights)'
    BY <1>2 DEF Ceiling
  <2> QED BY <1>2, <2>1 DEF Invested
<1> QED BY <1>1, <1>2 DEF Invested

LEMMA RoundGrows ==
  ASSUME NEW n \in Nat, NEW k \in Nat
  PROVE  n * (2 * k + 1) \in Nat /\ (n * (2 * k + 1) + n) + n = n * (2 * (k + 1) + 1)
         /\ n <= n * (2 * k + 1)
<1>1. n * k \in Nat
  OBVIOUS
<1>2. n * (2 * k + 1) = 2 * (n * k) + n /\ n * (2 * (k + 1) + 1) = 2 * (n * k) + 3 * n
  OBVIOUS
<1> QED BY <1>1, <1>2

LEMMA LossType ==
  ASSUME CapsInv
  PROVE  RoundingLoss \in Nat /\ Loss \in Nat /\ trimmed \in Nat /\ Cardinality(Symbols) \in Nat
<1>1. Cardinality(Symbols) \in Nat /\ round \in Nat /\ trimmed \in Nat
  BY AllocationAssumption, FS_CardinalityType DEF CapsInv
<1>2. RoundingLoss \in Nat
  BY <1>1, RoundGrows DEF RoundingLoss
<1> QED BY <1>1, <1>2 DEF Loss

LEMMA InvestedStep == CapsInv /\ InvestedInv /\ [Next]_vars => InvestedInv'
<1> SUFFICES ASSUME CapsInv, InvestedInv, Allocate!Next \/ UNCHANGED allocationVars
             PROVE  InvestedInv'
  BY ServiceMoves
<1>0. /\ hard.etf \in Nat /\ hard.class \in Nat /\ round \in Nat /\ ClampTolerance \in Nat
      /\ class \in [Symbols -> Classes \cup {Unclassified}]
      /\ weights \in Weights /\ Whole \in Nat
      /\ Cardinality(Symbols) \in Nat /\ RoundingLoss \in Nat /\ Loss \in Nat
      /\ ~Allocate!Offered => trimmed = 0
  BY AllocationAssumption, LossType DEF CapsInv
<1>1. CASE Allocate!Optimize
  <2>1. /\ round' = round /\ trimmed' = trimmed /\ trimmed = 0
        /\ phase' \in {"infeasible", "capping"} /\ ~Allocate!Offered'
    BY <1>0, <1>1 DEF Allocate!Optimize, Allocate!Offered
  <2>2. CASE phase' = "infeasible"
    BY <2>1, <2>2 DEF InvestedInv
  <2>3. CASE phase' = "capping"
    <3>1. PICK inverse \in InverseVols :
            /\ Allocate!SumOver(inverse, Symbols) # 0
            /\ weights' = Allocate!RawWeights(inverse)
      BY <1>1, <2>3 DEF Allocate!Optimize
    <3>2. PICK w : w = weights'
      OBVIOUS
    <3>3. w \in Weights /\ Whole <= SumOver(w, Symbols) + Cardinality(Symbols)
      BY <3>1, <3>2, RawWeightsLose
    <3>4. SumOver(w, Symbols) \in Nat
      BY <3>3, WeightSum
    <3>5. PICK slack \in Nat : slack = Loss' /\ Cardinality(Symbols) <= slack
      <4>1. Cardinality(Symbols) <= RoundingLoss /\ RoundingLoss' = RoundingLoss
        BY <1>0, <2>1, RoundGrows DEF RoundingLoss
      <4> QED BY <1>0, <2>1, <4>1 DEF Loss
    <3>6. Whole <= SumOver(w, Symbols) + slack
      BY <1>0, <3>3, <3>4, <3>5
    <3>7. Invested(weights, Loss)'
      BY <3>2, <3>5, <3>6 DEF Invested
    <3> QED BY <3>7 DEF InvestedInv
  <2> QED BY <2>1, <2>2, <2>3
<1>2. CASE Allocate!CapRound
  <2>1. PICK u, v : /\ u = Allocate!CapEtfs(weights) /\ v = Allocate!CapClasses(u)
                    /\ v = weights'
    BY <1>2 DEF Allocate!CapRound
  <2>2. /\ phase = "capping" /\ round' = round + 1 /\ UNCHANGED <<hard, class, trimmed>>
        /\ trimmed = 0
    BY <1>0, <1>2 DEF Allocate!CapRound, Allocate!Offered
  <2>3. PICK slack \in Nat : slack = RoundingLoss /\ slack = Loss
    BY <1>0, <2>2 DEF Loss
  <2>4. Invested(weights, slack)
    BY <2>2, <2>3 DEF InvestedInv
  <2>5. u \in Weights /\ Invested(u, slack + Cardinality(Symbols))
    BY <1>0, <2>1, <2>4, CapEtfsLoses
  <2>6. slack + Cardinality(Symbols) \in Nat
    BY <1>0
  <2>7. Invested(v, (slack + Cardinality(Symbols)) + Cardinality(Symbols))
    BY <1>0, <2>1, <2>5, <2>6, CapClassesLoses
  <2>8. (slack + Cardinality(Symbols)) + Cardinality(Symbols) = Loss'
    <3>1. RoundingLoss' = (slack + Cardinality(Symbols)) + Cardinality(Symbols)
      BY <1>0, <2>2, <2>3, RoundGrows DEF RoundingLoss
    <3> QED BY <1>0, <2>2, <3>1 DEF Loss
  <2>9. Invested(weights, Loss)'
    BY <2>1, <2>2, <2>7, <2>8, InvestedSame
  <2> QED BY <2>9 DEF InvestedInv
<1>3. CASE Allocate!FinalClamp
  <2>1. PICK v : /\ v = Allocate!ScaleClasses(Allocate!ClipEtfs(weights, ClampTolerance), ClampTolerance)
                 /\ v = weights'
    BY <1>3 DEF Allocate!FinalClamp
  <2>2. PICK loss : /\ loss = trimmed'
                    /\ loss = SumOver(weights, Symbols) - SumOver(v, Symbols)
    BY <1>3, <2>1, SameSums DEF Allocate!FinalClamp
  <2>3. /\ phase = "clamping" /\ UNCHANGED <<hard, class, round>> /\ trimmed = 0
    BY <1>0, <1>3 DEF Allocate!FinalClamp, Allocate!Offered
  <2>4. PICK slack \in Nat : slack = Loss /\ slack = RoundingLoss /\ slack = RoundingLoss'
    BY <1>0, <2>3 DEF Loss, RoundingLoss
  <2>5. Invested(weights, slack)
    BY <2>3, <2>4 DEF InvestedInv
  <2>6. v \in Weights /\ loss \in Nat /\ \A s \in Symbols : v[s] <= weights[s]
    BY <1>0, <2>1, <2>2, ClampKeeps
  <2>7. \A s \in Symbols : weights[s] = 0 => v[s] = 0
    BY <1>0, <2>6 DEF Weights
  <2>8. SumOver(weights, Symbols) <= SumOver(v, Symbols) + loss
    <3>1. SumOver(weights, Symbols) \in Nat /\ SumOver(v, Symbols) \in Nat
      BY <1>0, <2>6, WeightSum
    <3> QED BY <2>2, <3>1
  <2>9. Invested(v, slack + loss)
    BY <1>0, <2>5, <2>6, <2>7, <2>8, InvestedMoved
  <2>10. slack + loss = Loss'
    BY <2>2, <2>4 DEF Loss
  <2>11. Invested(weights, Loss)'
    BY <2>1, <2>3, <2>9, <2>10, InvestedSame
  <2> QED BY <2>11 DEF InvestedInv
<1>4. ASSUME \/ Allocate!RoundsExhausted \/ Allocate!Propose \/ Allocate!StartCycle
             \/ Allocate!ReturnOrders \/ UNCHANGED allocationVars
             \/ \E s \in Symbols : Allocate!Buy(s) \/ Allocate!PassOver(s)
      PROVE  InvestedInv'
  <2>1. /\ UNCHANGED <<hard, class, weights, round, trimmed>>
        /\ phase' \in {"capping", "clamping"} \/ Allocate!Offered'
             => phase \in {"capping", "clamping"} \/ Allocate!Offered
    BY <1>4 DEF Allocate!RoundsExhausted, Allocate!Propose, Allocate!StartCycle,
         Allocate!ReturnOrders, Allocate!Buy, Allocate!PassOver, Allocate!Considering,
         Allocate!optimizerVars, Allocate!Offered, allocationVars
  <2>2. Invested(weights, Loss) => Invested(weights, Loss)'
    <3>1. PICK w, slack : /\ w = weights /\ w = weights'
                          /\ slack = Loss /\ slack = Loss'
      BY <2>1 DEF Loss, RoundingLoss
    <3> QED BY <2>1, <3>1, InvestedSame
  <2> QED BY <2>1, <2>2 DEF InvestedInv
<1> QED BY <1>1, <1>2, <1>3, <1>4 DEF Allocate!Next

LEMMA InvestedInit == Init => InvestedInv
BY DEF Init, Allocate!Init, InvestedInv, Allocate!Offered

\* What is invested to a ceiling leaves cash idle only where it is blocked.
LEMMA IdleIsBlocked ==
  ASSUME CapsInv, InvestedInv, Allocate!Offered
  PROVE  Allocate!IdleOnlyWhenBlocked(Loss + Allocate!Tolerated * Cardinality(Symbols))
<1>0. /\ hard.etf \in Nat /\ hard.class \in Nat
      /\ weights \in Weights /\ Whole \in Nat /\ SumOver(weights, Symbols) \in Nat
      /\ Cardinality(Symbols) \in Nat /\ Unclassified \notin Classes
      /\ Capped(Allocate!Tolerated, weights) /\ Invested(weights, Loss)
      /\ \A s \in Symbols : weights[s] \in Nat
  BY AllocationAssumption, WeightSum, FS_CardinalityType DEF CapsInv, InvestedInv, Weights
<1>1. PICK above \in Nat : above = Allocate!Tolerated
  BY AllocationAssumption DEF Allocate!Tolerated
<1>2. PICK room \in Nat : room = above * Cardinality(Symbols)
  BY <1>0, <1>1
<1>3. PICK loss \in Nat : loss = Loss
  BY LossType
<1>4. PICK slack \in Nat : slack = loss + room
  OBVIOUS
<1>5. slack = Loss + Allocate!Tolerated * Cardinality(Symbols)
  BY <1>1, <1>2, <1>3, <1>4
<1> DEFINE members(c) == {t \in Symbols : class[t] = c}
<1>6. CASE Whole <= SumOver(weights, Symbols) + loss
  <2>1. Whole - SumOver(weights, Symbols) <= slack
    BY <1>0, <1>4, <1>6
  <2> QED BY <1>5, <2>1, SameSums DEF Allocate!IdleOnlyWhenBlocked
<1>7. ASSUME NEW low, NEW some, Ceiling(0, low, some, weights),
             SumOver(low, Symbols) <= SumOver(weights, Symbols) + loss
      PROVE  Allocate!IdleOnlyWhenBlocked(slack)
  <2>0. PICK top, full : /\ Ceiling(above, top, full, weights)
                         /\ SumOver(top, Symbols) = SumOver(low, Symbols) + above * Cardinality(Symbols)
    BY <1>0, <1>7, RaisedCeiling
  <2>1. SumOver(top, Symbols) <= SumOver(weights, Symbols) + slack
    <3>1. SumOver(low, Symbols) \in Nat
      BY <1>7, WeightSum DEF Ceiling
    <3>2. SumOver(top, Symbols) = SumOver(low, Symbols) + room
      BY <1>2, <2>0
    <3> QED BY <1>0, <1>4, <1>7, <3>1, <3>2
  <2>2. ASSUME NEW s \in Symbols
        PROVE  \/ weights[s] = 0
               \/ weights[s] >= hard.etf - slack
               \/ /\ class[s] # Unclassified
                  /\ SumOver(weights, members(class[s])) >= hard.class - slack
    <3>1. CASE weights[s] # 0
      <4>0. Capped(above, weights)
        BY <1>0, <1>1
      <4>1. \/ hard.etf <= weights[s] + slack
            \/ class[s] \in full /\ hard.class <= SumOver(weights, members(class[s])) + slack
        BY <1>0, <2>0, <2>1, <3>1, <4>0, AtTheCeiling
      <4>2. SumOver(weights, members(class[s])) \in Nat
        BY <1>0, WeightSum
      <4>3. class[s] \in full => class[s] # Unclassified
        BY <1>0, <2>0 DEF Ceiling
      <4> HIDE DEF members
      <4> QED BY <1>0, <4>1, <4>2, <4>3
    <3> QED BY <3>1
  <2> QED BY <2>2, SameSums DEF Allocate!IdleOnlyWhenBlocked
<1>8. Invested(weights, loss)
  BY <1>0, <1>3
<1> QED BY <1>5, <1>6, <1>7, <1>8 DEF Invested

\* The targets keep every cap, and the cash they leave idle that no cap blocks is what
\* rounding lost (a part for each ETF to begin with and two in every round) and what the
\* clamp trimmed after the rounds ran out, up to its tolerance: a loop that settles
\* leaves no avoidable cash.
THEOREM TargetsAreInvested == Spec => []TargetsCappedAndInvested
<1>1. Spec => [](CapsInv /\ InvestedInv)
  BY CapsInit, CapsStep, InvestedInit, InvestedStep, PTL DEF Spec
<1>2. CapsInv /\ InvestedInv => TargetsCappedAndInvested
  <2> SUFFICES ASSUME CapsInv, InvestedInv
               PROVE  Allocate!TargetsCapped /\ Allocate!CashIdleOnlyWhenBlocked
    BY DEF TargetsCappedAndInvested, Allocate!TargetsCappedAndInvested
  <2>1. Allocate!RoundingLoss = RoundingLoss /\ Allocate!Cardinality(Symbols) = Cardinality(Symbols)
    BY DEF Allocate!RoundingLoss, RoundingLoss, Allocate!Cardinality, Cardinality
  <2>2. Allocate!Offered =>
          Allocate!IdleOnlyWhenBlocked(Loss + Allocate!Tolerated * Cardinality(Symbols))
    BY IdleIsBlocked
  <2>3. Allocate!CashIdleOnlyWhenBlocked
    BY <2>1, <2>2 DEF Allocate!CashIdleOnlyWhenBlocked, Loss
  <2> QED BY <2>3, CapsKeepTargets
<1> QED BY <1>1, <1>2, PTL


-----------------------------------------------------------------------------
(* The orders of a contribution.  What is ordered and what is still to be  *)
(* considered is one list, furthest below target first; every order was    *)
(* sized by a budget below the gap and by what then remained.              *)

Funded == phase \in {"funding", "buying", "done"}
Below == {s \in Symbols : Allocate!Gap(s) > 0}
Sorted(q) == \A i, j \in DOMAIN q : i < j => Allocate!Before(q[i], q[j])
Spends == [k \in DOMAIN orders |-> orders[k].spent]
InTarget(order) ==
  LET value == Existing + contribution
      s == order.symbol
  IN  current[s] * value + order.spent * Whole <= weights[s] * value

OrdersType ==
  /\ contribution \in Nat /\ remaining \in Nat /\ price \in [Symbols -> Nat]
  /\ orders \in Seq([symbol : Symbols, quantity : Nat, spent : Nat])
  /\ opportunities \in Seq(Symbols)

OrdersInv ==
  /\ CapsInv
  /\ OrdersType
  /\ phase \notin {"buying", "done"} => orders = <<>> /\ opportunities = <<>>
  /\ Funded => proposal.diff.increases = Below
  /\ SumOver(Spends, 1..Len(orders)) + remaining = contribution
  /\ \A k \in 1..Len(orders) : orders[k].symbol \in Below /\ InTarget(orders[k])
  /\ \A i \in 1..Len(opportunities) : opportunities[i] \in Below
  /\ \A j, k \in 1..Len(orders) :
       j < k => Allocate!Before(orders[j].symbol, orders[k].symbol)
  /\ \A j, k \in 1..Len(opportunities) :
       j < k => Allocate!Before(opportunities[j], opportunities[k])
  /\ \A j \in 1..Len(orders), k \in 1..Len(opportunities) :
       Allocate!Before(orders[j].symbol, opportunities[k])

\* The gaps, then the names, order the ETFs.
LEMMA BeforeOrders ==
  ASSUME CapsInv
  PROVE  /\ \A s \in Symbols : Allocate!Gap(s) \in Int /\ s \in Int
         /\ \A a, b, c \in Symbols :
              Allocate!Before(a, b) /\ Allocate!Before(b, c) => Allocate!Before(a, c)
         /\ \A a, b \in Symbols : a # b => Allocate!Before(a, b) \/ Allocate!Before(b, a)
<1>1. \A s \in Symbols : Allocate!Gap(s) \in Int /\ s \in Int
  BY AllocationAssumption DEF CapsInv, Weights, Allocate!Gap
<1> QED BY <1>1 DEF Allocate!Before

\* Some ETFs, if any, have a last one.
LEMMA SomeLast ==
  ASSUME CapsInv, NEW S \in SUBSET Symbols, S # {}
  PROVE  \E x \in S : \A y \in S \ {x} : Allocate!Before(y, x)
<1> DEFINE Latest(s) == \E x \in s : \A y \in s \ {x} : Allocate!Before(y, x)
           C == {s \in SUBSET S : s # {} => Latest(s)}
<1>0. IsFiniteSet(S)
  BY FS_Subset, AllocationAssumption
<1>1. {} \in C
  OBVIOUS
<1>2. ASSUME NEW s \in SUBSET S, s \in C, NEW x \in S \ s PROVE s \cup {x} \in C
  <2>1. CASE s = {}
    BY <2>1
  <2>2. CASE s # {}
    <3>1. PICK z \in s : \A y \in s \ {z} : Allocate!Before(y, z)
      BY <1>2, <2>2
    <3>2. CASE Allocate!Before(z, x)
      <4>1. \A y \in (s \cup {x}) \ {x} : Allocate!Before(y, x)
        BY <3>1, <3>2, BeforeOrders
      <4> QED BY <4>1
    <3>3. CASE Allocate!Before(x, z)
      <4>1. \A y \in (s \cup {x}) \ {z} : Allocate!Before(y, z)
        BY <3>1, <3>3
      <4> QED BY <4>1
    <3> QED BY <3>2, <3>3, BeforeOrders
  <2> QED BY <2>1, <2>2
<1>3. S \in C
  <2> HIDE DEF C
  <2> QED BY <1>0, <1>1, <1>2, SetInduct
<1> QED BY <1>3

LEMMA SameSequences ==
  ASSUME NEW S
  PROVE  Allocate!SetToSeqs(S) =
           {q \in [1..Cardinality(S) -> S] :
              \A i, j \in 1..Cardinality(S) : i # j => q[i] # q[j]}
<1>1. Allocate!Cardinality(S) = Cardinality(S)
  BY DEF Allocate!Cardinality, Cardinality
<1> QED BY <1>1 DEF Allocate!SetToSeqs

\* The ETFs below target can be listed in order.
LEMMA CanBeSorted ==
  ASSUME CapsInv, NEW S \in SUBSET Symbols
  PROVE  \E q \in Allocate!SetToSeqs(S) : Sorted(q)
<1> DEFINE Lists(s, n) == {q \in [1..n -> s] : Sorted(q)}
           Sized == {n \in Nat : \A s \in SUBSET S :
                       Cardinality(s) = n => \E q \in Lists(s, n) : TRUE}
<1>0. \A s \in SUBSET S : IsFiniteSet(s) /\ Cardinality(s) \in Nat
  BY FS_Subset, FS_CardinalityType, AllocationAssumption
<1>1. 0 \in Sized
  <2>1. ASSUME NEW s \in SUBSET S, Cardinality(s) = 0 PROVE \E q \in Lists(s, 0) : TRUE
    <3> DEFINE q == [k \in 1..0 |-> 0]
    <3>1. q \in [1..0 -> s] /\ Sorted(q)
      BY DEF Sorted
    <3> QED BY <3>1
  <2> QED BY <2>1
<1>2. ASSUME NEW n \in Nat, n \in Sized PROVE n + 1 \in Sized
  <2>1. ASSUME NEW s \in SUBSET S, Cardinality(s) = n + 1 PROVE \E q \in Lists(s, n + 1) : TRUE
    <3>1. s # {} /\ s \in SUBSET Symbols
      BY <1>0, <2>1, FS_EmptySet
    <3>2. PICK x \in s : \A y \in s \ {x} : Allocate!Before(y, x)
      BY <3>1, SomeLast
    <3> DEFINE rest == s \ {x}
    <3>3. rest \in SUBSET S /\ Cardinality(rest) = n
      <4>1. Cardinality(rest) = Cardinality(s) - 1
        BY <1>0, FS_RemoveElement
      <4> QED BY <2>1, <4>1
    <3>4. PICK p \in [1..n -> rest] : Sorted(p)
      BY <1>2, <3>3
    <3> DEFINE q == [k \in 1..(n + 1) |-> IF k = n + 1 THEN x ELSE p[k]]
    <3>5. q \in [1..(n + 1) -> s]
      BY <3>4
    <3>6. Sorted(q)
      <4> SUFFICES ASSUME NEW i \in 1..(n + 1), NEW j \in 1..(n + 1), i < j
                   PROVE  Allocate!Before(q[i], q[j])
        BY DEF Sorted
      <4>1. i \in 1..n /\ q[i] = p[i] /\ p[i] \in rest
        BY <3>4
      <4>2. CASE j = n + 1
        <5>1. q[j] = x
          BY <4>2
        <5> QED BY <3>2, <4>1, <5>1
      <4>3. CASE j # n + 1
        <5>1. j \in 1..n /\ q[j] = p[j]
          BY <4>3
        <5> QED BY <3>4, <4>1, <5>1 DEF Sorted
      <4> QED BY <4>2, <4>3
    <3> QED BY <3>5, <3>6
  <2> QED BY <2>1
<1>3. Sized = Nat
  <2>1. Sized \subseteq Nat
    OBVIOUS
  <2> HIDE DEF Sized
  <2> QED BY <1>1, <1>2, <2>1, NatInduct
<1>4. PICK q \in [1..Cardinality(S) -> S] : Sorted(q)
  BY <1>0, <1>3
<1>5. \A i, j \in 1..Cardinality(S) : i # j => q[i] # q[j]
  <2> SUFFICES ASSUME NEW i \in 1..Cardinality(S), NEW j \in 1..Cardinality(S), i # j
               PROVE  q[i] # q[j]
    OBVIOUS
  <2>1. i < j \/ j < i
    OBVIOUS
  <2>2. Allocate!Before(q[i], q[j]) \/ Allocate!Before(q[j], q[i])
    BY <1>4, <2>1 DEF Sorted
  <2>3. \A s \in Symbols : ~Allocate!Before(s, s)
    BY BeforeOrders DEF Allocate!Before
  <2>4. q[i] \in Symbols /\ q[j] \in Symbols
    BY <1>4
  <2> QED BY <2>2, <2>3, <2>4
<1> QED BY <1>4, <1>5, SameSequences

LEMMA PriorityList ==
  ASSUME CapsInv
  PROVE  LET q == Allocate!PrioritizeByGap
         IN  /\ q \in Seq(Symbols)
             /\ \A i \in 1..Len(q) : q[i] \in Below
             /\ \A i, j \in 1..Len(q) : i < j => Allocate!Before(q[i], q[j])
<1> DEFINE q == Allocate!PrioritizeByGap
<1>1. Below \in SUBSET Symbols
  BY DEF Below
<1>2. \E p \in Allocate!SetToSeqs(Below) : Sorted(p)
  BY <1>1, CanBeSorted
<1>3. q = CHOOSE p \in Allocate!SetToSeqs(Below) : Sorted(p)
  BY DEF Allocate!PrioritizeByGap, Below, Sorted
<1> HIDE DEF q
<1>4. q \in Allocate!SetToSeqs(Below) /\ Sorted(q)
  BY <1>2, <1>3
<1>5. IsFiniteSet(Below)
  BY <1>1, FS_Subset, AllocationAssumption
<1>6. Cardinality(Below) \in Nat
  BY <1>5, FS_CardinalityType
<1>7. q \in [1..Cardinality(Below) -> Below]
  BY <1>4, SameSequences
<1>8. q \in Seq(Symbols) /\ Len(q) = Cardinality(Below)
  BY <1>1, <1>6, <1>7
<1>9. DOMAIN q = 1..Len(q)
  BY <1>7, <1>8
<1> QED BY <1>4, <1>7, <1>8, <1>9 DEF Sorted, q

\* _affordable_quantity: with its costs the quantity fits the budget.
LEMMA AffordableFits ==
  ASSUME NEW limit \in Nat \ {0}, NEW budget \in Nat,
         NEW q, q = Allocate!AffordableQuantity(limit, budget)
  PROVE  /\ q \in Nat
         /\ q > 0 => q * limit + Allocate!Cost(q * limit) <= budget
<1> DEFINE most == budget \div limit
           fits == {0} \cup {n \in 1..most : n * limit + Allocate!Cost(n * limit) <= budget}
<1>1. most \in Nat
  OBVIOUS
<1> HIDE DEF most
<1>2. fits \subseteq 0..most /\ fits # {}
  BY <1>1
<1>3. q = Max(fits)
  BY DEF Allocate!AffordableQuantity, Allocate!Max, Max, most
<1>4. q \in fits
  <2> HIDE DEF fits
  <2> QED BY <1>1, <1>2, <1>3, LargestOf
<1> QED BY <1>1, <1>4

LEMMA CostIsNat ==
  ASSUME NEW gross \in Nat
  PROVE  Allocate!Cost(gross) \in Nat
<1>1. gross * CostPct \in Nat /\ FlatCost \in Nat
  BY AllocationAssumption
<1> DEFINE n == gross * CostPct
<1>2. \A m \in Nat : m \div 100 \in Nat
  OBVIOUS
<1> QED BY <1>1, <1>2 DEF Allocate!Cost

LEMMA LimitIsPositive ==
  ASSUME NEW close \in Nat \ {0}
  PROVE  Allocate!LimitPrice(close) \in Nat \ {0}
<1>1. BufferPct \in Nat /\ close * BufferPct \in Nat
  BY AllocationAssumption
<1>2. close * (100 + BufferPct) = close * 100 + close * BufferPct
  BY <1>1
<1>3. close * (100 + BufferPct) + 50 >= 100 /\ close * (100 + BufferPct) + 50 \in Nat
  BY <1>1, <1>2
<1>4. \A n \in Nat : n >= 100 => n \div 100 \in Nat \ {0}
  OBVIOUS
<1> QED BY <1>3, <1>4 DEF Allocate!LimitPrice

\* What an order spends fits what remains, and the gap it was made for.
LEMMA OrderFits ==
  ASSUME OrdersInv, NEW s \in Below, remaining > 0, Allocate!Quantity(s) > 0,
         NEW gross, gross = Allocate!Quantity(s) * Allocate!LimitPrice(price[s]),
         NEW spent, spent = gross + Allocate!Cost(gross)
  PROVE  /\ Allocate!Quantity(s) \in Nat /\ spent \in Nat /\ spent <= remaining
         /\ current[s] * (Existing + contribution) + spent * Whole
              <= weights[s] * (Existing + contribution)
<1> DEFINE value == Existing + contribution
           gap == Allocate!Gap(s)
           due == (gap * value) \div Whole
           budget == Allocate!Budget(s)
           limit == Allocate!LimitPrice(price[s])
           q == Allocate!Quantity(s)
<1>1. /\ value \in Nat /\ remaining \in Nat /\ Whole \in Nat \ {0} /\ s \in Symbols
      /\ weights[s] \in Nat /\ current[s] \in Nat /\ gap = weights[s] - current[s] /\ gap > 0
      /\ price[s] \in Nat
  BY AllocationAssumption DEF OrdersInv, OrdersType, CapsInv, Weights, Below, Allocate!Gap
<1>2. gap \in Nat /\ gap * value \in Nat
  <2> HIDE DEF value, gap
  <2>1. gap \in Nat
    BY <1>1
  <2> QED BY <1>1, <2>1
<1>3. due \in Nat /\ due * Whole <= gap * value
  <2>1. \A n \in Nat : n \div Whole \in Nat /\ (n \div Whole) * Whole <= n
    BY <1>1
  <2> QED BY <1>2, <2>1
<1>4. budget \in Nat /\ budget <= remaining /\ budget <= due
  <2>1. budget = Allocate!Min({remaining, due})
    BY DEF Allocate!Budget
  <2> HIDE DEF budget, due
  <2>2. remaining \in Int /\ due \in Int
    BY <1>1, <1>3
  <2>3. budget \in {remaining, due} /\ budget <= remaining /\ budget <= due
    BY <2>1, <2>2, MinOfTwo
  <2> QED BY <1>1, <1>3, <2>3
<1>5. price[s] # 0 /\ q = Allocate!AffordableQuantity(limit, budget)
  BY DEF Allocate!Quantity
<1>6. limit \in Nat \ {0}
  BY <1>1, <1>5, LimitIsPositive
<1> HIDE DEF budget, limit, due, gap, value, q
<1>7. q \in Nat /\ q * limit + Allocate!Cost(q * limit) <= budget
  BY <1>4, <1>5, <1>6, AffordableFits DEF q
<1>8. gross = q * limit /\ gross \in Nat
  BY <1>6, <1>7 DEF q, limit
<1>9. Allocate!Cost(gross) \in Nat
  BY <1>8, CostIsNat
<1>10. spent \in Nat /\ spent <= budget
  BY <1>7, <1>8, <1>9
<1>11. spent <= remaining /\ spent <= due
  BY <1>1, <1>3, <1>4, <1>10
<1>12. spent * Whole <= gap * value
  <2>1. spent * Whole <= due * Whole /\ spent * Whole \in Nat /\ due * Whole \in Nat
    BY <1>1, <1>3, <1>10, <1>11
  <2> QED BY <1>2, <1>3, <2>1
<1>13. gap * value = weights[s] * value - current[s] * value
  BY <1>1
<1>14. current[s] * value + spent * Whole <= weights[s] * value
  <2>1. weights[s] * value \in Nat /\ current[s] * value \in Nat /\ spent * Whole \in Nat
    BY <1>1, <1>10
  <2> QED BY <1>12, <1>13, <2>1
<1> QED BY <1>7, <1>10, <1>11, <1>14 DEF q, value

LEMMA OrdersInit == Init => OrdersInv
<1> SUFFICES ASSUME Init PROVE OrdersInv
  OBVIOUS
<1>1. CapsInv
  BY CapsInit
<1>2. /\ phase = "idle" /\ orders = <<>> /\ opportunities = <<>>
      /\ contribution = 0 /\ remaining = 0 /\ price = [s \in Symbols |-> 0]
  BY DEF Init, Allocate!Init
<1>3. OrdersType /\ Len(orders) = 0 /\ Len(opportunities) = 0 /\ 1..0 = {}
  BY <1>2 DEF OrdersType
<1>4. SumOver(Spends, 1..Len(orders)) = 0
  BY <1>3, SumOverEmpty
<1> QED BY <1>1, <1>2, <1>3, <1>4 DEF OrdersInv, Funded

\* Nothing is ordered before the cycle starts, whatever happens to the weights.
LEMMA OrdersPlanned ==
  ASSUME OrdersInv, CapsInv', phase \notin {"buying", "done"},
         phase' \notin {"buying", "done"}, UNCHANGED <<price, contribution, remaining, opportunities, orders>>,
         Funded' => (proposal.diff.increases = Below)'
  PROVE  OrdersInv'
<1>1. orders = <<>> /\ opportunities = <<>>
  BY DEF OrdersInv
<1>2. OrdersType' /\ Spends' = Spends
  BY DEF OrdersInv, OrdersType, Spends
<1>3. Len(orders') = 0 /\ Len(opportunities') = 0 /\ Len(orders) = 0 /\ 1..0 = {}
  BY <1>1
<1>4. (SumOver(Spends, 1..Len(orders)) + remaining = contribution)'
  BY <1>2, <1>3 DEF OrdersInv
<1> QED BY <1>1, <1>2, <1>3, <1>4 DEF OrdersInv

LEMMA OrdersStart ==
  ASSUME OrdersInv, CapsInv', Allocate!StartCycle
  PROVE  OrdersInv'
<1> DEFINE q == Allocate!PrioritizeByGap
<1>1. /\ phase = "funding" /\ phase' = "buying"
      /\ UNCHANGED <<weights, current, proposal, orders>>
      /\ price' \in PriceLists /\ contribution' \in Contributions /\ remaining' = contribution'
      /\ opportunities' = IF contribution' > 0 THEN q ELSE <<>>
  BY DEF Allocate!StartCycle, Allocate!optimizerVars
<1>2. /\ q \in Seq(Symbols)
      /\ \A i \in 1..Len(q) : q[i] \in Below
      /\ \A i, j \in 1..Len(q) : i < j => Allocate!Before(q[i], q[j])
  BY PriorityList DEF OrdersInv
<1>3. Below' = Below /\ \A a, b : Allocate!Before(a, b)' = Allocate!Before(a, b)
  BY <1>1 DEF Below, Allocate!Before, Allocate!Gap
<1>4. orders = <<>> /\ orders' = <<>> /\ Len(orders') = 0 /\ 1..0 = {}
  BY <1>1 DEF OrdersInv
<1> HIDE DEF q
<1>5. OrdersType'
  BY <1>1, <1>2, <1>4, AllocationAssumption DEF OrdersType
<1>6. (SumOver(Spends, 1..Len(orders)) + remaining = contribution)'
  BY <1>1, <1>4, <1>5, SumOverEmpty DEF OrdersType
<1>7. (proposal.diff.increases = Below)'
  BY <1>1, <1>3 DEF OrdersInv, Funded
<1>8. (/\ \A i \in 1..Len(opportunities) : opportunities[i] \in Below
       /\ \A j, k \in 1..Len(opportunities) :
            j < k => Allocate!Before(opportunities[j], opportunities[k]))'
  <2>1. CASE contribution' > 0
    <3>1. opportunities' = q
      BY <1>1, <2>1
    <3> QED BY <1>2, <1>3, <3>1
  <2>2. CASE ~(contribution' > 0)
    <3>1. Len(opportunities') = 0
      BY <1>1, <2>2
    <3> QED BY <1>4, <3>1
  <2> QED BY <2>1, <2>2
<1> QED BY <1>1, <1>4, <1>5, <1>6, <1>7, <1>8 DEF OrdersInv

\* What the rest of the opportunities says of itself and of the orders so far.
LEMMA RestOfOpportunities ==
  ASSUME OrdersInv, opportunities # <<>>, NEW rest, rest = Tail(opportunities),
         NEW s, s = Head(opportunities)
  PROVE  /\ rest \in Seq(Symbols) /\ s \in Below
         /\ \A i \in 1..Len(rest) : rest[i] \in Below /\ Allocate!Before(s, rest[i])
         /\ \A i, j \in 1..Len(rest) : i < j => Allocate!Before(rest[i], rest[j])
         /\ \A i \in 1..Len(orders) : Allocate!Before(orders[i].symbol, s)
         /\ \A i \in 1..Len(orders), j \in 1..Len(rest) :
              Allocate!Before(orders[i].symbol, rest[j])
<1>1. opportunities \in Seq(Symbols) /\ Len(opportunities) \in Nat /\ 1 \in 1..Len(opportunities)
  BY DEF OrdersInv, OrdersType
<1>2. rest \in Seq(Symbols) /\ Len(rest) + 1 = Len(opportunities) /\ s = opportunities[1]
  BY <1>1
<1>3. \A i \in 1..Len(rest) :
        i + 1 \in 1..Len(opportunities) /\ rest[i] = opportunities[i + 1]
  BY <1>1, <1>2
<1>4. /\ s \in Below
      /\ \A i \in 1..Len(orders) : Allocate!Before(orders[i].symbol, s)
      /\ \A i \in 1..Len(rest) : rest[i] \in Below
      /\ \A i \in 1..Len(orders), j \in 1..Len(rest) :
           Allocate!Before(orders[i].symbol, rest[j])
  BY <1>1, <1>2, <1>3 DEF OrdersInv
<1>5. \A i \in 1..Len(rest) : Allocate!Before(s, rest[i])
  <2> SUFFICES ASSUME NEW i \in 1..Len(rest) PROVE Allocate!Before(opportunities[1], opportunities[i + 1])
    BY <1>2, <1>3
  <2>1. 1 < i + 1
    OBVIOUS
  <2> QED BY <1>1, <1>3, <2>1 DEF OrdersInv
<1>6. \A i, j \in 1..Len(rest) : i < j => Allocate!Before(rest[i], rest[j])
  <2> SUFFICES ASSUME NEW i \in 1..Len(rest), NEW j \in 1..Len(rest), i < j
               PROVE  Allocate!Before(opportunities[i + 1], opportunities[j + 1])
    BY <1>3
  <2>1. i + 1 < j + 1
    OBVIOUS
  <2> QED BY <1>3, <2>1 DEF OrdersInv
<1> QED BY <1>2, <1>4, <1>5, <1>6

LEMMA OrdersPassOver ==
  ASSUME OrdersInv, CapsInv', NEW s \in Symbols, Allocate!PassOver(s)
  PROVE  OrdersInv'
<1>1. /\ phase = "buying" /\ opportunities # <<>> /\ opportunities' = Tail(opportunities)
      /\ UNCHANGED <<phase, weights, current, proposal, price, contribution, remaining, orders>>
  BY DEF Allocate!PassOver, Allocate!Considering, Allocate!optimizerVars
<1>2. /\ Below' = Below /\ Spends' = Spends /\ \A order : InTarget(order)' = InTarget(order)
      /\ \A a, b : Allocate!Before(a, b)' = Allocate!Before(a, b)
  BY <1>1 DEF Below, Spends, InTarget, Allocate!Before, Allocate!Gap
<1>3. /\ opportunities' \in Seq(Symbols)
      /\ \A i \in 1..Len(opportunities') : opportunities'[i] \in Below
      /\ \A i, j \in 1..Len(opportunities') :
           i < j => Allocate!Before(opportunities'[i], opportunities'[j])
      /\ \A i \in 1..Len(orders), j \in 1..Len(opportunities') :
           Allocate!Before(orders[i].symbol, opportunities'[j])
  BY <1>1, RestOfOpportunities
<1>4. OrdersType'
  BY <1>1, <1>3 DEF OrdersInv, OrdersType
<1> QED BY <1>1, <1>2, <1>3, <1>4 DEF OrdersInv, Funded

LEMMA OrdersBuy ==
  ASSUME OrdersInv, CapsInv', NEW s \in Symbols, Allocate!Buy(s)
  PROVE  OrdersInv'
<1> DEFINE gross == Allocate!Quantity(s) * Allocate!LimitPrice(price[s])
           spent == gross + Allocate!Cost(gross)
           Order == [symbol : Symbols, quantity : Nat, spent : Nat]
           order == [symbol |-> s, quantity |-> Allocate!Quantity(s), spent |-> spent]
           n == Len(orders)
<1>1. /\ phase = "buying" /\ opportunities # <<>> /\ opportunities' = Tail(opportunities)
      /\ s = Head(opportunities) /\ remaining > 0 /\ Allocate!Quantity(s) > 0
      /\ UNCHANGED <<phase, weights, current, proposal, price, contribution>>
      /\ orders' = Append(orders, order) /\ remaining' = remaining - spent
  BY DEF Allocate!Buy, Allocate!Considering, Allocate!optimizerVars
<1>2. /\ Below' = Below /\ \A o : InTarget(o)' = InTarget(o)
      /\ \A a, b : Allocate!Before(a, b)' = Allocate!Before(a, b)
  BY <1>1 DEF Below, InTarget, Allocate!Before, Allocate!Gap
<1>3. /\ opportunities' \in Seq(Symbols) /\ s \in Below
      /\ \A i \in 1..Len(opportunities') :
           opportunities'[i] \in Below /\ Allocate!Before(s, opportunities'[i])
      /\ \A i, j \in 1..Len(opportunities') :
           i < j => Allocate!Before(opportunities'[i], opportunities'[j])
      /\ \A i \in 1..n : Allocate!Before(orders[i].symbol, s)
      /\ \A i \in 1..n, j \in 1..Len(opportunities') :
           Allocate!Before(orders[i].symbol, opportunities'[j])
  BY <1>1, RestOfOpportunities
<1>4. /\ Allocate!Quantity(s) \in Nat /\ spent \in Nat /\ spent <= remaining
      /\ current[s] * (Existing + contribution) + spent * Whole
           <= weights[s] * (Existing + contribution)
  BY <1>1, <1>3, OrderFits
<1> HIDE DEF spent
<1>5. order \in Order
      /\ order.symbol = s /\ order.spent = spent /\ InTarget(order)
  BY <1>4 DEF InTarget
<1> HIDE DEF order
<1>6. /\ orders \in Seq(Order) /\ n \in Nat
      /\ contribution \in Nat /\ remaining \in Nat
      /\ price \in [Symbols -> Nat] /\ opportunities \in Seq(Symbols)
      /\ SumOver(Spends, 1..n) + remaining = contribution
  BY DEF OrdersInv, OrdersType
<1>7. /\ orders' \in Seq(Order)
      /\ Len(orders') = n + 1 /\ DOMAIN orders = 1..n /\ DOMAIN orders' = 1..(n + 1)
      /\ \A k \in 1..n : orders'[k] = orders[k] /\ orders[k] \in Order
      /\ orders'[n + 1] = order
  <2> HIDE DEF Order
  <2> QED BY <1>1, <1>5, <1>6
<1> HIDE DEF n, Order
<1>8. OrdersType'
  BY <1>1, <1>3, <1>4, <1>6, <1>7 DEF OrdersType, Order
<1>9. SumOver(Spends', 1..(n + 1)) + remaining' = contribution
  <2>1. \A k \in 1..n :
          k \in 1..(n + 1) /\ Spends[k] \in Int /\ Spends'[k] \in Int /\ Spends[k] = Spends'[k]
    BY <1>6, <1>7 DEF Spends, Order
  <2>2. Spends'[n + 1] = spent /\ spent \in Int
    BY <1>4, <1>5, <1>6, <1>7 DEF Spends
  <2>3. SumOver(Spends', 1..(n + 1)) = SumOver(Spends', 1..n) + spent
    <3>1. \A k \in 1..(n + 1) : Spends'[k] \in Int
      <4>1. \A k \in 1..(n + 1) : k \in 1..n \/ k = n + 1
        BY <1>6
      <4> QED BY <2>1, <2>2, <4>1
    <3> QED BY <1>6, <2>2, <3>1, SumUpTo
  <2>4. SumOver(Spends, 1..n) = SumOver(Spends', 1..n) /\ SumOver(Spends, 1..n) \in Int
    <3>1. IsFiniteSet(1..n)
      BY <1>6, FS_Interval
    <3> QED BY <2>1, <3>1, SumOverSame, SumOverInt
  <2> QED BY <1>1, <1>4, <1>6, <2>3, <2>4
<1>10. \A k \in 1..(n + 1) : orders'[k].symbol \in Below /\ InTarget(orders'[k])
  <2>1. \A k \in 1..n : orders[k].symbol \in Below /\ InTarget(orders[k])
    BY DEF OrdersInv, n
  <2>2. \A k \in 1..(n + 1) : k \in 1..n \/ k = n + 1
    BY <1>6
  <2> QED BY <1>3, <1>5, <1>7, <2>1, <2>2
<1>11. \A j, k \in 1..(n + 1) :
         j < k => Allocate!Before(orders'[j].symbol, orders'[k].symbol)
  <2> SUFFICES ASSUME NEW j \in 1..(n + 1), NEW k \in 1..(n + 1), j < k
               PROVE  Allocate!Before(orders'[j].symbol, orders'[k].symbol)
    OBVIOUS
  <2>1. j \in 1..n /\ orders'[j] = orders[j]
    BY <1>6, <1>7
  <2>2. CASE k = n + 1
    BY <1>3, <1>5, <1>7, <2>1, <2>2
  <2>3. CASE k # n + 1
    <3>1. k \in 1..n /\ orders'[k] = orders[k]
      BY <1>6, <1>7, <2>3
    <3> QED BY <2>1, <3>1 DEF OrdersInv, n
  <2> QED BY <2>2, <2>3
<1>12. \A j \in 1..(n + 1), k \in 1..Len(opportunities') :
         Allocate!Before(orders'[j].symbol, opportunities'[k])
  <2> SUFFICES ASSUME NEW j \in 1..(n + 1), NEW k \in 1..Len(opportunities')
               PROVE  Allocate!Before(orders'[j].symbol, opportunities'[k])
    OBVIOUS
  <2>1. CASE j = n + 1
    BY <1>3, <1>5, <1>7, <2>1
  <2>2. CASE j # n + 1
    <3>1. j \in 1..n /\ orders'[j] = orders[j]
      BY <1>6, <1>7, <2>2
    <3> QED BY <1>3, <3>1
  <2> QED BY <2>1, <2>2
<1>13. (proposal.diff.increases = Below)'
  BY <1>1, <1>2 DEF OrdersInv, Funded
<1> QED BY <1>1, <1>2, <1>3, <1>7, <1>8, <1>9, <1>10, <1>11, <1>12, <1>13 DEF OrdersInv

LEMMA OrdersStep == OrdersInv /\ [Next]_vars => OrdersInv'
<1> SUFFICES ASSUME OrdersInv, CapsInv', Allocate!Next \/ UNCHANGED allocationVars
             PROVE  OrdersInv'
  BY ServiceMoves, CapsStep DEF OrdersInv
<1>1. CASE \/ Allocate!Optimize \/ Allocate!CapRound
           \/ Allocate!RoundsExhausted \/ Allocate!FinalClamp
  <2>1. /\ phase \notin {"buying", "done"} /\ phase' \notin {"funding", "buying", "done"}
        /\ UNCHANGED <<price, contribution, remaining, opportunities, orders>>
    BY <1>1 DEF Allocate!Optimize, Allocate!CapRound, Allocate!RoundsExhausted,
         Allocate!FinalClamp, Allocate!orderVars
  <2> QED BY <2>1, OrdersPlanned DEF Funded
<1>2. CASE Allocate!Propose
  <2>1. /\ phase = "proposing" /\ phase' = "funding" /\ UNCHANGED <<weights, current>>
        /\ UNCHANGED <<price, contribution, remaining, opportunities, orders>>
        /\ proposal'.diff = Allocate!BuyOnlyDiff(current, weights)
    BY <1>2 DEF Allocate!Propose, Allocate!orderVars, Allocate!optimizerVars
  <2>2. (proposal.diff.increases = Below)'
    <3>1. proposal'.diff.increases = {s \in Symbols : weights[s] > current[s]}
      BY <2>1 DEF Allocate!BuyOnlyDiff
    <3>2. \A s \in Symbols : Allocate!Gap(s)' > 0 <=> weights[s] > current[s]
      <4>1. \A s \in Symbols : weights[s] \in Nat /\ current[s] \in Nat
        BY AllocationAssumption DEF OrdersInv, CapsInv, Weights
      <4> QED BY <2>1, <4>1 DEF Allocate!Gap
    <3> QED BY <3>1, <3>2 DEF Below
  <2> QED BY <2>1, <2>2, OrdersPlanned
<1>3. CASE Allocate!StartCycle
  BY <1>3, OrdersStart
<1>4. CASE Allocate!ReturnOrders \/ UNCHANGED allocationVars
  <2>1. /\ UNCHANGED <<weights, current, proposal, price, contribution, remaining,
                       opportunities, orders>>
        /\ UNCHANGED phase \/ (phase = "buying" /\ phase' = "done")
    BY <1>4 DEF Allocate!ReturnOrders, Allocate!optimizerVars, Allocate!orderVars,
         allocationVars
  <2>2. /\ Below' = Below /\ Spends' = Spends /\ OrdersType'
        /\ \A order : InTarget(order)' = InTarget(order)
        /\ \A a, b : Allocate!Before(a, b)' = Allocate!Before(a, b)
    BY <2>1 DEF Below, Spends, InTarget, OrdersInv, OrdersType, Allocate!Before, Allocate!Gap
  <2> QED BY <2>1, <2>2 DEF OrdersInv, Funded
<1>5. CASE \E s \in Symbols : Allocate!Buy(s) \/ Allocate!PassOver(s)
  BY <1>5, OrdersBuy, OrdersPassOver
<1> QED BY <1>1, <1>2, <1>3, <1>4, <1>5 DEF Allocate!Next

\* What is spent is what the contribution lost, and a list in order names each ETF once.
LEMMA OrdersAreFit == OrdersInv => Allocate!OrdersFit
<1> SUFFICES ASSUME OrdersInv PROVE Allocate!OrdersFit
  OBVIOUS
<1> DEFINE n == Len(orders)
<1>1. /\ n \in Nat /\ DOMAIN orders = 1..n /\ remaining \in Nat
      /\ \A k \in 1..n : orders[k].spent \in Nat /\ orders[k].symbol \in Symbols
  <2> DEFINE Order == [symbol : Symbols, quantity : Nat, spent : Nat]
  <2>1. orders \in Seq(Order) /\ remaining \in Nat
    BY DEF OrdersInv, OrdersType
  <2>2. \A order \in Order : order.spent \in Nat /\ order.symbol \in Symbols
    OBVIOUS
  <2> HIDE DEF Order
  <2> QED BY <2>1, <2>2
<1>2. SumOver(Spends, 1..n) \in Nat
  <2>1. IsFiniteSet(1..n) /\ \A k \in 1..n : Spends[k] \in Nat
    BY <1>1, FS_Interval DEF Spends
  <2> QED BY <2>1, SumOverNat
<1>3. Allocate!SumOver([k \in DOMAIN orders |-> orders[k].spent], DOMAIN orders) <= contribution
  <2>1. SumOver(Spends, DOMAIN orders) <= contribution
    BY <1>1, <1>2 DEF OrdersInv
  <2> QED BY <2>1, SameSums DEF Spends
<1>4. ASSUME NEW k \in DOMAIN orders
      PROVE  /\ orders[k].symbol \in proposal.diff.increases
             /\ current[orders[k].symbol] * (Existing + contribution) + orders[k].spent * Whole
                  <= weights[orders[k].symbol] * (Existing + contribution)
  <2>1. phase \in {"buying", "done"}
    <3>1. orders # <<>>
      BY <1>1
    <3> QED BY <3>1 DEF OrdersInv
  <2> QED BY <1>1, <2>1 DEF OrdersInv, Funded, InTarget
<1>5. ASSUME NEW j \in DOMAIN orders, NEW k \in DOMAIN orders, j < k
      PROVE  /\ orders[j].symbol # orders[k].symbol
             /\ Allocate!Gap(orders[j].symbol) >= Allocate!Gap(orders[k].symbol)
  <2> DEFINE a == orders[j].symbol
             b == orders[k].symbol
  <2>1. a \in Symbols /\ b \in Symbols /\ Allocate!Before(a, b)
    BY <1>1, <1>5 DEF OrdersInv
  <2> HIDE DEF a, b
  <2>2. a # b /\ Allocate!Gap(a) >= Allocate!Gap(b)
    BY <2>1, BeforeOrders DEF Allocate!Before, OrdersInv
  <2> QED BY <2>2 DEF a, b
<1> QED BY <1>3, <1>4, <1>5 DEF Allocate!OrdersFit

\* The orders of a cycle, costs included, never spend more than the contribution; none
\* buys past its target or what the proposal does not increase; and each ETF is ordered
\* at most once, those furthest below target first.
THEOREM OrdersAlwaysFit == Spec => []OrdersFit
<1>1. Spec => []OrdersInv
  BY OrdersInit, OrdersStep, PTL DEF Spec
<1>2. OrdersInv => OrdersFit
  BY OrdersAreFit DEF OrdersFit
<1> QED BY <1>1, <1>2, PTL

-----------------------------------------------------------------------------
(* The simple engine.  At any prices, today's or others, the money and the *)
(* holdings are worth what was there first and what the trades gained.     *)

StockDeal == [symbol : Stocks, quantity : Nat, price : Nat]
Worth(h, prices) == [s \in Stocks |-> h[s] * prices[s]]
Gains(deals, prices) ==
  [k \in DOMAIN deals |-> deals[k].quantity * (prices[deals[k].symbol] - deals[k].price)]

EngineInv ==
  /\ balance \in Nat /\ held \in [Stocks -> Nat] /\ quotes \in [Stocks -> Nat]
  /\ ledger \in Seq(StockDeal) /\ sales \in Seq(StockDeal)
  /\ \A prices \in [Stocks -> Nat] :
       balance + SumOver(Worth(held, prices), Stocks) - InitialCash
         = SumOf(Gains(ledger, prices)) - SumOf(Gains(sales, prices))

LEMMA EngineSums ==
  /\ \A f, S : Engine!SumOver(f, S) = SumOver(f, S)
  /\ \A q : Engine!SumOf(q) = SumOf(q)
<1>1. \A f, S : Engine!SumOver(f, S) = SumOver(f, S)
  BY DEF Engine!SumOver, Engine!MapThenSumSet, Engine!MapThenFoldSet,
         SumOver, MapThenSumSet, MapThenFoldSet
<1> QED BY <1>1 DEF Engine!SumOf, SumOf

LEMMA GainsNumbers ==
  ASSUME NEW deals \in Seq(StockDeal), NEW prices \in [Stocks -> Nat]
  PROVE  /\ DOMAIN Gains(deals, prices) = 1..Len(deals) /\ Len(deals) \in Nat
         /\ \A k \in 1..Len(deals) : Gains(deals, prices)[k] \in Int
         /\ SumOf(Gains(deals, prices)) \in Int
<1>1. /\ Len(deals) \in Nat /\ DOMAIN deals = 1..Len(deals)
      /\ \A k \in 1..Len(deals) : deals[k] \in StockDeal
  <2> HIDE DEF StockDeal
  <2> QED OBVIOUS
<1>2. \A d \in StockDeal : d.quantity * (prices[d.symbol] - d.price) \in Int
  <2> SUFFICES ASSUME NEW d \in StockDeal PROVE d.quantity * (prices[d.symbol] - d.price) \in Int
    OBVIOUS
  <2>1. d.quantity \in Nat /\ prices[d.symbol] \in Nat /\ d.price \in Nat
    BY DEF StockDeal
  <2>2. prices[d.symbol] - d.price \in Int
    BY <2>1
  <2> QED BY <2>1, <2>2
<1>3. /\ DOMAIN Gains(deals, prices) = 1..Len(deals)
      /\ \A k \in 1..Len(deals) : Gains(deals, prices)[k] \in Int
  BY <1>1, <1>2 DEF Gains
<1>4. SumOf(Gains(deals, prices)) \in Int
  <2> DEFINE v == Gains(deals, prices)
  <2>1. IsFiniteSet(DOMAIN v) /\ \A k \in DOMAIN v : v[k] \in Int
    BY <1>1, <1>3, FS_Interval
  <2> HIDE DEF v
  <2>2. SumOver(v, DOMAIN v) \in Int
    BY <2>1, SumOverInt
  <2> QED BY <2>2 DEF SumOf, v
<1> QED BY <1>1, <1>3, <1>4

\* A trade at the end adds its own gain.
LEMMA GainsGrow ==
  ASSUME NEW deals \in Seq(StockDeal), NEW prices \in [Stocks -> Nat], NEW d \in StockDeal
  PROVE  /\ Append(deals, d) \in Seq(StockDeal)
         /\ SumOf(Gains(Append(deals, d), prices))
              = SumOf(Gains(deals, prices)) + d.quantity * (prices[d.symbol] - d.price)
<1> DEFINE n == Len(deals)
           more == Append(deals, d)
           v == Gains(deals, prices)
           w == Gains(more, prices)
<1>1. /\ more \in Seq(StockDeal) /\ n \in Nat /\ Len(more) = n + 1
      /\ \A k \in 1..n : more[k] = deals[k] /\ more[n + 1] = d
      /\ more[n + 1] = d
  <2> HIDE DEF StockDeal
  <2> QED OBVIOUS
<1>2. DOMAIN v = 1..n /\ \A k \in 1..n : v[k] \in Int
  BY GainsNumbers
<1> HIDE DEF more
<1>3. DOMAIN w = 1..(n + 1) /\ \A k \in 1..(n + 1) : w[k] \in Int
  BY <1>1, GainsNumbers
<1>4. w[n + 1] = d.quantity * (prices[d.symbol] - d.price) /\ w[n + 1] \in Int
  <2>1. n + 1 \in 1..(n + 1) /\ DOMAIN more = 1..(n + 1)
    <3> HIDE DEF StockDeal
    <3> QED BY <1>1
  <2> QED BY <1>1, <1>3, <2>1 DEF Gains
<1>5. \A k \in 1..n : w[k] = v[k]
  <2>1. DOMAIN more = 1..(n + 1) /\ DOMAIN deals = 1..n
    <3> HIDE DEF StockDeal
    <3> QED BY <1>1
  <2> QED BY <1>1, <2>1 DEF Gains
<1> HIDE DEF v, w, n
<1>6. SumOf(w) = SumOf(v) + w[n + 1]
  BY <1>1, <1>2, <1>3, <1>4, <1>5, SumOfGrown
<1> QED BY <1>1, <1>4, <1>6 DEF v, w, more

Adjusted(h, g, s, q) == g[s] = h[s] + q /\ \A t \in Stocks \ {s} : g[t] = h[t]
Revalued(h, g, prices, s, q) ==
  /\ SumOver(Worth(h, prices), Stocks) \in Int
  /\ SumOver(Worth(g, prices), Stocks) = SumOver(Worth(h, prices), Stocks) + q * prices[s]

\* More or fewer units of a symbol are worth their price each.
LEMMA WorthSums ==
  ASSUME NEW h \in [Stocks -> Nat], NEW g \in [Stocks -> Nat], NEW prices \in [Stocks -> Nat],
         NEW s \in Stocks, NEW q \in Int, g[s] = h[s] + q, \A t \in Stocks \ {s} : g[t] = h[t]
  PROVE  Revalued(h, g, prices, s, q)
<1> DEFINE f == Worth(h, prices)
           e == Worth(g, prices)
<1>2. IsFiniteSet(Stocks)
  BY EngineAssumption
<1>3. \A t \in Stocks : f[t] \in Int /\ e[t] \in Int
  <2>1. \A a, b \in Nat : a * b \in Int
    OBVIOUS
  <2> QED BY <2>1 DEF Worth
<1>4. \A t \in Stocks \ {s} : f[t] = e[t]
  BY DEF Worth
<1>5. e[s] = f[s] + q * prices[s]
  <2>1. \A a, b \in Int, c \in Nat : (a + b) * c = a * c + b * c
    OBVIOUS
  <2>2. e[s] = (h[s] + q) * prices[s] /\ f[s] = h[s] * prices[s]
    BY DEF Worth
  <2> QED BY <2>1, <2>2
<1> HIDE DEF f, e
<1>6. SumOver(e, Stocks) = SumOver(f, Stocks) - f[s] + e[s] /\ SumOver(f, Stocks) \in Int
  <2>1. SumOver(f, Stocks) \in Int
    BY <1>2, <1>3, SumOverInt
  <2>2. \A t \in Stocks : f[t] \in Int /\ e[t] \in Int
    BY <1>3
  <2>3. SumOver(e, Stocks) = SumOver(f, Stocks) - f[s] + e[s]
    BY <1>2, <1>4, <2>2, SumOverChange
  <2> QED BY <2>1, <2>3
<1>7. q * prices[s] \in Int
  <2>1. prices[s] \in Int
    OBVIOUS
  <2> QED BY <2>1
<1>8. SumOver(e, Stocks) = SumOver(f, Stocks) + q * prices[s]
  BY <1>3, <1>5, <1>6, <1>7
<1> QED BY <1>6, <1>8 DEF f, e, Revalued

LEMMA WorthChanges ==
  ASSUME NEW h \in [Stocks -> Nat], NEW g \in [Stocks -> Nat], NEW prices \in [Stocks -> Nat],
         NEW s \in Stocks, NEW q \in Int, Adjusted(h, g, s, q)
  PROVE  Revalued(h, g, prices, s, q)
<1>1. g[s] = h[s] + q /\ \A t \in Stocks \ {s} : g[t] = h[t]
  BY DEF Adjusted
<1> QED BY <1>1, WorthSums, Zenon

\* What a purchase of q at the quoted price does to both sides, in numbers.
LEMMA PurchaseReckoned ==
  \A money, worth, start, gain, loss, cost, value \in Int :
    money + worth - start = gain - loss =>
      /\ (money - cost) + (worth + value) - start = (gain + (value - cost)) - loss
      /\ (money + cost) + (worth + (-value)) - start = gain - (loss + (value - cost))
OBVIOUS

LEMMA EngineInit == Init => EngineInv
<1> SUFFICES ASSUME Engine!Init PROVE EngineInv
  BY DEF Init
<1>1. /\ balance = InitialCash /\ held = [s \in Stocks |-> 0] /\ ledger = <<>> /\ sales = <<>>
      /\ quotes = [s \in Stocks |-> CHOOSE p \in StockPrices : \A q \in StockPrices : p <= q]
  BY DEF Engine!Init
<1>2. quotes \in [Stocks -> Nat]
  <2>1. \E p \in StockPrices : \A q \in StockPrices : p <= q
    <3>1. StockPrices \subseteq Nat /\ StockPrices # {}
      BY EngineAssumption
    <3>2. PICK p \in StockPrices : \A q \in StockPrices : ~(<<q, p>> \in OpToRel(<, Nat))
      BY <3>1, WFMin, NatLessThanWellFounded, Zenon
    <3>3. \A q \in StockPrices : ~(q < p)
      BY <3>1, <3>2 DEF OpToRel
    <3> QED BY <3>1, <3>3
  <2>2. (CHOOSE p \in StockPrices : \A q \in StockPrices : p <= q) \in StockPrices
    BY <2>1
  <2> QED BY <1>1, <2>2, EngineAssumption
<1>3. ASSUME NEW prices \in [Stocks -> Nat]
      PROVE  /\ SumOver(Worth(held, prices), Stocks) = 0
             /\ SumOf(Gains(<<>>, prices)) = 0
  <2>1. \A s \in Stocks : Worth(held, prices)[s] = 0
    BY <1>1 DEF Worth
  <2>2. DOMAIN Gains(<<>>, prices) = {}
    BY DEF Gains
  <2> QED BY <2>1, <2>2, SumOverNone, SumOfEmpty, EngineAssumption
<1> QED BY <1>1, <1>2, <1>3, EngineAssumption DEF EngineInv

LEMMA EngineStep == EngineInv /\ [Next]_vars => EngineInv'
<1> SUFFICES ASSUME EngineInv, Engine!Next \/ UNCHANGED engineVars PROVE EngineInv'
  BY ServiceMoves
<1>0. /\ balance \in Nat /\ held \in [Stocks -> Nat] /\ quotes \in [Stocks -> Nat]
      /\ ledger \in Seq(StockDeal) /\ sales \in Seq(StockDeal) /\ InitialCash \in Nat
  BY EngineAssumption DEF EngineInv
<1>1. ASSUME NEW s \in Stocks, NEW q \in StockQuantities, Engine!Buy(s, q)
      PROVE  EngineInv'
  <2> DEFINE d == [symbol |-> s, quantity |-> q, price |-> quotes[s]]
             cost == q * quotes[s]
  <2>1. q \in Nat /\ quotes[s] \in Nat /\ held[s] \in Nat /\ d \in StockDeal /\ cost \in Nat
    BY <1>0, EngineAssumption DEF StockDeal
  <2>2. /\ cost <= balance /\ balance' = balance - cost
        /\ held' = [held EXCEPT ![s] = held[s] + q] /\ ledger' = Append(ledger, d)
        /\ UNCHANGED <<quotes, sales>>
    BY <1>1 DEF Engine!Buy, Engine!Affords, Engine!Deal
  <2>3. held' \in [Stocks -> Nat] /\ ledger' \in Seq(StockDeal) /\ balance' \in Nat
    BY <1>0, <2>1, <2>2, GainsGrow
  <2>4. ASSUME NEW prices \in [Stocks -> Nat]
        PROVE  balance' + SumOver(Worth(held', prices), Stocks) - InitialCash
                 = SumOf(Gains(ledger', prices)) - SumOf(Gains(sales', prices))
    <3> DEFINE worth == SumOver(Worth(held, prices), Stocks)
               gain == SumOf(Gains(ledger, prices))
    <3>1. worth \in Int /\ SumOver(Worth(held', prices), Stocks) = worth + q * prices[s]
      <4>1. held' \in [Stocks -> Nat] /\ q \in Int /\ Adjusted(held, held', s, q)
        BY <1>0, <2>1, <2>2, <2>3 DEF Adjusted
      <4> HIDE DEF d, gain, cost
      <4>2. Revalued(held, held', prices, s, q)
        BY <1>0, <4>1, WorthChanges, Zenon
      <4> QED BY <4>2 DEF Revalued
    <3>2. SumOf(Gains(ledger', prices)) = gain + q * (prices[s] - quotes[s])
      <4>1. d.symbol = s /\ d.quantity = q /\ d.price = quotes[s]
        OBVIOUS
      <4> HIDE DEF d
      <4>2. SumOf(Gains(ledger', prices)) = gain + d.quantity * (prices[d.symbol] - d.price)
        BY <1>0, <2>1, <2>2, GainsGrow
      <4> QED BY <4>1, <4>2
    <3>3. gain \in Int /\ SumOf(Gains(sales, prices)) \in Int
      BY <1>0, GainsNumbers
    <3>4. balance + worth - InitialCash = gain - SumOf(Gains(sales, prices))
      BY DEF EngineInv
    <3>5. q * (prices[s] - quotes[s]) = q * prices[s] - cost /\ q * prices[s] \in Int
      <4>1. prices[s] \in Nat
        OBVIOUS
      <4> QED BY <2>1, <4>1
    <3>6. SumOf(Gains(sales', prices)) = SumOf(Gains(sales, prices))
      BY <2>2
    <3> DEFINE value == q * prices[s]
               loss == SumOf(Gains(sales, prices))
    <3>7. value \in Int /\ cost \in Int /\ balance \in Int /\ InitialCash \in Int
      BY <1>0, <2>1, <3>5
    <3>8. balance' = balance - cost
      BY <2>2
    <3> HIDE DEF worth, gain, cost, value, loss
    <3>9. /\ SumOver(Worth(held', prices), Stocks) = worth + value
          /\ SumOf(Gains(ledger', prices)) = gain + (value - cost)
      BY <3>1, <3>2, <3>5 DEF value
    <3>10. (balance - cost) + (worth + value) - InitialCash = (gain + (value - cost)) - loss
      <4>1. balance + worth - InitialCash = gain - loss /\ loss \in Int
        BY <3>3, <3>4 DEF loss
      <4> QED BY <3>1, <3>3, <3>7, <4>1, PurchaseReckoned
    <3>11. SumOf(Gains(sales', prices)) = loss
      BY <3>6 DEF loss
    <3> QED BY <3>8, <3>9, <3>10, <3>11, Zenon
  <2> QED BY <1>0, <2>2, <2>3, <2>4 DEF EngineInv
<1>2. ASSUME NEW s \in Stocks, NEW q \in StockQuantities, Engine!Sell(s, q)
      PROVE  EngineInv'
  <2> DEFINE d == [symbol |-> s, quantity |-> q, price |-> quotes[s]]
             cost == q * quotes[s]
  <2>1. q \in Nat /\ quotes[s] \in Nat /\ held[s] \in Nat /\ d \in StockDeal /\ cost \in Nat
    BY <1>0, EngineAssumption DEF StockDeal
  <2>2. /\ held[s] >= q /\ balance' = balance + cost
        /\ held' = [held EXCEPT ![s] = held[s] - q] /\ sales' = Append(sales, d)
        /\ UNCHANGED <<quotes, ledger>>
    BY <1>2 DEF Engine!Sell, Engine!Deal
  <2>3. -q \in Int /\ held[s] + (-q) \in Nat /\ held[s] - q = held[s] + (-q)
    BY <2>1, <2>2
  <2>5. held' \in [Stocks -> Nat] /\ sales' \in Seq(StockDeal) /\ balance' \in Nat
    <3>1. held' \in [Stocks -> Nat]
      BY <1>0, <2>2, <2>3
    <3>2. sales' \in Seq(StockDeal)
      BY <1>0, <2>1, <2>2, GainsGrow
    <3> QED BY <1>0, <2>1, <2>2, <3>1, <3>2
  <2>6. ASSUME NEW prices \in [Stocks -> Nat]
        PROVE  balance' + SumOver(Worth(held', prices), Stocks) - InitialCash
                 = SumOf(Gains(ledger', prices)) - SumOf(Gains(sales', prices))
    <3> DEFINE worth == SumOver(Worth(held, prices), Stocks)
               loss == SumOf(Gains(sales, prices))
    <3>1. worth \in Int /\ SumOver(Worth(held', prices), Stocks) = worth + (-q) * prices[s]
      <4>1. held' \in [Stocks -> Nat] /\ Adjusted(held, held', s, -q)
        BY <1>0, <2>2, <2>3, <2>5 DEF Adjusted
      <4> HIDE DEF d, loss, cost
      <4>2. Revalued(held, held', prices, s, -q)
        BY <1>0, <2>3, <4>1, WorthChanges, Zenon
      <4> QED BY <4>2 DEF Revalued
    <3>2. SumOf(Gains(sales', prices)) = loss + q * (prices[s] - quotes[s])
      <4>1. d.symbol = s /\ d.quantity = q /\ d.price = quotes[s]
        OBVIOUS
      <4> HIDE DEF d
      <4>2. SumOf(Gains(sales', prices)) = loss + d.quantity * (prices[d.symbol] - d.price)
        BY <1>0, <2>1, <2>2, GainsGrow
      <4> QED BY <4>1, <4>2
    <3>3. loss \in Int /\ SumOf(Gains(ledger, prices)) \in Int
      BY <1>0, GainsNumbers
    <3>4. balance + worth - InitialCash = SumOf(Gains(ledger, prices)) - loss
      BY DEF EngineInv
    <3>5. /\ q * (prices[s] - quotes[s]) = q * prices[s] - cost /\ q * prices[s] \in Int
          /\ (-q) * prices[s] = -(q * prices[s])
      <4>1. prices[s] \in Nat
        OBVIOUS
      <4> QED BY <2>1, <4>1
    <3>6. SumOf(Gains(ledger', prices)) = SumOf(Gains(ledger, prices))
      BY <2>2
    <3> DEFINE value == q * prices[s]
               gain == SumOf(Gains(ledger, prices))
    <3>7. value \in Int /\ cost \in Int /\ balance \in Int /\ InitialCash \in Int
      BY <1>0, <2>1, <3>5
    <3>8. balance' = balance + cost
      BY <2>2
    <3> HIDE DEF worth, gain, cost, value, loss
    <3>9. /\ SumOver(Worth(held', prices), Stocks) = worth + (-value)
          /\ SumOf(Gains(sales', prices)) = loss + (value - cost)
      BY <3>1, <3>2, <3>5 DEF value
    <3>10. (balance + cost) + (worth + (-value)) - InitialCash = gain - (loss + (value - cost))
      <4>1. balance + worth - InitialCash = gain - loss /\ gain \in Int
        BY <3>3, <3>4 DEF gain
      <4> QED BY <3>1, <3>3, <3>7, <4>1, PurchaseReckoned
    <3>11. SumOf(Gains(ledger', prices)) = gain
      BY <3>6 DEF gain
    <3> QED BY <3>8, <3>9, <3>10, <3>11, Zenon
  <2> QED BY <1>0, <2>2, <2>5, <2>6 DEF EngineInv
<1>3. ASSUME NEW s \in Stocks, NEW p \in StockPrices, Engine!QuoteMoves(s, p)
      PROVE  EngineInv'
  <2>1. p \in Nat /\ quotes' = [quotes EXCEPT ![s] = p]
        /\ UNCHANGED <<balance, held, ledger, sales>>
    BY <1>3, EngineAssumption DEF Engine!QuoteMoves
  <2>2. quotes' \in [Stocks -> Nat]
    BY <1>0, <2>1
  <2> QED BY <2>1, <2>2 DEF EngineInv
<1>4. CASE UNCHANGED engineVars
  BY <1>4 DEF engineVars, EngineInv
<1> QED BY <1>1, <1>2, <1>3, <1>4 DEF Engine!Next

\* The profit of the summary is what the ledger's trades gained since, less what
\* the sales gave up; nothing is overdrawn and nothing held that was not bought.
THEOREM ProfitExplained == Spec => []ProfitIsExplained
<1>1. Spec => []EngineInv
  BY EngineInit, EngineStep, PTL DEF Spec
<1>2. EngineInv => ProfitIsExplained
  <2> SUFFICES ASSUME EngineInv PROVE Engine!ProfitIsExplained
    BY DEF ProfitIsExplained
  <2>1. /\ Engine!Value = SumOver(Worth(held, quotes), Stocks)
        /\ Engine!Gain(ledger) = SumOf(Gains(ledger, quotes))
        /\ Engine!Gain(sales) = SumOf(Gains(sales, quotes))
    BY EngineSums DEF Engine!Value, Engine!Gain, Worth, Gains
  <2>2. Engine!Profit = Engine!Gain(ledger) - Engine!Gain(sales)
    BY <2>1 DEF EngineInv, Engine!Profit
  <2>3. balance >= 0 /\ \A s \in Stocks : held[s] >= 0
    BY DEF EngineInv
  <2> QED BY <2>2, <2>3 DEF Engine!ProfitIsExplained
<1> QED BY <1>1, <1>2, PTL

-----------------------------------------------------------------------------
(* The rate limiter.  What was let through since any moment, with what the *)
(* buckets hold now, is no more than a full bucket and the refills since.  *)

\* schema.py asks a rate above zero, and the bucket of a minute holds a minute's
\* calls: a rate under one call a minute would never fill it enough.
HoldsACall == \A b \in Buckets : CallCost <= Capacity[b]

CallTypes ==
  /\ now \in 0..LastTick
  /\ tokens \in [Buckets -> Nat] /\ \A b \in Buckets : tokens[b] <= Capacity[b]
  /\ lastRefill \in [Buckets -> Nat] /\ \A b \in Buckets : lastRefill[b] <= now
  /\ granted \in [0..LastTick -> Nat]
  /\ \A tick \in 0..LastTick : tick > now => granted[tick] = 0
  /\ thread \in [Threads -> [at : {"idle", "acquiring", "request"}, until : Nat, attempts : Nat]]

\* The thread that sleeps with the lock finds its call when it wakes.
SleeperIsServed ==
  \A t \in Threads : thread[t].at = "acquiring" =>
    /\ \A u \in Threads : thread[u].at = "acquiring" => u = t
    /\ \A b \in Buckets :
         /\ lastRefill[b] <= thread[t].until
         /\ CallCost <= tokens[b] + (thread[t].until - lastRefill[b]) * Rate[b]

Spent(from, to) == CallCost * SumOver(granted, from..to)
Within(b, from, to) == Spent(from, to) <= Capacity[b] + Rate[b] * (to - from)
WithinNow(b, from) ==
  Spent(from, now) + Provider!Refilled(b) <= Capacity[b] + Rate[b] * (now - from)

CallInv ==
  /\ CallTypes /\ SleeperIsServed
  /\ \A b \in Buckets, from \in 0..now : WithinNow(b, from)
  /\ \A b \in Buckets, from \in 0..now : \A to \in from..now : Within(b, from, to)

LEMMA ProviderSums == \A f, S : Provider!SumOver(f, S) = SumOver(f, S)
BY DEF Provider!SumOver, Provider!MapThenSumSet, Provider!MapThenFoldSet,
       SumOver, MapThenSumSet, MapThenFoldSet

LEMMA BucketNumbers ==
  ASSUME CallTypes, NEW b \in Buckets
  PROVE  /\ tokens[b] \in Nat /\ tokens[b] <= Capacity[b]
         /\ lastRefill[b] \in Nat /\ now - lastRefill[b] \in Nat
         /\ Rate[b] \in Nat \ {0} /\ Capacity[b] \in Nat
         /\ now \in Nat /\ CallCost \in Nat \ {0} /\ LastTick \in Nat
<1>1. /\ tokens[b] \in Nat /\ tokens[b] <= Capacity[b]
      /\ lastRefill[b] \in Nat /\ lastRefill[b] <= now /\ now \in 0..LastTick
  BY DEF CallTypes
<1>2. /\ Rate[b] \in Nat \ {0} /\ Capacity[b] \in Nat
      /\ CallCost \in Nat \ {0} /\ LastTick \in Nat
  BY ProviderAssumption
<1> QED BY <1>1, <1>2

\* _refill: between nothing and the capacity, and at least what there was.
LEMMA RefillBounds ==
  ASSUME CallTypes, NEW b \in Buckets
  PROVE  /\ Provider!Refilled(b) \in Nat /\ Provider!Refilled(b) <= Capacity[b]
         /\ (now - lastRefill[b]) * Rate[b] \in Nat
         /\ \/ Provider!Refilled(b) = Capacity[b]
            \/ Provider!Refilled(b) = tokens[b] + (now - lastRefill[b]) * Rate[b]
<1> DEFINE more == (now - lastRefill[b]) * Rate[b]
<1>1. /\ tokens[b] \in Nat /\ tokens[b] <= Capacity[b] /\ Capacity[b] \in Nat
      /\ now - lastRefill[b] \in Nat /\ Rate[b] \in Nat
  BY BucketNumbers
<1>2. more \in Nat
  <2>1. \A x, y \in Nat : x * y \in Nat
    OBVIOUS
  <2> QED BY <1>1, <2>1
<1>3. Provider!Refilled(b) = IF Capacity[b] < tokens[b] + more
                               THEN Capacity[b] ELSE tokens[b] + more
  BY DEF Provider!Refilled, Provider!Least
<1> HIDE DEF more
<1>4. /\ Provider!Refilled(b) \in Nat /\ Provider!Refilled(b) <= Capacity[b]
      /\ \/ Provider!Refilled(b) = Capacity[b]
         \/ Provider!Refilled(b) = tokens[b] + more
  BY <1>1, <1>2, <1>3
<1> QED BY <1>2, <1>4 DEF more

\* time_until_available, rounded up: long enough for what is missing.
LEMMA RoundedUp ==
  ASSUME NEW d \in Nat, NEW r \in Nat \ {0}
  PROVE  /\ (d + r - 1) \div r \in 0..d
         /\ d <= ((d + r - 1) \div r) * r
<1> DEFINE n == d + r - 1
           w == n \div r
<1>1. n \in Nat
  OBVIOUS
<1>2. \A x \in Nat : x \div r \in Nat /\ (x \div r) * r <= x /\ x < (x \div r) * r + r
  OBVIOUS
<1>3. w \in Nat /\ w * r <= n /\ n < w * r + r
  BY <1>1, <1>2
<1>4. w * r \in Nat
  BY <1>3
<1> HIDE DEF w
<1>5. d <= w * r
  BY <1>3, <1>4
<1>6. w <= d
  <2> SUFFICES ASSUME w > d PROVE FALSE
    BY <1>3
  <2>1. PICK k \in Nat : w = d + 1 + k
    <3>1. w - d - 1 \in Nat /\ w = d + 1 + (w - d - 1)
      BY <1>3
    <3> QED BY <3>1
  <2>2. PICK j \in Nat : r = 1 + j
    <3>1. r - 1 \in Nat /\ r = 1 + (r - 1)
      OBVIOUS
    <3> QED BY <3>1
  <2>3. (d + 1 + k) * (1 + j) = d + 1 + k + d * j + j + k * j
        /\ d * j \in Nat /\ k * j \in Nat
    OBVIOUS
  <2> QED BY <1>3, <1>4, <2>1, <2>2, <2>3
<1> QED BY <1>3, <1>5, <1>6 DEF w

\* The wait is the longer of the two, and enough for each bucket.
LEMMA WaitServes ==
  ASSUME CallTypes, NEW b \in Buckets
  PROVE  /\ Provider!Wait \in Nat
         /\ Provider!Deficit(b) \in Nat
         /\ Provider!Refilled(b) + Provider!Deficit(b) >= CallCost
         /\ Provider!Deficit(b) <= Provider!Wait * Rate[b]
<1> DEFINE waits == {Provider!TimeUntilAvailable(x) : x \in Buckets}
<1>1. ASSUME NEW x \in Buckets
      PROVE  /\ Provider!Deficit(x) \in 0..CallCost
             /\ Provider!Refilled(x) + Provider!Deficit(x) >= CallCost
             /\ Provider!TimeUntilAvailable(x) \in 0..CallCost
             /\ Provider!Deficit(x) <= Provider!TimeUntilAvailable(x) * Rate[x]
  <2>1. Provider!Refilled(x) \in Nat /\ CallCost \in Nat /\ Rate[x] \in Nat \ {0}
    BY BucketNumbers, RefillBounds
  <2>2. /\ Provider!Deficit(x) \in 0..CallCost
        /\ Provider!Refilled(x) + Provider!Deficit(x) >= CallCost
    BY <2>1 DEF Provider!Deficit
  <2>3. /\ Provider!TimeUntilAvailable(x) \in 0..Provider!Deficit(x)
        /\ Provider!Deficit(x) <= Provider!TimeUntilAvailable(x) * Rate[x]
    <3>1. Provider!Deficit(x) \in Nat
      BY <2>1, <2>2
    <3> QED BY <2>1, <3>1, RoundedUp DEF Provider!TimeUntilAvailable
  <2> QED BY <2>1, <2>2, <2>3
<1>2. /\ waits \subseteq 0..CallCost /\ waits # {} /\ CallCost \in Nat
  BY <1>1, ProviderAssumption
<1>3. \E w \in waits : \A x \in Buckets : Provider!TimeUntilAvailable(x) <= w
  <2>1. Max(waits) \in waits /\ \A y \in waits : Max(waits) >= y
    <3> HIDE DEF waits
    <3> QED BY <1>2, LargestOf
  <2>2. \A y \in waits : y <= Max(waits)
    <3>1. \A y \in waits : y \in Int
      BY <1>2
    <3> HIDE DEF waits
    <3> QED BY <2>1, <3>1
  <2> QED BY <2>1, <2>2
<1>4. /\ Provider!Wait \in waits
      /\ \A x \in Buckets : Provider!TimeUntilAvailable(x) <= Provider!Wait
  BY <1>3 DEF Provider!Wait
<1>5. Provider!Wait \in Nat
  BY <1>2, <1>4
<1>6. Provider!Deficit(b) <= Provider!Wait * Rate[b]
  <2>1. \A d, u, w, r \in Nat : d <= u * r /\ u <= w => d <= w * r
    <3> SUFFICES ASSUME NEW u \in Nat, NEW w \in Nat, NEW r \in Nat, u <= w
                 PROVE  u * r <= w * r
      <4>1. \A x, y \in Nat : x * y \in Nat
        OBVIOUS
      <4> QED BY <4>1
    <3>1. PICK k \in Nat : w = u + k
      <4>1. w - u \in Nat /\ w = u + (w - u)
        OBVIOUS
      <4> QED BY <4>1
    <3>2. (u + k) * r = u * r + k * r /\ k * r \in Nat /\ u * r \in Nat
      OBVIOUS
    <3> QED BY <3>1, <3>2
  <2>2. /\ Provider!Deficit(b) \in Nat /\ Provider!TimeUntilAvailable(b) \in Nat
        /\ Rate[b] \in Nat
    BY <1>1, <1>2, BucketNumbers
  <2> QED BY <1>1, <1>4, <1>5, <2>1, <2>2
<1> QED BY <1>1, <1>2, <1>5, <1>6

\* The calls of a stretch of time.
LEMMA CallsCounted ==
  ASSUME CallTypes, NEW from \in Nat, NEW to \in 0..LastTick
  PROVE  /\ IsFiniteSet(from..to) /\ \A tick \in from..to : granted[tick] \in Nat
         /\ SumOver(granted, from..to) \in Nat /\ Spent(from, to) \in Nat
<1>1. IsFiniteSet(from..to) /\ \A tick \in from..to : granted[tick] \in Nat
  <2>1. IsFiniteSet(from..to)
    BY FS_Interval
  <2>2. \A tick \in from..to : tick \in 0..LastTick
    BY ProviderAssumption
  <2> QED BY <2>1, <2>2 DEF CallTypes
<1>2. SumOver(granted, from..to) \in Nat
  BY <1>1, SumOverNat
<1>3. \A x, y \in Nat : x * y \in Nat
  OBVIOUS
<1> QED BY <1>1, <1>2, <1>3, ProviderAssumption DEF Spent

\* Stretches without a new call cost what they did.
LEMMA SpentAsBefore ==
  ASSUME CallTypes, NEW from \in Nat, NEW to \in 0..LastTick,
         \A tick \in from..to : granted'[tick] = granted[tick]
  PROVE  Spent(from, to)' = Spent(from, to)
<1>1. IsFiniteSet(from..to) /\ \A tick \in from..to : granted[tick] \in Nat
  BY CallsCounted
<1>2. \A tick \in from..to : granted[tick] \in Int /\ granted[tick] = granted'[tick]
  BY <1>1
<1>3. SumOver(granted, from..to) = SumOver(granted', from..to)
  BY <1>1, <1>2, SumOverSame
<1> QED BY <1>3 DEF Spent

LEMMA OneMore ==
  ASSUME NEW S, IsFiniteSet(S), NEW f, NEW e, NEW x \in S, e[x] = f[x] + 1,
         \A y \in S : f[y] \in Int /\ e[y] \in Int,
         \A y \in S \ {x} : f[y] = e[y]
  PROVE  SumOver(e, S) = SumOver(f, S) + 1
<1>1. SumOver(e, S) = SumOver(f, S) - f[x] + e[x]
  BY SumOverChange
<1>2. SumOver(f, S) \in Int /\ f[x] \in Int
  BY SumOverInt
<1> QED BY <1>1, <1>2

\* One more call now costs one more call.
LEMMA SpentNow ==
  ASSUME CallTypes, NEW from \in 0..now, granted' = [granted EXCEPT ![now] = granted[now] + 1]
  PROVE  SumOver(granted', from..now) = SumOver(granted, from..now) + 1
<1>1. from \in Nat /\ now \in 0..LastTick /\ now \in from..now
  BY DEF CallTypes
<1>2. IsFiniteSet(from..now) /\ SumOver(granted, from..now) \in Nat
      /\ \A tick \in from..now : granted[tick] \in Nat
  BY <1>1, CallsCounted
<1>3. \A tick \in from..now : tick \in DOMAIN granted
  <2>1. \A tick \in from..now : tick \in 0..LastTick
    BY <1>1, ProviderAssumption
  <2> QED BY <2>1 DEF CallTypes
<1>4. /\ granted'[now] = granted[now] + 1
      /\ \A tick \in (from..now) \ {now} : granted[tick] = granted'[tick]
      /\ \A tick \in from..now : granted[tick] \in Int /\ granted'[tick] \in Int
  BY <1>1, <1>2, <1>3
<1> DEFINE calls == granted'
           stretch == from..now
<1>5. /\ IsFiniteSet(stretch) /\ now \in stretch
      /\ \A tick \in stretch \ {now} : granted[tick] = calls[tick]
      /\ \A tick \in stretch : granted[tick] \in Int /\ calls[tick] \in Int
  BY <1>1, <1>2, <1>4
<1> HIDE DEF calls, stretch
<1>6. calls[now] = granted[now] + 1
  BY <1>4 DEF calls
<1>7. SumOver(calls, stretch) = SumOver(granted, stretch) + 1
  BY <1>5, <1>6, OneMore, Zenon
<1> QED BY <1>7 DEF calls, stretch

LEMMA CallsInit ==
  ASSUME HoldsACall, Init
  PROVE  CallInv
<1>0. Provider!Init
  BY DEF Init
<1>1. /\ now = 0 /\ tokens = Capacity /\ lastRefill = [b \in Buckets |-> 0]
      /\ granted = [tick \in 0..LastTick |-> 0]
      /\ thread = [t \in Threads |-> [at |-> "idle", until |-> 0, attempts |-> 0]]
  BY <1>0 DEF Provider!Init, Provider!Idle
<1>2. CallTypes
  BY <1>1, ProviderAssumption DEF CallTypes
<1>3. SleeperIsServed
  BY <1>1 DEF SleeperIsServed
<1>4. ASSUME NEW b \in Buckets, NEW from \in 0..now
      PROVE  WithinNow(b, from) /\ \A to \in from..now : Within(b, from, to)
  <2>1. from = 0 /\ from \in Nat /\ from..now = {0} /\ now \in 0..LastTick
    BY <1>1, ProviderAssumption
  <2>2. SumOver(granted, 0..0) = 0
    <3>1. \A tick \in 0..0 : granted[tick] = 0
      BY <1>1, ProviderAssumption
    <3>2. IsFiniteSet({0})
      BY FS_Singleton, Zenon
    <3>3. 0..0 = {0}
      OBVIOUS
    <3> QED BY <3>1, <3>2, <3>3, SumOverNone
  <2>3. Spent(0, 0) = 0 /\ Rate[b] * (0 - 0) = 0 /\ Capacity[b] \in Nat
    <3>1. CallCost * 0 = 0
      BY ProviderAssumption
    <3>2. Rate[b] \in Nat /\ Rate[b] * 0 = 0
      BY ProviderAssumption
    <3> QED BY <2>2, <3>1, <3>2, ProviderAssumption DEF Spent
  <2>4. Provider!Refilled(b) \in Nat /\ Provider!Refilled(b) <= Capacity[b]
    BY <1>2, RefillBounds
  <2>5. WithinNow(b, from)
    BY <1>1, <2>1, <2>3, <2>4 DEF WithinNow
  <2>6. Within(b, 0, 0)
    BY <2>3 DEF Within
  <2> QED BY <2>1, <2>5, <2>6
<1> QED BY <1>2, <1>3, <1>4 DEF CallInv

\* The numbers of a call let through, on a bucket that has one.
LEMMA CallReckoned ==
  \A cost, sum, level, cap, refills \in Nat :
    cost * sum + level <= cap + refills =>
      cost * (sum + 1) + (level - cost) <= cap + refills
<1> SUFFICES ASSUME NEW cost \in Nat, NEW sum \in Nat, NEW level \in Nat, NEW cap \in Nat,
                    NEW refills \in Nat, cost * sum + level <= cap + refills
             PROVE  cost * (sum + 1) + (level - cost) <= cap + refills
  OBVIOUS
<1>1. cost * (sum + 1) = cost * sum + cost /\ cost * sum \in Nat
  OBVIOUS
<1> QED BY <1>1

\* A call let through, with a call's tokens in every bucket and nobody asleep
\* with the lock but the caller.
LEMMA LetThroughKeeps ==
  ASSUME CallInv, NEW t \in Threads,
         \A b \in Buckets : CallCost <= Provider!Refilled(b),
         \A u \in Threads : thread[u].at = "acquiring" => u = t,
         Provider!Consume, Provider!LetThrough(t), UNCHANGED now
  PROVE  CallInv'
<1>0. CallTypes /\ now' = now /\ now \in 0..LastTick /\ now \in Nat
  BY DEF CallInv, CallTypes
<1>1. /\ tokens' = [b \in Buckets |-> Provider!Refilled(b) - CallCost]
      /\ lastRefill' = [b \in Buckets |-> now]
      /\ thread' = [thread EXCEPT ![t] = [at |-> "request", until |-> now, attempts |-> 0]]
      /\ granted' = [granted EXCEPT ![now] = granted[now] + 1]
  BY DEF Provider!Consume, Provider!LetThrough
<1>2. ASSUME NEW b \in Buckets
      PROVE  /\ Provider!Refilled(b) \in Nat /\ Provider!Refilled(b) <= Capacity[b]
             /\ Capacity[b] \in Nat /\ CallCost \in Nat /\ Rate[b] \in Nat
             /\ CallCost <= Provider!Refilled(b)
  BY <1>0, BucketNumbers, RefillBounds
<1>3. CallTypes'
  <2>1. tokens' \in [Buckets -> Nat] /\ \A b \in Buckets : tokens'[b] <= Capacity[b]
    BY <1>1, <1>2
  <2>2. lastRefill' \in [Buckets -> Nat] /\ \A b \in Buckets : lastRefill'[b] <= now'
    BY <1>0, <1>1
  <2>3. /\ granted' \in [0..LastTick -> Nat]
        /\ \A tick \in 0..LastTick : tick > now' => granted'[tick] = 0
    BY <1>0, <1>1 DEF CallTypes
  <2>4. thread' \in [Threads -> [at : {"idle", "acquiring", "request"}, until : Nat, attempts : Nat]]
    BY <1>0, <1>1 DEF CallTypes
  <2> QED BY <1>0, <2>1, <2>2, <2>3, <2>4 DEF CallTypes
<1>4. SleeperIsServed'
  <2>1. \A u \in Threads : thread'[u].at # "acquiring"
    BY <1>0, <1>1 DEF CallTypes
  <2> QED BY <2>1 DEF SleeperIsServed
<1>5. ASSUME NEW b \in Buckets, NEW from \in 0..now
      PROVE  WithinNow(b, from)' /\ Within(b, from, now)'
  <2> DEFINE sum == SumOver(granted, from..now)
             level == Provider!Refilled(b)
             refills == Rate[b] * (now - from)
  <2>1. SumOver(granted', from..now) = sum + 1 /\ sum \in Nat /\ from \in Nat
    <3>1. from \in Nat
      BY <1>0
    <3>2. SumOver(granted', from..now) = SumOver(granted, from..now) + 1
      BY <1>0, <1>1, SpentNow
    <3>3. SumOver(granted, from..now) \in Nat
      BY <1>0, <3>1, CallsCounted
    <3> QED BY <3>1, <3>2, <3>3
  <2>2. refills \in Nat
    <3>1. now - from \in Nat /\ \A x, y \in Nat : x * y \in Nat
      BY <1>0
    <3> QED BY <1>2, <3>1
  <2>3. Provider!Refilled(b)' = level - CallCost
    <3>1. (now - now) * Rate[b] = 0
      BY <1>0, <1>2
    <3>2. tokens'[b] = level - CallCost /\ lastRefill'[b] = now
      BY <1>1
    <3>3. level - CallCost \in Nat /\ level - CallCost <= Capacity[b]
      BY <1>2
    <3> HIDE DEF level
    <3> QED BY <1>0, <1>2, <3>1, <3>2, <3>3 DEF Provider!Refilled, Provider!Least
  <2>4. CallCost * sum + level <= Capacity[b] + refills
    BY DEF CallInv, WithinNow, Spent
  <2> HIDE DEF sum, level, refills
  <2>5. CallCost * (sum + 1) + (level - CallCost) <= Capacity[b] + refills
    <3>1. level \in Nat
      BY <1>2 DEF level
    <3> QED BY <1>2, <2>1, <2>2, <2>4, <3>1, CallReckoned
  <2>6. Spent(from, now)' = CallCost * (sum + 1)
    BY <1>0, <2>1 DEF Spent
  <2>7. level - CallCost >= 0 /\ CallCost * (sum + 1) \in Nat /\ level - CallCost \in Nat
    <3>1. \A x, y \in Nat : x * y \in Nat
      OBVIOUS
    <3> QED BY <1>2, <2>1, <3>1 DEF level
  <2>8. CallCost * (sum + 1) <= Capacity[b] + refills
    BY <1>2, <2>2, <2>5, <2>7
  <2> QED BY <1>0, <2>3, <2>5, <2>6, <2>8 DEF WithinNow, Within, refills
<1>6. ASSUME NEW b \in Buckets, NEW from \in 0..now, NEW to \in from..now
      PROVE  Within(b, from, to)'
  <2>1. CASE to = now
    BY <1>0, <1>5, <2>1
  <2>2. CASE to # now
    <3>1. from \in Nat /\ to \in 0..LastTick /\ \A tick \in from..to : granted'[tick] = granted[tick]
      BY <1>0, <1>1, <2>2, ProviderAssumption DEF CallTypes
    <3>2. Spent(from, to)' = Spent(from, to)
      BY <1>0, <3>1, SpentAsBefore
    <3>3. Within(b, from, to)
      BY DEF CallInv
    <3> QED BY <3>2, <3>3 DEF Within
  <2> QED BY <2>1, <2>2
<1> QED BY <1>0, <1>3, <1>4, <1>5, <1>6 DEF CallInv

\* A thread goes to sleep with the lock: the refill is written down.
LEMMA SleepKeeps ==
  ASSUME CallInv, HoldsACall, NEW t \in Threads, Provider!AcquireSleeping(t)
  PROVE  CallInv'
<1>0. CallTypes /\ now' = now /\ granted' = granted /\ now \in 0..LastTick /\ now \in Nat
  BY DEF CallInv, CallTypes, Provider!AcquireSleeping
<1> DEFINE wait == Provider!Wait
<1>1. /\ tokens' = [b \in Buckets |-> Provider!Refilled(b)]
      /\ lastRefill' = [b \in Buckets |-> now]
      /\ thread' = [thread EXCEPT ![t].at = "acquiring", ![t].until = now + wait]
      /\ \A u \in Threads : thread[u].at # "acquiring"
  BY DEF Provider!AcquireSleeping, Provider!Refill, Provider!LockFree
<1>2. ASSUME NEW b \in Buckets
      PROVE  /\ Provider!Refilled(b) \in Nat /\ Provider!Refilled(b) <= Capacity[b]
             /\ Capacity[b] \in Nat /\ CallCost \in Nat /\ Rate[b] \in Nat
             /\ wait \in Nat /\ CallCost <= Provider!Refilled(b) + wait * Rate[b]
             /\ wait * Rate[b] \in Nat
  <2>1. /\ Provider!Refilled(b) \in Nat /\ Provider!Refilled(b) <= Capacity[b]
        /\ Capacity[b] \in Nat /\ CallCost \in Nat /\ Rate[b] \in Nat
    BY <1>0, BucketNumbers, RefillBounds
  <2>2. /\ wait \in Nat /\ Provider!Deficit(b) \in Nat
        /\ Provider!Refilled(b) + Provider!Deficit(b) >= CallCost
        /\ Provider!Deficit(b) <= wait * Rate[b]
    BY <1>0, WaitServes
  <2>3. wait * Rate[b] \in Nat
    <3>1. \A x, y \in Nat : x * y \in Nat
      OBVIOUS
    <3> HIDE DEF wait
    <3> QED BY <2>1, <2>2, <3>1
  <2> HIDE DEF wait
  <2> QED BY <2>1, <2>2, <2>3
<1>3. CallTypes' /\ \A u \in Threads : thread'[u].at = "acquiring" => u = t
  <2>1. tokens' \in [Buckets -> Nat] /\ \A b \in Buckets : tokens'[b] <= Capacity[b]
    BY <1>1, <1>2
  <2>2. lastRefill' \in [Buckets -> Nat] /\ \A b \in Buckets : lastRefill'[b] <= now'
    BY <1>0, <1>1
  <2>3. /\ granted' \in [0..LastTick -> Nat]
        /\ \A tick \in 0..LastTick : tick > now' => granted'[tick] = 0
    BY <1>0 DEF CallTypes
  <2>4. now + wait \in Nat
    <3>1. \E b \in Buckets : TRUE
      BY ProviderAssumption
    <3> HIDE DEF wait
    <3> QED BY <1>0, <1>2, <3>1
  <2>5. thread' \in [Threads -> [at : {"idle", "acquiring", "request"}, until : Nat, attempts : Nat]]
    <3> HIDE DEF wait
    <3> QED BY <1>0, <1>1, <2>4 DEF CallTypes
  <2>6. \A u \in Threads : thread'[u].at = "acquiring" => u = t
    <3> HIDE DEF wait
    <3> QED BY <1>0, <1>1 DEF CallTypes
  <2> QED BY <1>0, <2>1, <2>2, <2>3, <2>5, <2>6 DEF CallTypes
<1>4. SleeperIsServed'
  <2>1. thread'[t].until = now + wait
    <3> HIDE DEF wait
    <3> QED BY <1>0, <1>1 DEF CallTypes
  <2>2. ASSUME NEW b \in Buckets
        PROVE  /\ lastRefill'[b] <= now + wait
               /\ CallCost <= tokens'[b] + ((now + wait) - lastRefill'[b]) * Rate[b]
    <3>1. tokens'[b] = Provider!Refilled(b) /\ lastRefill'[b] = now
      BY <1>1
    <3>2. wait \in Nat /\ CallCost <= Provider!Refilled(b) + wait * Rate[b]
      BY <1>2
    <3> HIDE DEF wait
    <3>3. (now + wait) - now = wait
      BY <1>0, <3>2
    <3> QED BY <1>0, <3>1, <3>2, <3>3
  <2> HIDE DEF wait
  <2> QED BY <1>3, <2>1, <2>2 DEF SleeperIsServed
<1>5. ASSUME NEW b \in Buckets
      PROVE  Provider!Refilled(b)' = Provider!Refilled(b)
  <2> DEFINE level == Provider!Refilled(b)
  <2>1. (now - now) * Rate[b] = 0
    BY <1>0, <1>2
  <2>2. tokens'[b] = level /\ lastRefill'[b] = now /\ level \in Nat /\ level <= Capacity[b]
    BY <1>1, <1>2
  <2> HIDE DEF level
  <2>3. Provider!Refilled(b)' = level
    BY <1>0, <1>2, <2>1, <2>2 DEF Provider!Refilled, Provider!Least
  <2> QED BY <2>3 DEF level
<1>6. ASSUME NEW b \in Buckets, NEW from \in 0..now
      PROVE  WithinNow(b, from)' /\ \A to \in from..now : Within(b, from, to)'
  BY <1>0, <1>5 DEF CallInv, WithinNow, Within, Spent
<1> QED BY <1>0, <1>3, <1>4, <1>6 DEF CallInv

\* A tick: each bucket has at most its rate more to give.
LEMMA TickKeeps ==
  ASSUME CallInv, Provider!Tick
  PROVE  CallInv'
<1>0. /\ CallTypes /\ now' = now + 1 /\ now < LastTick /\ now \in 0..LastTick /\ now \in Nat
      /\ LastTick \in Nat /\ UNCHANGED <<tokens, lastRefill, thread, granted>>
  BY ProviderAssumption DEF CallInv, CallTypes, Provider!Tick
<1>1. CallTypes'
  BY <1>0 DEF CallTypes
<1>2. SleeperIsServed'
  BY <1>0 DEF CallInv, SleeperIsServed
<1>3. ASSUME NEW b \in Buckets
      PROVE  /\ Provider!Refilled(b) \in Nat /\ Provider!Refilled(b)' \in Nat
             /\ Provider!Refilled(b)' <= Capacity[b] /\ Capacity[b] \in Nat /\ Rate[b] \in Nat
             /\ Provider!Refilled(b)' <= Provider!Refilled(b) + Rate[b]
  <2> DEFINE more == (now - lastRefill[b]) * Rate[b]
             rate == Rate[b]
             cap == Capacity[b]
             kept == tokens[b]
  <2>1. /\ kept \in Nat /\ kept <= cap /\ cap \in Nat /\ rate \in Nat
        /\ lastRefill[b] \in Nat /\ now - lastRefill[b] \in Nat /\ more \in Nat
    BY <1>0, BucketNumbers, RefillBounds
  <2>2. ((now + 1) - lastRefill[b]) * Rate[b] = more + rate
    <3>1. \A x, y, r \in Int : ((x + 1) - y) * r = (x - y) * r + r
      OBVIOUS
    <3> QED BY <1>0, <2>1, <3>1
  <2>3. Provider!Refilled(b) = IF cap < kept + more THEN cap ELSE kept + more
    BY DEF Provider!Refilled, Provider!Least
  <2>4. Provider!Refilled(b)' = IF cap < kept + (more + rate) THEN cap ELSE kept + (more + rate)
    <3> DEFINE since == (now' - lastRefill'[b]) * Rate[b]
    <3>1. Provider!Refilled(b)'
            = IF cap < tokens'[b] + since THEN cap ELSE tokens'[b] + since
      BY DEF Provider!Refilled, Provider!Least
    <3>2. since = more + rate /\ tokens'[b] = kept
      <4>1. now' = now + 1 /\ tokens' = tokens /\ lastRefill' = lastRefill
        BY <1>0
      <4>2. since = ((now + 1) - lastRefill[b]) * Rate[b]
        BY <4>1
      <4>3. tokens'[b] = kept
        BY <4>1
      <4> HIDE DEF since, more
      <4> QED BY <2>2, <4>2, <4>3
    <3> HIDE DEF since, more, rate, cap, kept
    <3> QED BY <3>1, <3>2
  <2> HIDE DEF more, rate, cap, kept
  <2>5. /\ Provider!Refilled(b) \in Nat /\ Provider!Refilled(b)' \in Nat
        /\ Provider!Refilled(b)' <= cap
        /\ Provider!Refilled(b)' <= Provider!Refilled(b) + rate
    BY <2>1, <2>3, <2>4
  <2> QED BY <2>1, <2>5 DEF rate, cap
<1>4. ASSUME NEW from \in 0..now
      PROVE  CallCost * SumOver(granted, from..(now + 1)) = Spent(from, now)
  <2>1. /\ from \in Nat /\ now + 1 \in 0..LastTick /\ granted[now + 1] = 0
        /\ now + 1 \notin from..now /\ from..(now + 1) = (from..now) \cup {now + 1}
    BY <1>0 DEF CallTypes
  <2>2. /\ IsFiniteSet(from..now) /\ \A tick \in from..now : granted[tick] \in Nat
        /\ SumOver(granted, from..now) \in Nat
    BY <1>0, <2>1, CallsCounted
  <2> DEFINE stretch == from..now
             next == now + 1
  <2>3. /\ next \notin stretch /\ IsFiniteSet(stretch) /\ SumOver(granted, stretch) \in Nat
        /\ \A tick \in stretch \cup {next} : granted[tick] \in Int
        /\ granted[next] = 0
    BY <2>1, <2>2
  <2> HIDE DEF stretch, next
  <2>4. SumOver(granted, stretch \cup {next}) = granted[next] + SumOver(granted, stretch)
    BY <2>3, SumOverAdd
  <2>5. SumOver(granted, stretch \cup {next}) = SumOver(granted, stretch)
    BY <2>3, <2>4
  <2> QED BY <2>1, <2>5 DEF Spent, stretch, next
<1>5. CallCost * SumOver(granted, (now + 1)..(now + 1)) = 0
  <2>1. granted[now + 1] = 0 /\ (now + 1)..(now + 1) = {now + 1}
    BY <1>0 DEF CallTypes
  <2>2. IsFiniteSet({now + 1})
    BY FS_Singleton, Zenon
  <2>3. SumOver(granted, {now + 1}) = 0
    BY <2>1, <2>2, SumOverNone
  <2>4. CallCost * 0 = 0
    BY ProviderAssumption
  <2> QED BY <2>1, <2>3, <2>4
<1>6. ASSUME NEW b \in Buckets, NEW from \in 0..now'
      PROVE  WithinNow(b, from)' /\ Within(b, from, now)'
  <2>1. CASE from \in 0..now
    <3> DEFINE spent == Spent(from, now)
               level == Provider!Refilled(b)
               later == Provider!Refilled(b)'
    <3>1. spent + level <= Capacity[b] + Rate[b] * (now - from)
      BY <2>1 DEF CallInv, WithinNow
    <3>2. Rate[b] * ((now + 1) - from) = Rate[b] * (now - from) + Rate[b]
          /\ Rate[b] * (now - from) \in Nat
      <4>1. now - from \in Nat /\ from \in Int
        BY <1>0, <2>1
      <4>2. \A x, y, r \in Int : r * ((x + 1) - y) = r * (x - y) + r
        OBVIOUS
      <4>3. \A x, y \in Nat : x * y \in Nat
        OBVIOUS
      <4> QED BY <1>0, <1>3, <4>1, <4>2, <4>3
    <3>3. spent \in Nat
      <4>1. from \in Nat
        BY <1>0, <2>1
      <4> QED BY <1>0, <4>1, CallsCounted
    <3>4. /\ level \in Nat /\ later \in Nat /\ later <= level + Rate[b]
          /\ Rate[b] \in Nat /\ Capacity[b] \in Nat
      BY <1>3
    <3>5. Spent(from, now)' = spent
      BY <1>0, <1>4, <2>1 DEF Spent
    <3>6. /\ spent + later <= Capacity[b] + Rate[b] * ((now + 1) - from)
          /\ spent <= Capacity[b] + Rate[b] * ((now + 1) - from)
      <4> HIDE DEF spent, level, later
      <4> DEFINE refills == Rate[b] * (now - from)
                 after == Rate[b] * ((now + 1) - from)
      <4>1. after = refills + Rate[b] /\ refills \in Nat /\ spent + level <= Capacity[b] + refills
        BY <3>1, <3>2
      <4> HIDE DEF refills, after
      <4>2. spent + later <= Capacity[b] + after /\ spent <= Capacity[b] + after
        BY <3>3, <3>4, <4>1
      <4> QED BY <4>2 DEF after
    <3> QED BY <1>0, <3>5, <3>6 DEF WithinNow, Within
  <2>2. CASE from = now + 1
    <3>1. Rate[b] * ((now + 1) - (now + 1)) = 0
      BY <1>0, <1>3
    <3>2. Spent(from, now)' = 0
      BY <1>0, <1>5, <2>2 DEF Spent
    <3> QED BY <1>0, <1>3, <2>2, <3>1, <3>2 DEF WithinNow, Within
  <2> QED BY <1>0, <2>1, <2>2
<1>7. ASSUME NEW b \in Buckets, NEW from \in 0..now', NEW to \in from..now'
      PROVE  Within(b, from, to)'
  <2>1. CASE to = now + 1
    BY <1>0, <1>6, <2>1 DEF Within, Spent
  <2>2. CASE to # now + 1
    <3>1. from \in 0..now /\ to \in from..now
      BY <1>0, <2>2
    <3>2. Within(b, from, to)
      BY <3>1 DEF CallInv
    <3> QED BY <1>0, <3>2 DEF Within, Spent
  <2> QED BY <2>1, <2>2
<1> QED BY <1>1, <1>2, <1>6, <1>7 DEF CallInv

\* A sleeper wakes to a call's tokens in every bucket: nobody else could have
\* taken them, and a full bucket holds a call.
LEMMA WakerIsServed ==
  ASSUME CallInv, HoldsACall, NEW t \in Threads, Provider!WakeUp(t), NEW b \in Buckets
  PROVE  CallCost <= Provider!Refilled(b)
<1> DEFINE until == thread[t].until
           since == until - lastRefill[b]
           elapsed == now - lastRefill[b]
<1>1. /\ until <= now /\ lastRefill[b] <= until /\ until \in Nat
      /\ CallCost <= tokens[b] + since * Rate[b]
  BY DEF CallInv, CallTypes, SleeperIsServed, Provider!WakeUp
<1>2. CallTypes /\ CallCost <= Capacity[b]
  BY DEF CallInv, HoldsACall
<1>3. /\ tokens[b] \in Nat /\ lastRefill[b] \in Nat /\ Rate[b] \in Nat /\ now \in Nat
      /\ CallCost \in Nat /\ Capacity[b] \in Nat
      /\ \/ Provider!Refilled(b) = Capacity[b]
         \/ Provider!Refilled(b) = tokens[b] + elapsed * Rate[b]
  BY <1>2, BucketNumbers, RefillBounds
<1>4. since \in Nat /\ elapsed \in Nat /\ since <= elapsed
  BY <1>1, <1>3
<1>5. \A x, y, r \in Nat : x <= y => x * r <= y * r /\ x * r \in Nat /\ y * r \in Nat
  <2> SUFFICES ASSUME NEW x \in Nat, NEW y \in Nat, NEW r \in Nat, x <= y
               PROVE  x * r <= y * r /\ x * r \in Nat /\ y * r \in Nat
    OBVIOUS
  <2>1. PICK k \in Nat : y = x + k
    <3>1. y - x \in Nat /\ y = x + (y - x)
      OBVIOUS
    <3> QED BY <3>1
  <2>2. (x + k) * r = x * r + k * r /\ k * r \in Nat /\ x * r \in Nat
    OBVIOUS
  <2> QED BY <2>1, <2>2
<1> HIDE DEF since, elapsed
<1>6. /\ since * Rate[b] <= elapsed * Rate[b] /\ since * Rate[b] \in Nat
      /\ elapsed * Rate[b] \in Nat
  BY <1>3, <1>4, <1>5
<1> QED BY <1>1, <1>2, <1>3, <1>6

LEMMA CallsStep == HoldsACall /\ CallInv /\ [Next]_vars => CallInv'
<1> SUFFICES ASSUME HoldsACall, CallInv, Provider!Next \/ UNCHANGED callVars PROVE CallInv'
  BY ServiceMoves
<1>1. CASE UNCHANGED callVars
  BY <1>1 DEF callVars, CallInv, CallTypes, SleeperIsServed, WithinNow, Within, Spent,
              Provider!Refilled, Provider!Least
<1>2. CASE Provider!Tick
  BY <1>2, TickKeeps
<1>3. ASSUME NEW t \in Threads, Provider!AcquireAtOnce(t) PROVE CallInv'
  <2>1. /\ \A u \in Threads : thread[u].at # "acquiring"
        /\ Provider!Wait = 0 /\ Provider!Consume /\ Provider!LetThrough(t) /\ UNCHANGED now
    BY <1>3 DEF Provider!AcquireAtOnce, Provider!LockFree
  <2>2. ASSUME NEW b \in Buckets PROVE CallCost <= Provider!Refilled(b)
    <3>1. /\ Provider!Refilled(b) \in Nat /\ Rate[b] \in Nat /\ CallCost \in Nat
          /\ Provider!Deficit(b) \in Nat
          /\ Provider!Refilled(b) + Provider!Deficit(b) >= CallCost
          /\ Provider!Deficit(b) <= Provider!Wait * Rate[b]
      BY BucketNumbers, RefillBounds, WaitServes DEF CallInv
    <3>2. 0 * Rate[b] = 0
      BY <3>1
    <3>3. Provider!Deficit(b) <= 0
      BY <2>1, <3>1, <3>2
    <3> QED BY <3>1, <3>3
  <2> QED BY <2>1, <2>2, LetThroughKeeps
<1>4. ASSUME NEW t \in Threads, Provider!AcquireSleeping(t) PROVE CallInv'
  BY <1>4, SleepKeeps
<1>5. ASSUME NEW t \in Threads, Provider!WakeUp(t) PROVE CallInv'
  <2>1. /\ thread[t].at = "acquiring" /\ Provider!Consume /\ Provider!LetThrough(t)
        /\ UNCHANGED now
    BY <1>5 DEF Provider!WakeUp
  <2>2. \A u \in Threads : thread[u].at = "acquiring" => u = t
    BY <2>1 DEF CallInv, SleeperIsServed
  <2>3. \A b \in Buckets : CallCost <= Provider!Refilled(b)
    BY <1>5, WakerIsServed
  <2> QED BY <2>1, <2>2, <2>3, LetThroughKeeps
<1>6. ASSUME NEW t \in Threads, Provider!RequestEnds(t) \/ Provider!RequestRetried(t)
      PROVE  CallInv'
  <2>1. UNCHANGED <<now, tokens, lastRefill, granted>> /\ thread[t].at = "request"
    BY <1>6 DEF Provider!RequestEnds, Provider!RequestRetried
  <2>2. thread \in [Threads -> [at : {"idle", "acquiring", "request"}, until : Nat, attempts : Nat]]
        /\ now \in Nat
    BY DEF CallInv, CallTypes
  <2>3. /\ thread' \in [Threads -> [at : {"idle", "acquiring", "request"}, until : Nat, attempts : Nat]]
        /\ \A u \in Threads : thread'[u].at = "acquiring" => thread'[u] = thread[u]
    <3>1. CASE Provider!RequestEnds(t)
      BY <2>2, <3>1 DEF Provider!RequestEnds, Provider!Idle
    <3>2. CASE Provider!RequestRetried(t)
      <4>1. PICK delay \in 0..MaxDelay :
              thread' = [thread EXCEPT ![t].attempts = thread[t].attempts + 1,
                                       ![t].until = now + delay]
        BY <3>2 DEF Provider!RequestRetried
      <4>2. now + delay \in Nat /\ thread[t].attempts + 1 \in Nat
        BY <2>2
      <4> QED BY <2>1, <2>2, <4>1, <4>2
    <3> QED BY <1>6, <3>1, <3>2
  <2>4. CallTypes' /\ SleeperIsServed'
    <3>1. CallTypes'
      BY <2>1, <2>3 DEF CallInv, CallTypes
    <3>2. SleeperIsServed'
      BY <2>1, <2>3 DEF CallInv, SleeperIsServed
    <3> QED BY <3>1, <3>2
  <2> QED BY <2>1, <2>4 DEF CallInv, WithinNow, Within, Spent, Provider!Refilled, Provider!Least
<1> QED BY <1>1, <1>2, <1>3, <1>4, <1>5, <1>6 DEF Provider!Next

\* Whatever the rates, and however threads acquire, sleep and wake late, no
\* stretch of time sees more calls than a full bucket and its refills pay for,
\* in a limiter whose buckets hold a call.
THEOREM BudgetsAreKept ==
  ASSUME HoldsACall
  PROVE  Spec => []BudgetsKept
<1>1. Init => CallInv
  BY CallsInit
<1>2. CallInv /\ [Next]_vars => CallInv'
  BY CallsStep
<1>3. CallInv => BudgetsKept
  <2> SUFFICES ASSUME CallInv, NEW b \in Buckets, NEW from \in 0..LastTick, NEW to \in from..LastTick
               PROVE  CallCost * Provider!SumOver(granted, from..to)
                        <= Capacity[b] + Rate[b] * (to - from)
    BY DEF BudgetsKept, Provider!BudgetsKept
  <2>0. CallTypes /\ from \in Nat /\ LastTick \in Nat /\ to \in 0..LastTick /\ now \in 0..LastTick
        /\ Rate[b] \in Nat /\ Capacity[b] \in Nat /\ CallCost \in Nat
    BY ProviderAssumption DEF CallInv, CallTypes
  <2>1. \A x, y \in Nat : x * y \in Nat
    OBVIOUS
  <2>2. Within(b, from, to)
    <3>1. CASE to <= now
      BY <2>0, <3>1 DEF CallInv
    <3>2. CASE to > now /\ from <= now
      <4>1. SumOver(granted, from..to) = SumOver(granted, from..now)
        <5> DEFINE stretch == from..now
                   whole == from..to
        <5>1. /\ IsFiniteSet(whole) /\ stretch \in SUBSET whole
              /\ \A tick \in stretch : granted[tick] \in Int /\ granted[tick] = granted[tick]
              /\ \A tick \in whole \ stretch : granted[tick] = 0
          <6>1. IsFiniteSet(whole) /\ \A tick \in stretch : granted[tick] \in Nat
            BY <2>0, CallsCounted
          <6>2. stretch \in SUBSET whole
            BY <2>0, <3>2
          <6>3. \A tick \in whole \ stretch : tick > now /\ tick \in 0..LastTick
            BY <2>0, <3>2
          <6>4. \A tick \in whole \ stretch : granted[tick] = 0
            <7> HIDE DEF stretch, whole
            <7> QED BY <2>0, <6>3 DEF CallTypes
          <6>5. \A tick \in stretch : granted[tick] \in Int /\ granted[tick] = granted[tick]
            <7> HIDE DEF stretch, whole
            <7> QED BY <6>1
          <6> HIDE DEF stretch, whole
          <6> QED BY <6>1, <6>2, <6>4, <6>5
        <5> HIDE DEF stretch, whole
        <5>2. SumOver(granted, whole) = SumOver(granted, stretch)
          BY <5>1, SumOverPart
        <5> QED BY <5>2 DEF stretch, whole
      <4>2. Within(b, from, now)
        BY <2>0, <3>2 DEF CallInv
      <4>3. Rate[b] * (now - from) <= Rate[b] * (to - from)
        <5>1. \A r, x, k \in Nat : r * x <= r * (x + k)
          <6>1. \A r, x, k \in Nat : r * (x + k) = r * x + r * k /\ r * k \in Nat /\ r * x \in Nat
            OBVIOUS
          <6> QED BY <6>1
        <5>2. now - from \in Nat /\ to - now \in Nat /\ to - from = (now - from) + (to - now)
          BY <2>0, <3>2
        <5> QED BY <2>0, <5>1, <5>2
      <4>4. Spent(from, now) \in Nat /\ Rate[b] * (now - from) \in Nat /\ Rate[b] * (to - from) \in Nat
        <5>1. now - from \in Nat /\ to - from \in Nat
          BY <2>0, <3>2
        <5> QED BY <2>0, <2>1, <5>1, CallsCounted
      <4> QED BY <2>0, <4>1, <4>2, <4>3, <4>4 DEF Within, Spent
    <3>3. CASE from > now
      <4>1. SumOver(granted, from..to) = 0
        <5>1. IsFiniteSet(from..to)
          BY <2>0, CallsCounted
        <5>2. \A tick \in from..to : tick > now /\ tick \in 0..LastTick
          BY <2>0, <3>3
        <5> QED BY <2>0, <5>1, <5>2, SumOverNone DEF CallTypes
      <4>2. CallCost * 0 = 0 /\ Rate[b] * (to - from) \in Nat
        <5>1. to - from \in Nat
          BY <2>0
        <5>2. CallCost * 0 = 0
          BY ProviderAssumption
        <5> QED BY <2>0, <2>1, <5>1, <5>2
      <4> QED BY <2>0, <4>1, <4>2 DEF Within, Spent
    <3> QED BY <2>0, <3>1, <3>2, <3>3
  <2> QED BY <2>2, ProviderSums DEF Within, Spent
<1> QED BY <1>1, <1>2, <1>3, PTL DEF Spec
=============================================================================
