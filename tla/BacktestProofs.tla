--------------------------- MODULE BacktestProofs ---------------------------
(***************************************************************************)
(* Theorems of Backtest: no look-ahead, purchases are funded, every unit   *)
(* ordered is accounted for, and the equity curve is explained.  The sums  *)
(* of the trade log, of the tax lots and over the symbols are taken apart  *)
(* with SumLemmas.                                                         *)
(***************************************************************************)
EXTENDS BacktestProperties, SumLemmas

-----------------------------------------------------------------------------
(* The shape of the data.                                                  *)

Lot == [bought: Nat, quantity: Nat \ {0}, price: Nat]

Queued == [id: Nat, symbol: Symbol, side: {"BUY", "SELL"}, limit: Nat,
           quantity: Nat \ {0}, decided: Nat, target: Nat, expiry: Nat]

Executed == [order: Nat, symbol: Symbol, side: {"BUY", "SELL"}, quantity: Nat \ {0},
             price: Nat, cost: Nat, decided: Nat, date: Nat, gain: Int]

Receipt == [date: Nat, symbol: Symbol, quantity: Nat, credited: Nat]

BacktestType ==
  /\ date \in Nat
  /\ phase \in {"advance", "actions", "fills", "mark", "decide", "done"}
  /\ acted \in Nat
  /\ DOMAIN bar = Symbol /\ \A s \in Symbol : bar[s] = NoBar \/ bar[s] \in Bars[s]
  /\ last \in [Symbol -> [price: Nat, date: Nat]]
  /\ pending \in Seq(Queued) /\ kept \in Seq(Queued)
  /\ cash \in Int /\ position \in [Symbol -> Nat] /\ lots \in [Symbol -> Seq(Lot)]
  /\ trades \in Seq(Executed) /\ receipts \in Seq(Receipt)
  /\ rejected \in Seq([order: Nat, quantity: Nat])
  /\ equity \in Int
  /\ warned \in [Symbol -> Int]
  /\ orders \in Seq(Queued)

-----------------------------------------------------------------------------
(* First in, first out: what UpTo, UsedUp and Taken say of a queue of lots. *)

LEMMA LotAt ==
  ASSUME NEW q \in Seq(Lot), NEW i \in 1..Len(q)
  PROVE  q[i] \in Lot /\ q[i].bought \in Nat /\ q[i].quantity \in Nat \ {0} /\ q[i].price \in Nat
<1>1. q[i] \in Lot
  OBVIOUS
<1> QED BY <1>1 DEF Lot

LEMMA UpToSteps ==
  ASSUME NEW q \in Seq(Lot)
  PROVE  /\ UpTo(q, 0) = 0
         /\ \A i \in 0..Len(q) : UpTo(q, i) \in Nat
         /\ \A i \in 1..Len(q) : UpTo(q, i) = UpTo(q, i - 1) + q[i].quantity
<1> DEFINE f == [k \in 1..Len(q) |-> q[k].quantity]
<1>1. \A k \in 1..Len(q) : q[k].quantity \in Nat /\ f[k] = q[k].quantity
  BY LotAt
<1> HIDE DEF f
<1>2. ASSUME NEW i \in 0..Len(q)
      PROVE  UpTo(q, i) = SumOver(f, 1..i) /\ UpTo(q, i) \in Nat
  <2> DEFINE g == [k \in 1..i |-> q[k].quantity]
  <2>1. IsFiniteSet(1..i) /\ DOMAIN g = 1..i
    BY FS_Interval
  <2>2. \A k \in 1..i : g[k] \in Nat /\ g[k] \in Int /\ f[k] = g[k]
    BY <1>1
  <2>3. UpTo(q, i) = SumOver(g, 1..i)
    BY DEF UpTo, SumOf
  <2> HIDE DEF g
  <2>4. SumOver(g, 1..i) = SumOver(f, 1..i)
    BY <2>1, <2>2, SumOverSame
  <2>5. SumOver(g, 1..i) \in Nat
    BY <2>1, <2>2, SumOverNat
  <2> QED BY <2>3, <2>4, <2>5
<1>3. UpTo(q, 0) = 0
  <2>1. 0 \in 0..Len(q) /\ 1..0 = {}
    OBVIOUS
  <2> QED BY <1>2, <2>1, SumOverEmpty
<1>4. ASSUME NEW i \in 1..Len(q) PROVE UpTo(q, i) = UpTo(q, i - 1) + q[i].quantity
  <2>1. PICK j \in Nat : i = j + 1
    <3>1. i - 1 \in Nat /\ i = (i - 1) + 1
      OBVIOUS
    <3> QED BY <3>1
  <2>2. \A k \in 1..(j + 1) : f[k] \in Int
    BY <1>1, <2>1
  <2>3. SumOver(f, 1..(j + 1)) = SumOver(f, 1..j) + f[j + 1]
    BY <2>2, SumUpTo
  <2>4. i \in 0..Len(q) /\ j \in 0..Len(q) /\ i - 1 = j
    BY <2>1
  <2> QED BY <1>1, <1>2, <2>1, <2>3, <2>4
<1> QED BY <1>2, <1>3, <1>4

LEMMA UpToGrows ==
  ASSUME NEW q \in Seq(Lot), NEW i \in 0..Len(q), NEW j \in 0..Len(q), i < j
  PROVE  UpTo(q, i) < UpTo(q, j)
<1> DEFINE Good == {k \in Nat : i < k /\ k <= Len(q) => UpTo(q, i) < UpTo(q, k)}
<1>1. 0 \in Good
  OBVIOUS
<1>2. ASSUME NEW k \in Nat, k \in Good PROVE k + 1 \in Good
  <2>1. SUFFICES ASSUME i < k + 1, k + 1 <= Len(q) PROVE UpTo(q, i) < UpTo(q, k + 1)
    OBVIOUS
  <2>2. k + 1 \in 1..Len(q) /\ k \in 0..Len(q) /\ (k + 1) - 1 = k
    BY <2>1
  <2>3. UpTo(q, k + 1) = UpTo(q, k) + q[k + 1].quantity
    BY <2>2, UpToSteps
  <2>4. q[k + 1].quantity \in Nat \ {0}
    BY <2>2, LotAt
  <2>5. UpTo(q, k) \in Nat /\ UpTo(q, i) \in Nat
    BY <2>2, UpToSteps
  <2>6. i = k \/ UpTo(q, i) < UpTo(q, k)
    BY <1>2, <2>1
  <2> QED BY <2>3, <2>4, <2>5, <2>6
<1>3. Good = Nat
  <2>1. Good \subseteq Nat
    OBVIOUS
  <2> HIDE DEF Good
  <2> QED BY <1>1, <1>2, <2>1, NatInduct
<1> QED BY <1>3

\* The lots used up are the first ones.
LEMMA UsedUpIs ==
  ASSUME NEW q \in Seq(Lot), NEW n \in Nat
  PROVE  LET u == Cardinality(UsedUp(q, n)) IN
           u \in 0..Len(q) /\ \A i \in 1..Len(q) : UpTo(q, i) <= n <=> i <= u
<1> DEFINE First(k, u) == \A i \in 1..k : UpTo(q, i) <= n <=> i <= u
           Good == {k \in Nat : k <= Len(q) => \E u \in 0..k : First(k, u)}
<1>1. 0 \in Good
  OBVIOUS
<1>2. ASSUME NEW k \in Nat, k \in Good PROVE k + 1 \in Good
  <2>1. SUFFICES ASSUME k + 1 <= Len(q) PROVE \E u \in 0..(k + 1) : First(k + 1, u)
    OBVIOUS
  <2>2. PICK u \in 0..k : First(k, u)
    BY <1>2, <2>1
  <2>3. \A i \in 1..(k + 1) : i \in 0..Len(q) /\ UpTo(q, i) \in Nat
    BY <2>1, UpToSteps
  <2>4. CASE UpTo(q, k + 1) <= n
    <3>1. ASSUME NEW i \in 1..(k + 1) PROVE UpTo(q, i) <= n
      <4>1. CASE i = k + 1
        BY <4>1, <2>4
      <4>2. CASE i < k + 1
        <5>1. k + 1 \in 1..(k + 1)
          OBVIOUS
        <5>2. UpTo(q, i) < UpTo(q, k + 1)
          BY <2>3, <4>2, <5>1, UpToGrows
        <5> QED BY <2>3, <2>4, <5>1, <5>2
      <4> QED BY <4>1, <4>2
    <3>2. First(k + 1, k + 1) /\ k + 1 \in 0..(k + 1)
      BY <3>1
    <3> HIDE DEF First
    <3> QED BY <3>2, Zenon
  <2>5. CASE ~(UpTo(q, k + 1) <= n)
    <3>1. ASSUME NEW i \in 1..(k + 1) PROVE UpTo(q, i) <= n <=> i <= u
      <4>1. CASE i = k + 1
        BY <4>1, <2>5
      <4>2. CASE i # k + 1
        BY <4>2, <2>2
      <4> QED BY <4>1, <4>2
    <3>2. First(k + 1, u) /\ u \in 0..(k + 1)
      BY <3>1
    <3> HIDE DEF First
    <3> QED BY <3>2, Zenon
  <2> QED BY <2>4, <2>5
<1>3. Good = Nat
  <2>1. Good \subseteq Nat
    OBVIOUS
  <2> HIDE DEF Good
  <2> QED BY <1>1, <1>2, <2>1, NatInduct
<1>4. PICK u \in 0..Len(q) : First(Len(q), u)
  <2>1. Len(q) \in Nat /\ Len(q) <= Len(q)
    OBVIOUS
  <2> HIDE DEF First
  <2> QED BY <1>3, <2>1
<1>5. UsedUp(q, n) = 1..u
  BY <1>4 DEF UsedUp
<1>6. Cardinality(1..u) = u
  <2>1. 1 \in Int /\ u \in Int /\ ~(1 > u /\ u # 0)
    OBVIOUS
  <2>2. Cardinality(1..u) = IF 1 > u THEN 0 ELSE u - 1 + 1
    BY <2>1, FS_Interval
  <2> QED BY <2>1, <2>2
<1> QED BY <1>4, <1>5, <1>6

\* What the sale takes from each lot: all of those used up, part of the next.
LEMMA TakenIs ==
  ASSUME NEW q \in Seq(Lot), NEW n \in Nat, NEW i \in 1..Len(q)
  PROVE  /\ Taken(q, n, i) \in 0..q[i].quantity
         /\ Taken(q, n, i) = q[i].quantity <=> i <= Cardinality(UsedUp(q, n))
<1>1. i - 1 \in 0..Len(q) /\ i \in 0..Len(q)
  OBVIOUS
<1>2. /\ UpTo(q, i) \in Nat /\ UpTo(q, i - 1) \in Nat
      /\ UpTo(q, i) = UpTo(q, i - 1) + q[i].quantity
  BY <1>1, UpToSteps
<1>3. q[i].quantity \in Nat \ {0}
  BY LotAt
<1>4. UpTo(q, i) <= n <=> i <= Cardinality(UsedUp(q, n))
  BY UsedUpIs
<1> QED BY <1>2, <1>3, <1>4 DEF Taken

\* All that is sold is taken.
LEMMA TakenSum ==
  ASSUME NEW q \in Seq(Lot), NEW n \in Nat, n <= UpTo(q, Len(q))
  PROVE  SumOf([i \in DOMAIN q |-> Taken(q, n, i)]) = n
<1> DEFINE t == [i \in 1..Len(q) |-> Taken(q, n, i)]
           Good == {k \in Nat :
                      k <= Len(q) => SumOver(t, 1..k) = IF UpTo(q, k) <= n THEN UpTo(q, k) ELSE n}
<1>0. \A k \in 1..Len(q) : t[k] \in Int
  <2>1. ASSUME NEW k \in 1..Len(q) PROVE t[k] \in Int
    <3>1. Taken(q, n, k) \in 0..q[k].quantity /\ q[k].quantity \in Nat
      BY TakenIs, LotAt
    <3> QED BY <3>1
  <2> QED BY <2>1
<1>1. 0 \in Good
  <2>1. 1..0 = {}
    OBVIOUS
  <2>2. SumOver(t, 1..0) = 0
    BY <2>1, SumOverEmpty
  <2>3. UpTo(q, 0) = 0
    BY UpToSteps
  <2> HIDE DEF t
  <2> QED BY <2>2, <2>3
<1>2. ASSUME NEW k \in Nat, k \in Good PROVE k + 1 \in Good
  <2>1. SUFFICES ASSUME k + 1 <= Len(q)
                 PROVE  SumOver(t, 1..(k + 1)) =
                          IF UpTo(q, k + 1) <= n THEN UpTo(q, k + 1) ELSE n
    OBVIOUS
  <2>2. k + 1 \in 1..Len(q) /\ k + 1 \in 0..Len(q) /\ k \in 0..Len(q) /\ (k + 1) - 1 = k
    BY <2>1
  <2>3. SumOver(t, 1..k) = IF UpTo(q, k) <= n THEN UpTo(q, k) ELSE n
    BY <1>2, <2>1
  <2>4. SumOver(t, 1..(k + 1)) = SumOver(t, 1..k) + t[k + 1]
    <3>1. \A j \in 1..(k + 1) : t[j] \in Int
      BY <1>0, <2>1
    <3> HIDE DEF t
    <3> QED BY <3>1, SumUpTo
  <2>5. t[k + 1] = Taken(q, n, k + 1)
    BY <2>2
  <2>6. /\ UpTo(q, k + 1) = UpTo(q, k) + q[k + 1].quantity
        /\ UpTo(q, k + 1) \in Nat /\ UpTo(q, k) \in Nat
    BY <2>2, UpToSteps
  <2>7. q[k + 1].quantity \in Nat
    BY <2>2, LotAt
  <2> HIDE DEF t
  <2> QED BY <2>2, <2>3, <2>4, <2>5, <2>6, <2>7 DEF Taken
<1>3. Good = Nat
  <2>1. Good \subseteq Nat
    OBVIOUS
  <2> HIDE DEF Good
  <2> QED BY <1>1, <1>2, <2>1, NatInduct
<1>4. SumOver(t, 1..Len(q)) = IF UpTo(q, Len(q)) <= n THEN UpTo(q, Len(q)) ELSE n
  BY <1>3
<1>5. UpTo(q, Len(q)) \in Nat
  <2>1. Len(q) \in 0..Len(q)
    OBVIOUS
  <2> QED BY <2>1, UpToSteps
<1>6. SumOf([i \in DOMAIN q |-> Taken(q, n, i)]) = SumOver(t, 1..Len(q))
  BY DEF SumOf
<1> HIDE DEF t
<1> QED BY <1>4, <1>5, <1>6

Piece == [bought: Nat, quantity: Int, price: Nat]

LEMMA SuffixIs ==
  ASSUME NEW s \in Seq(Piece), NEW u \in 0..Len(s), NEW m, m = SubSeq(s, u + 1, Len(s))
  PROVE  /\ Len(m) = Len(s) - u /\ Len(m) \in Nat /\ m \in Seq(Piece)
         /\ \A k \in 1..Len(m) : m[k] = s[u + k] /\ u + k \in 1..Len(s)
<1>1. Len(s) \in Nat
  OBVIOUS
<1>2. Len(m) = Len(s) - u
  OBVIOUS
<1>3. m \in Seq(Piece) /\ Len(m) \in Nat
  OBVIOUS
<1>5. ASSUME NEW k \in 1..Len(m) PROVE m[k] = s[u + k] /\ u + k \in 1..Len(s)
  <2>1. k \in 1..(Len(s) - (u + 1) + 1)
    BY <1>1, <1>2
  <2>2. u + k \in 1..Len(s)
    BY <1>1, <1>2
  <2>3. m[k] = s[(u + 1) + k - 1]
    BY <1>1, <2>1
  <2> QED BY <2>2, <2>3
<1>6. \A k \in 1..Len(m) : m[k] = s[u + k] /\ u + k \in 1..Len(s)
  BY <1>5
<1> QED BY <1>2, <1>3, <1>6, Zenon

\* What a sale leaves: the lots after those used up, less what was taken.
LEMMA MatchSellIs ==
  ASSUME NEW q \in Seq(Lot), NEW n \in Nat
  PROVE  LET u == Cardinality(UsedUp(q, n))
             m == MatchSell(q, n) IN
           /\ m \in Seq(Lot) /\ Len(m) = Len(q) - u
           /\ \A k \in 1..Len(m) :
                /\ u + k \in 1..Len(q)
                /\ m[k].bought = q[u + k].bought /\ m[k].price = q[u + k].price
                /\ m[k].quantity = q[u + k].quantity - Taken(q, n, u + k)
<1> DEFINE u == Cardinality(UsedUp(q, n))
           left == [i \in 1..Len(q) |->
                      [q[i] EXCEPT !.quantity = q[i].quantity - Taken(q, n, i)]]
           m == SubSeq(left, u + 1, Len(q))
<1>1. u \in 0..Len(q)
  BY UsedUpIs
<1>2. MatchSell(q, n) = m
  <2>1. DOMAIN q = 1..Len(q)
    OBVIOUS
  <2> QED BY <2>1 DEF MatchSell
<1>3. ASSUME NEW i \in 1..Len(q)
      PROVE  /\ left[i].bought = q[i].bought /\ left[i].price = q[i].price
             /\ left[i].quantity = q[i].quantity - Taken(q, n, i)
             /\ i > u => left[i] \in Lot
  <2>1. q[i] \in Lot /\ q[i].quantity \in Nat \ {0}
    BY LotAt
  <2>2. left[i] = [q[i] EXCEPT !.quantity = q[i].quantity - Taken(q, n, i)]
    OBVIOUS
  <2>3. Taken(q, n, i) \in 0..q[i].quantity /\ (i > u => Taken(q, n, i) # q[i].quantity)
    <3>1. Taken(q, n, i) \in 0..q[i].quantity /\ (Taken(q, n, i) = q[i].quantity <=> i <= u)
      BY TakenIs
    <3> HIDE DEF u
    <3> QED BY <1>1, <3>1
  <2>4. i > u => q[i].quantity - Taken(q, n, i) \in Nat \ {0}
    BY <2>1, <2>3
  <2> HIDE DEF left, u
  <2> QED BY <2>1, <2>2, <2>4 DEF Lot
<1>4. Len(left) = Len(q) /\ DOMAIN left = 1..Len(q)
  OBVIOUS
<1>5. left \in Seq(Piece)
  <2>1. ASSUME NEW i \in 1..Len(q) PROVE left[i] \in Piece
    <3>1. q[i] \in Lot
      BY LotAt
    <3>2. Taken(q, n, i) \in 0..q[i].quantity /\ q[i].quantity \in Nat
      BY TakenIs, LotAt
    <3>3. q[i].quantity - Taken(q, n, i) \in Int
      BY <3>2
    <3>4. left[i] = [q[i] EXCEPT !.quantity = q[i].quantity - Taken(q, n, i)]
      OBVIOUS
    <3> HIDE DEF left
    <3> QED BY <3>1, <3>3, <3>4 DEF Lot, Piece
  <2> QED BY <2>1
<1> HIDE DEF left, u
<1>6. /\ Len(m) = Len(q) - u /\ Len(m) \in Nat /\ m \in Seq(Piece)
      /\ \A k \in 1..Len(m) : m[k] = left[u + k] /\ u + k \in 1..Len(q)
  <2> HIDE DEF m
  <2>1. u \in 0..Len(left) /\ m = SubSeq(left, u + 1, Len(left))
    BY <1>1, <1>4 DEF m
  <2>2. /\ Len(m) = Len(left) - u /\ Len(m) \in Nat /\ m \in Seq(Piece)
        /\ \A k \in 1..Len(m) : m[k] = left[u + k] /\ u + k \in 1..Len(left)
    BY <1>5, <2>1, SuffixIs
  <2> QED BY <1>4, <2>2
<1>7. m \in Seq(Lot)
  <2>1. ASSUME NEW k \in 1..Len(m) PROVE m[k] \in Lot
    <3>1. u + k \in 1..Len(q) /\ u + k > u /\ m[k] = left[u + k]
      BY <1>1, <1>6
    <3> HIDE DEF m
    <3> QED BY <3>1, <1>3
  <2> HIDE DEF m
  <2>2. m = [k \in 1..Len(m) |-> m[k]]
    BY <1>6
  <2> QED BY <1>6, <2>1, <2>2
<1> HIDE DEF m
<1>8. ASSUME NEW k \in 1..Len(m)
      PROVE  /\ u + k \in 1..Len(q)
             /\ m[k].bought = q[u + k].bought /\ m[k].price = q[u + k].price
             /\ m[k].quantity = q[u + k].quantity - Taken(q, n, u + k)
  BY <1>3, <1>6
<1> QED BY <1>2, <1>6, <1>7, <1>8 DEF u

\* A weight that is made of two sums to the sums of the two.
Adds(S, whole, left, right) ==
  \A i \in S : left[i] \in Int /\ right[i] \in Int /\ whole[i] = left[i] + right[i]

LEMMA SumsAdd ==
  ASSUME NEW S, IsFiniteSet(S), NEW whole, NEW left, NEW right, Adds(S, whole, left, right)
  PROVE  SumOver(whole, S) = SumOver(left, S) + SumOver(right, S)
BY SumOverPlus DEF Adds

\* Whatever the lots are weighed by, a sale leaves what it did not take.
LEMMA MatchSellSum ==
  ASSUME NEW q \in Seq(Lot), NEW n \in Nat, NEW w, \A i \in 1..Len(q) : w[i] \in Int,
         NEW v, DOMAIN v = 1..Len(MatchSell(q, n)),
         \A k \in 1..Len(MatchSell(q, n)) :
           v[k] = MatchSell(q, n)[k].quantity * w[Cardinality(UsedUp(q, n)) + k],
         NEW a, \A i \in 1..Len(q) : a[i] = q[i].quantity * w[i],
         NEW t, \A i \in 1..Len(q) : t[i] = Taken(q, n, i) * w[i]
  PROVE  /\ SumOver(a, 1..Len(q)) \in Int /\ SumOver(t, 1..Len(q)) \in Int
         /\ SumOf(v) = SumOver(a, 1..Len(q)) - SumOver(t, 1..Len(q))
<1> DEFINE u == Cardinality(UsedUp(q, n))
           r == [i \in 1..Len(q) |-> (q[i].quantity - Taken(q, n, i)) * w[i]]
           z == Len(MatchSell(q, n))
<1>1. u \in 0..Len(q) /\ z = Len(q) - u /\ z \in Nat
  BY UsedUpIs, MatchSellIs
<1>2. ASSUME NEW i \in 1..Len(q)
      PROVE  /\ r[i] \in Int /\ a[i] \in Int /\ t[i] \in Int /\ a[i] = r[i] + t[i]
             /\ i <= u => r[i] = 0
  <2> DEFINE x == q[i].quantity
             y == Taken(q, n, i)
  <2>1. x \in Int /\ y \in Int /\ w[i] \in Int
    <3>1. x \in Nat /\ y \in 0..x
      BY LotAt, TakenIs
    <3> QED BY <3>1
  <2>2. i <= u => y = x
    BY <1>1, TakenIs
  <2>3. r[i] = (x - y) * w[i] /\ a[i] = x * w[i] /\ t[i] = y * w[i]
    OBVIOUS
  <2> HIDE DEF r, x, y, u
  <2>4. (x - y) * w[i] = x * w[i] - y * w[i] /\ x * w[i] \in Int /\ y * w[i] \in Int
    BY <2>1
  <2>5. r[i] = a[i] - t[i] /\ a[i] \in Int /\ t[i] \in Int
    BY <2>3, <2>4
  <2>6. i <= u => r[i] = 0
    <3>1. SUFFICES ASSUME i <= u PROVE r[i] = 0
      OBVIOUS
    <3>2. x - y = 0
      BY <2>1, <2>2, <3>1
    <3> QED BY <2>1, <2>3, <3>2
  <2> QED BY <2>5, <2>6
<1> HIDE DEF r
<1>3. IsFiniteSet(1..Len(q)) /\ IsFiniteSet(1..u)
  BY <1>1, FS_Interval
<1>4. SumOver(a, 1..Len(q)) = SumOver(r, 1..Len(q)) + SumOver(t, 1..Len(q))
  <2>1. Adds(1..Len(q), a, r, t)
    BY <1>2 DEF Adds
  <2> QED BY <1>3, <2>1, SumsAdd
<1>5. SumOver(a, 1..Len(q)) \in Int /\ SumOver(t, 1..Len(q)) \in Int /\ SumOver(r, 1..Len(q)) \in Int
  BY <1>2, <1>3, SumOverInt
<1>6. SumOver(r, 1..u) = 0
  <2>1. \A i \in 1..u : r[i] = 0
    BY <1>1, <1>2
  <2> QED BY <1>3, <2>1, SumOverNone
<1>7. ASSUME NEW k \in 1..z PROVE v[k] = r[u + k]
  <2>1. u + k \in 1..Len(q) /\ MatchSell(q, n)[k].quantity = q[u + k].quantity - Taken(q, n, u + k)
    BY MatchSellIs
  <2>2. v[k] = MatchSell(q, n)[k].quantity * w[u + k]
    OBVIOUS
  <2> HIDE DEF u, z
  <2> QED BY <2>1, <2>2 DEF r
<1> HIDE DEF u
<1>8. SumOver(r, 1..Len(q)) = SumOver(r, 1..u) + SumOver(v, 1..z)
  <2> HIDE DEF z
  <2>1. u \in Nat /\ z \in Nat /\ Len(q) = u + z
    BY <1>1
  <2>2. \A k \in 1..Len(q) : r[k] \in Int
    BY <1>2
  <2>3. \A k \in 1..z : v[k] = r[u + k]
    BY <1>7
  <2> QED BY <2>1, <2>2, <2>3, SumInParts, SMTT(60)
<1>9. SumOver(v, 1..z) \in Int
  <2>1. ASSUME NEW k \in 1..z PROVE v[k] \in Int
    <3>1. u + k \in 1..Len(q)
      BY <1>1
    <3> QED BY <1>2, <1>7, <3>1
  <2>2. IsFiniteSet(1..z)
    BY <1>1, FS_Interval
  <2> HIDE DEF z
  <2> QED BY <2>1, <2>2, SumOverInt
<1>10. SumOf(v) = SumOver(v, 1..z)
  BY DEF SumOf
<1> HIDE DEF z
<1> QED BY <1>4, <1>5, <1>6, <1>8, <1>9, <1>10

-----------------------------------------------------------------------------
(* Units and cost basis of a queue of lots, through every operation on it.  *)

Units(q) == Total(LAMBDA lot : lot.quantity, q)

Basis(q) == Total(LAMBDA lot : lot.quantity * lot.price, q)

LEMMA QueueSums ==
  ASSUME NEW q \in Seq(Lot)
  PROVE  /\ Units(q) = UpTo(q, Len(q)) /\ Units(q) \in Nat
         /\ Basis(q) \in Int
<1>1. DOMAIN q = 1..Len(q) /\ Len(q) \in 0..Len(q) /\ IsFiniteSet(1..Len(q))
  BY FS_Interval
<1>2. Units(q) = UpTo(q, Len(q))
  BY <1>1 DEF Units, Total, UpTo
<1>3. UpTo(q, Len(q)) \in Nat
  BY <1>1, UpToSteps
<1> DEFINE b == [i \in 1..Len(q) |-> q[i].quantity * q[i].price]
<1>4. Basis(q) = SumOver(b, 1..Len(q))
  BY <1>1 DEF Basis, Total, SumOf
<1>5. ASSUME NEW i \in 1..Len(q) PROVE b[i] \in Int
  <2>1. q[i].quantity \in Nat /\ q[i].price \in Nat
    BY LotAt
  <2> QED BY <2>1
<1> HIDE DEF b
<1>6. SumOver(b, 1..Len(q)) \in Int
  BY <1>1, <1>5, SumOverInt
<1> QED BY <1>2, <1>3, <1>4, <1>6

LEMMA UnitsAfterSale ==
  ASSUME NEW q \in Seq(Lot), NEW n \in Nat, n <= Units(q)
  PROVE  Units(MatchSell(q, n)) = Units(q) - n
<1> DEFINE m == MatchSell(q, n)
           v == [k \in 1..Len(m) |-> m[k].quantity]
           w == [i \in 1..Len(q) |-> 1]
           a == [i \in 1..Len(q) |-> q[i].quantity]
           t == [i \in 1..Len(q) |-> Taken(q, n, i)]
<1>1. m \in Seq(Lot) /\ DOMAIN m = 1..Len(m)
  BY MatchSellIs
<1>2. \A i \in 1..Len(q) : /\ w[i] \in Int /\ a[i] = q[i].quantity * w[i]
                           /\ t[i] = Taken(q, n, i) * w[i]
  <2>1. ASSUME NEW i \in 1..Len(q) PROVE q[i].quantity \in Int /\ Taken(q, n, i) \in Int
    <3>1. Taken(q, n, i) \in 0..q[i].quantity /\ q[i].quantity \in Nat
      BY TakenIs, LotAt
    <3> QED BY <3>1
  <2> QED BY <2>1
<1>3. \A k \in 1..Len(m) : v[k] = m[k].quantity * w[Cardinality(UsedUp(q, n)) + k]
  <2>1. ASSUME NEW k \in 1..Len(m)
        PROVE  Cardinality(UsedUp(q, n)) + k \in 1..Len(q) /\ m[k].quantity \in Nat
    BY <1>1, MatchSellIs, LotAt
  <2> HIDE DEF m
  <2> QED BY <2>1
<1>4. Units(q) = SumOver(a, 1..Len(q)) /\ Units(m) = SumOf(v)
  <2>1. DOMAIN q = 1..Len(q)
    OBVIOUS
  <2> HIDE DEF m
  <2> QED BY <1>1, <2>1 DEF Units, Total, SumOf
<1>5. SumOver(t, 1..Len(q)) = n
  <2>1. SumOf([i \in DOMAIN q |-> Taken(q, n, i)]) = n
    BY QueueSums, TakenSum
  <2> QED BY <2>1 DEF SumOf
<1>6. DOMAIN v = 1..Len(MatchSell(q, n))
  OBVIOUS
<1> HIDE DEF v, w, a, t
<1>7. SumOf(v) = SumOver(a, 1..Len(q)) - SumOver(t, 1..Len(q))
  <2>1. \A i \in 1..Len(q) : w[i] \in Int
    BY <1>2
  <2>2. \A i \in 1..Len(q) : a[i] = q[i].quantity * w[i]
    BY <1>2
  <2>3. \A i \in 1..Len(q) : t[i] = Taken(q, n, i) * w[i]
    BY <1>2
  <2> QED BY <1>3, <1>6, <2>1, <2>2, <2>3, MatchSellSum, SMTT(60) DEF m
<1> QED BY <1>4, <1>5, <1>7 DEF m

\* The gain realized is the proceeds less what the cost basis falls by.
LEMMA GainOfSale ==
  ASSUME NEW q \in Seq(Lot), NEW n \in Nat, n <= Units(q), NEW p \in Int
  PROVE  RealizedGain(q, n, p) = n * p - (Basis(q) - Basis(MatchSell(q, n)))
<1> DEFINE m == MatchSell(q, n)
           v == [k \in 1..Len(m) |-> m[k].quantity * m[k].price]
           w == [i \in 1..Len(q) |-> q[i].price]
           a == [i \in 1..Len(q) |-> q[i].quantity * q[i].price]
           t == [i \in 1..Len(q) |-> Taken(q, n, i) * q[i].price]
           x == [i \in 1..Len(q) |-> Taken(q, n, i)]
           px == [i \in 1..Len(q) |-> p * Taken(q, n, i)]
           g == [i \in 1..Len(q) |-> (p - q[i].price) * Taken(q, n, i)]
<1>1. m \in Seq(Lot) /\ DOMAIN m = 1..Len(m)
  BY MatchSellIs
<1>2. ASSUME NEW i \in 1..Len(q)
      PROVE  /\ w[i] \in Int /\ a[i] = q[i].quantity * w[i] /\ t[i] = Taken(q, n, i) * w[i]
             /\ x[i] \in Int /\ px[i] = p * x[i]
             /\ g[i] \in Int /\ t[i] \in Int /\ px[i] \in Int /\ px[i] = g[i] + t[i]
  <2> DEFINE c == q[i].price
             y == Taken(q, n, i)
  <2>1. c \in Int /\ y \in Int
    <3>1. Taken(q, n, i) \in 0..q[i].quantity /\ q[i].quantity \in Nat /\ q[i].price \in Nat
      BY TakenIs, LotAt
    <3> QED BY <3>1
  <2>2. /\ w[i] = c /\ a[i] = q[i].quantity * c /\ t[i] = y * c
        /\ x[i] = y /\ px[i] = p * y /\ g[i] = (p - c) * y
    OBVIOUS
  <2> HIDE DEF c, y, w, a, t, x, px, g
  <2>3. (p - c) * y = p * y - y * c /\ y * c \in Int /\ p * y \in Int
    BY <2>1
  <2>4. px[i] = g[i] + t[i] /\ g[i] \in Int /\ t[i] \in Int /\ px[i] \in Int
    BY <2>2, <2>3
  <2>5. w[i] \in Int /\ a[i] = q[i].quantity * w[i] /\ x[i] \in Int
    BY <2>1, <2>2, Zenon
  <2>6. t[i] = Taken(q, n, i) * w[i] /\ px[i] = p * x[i]
    BY <2>2, Zenon DEF y
  <2> QED BY <2>4, <2>5, <2>6
<1>3. \A k \in 1..Len(m) : v[k] = m[k].quantity * w[Cardinality(UsedUp(q, n)) + k]
  <2>1. ASSUME NEW k \in 1..Len(m)
        PROVE  /\ Cardinality(UsedUp(q, n)) + k \in 1..Len(q)
               /\ m[k].price = q[Cardinality(UsedUp(q, n)) + k].price
    BY <1>1, MatchSellIs
  <2> HIDE DEF m
  <2> QED BY <2>1
<1>4. Basis(q) = SumOver(a, 1..Len(q)) /\ Basis(m) = SumOf(v)
  <2>1. DOMAIN q = 1..Len(q)
    OBVIOUS
  <2> HIDE DEF m
  <2> QED BY <1>1, <2>1 DEF Basis, Total, SumOf
<1>5. SumOver(x, 1..Len(q)) = n
  <2>1. SumOf([i \in DOMAIN q |-> Taken(q, n, i)]) = n
    BY QueueSums, TakenSum
  <2> QED BY <2>1 DEF SumOf
<1>6. RealizedGain(q, n, p) = SumOver(g, 1..Len(q))
  <2>1. DOMAIN q = 1..Len(q)
    OBVIOUS
  <2> QED BY <2>1 DEF RealizedGain, SumOf
<1>7. DOMAIN v = 1..Len(MatchSell(q, n)) /\ IsFiniteSet(1..Len(q))
  BY FS_Interval
<1> HIDE DEF v, w, a, t, x, px, g
<1>8. /\ SumOver(a, 1..Len(q)) \in Int /\ SumOver(t, 1..Len(q)) \in Int
      /\ SumOf(v) = SumOver(a, 1..Len(q)) - SumOver(t, 1..Len(q))
  <2>1. \A i \in 1..Len(q) : w[i] \in Int
    BY <1>2
  <2>2. \A i \in 1..Len(q) : a[i] = q[i].quantity * w[i]
    BY <1>2
  <2>3. \A i \in 1..Len(q) : t[i] = Taken(q, n, i) * w[i]
    BY <1>2
  <2> QED BY <1>3, <1>7, <2>1, <2>2, <2>3, MatchSellSum, SMTT(60) DEF m
<1>9. SumOver(px, 1..Len(q)) = p * n
  <2>1. \A i \in 1..Len(q) : x[i] \in Int /\ px[i] = p * x[i]
    BY <1>2
  <2>2. SumOver(px, 1..Len(q)) = p * SumOver(x, 1..Len(q))
    BY <1>7, <2>1, SumOverTimes
  <2> QED BY <1>5, <2>2
<1>10. SumOver(px, 1..Len(q)) = SumOver(g, 1..Len(q)) + SumOver(t, 1..Len(q))
  <2>1. \A i \in 1..Len(q) : g[i] \in Int /\ t[i] \in Int /\ px[i] = g[i] + t[i]
    BY <1>2
  <2> QED BY <1>7, <2>1, SumOverPlus
<1>11. SumOver(g, 1..Len(q)) \in Int
  <2>1. \A i \in 1..Len(q) : g[i] \in Int
    BY <1>2
  <2> QED BY <1>7, <2>1, SumOverInt
<1>12. p * n = n * p
  OBVIOUS
<1> QED BY <1>4, <1>6, <1>8, <1>9, <1>10, <1>11, <1>12 DEF m

LEMMA AppendIs ==
  ASSUME NEW T, NEW s \in Seq(T), NEW x \in T
  PROVE  /\ Append(s, x) \in Seq(T) /\ Len(Append(s, x)) = Len(s) + 1 /\ Len(s) \in Nat
         /\ Append(s, x)[Len(s) + 1] = x
         /\ \A k \in 1..Len(s) : Append(s, x)[k] = s[k]
OBVIOUS

LEMMA AfterPurchase ==
  ASSUME NEW q \in Seq(Lot), NEW lot \in Lot
  PROVE  /\ Units(Append(q, lot)) = Units(q) + lot.quantity
         /\ Basis(Append(q, lot)) = Basis(q) + lot.quantity * lot.price
<1> DEFINE m == Append(q, lot)
           n == Len(q)
<1>1. /\ m \in Seq(Lot) /\ Len(m) = n + 1 /\ n \in Nat /\ m[n + 1] = lot
      /\ \A k \in 1..n : m[k] = q[k]
      /\ DOMAIN q = 1..n /\ DOMAIN m = 1..Len(m)
  BY AppendIs
<1>2. \A i \in 1..n : q[i].quantity \in Nat /\ q[i].price \in Nat
  BY LotAt
<1>3. lot.quantity \in Nat /\ lot.price \in Nat
  BY DEF Lot
<1> HIDE DEF m, n
<1>4. Units(m) = Units(q) + lot.quantity
  <2> DEFINE v == [i \in 1..n |-> q[i].quantity]
             w == [i \in 1..(n + 1) |-> m[i].quantity]
  <2>1. \A k \in 1..n : v[k] \in Int /\ w[k] = v[k]
    BY <1>1, <1>2
  <2>2. w[n + 1] = lot.quantity /\ w[n + 1] \in Int
    BY <1>1, <1>3
  <2>3. Units(q) = SumOf(v) /\ Units(m) = SumOf(w)
    BY <1>1 DEF Units, Total
  <2>4. DOMAIN v = 1..n /\ DOMAIN w = 1..(n + 1)
    OBVIOUS
  <2> HIDE DEF v, w
  <2>5. SumOf(w) = SumOf(v) + w[n + 1]
    BY <1>1, <2>1, <2>2, <2>4, SumOfGrown
  <2> QED BY <2>2, <2>3, <2>5
<1>5. Basis(m) = Basis(q) + lot.quantity * lot.price
  <2> DEFINE v == [i \in 1..n |-> q[i].quantity * q[i].price]
             w == [i \in 1..(n + 1) |-> m[i].quantity * m[i].price]
  <2>1. \A k \in 1..n : v[k] \in Int /\ w[k] = v[k]
    BY <1>1, <1>2
  <2>2. w[n + 1] = lot.quantity * lot.price /\ w[n + 1] \in Int
    BY <1>1, <1>3
  <2>3. Basis(q) = SumOf(v) /\ Basis(m) = SumOf(w)
    BY <1>1 DEF Basis, Total
  <2>4. DOMAIN v = 1..n /\ DOMAIN w = 1..(n + 1)
    OBVIOUS
  <2> HIDE DEF v, w
  <2>5. SumOf(w) = SumOf(v) + w[n + 1]
    BY <1>1, <2>1, <2>2, <2>4, SumOfGrown
  <2> QED BY <2>2, <2>3, <2>5
<1> QED BY <1>4, <1>5 DEF m

\* A split keeps the cost basis; the model has it only where no price is rounded.
LEMMA AfterSplit ==
  ASSUME NEW s, lots[s] \in Seq(Lot), Divisible(s)
  PROVE  /\ SplitLots(s) \in Seq(Lot) /\ Len(SplitLots(s)) = Len(lots[s])
         /\ \A i \in 1..Len(lots[s]) : SplitLots(s)[i].bought = lots[s][i].bought
         /\ Units(SplitLots(s)) = Units(lots[s]) * Ratio
         /\ Basis(SplitLots(s)) = Basis(lots[s])
<1> DEFINE q == lots[s]
           m == SplitLots(s)
           n == Len(q)
<1>1. /\ n \in Nat /\ DOMAIN q = 1..n
      /\ m = [i \in 1..n |-> [q[i] EXCEPT !.quantity = q[i].quantity * Ratio,
                                         !.price = q[i].price \div Ratio]]
  BY DEF SplitLots
<1>0. n \in Nat
  OBVIOUS
<1>2. \A i \in 1..n : q[i] \in Lot /\ q[i].quantity \in Nat \ {0} /\ q[i].price \in Nat
  BY LotAt
<1>3. \A i \in 1..n : q[i].price % Ratio = 0
  BY <1>1 DEF Divisible
<1> HIDE DEF q, m, n
<1>4. ASSUME NEW i \in 1..n
      PROVE  /\ m[i] \in Lot /\ m[i].bought = q[i].bought
             /\ m[i].quantity = Ratio * q[i].quantity
             /\ m[i].quantity * m[i].price = q[i].quantity * q[i].price
  <2> DEFINE a == q[i].quantity
             b == q[i].price
             c == q[i].price \div Ratio
  <2>1. a \in Nat \ {0} /\ b \in Nat /\ Ratio \in Nat \ {0} /\ b % Ratio = 0
    BY <1>2, <1>3, BacktestAssumption
  <2>2. c \in Nat /\ b = Ratio * c
    BY <2>1
  <2>3. m[i] = [q[i] EXCEPT !.quantity = a * Ratio, !.price = c]
    BY <1>1
  <2> HIDE DEF a, b, c
  <2>4. a * Ratio \in Nat \ {0} /\ a * Ratio = Ratio * a
    BY <2>1
  <2>5. m[i] \in Lot /\ m[i].bought = q[i].bought /\ m[i].quantity = a * Ratio /\ m[i].price = c
    BY <1>2, <2>2, <2>3, <2>4 DEF Lot
  <2>6. (a * Ratio) * c = a * b
    BY <2>1, <2>2
  <2> QED BY <2>4, <2>5, <2>6 DEF a, b
<1>5. m \in Seq(Lot) /\ Len(m) = n /\ DOMAIN m = 1..n
  <2>1. DOMAIN m = 1..n /\ m = [i \in 1..n |-> m[i]]
    BY <1>1
  <2>2. \A i \in 1..n : m[i] \in Lot
    BY <1>4
  <2>3. m \in [1..n -> Lot]
    BY <2>1, <2>2
  <2>4. n \in Nat
    BY <1>1
  <2> QED BY <2>3, <2>4
<1>6. Units(m) = Units(q) * Ratio
  <2> DEFINE v == [i \in 1..n |-> q[i].quantity]
             w == [i \in 1..n |-> m[i].quantity]
  <2>1. \A k \in 1..n : v[k] \in Int /\ w[k] = Ratio * v[k]
    BY <1>2, <1>4
  <2>2. Units(q) = SumOver(v, 1..n) /\ Units(m) = SumOver(w, 1..n)
    BY <1>1, <1>5 DEF Units, Total, SumOf
  <2> HIDE DEF v, w
  <2>3. SumOver(w, 1..n) = Ratio * SumOver(v, 1..n) /\ SumOver(v, 1..n) \in Int /\ Ratio \in Int
    <3>1. IsFiniteSet(1..n) /\ Ratio \in Int
      <4>1. IsFiniteSet(1..n)
        BY <1>0, FS_Interval
      <4>2. Ratio \in Int
        BY BacktestAssumption
      <4> QED BY <4>1, <4>2
    <3>2. SumOver(w, 1..n) = Ratio * SumOver(v, 1..n)
      BY <2>1, <3>1, SumOverTimes
    <3>3. SumOver(v, 1..n) \in Int
      BY <2>1, <3>1, SumOverInt
    <3> QED BY <3>1, <3>2, <3>3
  <2> QED BY <2>2, <2>3
<1>7. Basis(m) = Basis(q)
  <2> DEFINE v == [i \in 1..n |-> q[i].quantity * q[i].price]
             w == [i \in 1..n |-> m[i].quantity * m[i].price]
  <2>1. v = w
    BY <1>4
  <2>2. Basis(q) = SumOf(v) /\ Basis(m) = SumOf(w)
    BY <1>1, <1>5 DEF Basis, Total
  <2> HIDE DEF v, w
  <2> QED BY <2>1, <2>2
<1> QED BY <1>4, <1>5, <1>6, <1>7 DEF q, m, n

-----------------------------------------------------------------------------
(* The type of every variable.                                             *)

LEMMA RealizedGainInt ==
  ASSUME NEW q \in Seq(Lot), NEW n \in Nat, NEW p \in Int
  PROVE  RealizedGain(q, n, p) \in Int
<1> DEFINE g == [i \in 1..Len(q) |-> (p - q[i].price) * Taken(q, n, i)]
<1>1. RealizedGain(q, n, p) = SumOver(g, 1..Len(q))
  <2>1. DOMAIN q = 1..Len(q)
    OBVIOUS
  <2> QED BY <2>1 DEF RealizedGain, SumOf
<1>2. ASSUME NEW i \in 1..Len(q) PROVE g[i] \in Int
  <2>1. Taken(q, n, i) \in 0..q[i].quantity /\ q[i].quantity \in Nat /\ q[i].price \in Nat
    BY TakenIs, LotAt
  <2> QED BY <2>1
<1> HIDE DEF g
<1>3. IsFiniteSet(1..Len(q))
  BY FS_Interval
<1> QED BY <1>1, <1>2, <1>3, SumOverInt

LEMMA TransactionCostNat ==
  ASSUME NEW side \in {"BUY", "SELL"}, NEW gross \in Nat
  PROVE  TransactionCost(side, gross) \in Nat
<1>1. FlatFee \in Nat /\ Rate[side] \in Nat
  BY BacktestAssumption
<1> DEFINE r == Rate[side]
<1>2. gross * r \in Nat
  <2> HIDE DEF r
  <2>1. r \in Nat
    BY <1>1 DEF r
  <2> QED BY <2>1
<1> QED BY <1>1, <1>2 DEF TransactionCost

LEMMA QueuedFields ==
  ASSUME NEW o \in Queued
  PROVE  /\ o.id \in Nat /\ o.symbol \in Symbol /\ o.side \in {"BUY", "SELL"} /\ o.limit \in Nat
         /\ o.quantity \in Nat \ {0} /\ o.decided \in Nat /\ o.target \in Nat /\ o.expiry \in Nat
BY DEF Queued

LEMMA OrderIs ==
  ASSUME BacktestType, pending # <<>>
  PROVE  Order \in Queued /\ Tail(pending) \in Seq(Queued)
<1>1. pending \in Seq(Queued)
  BY DEF BacktestType
<1> QED BY <1>1 DEF Order

LEMMA BarFields ==
  ASSUME NEW s \in Symbol, NEW b \in Bars[s]
  PROVE  /\ b.open \in Nat \ {0} /\ b.low \in Nat \ {0} /\ b.high \in Nat /\ b.close \in Nat \ {0}
         /\ b.cap \in Nat /\ b.low <= b.high
<1>1. b \in [open: Nat, low: Nat, high: Nat, close: Nat, cap: Nat]
  BY BacktestAssumption
<1>2. b.open > 0 /\ b.low > 0 /\ b.high >= b.low /\ b.close > 0
  BY BacktestAssumption
<1> QED BY <1>1, <1>2

\* What try_fill returns.
LEMMA FillFacts ==
  ASSUME BacktestType, Due, Fillable
  PROVE  /\ Order \in Queued /\ Tail(pending) \in Seq(Queued) /\ Today \in Bars[Order.symbol]
         /\ FillQuantity(Order, Today) \in Nat \ {0}
         /\ FillQuantity(Order, Today) <= Order.quantity
         /\ FillPrice(Order, Today) \in Nat \ {0}
<1>1. Order \in Queued /\ Tail(pending) \in Seq(Queued)
  BY OrderIs DEF Due
<1>2. Today \in Bars[Order.symbol]
  BY <1>1, QueuedFields DEF Fillable, Today, BacktestType
<1> DEFINE o == Order
           b == Today
<1>3. /\ o.side \in {"BUY", "SELL"} /\ o.limit \in Nat /\ o.quantity \in Nat \ {0}
      /\ b.open \in Nat \ {0} /\ b.low \in Nat \ {0} /\ b.high \in Nat /\ b.cap \in Nat
      /\ FillPrice(o, b) > 0 /\ FillQuantity(o, b) > 0
  BY <1>1, <1>2, QueuedFields, BarFields DEF Fillable
<1> HIDE DEF o, b
<1>4. FillQuantity(o, b) \in Nat \ {0} /\ FillQuantity(o, b) <= o.quantity
  BY <1>3 DEF FillQuantity
<1>5. FillPrice(o, b) \in Nat \ {0}
  BY <1>3 DEF FillPrice
<1> QED BY <1>1, <1>2, <1>4, <1>5 DEF o, b

LEMMA TypeInit == Init => BacktestType
<1>1. Capital \in Nat \ {0}
  BY BacktestAssumption
<1> QED BY <1>1 DEF Init, BacktestType, Unknown

LEMMA AdvanceType ==
  ASSUME BacktestType, NEW days \in 1..MaxGap, NEW printed \in Printed, Advance(days, printed)
  PROVE  BacktestType'
<1>1. /\ date' = date + days /\ date \in Nat /\ bar' = printed /\ phase' = "actions"
      /\ acted' = 0
      /\ last' = [s \in Symbol |-> IF printed[s] = NoBar THEN last[s]
                                   ELSE [price |-> printed[s].close, date |-> date']]
      /\ UNCHANGED <<pending, kept, portfolio, output>>
  BY DEF Advance, After, BacktestType
<1>2. DOMAIN printed = Symbol /\ \A s \in Symbol : printed[s] = NoBar \/ printed[s] \in Bars[s]
  BY DEF Printed
<1>3. date' \in Nat
  BY <1>1
<1>4. last' \in [Symbol -> [price: Nat, date: Nat]]
  <2>1. ASSUME NEW s \in Symbol, printed[s] # NoBar PROVE printed[s].close \in Nat
    BY <2>1, <1>2, BarFields
  <2>2. last \in [Symbol -> [price: Nat, date: Nat]]
    BY DEF BacktestType
  <2> QED BY <1>1, <1>3, <2>1, <2>2
<1> QED BY <1>1, <1>2, <1>3, <1>4 DEF BacktestType, portfolio, output

LEMMA ActionsType ==
  ASSUME BacktestType, ActionsDone \/ \E s \in Symbol : PayDividend(s) \/ Split(s)
  PROVE  BacktestType'
<1>1. CASE ActionsDone
  BY <1>1 DEF ActionsDone, After, BacktestType, market, portfolio, output
<1>2. ASSUME NEW s \in Symbol, PayDividend(s) PROVE BacktestType'
  <2>1. position[s] \in Nat /\ Dividend \in Nat /\ date \in Nat
    BY BacktestAssumption DEF BacktestType
  <2>2. position[s] * Dividend \in Nat
    BY <2>1
  <2> DEFINE r == [date |-> date, symbol |-> s, quantity |-> position[s],
                   credited |-> position[s] * Dividend]
  <2>3. r \in Receipt
    BY <2>1, <2>2 DEF Receipt
  <2>4. receipts' = Append(receipts, r) /\ receipts \in Seq(Receipt)
    BY <1>2 DEF PayDividend, BacktestType
  <2>5. receipts' \in Seq(Receipt)
    <3> HIDE DEF r
    <3> QED BY <2>3, <2>4
  <2>6. cash' \in Int
    BY <1>2, <2>2 DEF PayDividend, BacktestType
  <2> QED BY <1>2, <2>5, <2>6 DEF PayDividend, Acts, BacktestType
<1>3. ASSUME NEW s \in Symbol, Split(s) PROVE BacktestType'
  <2>1. SplitLots(s) \in Seq(Lot)
    BY <1>3, AfterSplit DEF Split, BacktestType
  <2>2. position[s] * Ratio \in Nat
    <3>1. position[s] \in Nat /\ Ratio \in Nat
      BY BacktestAssumption DEF BacktestType
    <3> QED BY <3>1
  <2>3. position' \in [Symbol -> Nat]
    BY <1>3, <2>2 DEF Split, BacktestType
  <2>4. lots' \in [Symbol -> Seq(Lot)]
    BY <1>3, <2>1 DEF Split, BacktestType
  <2> QED BY <1>3, <2>3, <2>4 DEF Split, Acts, BacktestType, output
<1> QED BY <1>1, <1>2, <1>3

LEMMA WaitType ==
  ASSUME BacktestType, WaitForBar \/ WaitForPrice
  PROVE  BacktestType'
<1>1. Due /\ Keep
  BY DEF WaitForBar, WaitForPrice
<1>2. Order \in Queued /\ Tail(pending) \in Seq(Queued)
  BY <1>1, OrderIs DEF Due
<1>3. kept' \in Seq(Queued)
  BY <1>1, <1>2 DEF Keep, BacktestType
<1> QED BY <1>1, <1>2, <1>3 DEF Keep, BacktestType, market, portfolio, output

LEMMA DropType ==
  ASSUME BacktestType, ExpireWithoutBar \/ ExpireUnfilled \/ RejectUnaffordable
  PROVE  BacktestType'
<1>1. Due /\ Drop
  BY DEF ExpireWithoutBar, ExpireUnfilled, RejectUnaffordable
<1>2. Order \in Queued /\ Tail(pending) \in Seq(Queued)
  BY <1>1, OrderIs DEF Due
<1> DEFINE r == [order |-> Order.id, quantity |-> Order.quantity]
<1>3. r \in [order: Nat, quantity: Nat]
  BY <1>2, QueuedFields
<1>4. rejected' = Append(rejected, r) /\ rejected \in Seq([order: Nat, quantity: Nat])
  BY <1>1 DEF Drop, Reject, BacktestType
<1>5. rejected' \in Seq([order: Nat, quantity: Nat])
  <2> HIDE DEF r
  <2> QED BY <1>3, <1>4
<1> QED BY <1>1, <1>2, <1>5 DEF Drop, BacktestType, market, portfolio

LEMMA FillType ==
  ASSUME BacktestType, Fill
  PROVE  BacktestType'
<1> DEFINE o == Order
           n == FillQuantity(Order, Today)
           p == FillPrice(Order, Today)
<1>1. Due /\ Fillable
  BY DEF Fill
<1>2. /\ o \in Queued /\ Tail(pending) \in Seq(Queued)
      /\ n \in Nat \ {0} /\ n <= o.quantity /\ p \in Nat \ {0}
  BY <1>1, FillFacts
<1>3. /\ CanAfford(o, n, p)
      /\ IF o.side = "BUY" THEN Buy(o, n, p) ELSE Sell(o, n, p)
      /\ trades' = Append(trades, Trade(o, n, p))
      /\ Remainder(o, n)
      /\ UNCHANGED <<market, phase, receipts, equity, warned, orders>>
  BY DEF Fill
<1> HIDE DEF o, n, p
<1>4. /\ o.symbol \in Symbol /\ o.side \in {"BUY", "SELL"} /\ o.quantity \in Nat
      /\ lots[o.symbol] \in Seq(Lot) /\ position[o.symbol] \in Nat /\ date \in Nat /\ cash \in Int
  BY <1>2, QueuedFields DEF BacktestType
<1>5. n * p \in Nat
  BY <1>2
<1>6. cash' \in Int /\ position' \in [Symbol -> Nat] /\ lots' \in [Symbol -> Seq(Lot)]
  <2>1. CASE o.side = "BUY"
    <3>1. Buy(o, n, p) /\ TransactionCost("BUY", n * p) \in Nat
      BY <1>3, <1>5, <2>1, TransactionCostNat
    <3>2. [bought |-> date, quantity |-> n, price |-> p] \in Lot
      BY <1>2, <1>4 DEF Lot
    <3>3. cash' \in Int
      BY <1>4, <1>5, <3>1 DEF Buy
    <3>4. position[o.symbol] + n \in Nat
      BY <1>2, <1>4
    <3>5. Append(lots[o.symbol], [bought |-> date, quantity |-> n, price |-> p]) \in Seq(Lot)
      BY <1>4, <3>2, AppendIs
    <3> QED BY <3>1, <3>3, <3>4, <3>5 DEF Buy, BacktestType
  <2>2. CASE o.side = "SELL"
    <3>1. Sell(o, n, p) /\ TransactionCost("SELL", n * p) \in Nat
      BY <1>3, <1>5, <2>2, TransactionCostNat
    <3>2. MatchSell(lots[o.symbol], n) \in Seq(Lot)
      BY <1>2, <1>4, MatchSellIs
    <3>3. cash' \in Int
      BY <1>4, <1>5, <3>1 DEF Sell
    <3>4. position[o.symbol] - n \in Nat
      BY <1>2, <1>3, <1>4, <2>2 DEF CanAfford
    <3> QED BY <3>1, <3>2, <3>3, <3>4 DEF Sell, BacktestType
  <2> QED BY <1>4, <2>1, <2>2
<1>7. trades' \in Seq(Executed)
  <2>1. Trade(o, n, p) \in Executed
    <3>1. TransactionCost(o.side, n * p) \in Nat
      BY <1>4, <1>5, TransactionCostNat
    <3>2. RealizedGain(lots[o.symbol], n, p) \in Int
      <4>1. n \in Nat /\ p \in Int /\ lots[o.symbol] \in Seq(Lot)
        BY <1>2, <1>4
      <4> QED BY <4>1, RealizedGainInt
    <3>3. o.id \in Nat /\ o.decided \in Nat
      BY <1>2, QueuedFields
    <3> QED BY <1>2, <1>4, <3>1, <3>2, <3>3 DEF Trade, Executed
  <2> QED BY <1>3, <2>1 DEF BacktestType
<1>8. /\ pending' \in Seq(Queued) /\ kept' \in Seq(Queued)
      /\ rejected' \in Seq([order: Nat, quantity: Nat])
  <2>1. pending' \in Seq(Queued)
    <3>1. pending' = Tail(pending)
      BY <1>3 DEF Remainder
    <3> QED BY <1>2, <3>1
  <2>2. CASE o.quantity = n
    BY <1>3, <2>1, <2>2 DEF Remainder, BacktestType
  <2>3. CASE o.quantity # n /\ date < o.expiry
    <3> DEFINE x == [o EXCEPT !.quantity = o.quantity - n, !.target = date + 1]
    <3>1. x \in Queued
      <4>1. o.quantity - n \in Nat \ {0} /\ date + 1 \in Nat
        BY <1>2, <1>4, <2>3
      <4> QED BY <1>2, <4>1 DEF Queued
    <3>2. kept' = Append(kept, x) /\ UNCHANGED rejected
      BY <1>3, <2>3 DEF Remainder
    <3> HIDE DEF x
    <3> QED BY <2>1, <3>1, <3>2 DEF BacktestType
  <2>4. CASE o.quantity # n /\ ~(date < o.expiry)
    <3> DEFINE x == [order |-> o.id, quantity |-> o.quantity]
    <3>1. x \in [order: Nat, quantity: Nat]
      BY <1>2, QueuedFields
    <3>2. rejected' = Append(rejected, x) /\ UNCHANGED kept
      BY <1>3, <2>4 DEF Remainder, Reject
    <3> HIDE DEF x
    <3> QED BY <2>1, <3>1, <3>2 DEF BacktestType
  <2> QED BY <2>2, <2>3, <2>4
<1> QED BY <1>3, <1>6, <1>7, <1>8 DEF BacktestType, market

LEMMA ValueInt ==
  ASSUME BacktestType
  PROVE  Value(position, last) \in Int
<1> DEFINE v == [s \in Symbol |-> position[s] * last[s].price]
<1>1. ASSUME NEW s \in Symbol PROVE v[s] \in Int
  <2>1. position[s] \in Nat /\ last[s].price \in Nat
    BY DEF BacktestType
  <2> QED BY <2>1
<1> HIDE DEF v
<1>2. SumOver(v, Symbol) \in Int
  BY <1>1, SumOverInt, BacktestAssumption
<1> QED BY <1>2 DEF Value, v

LEMMA DayEndType ==
  ASSUME BacktestType, FillsDone \/ Mark \/ DayDone \/ Finish
  PROVE  BacktestType'
<1>1. CASE FillsDone
  <2>1. kept' \in Seq(Queued)
    BY <1>1 DEF FillsDone
  <2> QED BY <1>1, <2>1 DEF FillsDone, After, BacktestType, market, portfolio, output
<1>2. CASE Mark
  <2>1. equity' \in Int
    BY <1>2, ValueInt DEF Mark, BacktestType
  <2>2. warned' \in [Symbol -> Int]
    <3>1. ASSUME NEW s \in Symbol PROVE date - last[s].date \in Int /\ warned[s] \in Int
      BY DEF BacktestType
    <3> QED BY <1>2, <3>1 DEF Mark
  <2> QED BY <1>2, <2>1, <2>2 DEF Mark, After, BacktestType, market, portfolio
<1>3. CASE DayDone
  BY <1>3 DEF DayDone, After, BacktestType, market, portfolio, output
<1>4. CASE Finish
  <2> DEFINE x == [i \in DOMAIN pending |->
                     [order |-> pending[i].id, quantity |-> pending[i].quantity]]
  <2>1. x \in Seq([order: Nat, quantity: Nat])
    <3>1. DOMAIN pending = 1..Len(pending) /\ Len(pending) \in Nat
      BY DEF BacktestType
    <3>2. ASSUME NEW i \in 1..Len(pending) PROVE x[i] \in [order: Nat, quantity: Nat]
      <4>1. pending[i] \in Queued
        BY DEF BacktestType
      <4> QED BY <3>1, <4>1, QueuedFields
    <3>3. x = [i \in 1..Len(pending) |-> x[i]]
      BY <3>1
    <3> HIDE DEF x
    <3> QED BY <3>1, <3>2, <3>3
  <2>2. rejected' = rejected \o x /\ rejected \in Seq([order: Nat, quantity: Nat])
    BY <1>4 DEF Finish, BacktestType
  <2>3. rejected' \in Seq([order: Nat, quantity: Nat])
    <3> HIDE DEF x
    <3> QED BY <2>1, <2>2
  <2>4. pending' \in Seq(Queued)
    BY <1>4 DEF Finish
  <2> QED BY <1>4, <2>3, <2>4 DEF Finish, BacktestType, market, portfolio
<1> QED BY <1>1, <1>2, <1>3, <1>4

LEMMA DecideType ==
  ASSUME BacktestType, NEW intent \in Intents, Decide(intent)
  PROVE  BacktestType' /\ Queue(intent) \in Queued
<1>1. intent \in [symbol: Symbol, side: {"BUY", "SELL"}, limit: Nat, quantity: Nat \ {0}]
  BY BacktestAssumption
<1>2. Queue(intent) \in Queued
  <2>1. Len(orders) + 1 \in Nat /\ date \in Nat /\ date + 1 \in Nat /\ date + ExpiryDays \in Nat
    <3>1. ExpiryDays \in Nat
      BY BacktestAssumption
    <3>2. orders \in Seq(Queued) /\ date \in Nat
      BY DEF BacktestType
    <3>3. Len(orders) \in Nat
      BY <3>2
    <3> QED BY <3>1, <3>2, <3>3
  <2> QED BY <1>1, <2>1 DEF Queue, Queued
<1>3. pending' \in Seq(Queued) /\ orders' \in Seq(Queued)
  BY <1>2 DEF Decide, BacktestType
<1> QED BY <1>2, <1>3 DEF Decide, BacktestType, market, portfolio

LEMMA TypeStep == BacktestType /\ [Next]_vars => BacktestType'
<1> SUFFICES ASSUME BacktestType, [Next]_vars PROVE BacktestType'
  OBVIOUS
<1>1. CASE Next
  BY <1>1, AdvanceType, ActionsType, WaitType, DropType, FillType, DayEndType, DecideType DEF Next
<1>2. CASE UNCHANGED vars
  BY <1>2 DEF vars, market, portfolio, output, BacktestType
<1> QED BY <1>1, <1>2

\* Every variable keeps its shape; no position is ever negative, no tax lot
\* empty, and no order has nothing left to fill.
THEOREM BacktestTypeCorrect == Spec => []BacktestType
BY TypeInit, TypeStep, PTL DEF Spec

-----------------------------------------------------------------------------
(* No look-ahead.                                                          *)

\* Hypothesis: the bars passed the data quality checks, whose
\* check_ohlc_consistency has the open between low and high; the engine itself
\* checks only that low is not above high.
OpensInRange == \A s \in Symbol : \A b \in Bars[s] : b.low <= b.open /\ b.open <= b.high

\* No order still to be filled was decided on a later date, nor on the date the
\* fills are made.
DecidedBefore(q) ==
  \A i \in DOMAIN q : /\ q[i].decided <= date
                      /\ phase \in {"actions", "fills"} => q[i].decided < date

LookInv ==
  /\ NoLookAhead
  /\ \A i \in DOMAIN trades : trades[i].date <= date
  /\ DecidedBefore(pending) /\ DecidedBefore(kept)

LEMMA LookInit == Init => LookInv
BY DEF Init, LookInv, NoLookAhead, DecidedBefore

LEMMA LookAdvance ==
  ASSUME BacktestType, LookInv, NEW days \in 1..MaxGap, NEW printed \in Printed,
         Advance(days, printed)
  PROVE  LookInv'
<1>1. /\ date' = date + days /\ date \in Nat /\ days \in Nat /\ days > 0
      /\ UNCHANGED <<pending, kept, trades>>
  BY DEF Advance, BacktestType, output
<1>2. date' > date /\ date' \in Nat
  BY <1>1
<1>3. ASSUME NEW i \in DOMAIN trades
      PROVE  /\ trades[i].decided < trades[i].date /\ trades[i].date <= date
             /\ trades[i].date \in Nat
  <2>1. trades[i] \in Executed
    BY DEF BacktestType
  <2> QED BY <2>1 DEF LookInv, NoLookAhead, Executed
<1>4. NoLookAhead' /\ \A i \in DOMAIN trades' : trades'[i].date <= date'
  BY <1>1, <1>2, <1>3 DEF NoLookAhead
<1>5. ASSUME NEW q \in Seq(Queued), DecidedBefore(q), NEW i \in DOMAIN q
      PROVE  q[i].decided <= date' /\ q[i].decided < date'
  <2>1. q[i] \in Queued
    OBVIOUS
  <2>2. q[i].decided \in Nat /\ q[i].decided <= date
    BY <1>5, <2>1, QueuedFields DEF DecidedBefore
  <2> QED BY <1>1, <1>2, <2>2
<1>6. DecidedBefore(pending)' /\ DecidedBefore(kept)'
  <2>1. pending \in Seq(Queued) /\ kept \in Seq(Queued) /\ DecidedBefore(pending) /\ DecidedBefore(kept)
    BY DEF BacktestType, LookInv
  <2>2. \A i \in DOMAIN pending : pending[i].decided <= date' /\ pending[i].decided < date'
    BY <1>5, <2>1
  <2>3. \A i \in DOMAIN kept : kept[i].decided <= date' /\ kept[i].decided < date'
    BY <1>5, <2>1
  <2> QED BY <1>1, <2>2, <2>3 DEF DecidedBefore
<1> QED BY <1>4, <1>6 DEF LookInv

LEMMA LookFill ==
  ASSUME OpensInRange, BacktestType, LookInv, Fill
  PROVE  LookInv'
<1> DEFINE o == Order
           b == Today
           n == FillQuantity(Order, Today)
           p == FillPrice(Order, Today)
           t == Trade(o, n, p)
<1>1. Due /\ Fillable /\ phase = "fills" /\ pending # <<>>
  BY DEF Fill, Due
<1>2. /\ o \in Queued /\ o.symbol \in Symbol /\ o.side \in {"BUY", "SELL"}
      /\ o.limit \in Nat /\ o.decided \in Nat
      /\ b \in Bars[o.symbol] /\ b = bar[o.symbol] /\ p \in Nat \ {0} /\ n \in Nat
      /\ b.open \in Nat /\ b.low \in Nat /\ b.high \in Nat
      /\ b.low <= b.open /\ b.open <= b.high
  <2>1. o \in Queued /\ b \in Bars[o.symbol] /\ p \in Nat \ {0} /\ n \in Nat
    BY <1>1, FillFacts
  <2>2. o.symbol \in Symbol
    BY <2>1, QueuedFields
  <2> QED BY <2>1, <2>2, QueuedFields, BarFields DEF OpensInRange, Today
<1>3. trades' = Append(trades, t) /\ Remainder(o, n) /\ UNCHANGED <<market, phase>>
  BY DEF Fill
<1>4. t.date = date /\ t.decided = o.decided /\ t.price = p /\ t.symbol = o.symbol
  BY DEF Trade
<1>5. p \in (b.low)..(b.high)
  <2>1. p > 0 /\ p = FillPrice(o, b)
    BY <1>2
  <2> HIDE DEF o, b, p
  <2> QED BY <1>2, <2>1 DEF FillPrice
<1>6. o.decided < date
  <2>1. pending \in Seq(Queued)
    BY DEF BacktestType
  <2>2. 1 \in DOMAIN pending /\ o = pending[1]
    BY <1>1, <2>1 DEF Order
  <2> QED BY <1>1, <2>2 DEF LookInv, DecidedBefore
<1>7. trades \in Seq(Executed) /\ date \in Nat /\ pending \in Seq(Queued) /\ kept \in Seq(Queued)
  BY DEF BacktestType
<1>8. date' = date /\ bar' = bar /\ phase' = phase
  BY <1>3 DEF market
<1> HIDE DEF t, o, b, n, p
<1>9. ASSUME NEW i \in DOMAIN trades'
      PROVE  trades'[i] = t \/ (i \in DOMAIN trades /\ trades'[i] = trades[i])
  BY <1>3, <1>7
<1>10. NoLookAhead' /\ \A i \in DOMAIN trades' : trades'[i].date <= date'
  <2>1. ASSUME NEW i \in DOMAIN trades'
        PROVE  /\ trades'[i].decided < trades'[i].date
               /\ trades'[i].date = date' =>
                    trades'[i].price \in (bar'[trades'[i].symbol].low)..(bar'[trades'[i].symbol].high)
               /\ trades'[i].date <= date'
    <3>1. CASE trades'[i] = t
      BY <1>2, <1>4, <1>5, <1>6, <1>7, <1>8, <3>1
    <3>2. CASE i \in DOMAIN trades /\ trades'[i] = trades[i]
      BY <1>8, <3>2 DEF LookInv, NoLookAhead
    <3> QED BY <1>9, <3>1, <3>2
  <2> QED BY <2>1 DEF NoLookAhead
<1>11. DecidedBefore(pending)'
  <2>1. pending' = Tail(pending)
    BY <1>3 DEF Remainder
  <2>2. \A i \in DOMAIN pending' : i + 1 \in DOMAIN pending /\ pending'[i] = pending[i + 1]
    BY <1>1, <1>7, <2>1
  <2> QED BY <1>8, <2>2 DEF LookInv, DecidedBefore
<1>12. DecidedBefore(kept)'
  <2>1. ASSUME NEW i \in DOMAIN kept'
        PROVE  kept'[i].decided = o.decided \/ (i \in DOMAIN kept /\ kept'[i] = kept[i])
    <3>1. CASE kept' = kept
      BY <3>1
    <3>2. CASE kept' = Append(kept, [o EXCEPT !.quantity = o.quantity - n, !.target = date + 1])
      <4> DEFINE x == [o EXCEPT !.quantity = o.quantity - n, !.target = date + 1]
      <4>1. x.decided = o.decided
        BY <1>2 DEF Queued
      <4>2. kept' = Append(kept, x)
        BY <3>2
      <4> HIDE DEF x
      <4> QED BY <1>7, <4>1, <4>2
    <3> QED BY <1>3, <3>1, <3>2 DEF Remainder
  <2>2. o.decided <= date
    BY <1>2, <1>6, <1>7
  <2> QED BY <1>6, <1>8, <2>1, <2>2 DEF LookInv, DecidedBefore
<1> QED BY <1>10, <1>11, <1>12 DEF LookInv

LEMMA LookStep == OpensInRange /\ BacktestType /\ LookInv /\ [Next]_vars => LookInv'
<1> SUFFICES ASSUME OpensInRange, BacktestType, LookInv, [Next]_vars PROVE LookInv'
  OBVIOUS
<1>0. /\ pending \in Seq(Queued) /\ kept \in Seq(Queued) /\ date \in Nat
      /\ \A i \in DOMAIN pending : pending[i].decided \in Nat
      /\ \A i \in DOMAIN kept : kept[i].decided \in Nat
  <2>1. \A q \in Seq(Queued) : \A i \in DOMAIN q : q[i].decided \in Nat
    <3>1. ASSUME NEW q \in Seq(Queued), NEW i \in DOMAIN q PROVE q[i].decided \in Nat
      <4>1. q[i] \in Queued
        OBVIOUS
      <4> QED BY <4>1, QueuedFields
    <3> QED BY <3>1
  <2> QED BY <2>1 DEF BacktestType
<1>1. ASSUME NEW days \in 1..MaxGap, NEW printed \in Printed, Advance(days, printed) PROVE LookInv'
  BY <1>1, LookAdvance
<1>2. CASE ActionsDone \/ \E s \in Symbol : PayDividend(s) \/ Split(s)
  <2>1. /\ UNCHANGED <<date, bar, trades, pending, kept>>
        /\ phase = "actions" /\ phase' \in {"actions", "fills"}
    BY <1>2 DEF ActionsDone, PayDividend, Split, Acts, After, market, output
  <2> QED BY <2>1 DEF LookInv, NoLookAhead, DecidedBefore
<1>3. CASE WaitForBar \/ WaitForPrice
  <2>1. /\ UNCHANGED <<date, bar, trades, phase>> /\ pending # <<>>
        /\ kept' = Append(kept, Order) /\ pending' = Tail(pending)
    BY <1>3 DEF WaitForBar, WaitForPrice, Due, Keep, market, output
  <2>2. Order = pending[1] /\ 1 \in DOMAIN pending
    BY <1>0, <2>1 DEF Order
  <2>3. \A i \in DOMAIN pending' : i + 1 \in DOMAIN pending /\ pending'[i] = pending[i + 1]
    BY <1>0, <2>1
  <2>4. \A i \in DOMAIN kept' : kept'[i] = Order \/ (i \in DOMAIN kept /\ kept'[i] = kept[i])
    BY <1>0, <2>1
  <2> QED BY <2>1, <2>2, <2>3, <2>4 DEF LookInv, NoLookAhead, DecidedBefore
<1>4. CASE ExpireWithoutBar \/ ExpireUnfilled \/ RejectUnaffordable
  <2>1. /\ UNCHANGED <<date, bar, trades, phase, kept>> /\ pending # <<>> /\ pending' = Tail(pending)
    BY <1>4 DEF ExpireWithoutBar, ExpireUnfilled, RejectUnaffordable, Due, Drop, market
  <2>2. \A i \in DOMAIN pending' : i + 1 \in DOMAIN pending /\ pending'[i] = pending[i + 1]
    BY <1>0, <2>1
  <2> QED BY <2>1, <2>2 DEF LookInv, NoLookAhead, DecidedBefore
<1>5. CASE Fill
  BY <1>5, LookFill
<1>6. CASE FillsDone \/ Mark \/ DayDone \/ Finish
  <2>1. /\ UNCHANGED <<date, bar, trades>> /\ phase' \notin {"actions", "fills"}
        /\ pending' \in {pending, kept, <<>>} /\ kept' \in {kept, <<>>}
    BY <1>6 DEF FillsDone, Mark, DayDone, Finish, After, market, output
  <2> QED BY <2>1 DEF LookInv, NoLookAhead, DecidedBefore
<1>7. ASSUME NEW intent \in Intents, Decide(intent) PROVE LookInv'
  <2>1. /\ UNCHANGED <<date, bar, trades, kept>> /\ phase' \notin {"actions", "fills"}
        /\ pending' = Append(pending, Queue(intent)) /\ Queue(intent).decided = date
    BY <1>7 DEF Decide, Queue, market
  <2>2. \A i \in DOMAIN pending' : \/ pending'[i] = Queue(intent)
                                   \/ i \in DOMAIN pending /\ pending'[i] = pending[i]
    BY <1>0, <2>1
  <2> QED BY <1>0, <2>1, <2>2 DEF LookInv, NoLookAhead, DecidedBefore
<1>8. CASE UNCHANGED vars
  BY <1>8 DEF vars, market, output, LookInv, NoLookAhead, DecidedBefore
<1> QED BY <1>1, <1>2, <1>3, <1>4, <1>5, <1>6, <1>7, <1>8 DEF Next

\* No look-ahead: with bars that passed the checks, every trade is of an order
\* of an earlier date and at a price inside that date's bar.
THEOREM NeverLooksAhead ==
  ASSUME OpensInRange
  PROVE  Spec => []NoLookAhead
<1>1. Init => BacktestType /\ LookInv
  BY TypeInit, LookInit
<1>2. BacktestType /\ LookInv /\ [Next]_vars => BacktestType' /\ LookInv'
  BY TypeStep, LookStep
<1>3. LookInv => NoLookAhead
  BY DEF LookInv
<1> QED BY <1>1, <1>2, <1>3, PTL DEF Spec

-----------------------------------------------------------------------------
(* A log weighed entry by entry, and how it grows and shrinks.             *)

Weighed(a, q) == SumOf([i \in DOMAIN q |-> a[q[i]]])

LEMMA WeighedEmpty ==
  ASSUME NEW a
  PROVE  Weighed(a, <<>>) = 0
BY SumOfEmpty DEF Weighed

LEMMA WeighedAppend ==
  ASSUME NEW T, NEW q \in Seq(T), NEW x \in T, NEW a, \A y \in T : a[y] \in Int
  PROVE  Weighed(a, q) \in Int /\ Weighed(a, Append(q, x)) = Weighed(a, q) + a[x]
<1> DEFINE n == Len(q)
           m == Append(q, x)
           v == [i \in 1..n |-> a[q[i]]]
           w == [i \in 1..(n + 1) |-> a[m[i]]]
<1>1. /\ n \in Nat /\ Len(m) = n + 1 /\ m[n + 1] = x /\ \A k \in 1..n : m[k] = q[k]
      /\ DOMAIN q = 1..n /\ DOMAIN m = 1..(n + 1) /\ \A k \in 1..n : q[k] \in T
  BY AppendIs
<1> HIDE DEF m, n
<1>2. \A k \in 1..n : v[k] \in Int /\ w[k] = v[k]
  BY <1>1
<1>3. w[n + 1] = a[x] /\ w[n + 1] \in Int
  BY <1>1
<1>4. Weighed(a, q) = SumOf(v) /\ Weighed(a, m) = SumOf(w)
  BY <1>1 DEF Weighed
<1>5. DOMAIN v = 1..n /\ DOMAIN w = 1..(n + 1)
  OBVIOUS
<1> HIDE DEF v, w
<1>6. SumOf(v) \in Int /\ SumOf(w) = SumOf(v) + w[n + 1]
  BY <1>1, <1>2, <1>3, <1>5, SumOfGrown
<1> QED BY <1>3, <1>4, <1>6 DEF m

LEMMA WeighedTail ==
  ASSUME NEW T, NEW q \in Seq(T), q # <<>>, NEW a, \A y \in T : a[y] \in Int
  PROVE  Weighed(a, Tail(q)) \in Int /\ Weighed(a, q) = a[Head(q)] + Weighed(a, Tail(q))
<1> DEFINE n == Len(q) - 1
           m == Tail(q)
           v == [i \in 1..(n + 1) |-> a[q[i]]]
           w == [i \in 1..n |-> a[m[i]]]
<1>1. /\ n \in Nat /\ DOMAIN q = 1..(n + 1) /\ DOMAIN m = 1..n
      /\ \A k \in 1..n : m[k] = q[k + 1]
      /\ \A k \in 1..(n + 1) : q[k] \in T
      /\ Head(q) = q[1]
  OBVIOUS
<1> HIDE DEF m, n
<1>2. \A k \in 1..(n + 1) : v[k] \in Int
  BY <1>1
<1>3. \A k \in 1..n : w[k] = v[k + 1]
  BY <1>1
<1>4. Weighed(a, q) = SumOf(v) /\ Weighed(a, m) = SumOf(w)
  BY <1>1 DEF Weighed
<1>5. DOMAIN v = 1..(n + 1) /\ DOMAIN w = 1..n /\ v[1] = a[Head(q)]
  BY <1>1
<1> HIDE DEF v, w
<1>6. SumOf(w) \in Int /\ SumOf(v) = v[1] + SumOf(w)
  BY <1>1, <1>2, <1>3, <1>5, SumOfShrunk
<1> QED BY <1>4, <1>5, <1>6 DEF m

LEMMA WeighedNat ==
  ASSUME NEW T, NEW q \in Seq(T), NEW a, \A y \in T : a[y] \in Nat
  PROVE  Weighed(a, q) \in Nat /\ \A i \in 1..Len(q) : a[q[i]] <= Weighed(a, q)
<1> DEFINE n == Len(q)
           v == [i \in 1..n |-> a[q[i]]]
<1>1. IsFiniteSet(1..n) /\ DOMAIN q = 1..n
  BY FS_Interval
<1>2. \A i \in 1..n : v[i] \in Nat /\ v[i] = a[q[i]]
  OBVIOUS
<1>3. Weighed(a, q) = SumOver(v, 1..n)
  BY <1>1 DEF Weighed, SumOf
<1> HIDE DEF v, n
<1>4. SumOver(v, 1..n) \in Nat
  BY <1>1, <1>2, SumOverNat
<1>5. \A i \in 1..n : v[i] <= SumOver(v, 1..n)
  BY <1>1, <1>2, SumOverHas
<1> QED BY <1>2, <1>3, <1>4, <1>5 DEF n

LEMMA WeighedNone ==
  ASSUME NEW q, NEW T, q \in Seq(T), NEW a, \A i \in 1..Len(q) : a[q[i]] = 0
  PROVE  Weighed(a, q) = 0
<1> DEFINE n == Len(q)
           v == [i \in 1..n |-> a[q[i]]]
<1>1. IsFiniteSet(1..n) /\ DOMAIN q = 1..n
  BY FS_Interval
<1>2. \A i \in 1..n : v[i] = 0
  OBVIOUS
<1>3. Weighed(a, q) = SumOver(v, 1..n)
  BY <1>1 DEF Weighed, SumOf
<1> HIDE DEF v, n
<1> QED BY <1>1, <1>2, <1>3, SumOverNone

LEMMA WeighedConcat ==
  ASSUME NEW T, NEW q \in Seq(T), NEW x \in Seq(T), NEW a, \A y \in T : a[y] \in Int
  PROVE  Weighed(a, q \o x) = Weighed(a, q) + Weighed(a, x)
<1> DEFINE n == Len(q)
           m == Len(x)
           u == [i \in 1..(n + m) |-> a[(q \o x)[i]]]
           v == [i \in 1..n |-> a[q[i]]]
           w == [i \in 1..m |-> a[x[i]]]
<1>1. /\ n \in Nat /\ m \in Nat /\ DOMAIN q = 1..n /\ DOMAIN x = 1..m /\ DOMAIN (q \o x) = 1..(n + m)
      /\ \A k \in 1..n : (q \o x)[k] = q[k] /\ q[k] \in T
      /\ \A k \in 1..m : (q \o x)[n + k] = x[k] /\ x[k] \in T
      /\ \A k \in 1..(n + m) : (q \o x)[k] \in T
  OBVIOUS
<1>2. /\ Weighed(a, q \o x) = SumOver(u, 1..(n + m))
      /\ Weighed(a, q) = SumOver(v, 1..n) /\ Weighed(a, x) = SumOver(w, 1..m)
  BY <1>1 DEF Weighed, SumOf
<1> HIDE DEF n, m
<1>3. /\ \A k \in 1..(n + m) : u[k] \in Int
      /\ \A k \in 1..n : u[k] = v[k] /\ u[k] \in Int
      /\ \A k \in 1..m : w[k] = u[n + k]
  BY <1>1
<1> HIDE DEF u, v, w
<1>4. SumOver(u, 1..(n + m)) = SumOver(u, 1..n) + SumOver(w, 1..m)
  BY <1>1, <1>3, SumInParts, SMTT(60)
<1>5. SumOver(u, 1..n) = SumOver(v, 1..n)
  <2>1. IsFiniteSet(1..n)
    BY <1>1, FS_Interval
  <2> QED BY <1>3, <2>1, SumOverSame
<1> QED BY <1>2, <1>4, <1>5

\* A log weighed by ones and zeros counts its entries.
LEMMA WeighedCounts ==
  ASSUME NEW T, NEW q \in Seq(T), NEW a, \A y \in T : a[y] \in {0, 1},
         NEW ones, ones = {i \in DOMAIN q : a[q[i]] = 1}
  PROVE  IsFiniteSet(ones) /\ Cardinality(ones) = Weighed(a, q)
<1> DEFINE n == Len(q)
           v == [i \in 1..n |-> a[q[i]]]
<1>1. IsFiniteSet(1..n) /\ DOMAIN q = 1..n
  BY FS_Interval
<1>2. \A i \in 1..n : v[i] \in {0, 1} /\ v[i] = a[q[i]]
  OBVIOUS
<1>3. Weighed(a, q) = SumOver(v, 1..n)
  BY <1>1 DEF Weighed, SumOf
<1>4. ones = {i \in 1..n : v[i] = 1} /\ ones \subseteq 1..n
  BY <1>1
<1> HIDE DEF v, n
<1>5. SumOver(v, 1..n) = Cardinality(ones)
  <2> DEFINE d == 1..n
  <2>1. IsFiniteSet(d) /\ (\A i \in d : v[i] \in {0, 1}) /\ ones = {i \in d : v[i] = 1}
    BY <1>1, <1>2, <1>4
  <2> HIDE DEF d
  <2>2. SumOver(v, d) = Cardinality(ones)
    BY <2>1, SumCounts
  <2> QED BY <2>2 DEF d
<1>6. IsFiniteSet(ones)
  BY <1>1, <1>4, FS_Subset
<1> QED BY <1>3, <1>5, <1>6

-----------------------------------------------------------------------------
(* Purchases are funded.                                                   *)

SellCost == [t \in Executed |-> IF t.side = "SELL" THEN t.cost ELSE 0]

LEMMA SellCosts ==
  ASSUME trades \in Seq(Executed)
  PROVE  Total(LAMBDA t : IF t.side = "SELL" THEN t.cost ELSE 0, trades) = Weighed(SellCost, trades)
<1>1. \A i \in DOMAIN trades : trades[i] \in Executed
  OBVIOUS
<1> QED BY <1>1 DEF Total, Weighed, SellCost

LEMMA SellCostNat == \A t \in Executed : SellCost[t] \in Nat /\ SellCost[t] \in Int
<1>1. \A t \in Executed : t.cost \in Nat
  BY DEF Executed
<1> QED BY <1>1 DEF SellCost

Funded == cash + Weighed(SellCost, trades) >= 0

LEMMA FundedFill ==
  ASSUME BacktestType, Funded, Fill
  PROVE  Funded'
<1> DEFINE o == Order
           n == FillQuantity(Order, Today)
           p == FillPrice(Order, Today)
           t == Trade(o, n, p)
           before == Weighed(SellCost, trades)
           after == Weighed(SellCost, trades')
<1>1. /\ Due /\ Fillable /\ CanAfford(o, n, p)
      /\ IF o.side = "BUY" THEN Buy(o, n, p) ELSE Sell(o, n, p)
      /\ trades' = Append(trades, t)
  BY DEF Fill
<1>2. /\ o \in Queued /\ o.side \in {"BUY", "SELL"} /\ n \in Nat /\ p \in Nat
  BY <1>1, FillFacts, QueuedFields
<1>3. n * p \in Nat
  BY <1>2
<1>4. TransactionCost(o.side, n * p) \in Nat
  BY <1>2, <1>3, TransactionCostNat
<1>5. t.side = o.side /\ t.cost = TransactionCost(o.side, n * p)
  BY DEF Trade
<1>6. trades \in Seq(Executed) /\ trades' \in Seq(Executed) /\ cash \in Int
  BY FillType DEF BacktestType
<1>7. t \in Executed
  <2>1. Len(trades') \in 1..Len(trades') /\ trades'[Len(trades')] = t
    <3> HIDE DEF t
    <3> QED BY <1>1, <1>6
  <2>2. trades'[Len(trades')] \in Executed
    BY <1>6, <2>1
  <2> QED BY <2>1, <2>2
<1> HIDE DEF t
<1>8. before \in Nat /\ after = before + SellCost[t]
  <2>1. before \in Nat
    BY <1>6, SellCostNat, WeighedNat
  <2>2. Weighed(SellCost, Append(trades, t)) = before + SellCost[t]
    BY <1>6, <1>7, SellCostNat, WeighedAppend
  <2> QED BY <1>1, <2>1, <2>2
<1>9. SellCost[t] = IF o.side = "SELL" THEN TransactionCost(o.side, n * p) ELSE 0
  BY <1>5, <1>7 DEF SellCost
<1> HIDE DEF before, after, o, n, p
<1>10. cash' + after >= 0
  <2>1. CASE o.side = "BUY"
    <3>1. cash' = cash - n * p - TransactionCost("BUY", n * p)
      BY <1>1, <2>1 DEF Buy
    <3>2. n * p + TransactionCost("BUY", n * p) <= cash
      BY <1>1, <2>1 DEF CanAfford
    <3>3. after = before
      BY <1>8, <1>9, <2>1
    <3> QED BY <1>3, <1>4, <1>6, <1>8, <2>1, <3>1, <3>2, <3>3
  <2>2. CASE o.side = "SELL"
    <3>1. cash' = cash + n * p - TransactionCost("SELL", n * p)
      BY <1>1, <2>2 DEF Sell
    <3>2. after = before + TransactionCost("SELL", n * p)
      BY <1>8, <1>9, <2>2
    <3>3. cash + before >= 0
      BY DEF Funded, before
    <3> QED BY <1>3, <1>4, <1>6, <1>8, <2>2, <3>1, <3>2, <3>3
  <2> QED BY <1>2, <2>1, <2>2
<1> QED BY <1>10 DEF Funded, after

LEMMA FundedStep == BacktestType /\ Funded /\ [Next]_vars => Funded'
<1> SUFFICES ASSUME BacktestType, Funded, [Next]_vars PROVE Funded'
  OBVIOUS
<1>1. CASE Fill
  BY <1>1, FundedFill
<1>2. ASSUME NEW s \in Symbol, PayDividend(s) PROVE Funded'
  <2>1. position[s] \in Nat /\ Dividend \in Nat /\ cash \in Int
    BY BacktestAssumption DEF BacktestType
  <2>2. position[s] * Dividend \in Nat
    BY <2>1
  <2>3. cash' = cash + position[s] * Dividend /\ trades' = trades
    BY <1>2 DEF PayDividend
  <2>4. Weighed(SellCost, trades) \in Nat
    BY SellCostNat, WeighedNat DEF BacktestType
  <2> QED BY <2>1, <2>2, <2>3, <2>4 DEF Funded
<1>3. CASE UNCHANGED <<cash, trades>>
  BY <1>3 DEF Funded
<1>4. CASE /\ ~Fill /\ ~\E s \in Symbol : PayDividend(s)
           /\ Next
  <2>1. UNCHANGED <<cash, trades>>
    BY <1>4 DEF Next, Advance, ActionsDone, Split, Acts, WaitForBar, WaitForPrice, Keep, ExpireWithoutBar,
                ExpireUnfilled, RejectUnaffordable, Drop, FillsDone, Mark, Decide, DayDone, Finish,
                portfolio, output
  <2> QED BY <2>1, <1>3
<1>5. CASE UNCHANGED vars
  BY <1>3, <1>5 DEF vars, portfolio, output
<1> QED BY <1>1, <1>2, <1>4, <1>5

\* Purchases are only made with money that is there: whatever bars, intents and
\* corporate actions the run meets, cash is short by no more than sales cost.
THEOREM PurchasesAreFunded == Spec => []BuysAreFunded
<1>1. Init => BacktestType /\ Funded
  <2>1. SUFFICES ASSUME Init PROVE Funded
    BY TypeInit
  <2>2. Weighed(SellCost, trades) = 0 /\ cash = Capital
    BY <2>1, WeighedEmpty DEF Init
  <2> QED BY <2>2, BacktestAssumption DEF Funded
<1>2. BacktestType /\ Funded /\ [Next]_vars => BacktestType' /\ Funded'
  BY TypeStep, FundedStep
<1>3. BacktestType /\ Funded => BuysAreFunded
  BY SellCosts DEF BacktestType, Funded, BuysAreFunded
<1> QED BY <1>1, <1>2, <1>3, PTL DEF Spec

-----------------------------------------------------------------------------
(* Every unit ordered is accounted for.                                    *)

Rejection == [order: Nat, quantity: Nat]

FilledBy(id) == [t \in Executed |-> IF t.order = id THEN t.quantity ELSE 0]
UnitsFor(id) == [o \in Queued |-> IF o.id = id THEN o.quantity ELSE 0]
Asks(id)     == [o \in Queued |-> IF o.id = id THEN 1 ELSE 0]
Refuses(id)  == [r \in Rejection |-> IF r.order = id THEN 1 ELSE 0]

\* An order has one place at most, in a queue or among the rejected, and until
\* it is rejected what is filled and what is queued make up what was asked for.
\* A number no order has yet appears nowhere.
Balanced(id, filled, open, places, refused) ==
  IF id \in 1..Len(orders)
    THEN /\ places + refused <= 1
         /\ IF refused = 0 THEN filled + open = orders[id].quantity
                           ELSE filled < orders[id].quantity
    ELSE filled = 0 /\ places = 0 /\ refused = 0

Account(id) ==
  Balanced(id, Weighed(FilledBy(id), trades),
           Weighed(UnitsFor(id), pending) + Weighed(UnitsFor(id), kept),
           Weighed(Asks(id), pending) + Weighed(Asks(id), kept),
           Weighed(Refuses(id), rejected))

InTime ==
  /\ phase \in {"mark", "decide", "advance"} =>
       \A i \in DOMAIN pending : date <= pending[i].expiry
  /\ phase = "fills" => \A i \in DOMAIN kept : date <= kept[i].expiry
  /\ phase # "fills" => kept = <<>>

AccountInv == (\A id \in Nat : Account(id)) /\ InTime

LEMMA Counters ==
  ASSUME NEW id \in Nat
  PROVE  /\ \A t \in Executed : FilledBy(id)[t] \in Nat
                                /\ FilledBy(id)[t] = IF t.order = id THEN t.quantity ELSE 0
         /\ \A o \in Queued : /\ UnitsFor(id)[o] \in Nat /\ Asks(id)[o] \in {0, 1}
                              /\ UnitsFor(id)[o] = IF o.id = id THEN o.quantity ELSE 0
                              /\ Asks(id)[o] = IF o.id = id THEN 1 ELSE 0
         /\ \A r \in Rejection : /\ Refuses(id)[r] \in {0, 1}
                                 /\ Refuses(id)[r] = IF r.order = id THEN 1 ELSE 0
<1>1. ASSUME NEW t \in Executed
      PROVE  FilledBy(id)[t] \in Nat /\ FilledBy(id)[t] = IF t.order = id THEN t.quantity ELSE 0
  <2>1. t.quantity \in Nat
    BY DEF Executed
  <2> QED BY <2>1 DEF FilledBy
<1>2. ASSUME NEW o \in Queued
      PROVE  /\ UnitsFor(id)[o] \in Nat /\ Asks(id)[o] \in {0, 1}
             /\ UnitsFor(id)[o] = IF o.id = id THEN o.quantity ELSE 0
             /\ Asks(id)[o] = IF o.id = id THEN 1 ELSE 0
  BY QueuedFields DEF UnitsFor, Asks
<1>3. ASSUME NEW r \in Rejection
      PROVE  /\ Refuses(id)[r] \in {0, 1} /\ Refuses(id)[r] = IF r.order = id THEN 1 ELSE 0
  BY DEF Refuses
<1> QED BY <1>1, <1>2, <1>3

LEMMA PlacesAndUnits ==
  ASSUME NEW q \in Seq(Queued), NEW id \in Nat
  PROVE  /\ Weighed(Asks(id), q) \in Nat /\ Weighed(UnitsFor(id), q) \in Nat
         /\ Weighed(Asks(id), q) = 0 <=> Weighed(UnitsFor(id), q) = 0
<1> DEFINE a == Asks(id)
           u == UnitsFor(id)
<1>1. \A o \in Queued : /\ u[o] \in Nat /\ a[o] \in Nat
                        /\ u[o] = (IF o.id = id THEN o.quantity ELSE 0)
                        /\ a[o] = (IF o.id = id THEN 1 ELSE 0)
                        /\ o.quantity \in Nat \ {0}
  BY Counters, QueuedFields
<1> HIDE DEF a, u
<1>2. \A o \in Queued : a[o] \in Nat
  BY <1>1
<1>3. \A o \in Queued : u[o] \in Nat
  BY <1>1
<1>4. Weighed(a, q) \in Nat /\ \A i \in 1..Len(q) : a[q[i]] <= Weighed(a, q)
  BY <1>2, WeighedNat
<1>5. Weighed(u, q) \in Nat /\ \A i \in 1..Len(q) : u[q[i]] <= Weighed(u, q)
  BY <1>3, WeighedNat
<1>6. \A i \in 1..Len(q) : q[i] \in Queued
  OBVIOUS
<1>7. ASSUME Weighed(a, q) = 0 PROVE Weighed(u, q) = 0
  <2>1. \A i \in 1..Len(q) : u[q[i]] = 0
    <3>1. ASSUME NEW i \in 1..Len(q) PROVE u[q[i]] = 0
      <4>1. a[q[i]] <= 0 /\ q[i] \in Queued
        BY <1>4, <1>6, <1>7
      <4> QED BY <1>1, <4>1
    <3> QED BY <3>1
  <2> QED BY <2>1, WeighedNone
<1>8. ASSUME Weighed(u, q) = 0 PROVE Weighed(a, q) = 0
  <2>1. \A i \in 1..Len(q) : a[q[i]] = 0
    <3>1. ASSUME NEW i \in 1..Len(q) PROVE a[q[i]] = 0
      <4>1. u[q[i]] <= 0 /\ q[i] \in Queued
        BY <1>5, <1>6, <1>8
      <4> QED BY <1>1, <4>1
    <3> QED BY <3>1
  <2> QED BY <2>1, WeighedNone
<1> QED BY <1>4, <1>5, <1>7, <1>8 DEF a, u

LEMMA AccountNumbers ==
  ASSUME BacktestType, NEW id \in Nat
  PROVE  /\ Weighed(FilledBy(id), trades) \in Nat /\ Weighed(Refuses(id), rejected) \in Nat
         /\ Weighed(Asks(id), pending) \in Nat /\ Weighed(UnitsFor(id), pending) \in Nat
         /\ Weighed(Asks(id), pending) = 0 <=> Weighed(UnitsFor(id), pending) = 0
         /\ Weighed(Asks(id), kept) \in Nat /\ Weighed(UnitsFor(id), kept) \in Nat
         /\ Weighed(Asks(id), kept) = 0 <=> Weighed(UnitsFor(id), kept) = 0
<1>1. /\ pending \in Seq(Queued) /\ kept \in Seq(Queued) /\ trades \in Seq(Executed)
      /\ rejected \in Seq(Rejection)
  BY DEF BacktestType, Rejection
<1>2. /\ \A t \in Executed : FilledBy(id)[t] \in Nat
      /\ \A r \in Rejection : Refuses(id)[r] \in Nat
  BY Counters
<1>3. Weighed(FilledBy(id), trades) \in Nat
  BY <1>1, <1>2, WeighedNat
<1>4. Weighed(Refuses(id), rejected) \in Nat
  BY <1>1, <1>2, WeighedNat
<1> QED BY <1>1, <1>3, <1>4, PlacesAndUnits

\* What the first order of the list counts for in its sums.
LEMMA FirstTaken ==
  ASSUME BacktestType, pending # <<>>, NEW id \in Nat
  PROVE  /\ Weighed(UnitsFor(id), pending) =
              (IF Order.id = id THEN Order.quantity ELSE 0) + Weighed(UnitsFor(id), Tail(pending))
         /\ Weighed(Asks(id), pending) =
              (IF Order.id = id THEN 1 ELSE 0) + Weighed(Asks(id), Tail(pending))
<1>1. pending \in Seq(Queued) /\ Order \in Queued
  BY OrderIs DEF BacktestType
<1>2. /\ \A o \in Queued : UnitsFor(id)[o] \in Int
      /\ \A o \in Queued : Asks(id)[o] \in Int
      /\ UnitsFor(id)[Order] = (IF Order.id = id THEN Order.quantity ELSE 0)
      /\ Asks(id)[Order] = (IF Order.id = id THEN 1 ELSE 0)
  BY <1>1, Counters
<1>3. Weighed(UnitsFor(id), pending) = UnitsFor(id)[Order] + Weighed(UnitsFor(id), Tail(pending))
  BY <1>1, <1>2, WeighedTail DEF Order
<1>4. Weighed(Asks(id), pending) = Asks(id)[Order] + Weighed(Asks(id), Tail(pending))
  BY <1>1, <1>2, WeighedTail DEF Order
<1> QED BY <1>2, <1>3, <1>4

LEMMA QueueGrown ==
  ASSUME NEW q \in Seq(Queued), NEW o \in Queued, NEW id \in Nat
  PROVE  /\ Weighed(UnitsFor(id), Append(q, o)) =
              Weighed(UnitsFor(id), q) + (IF o.id = id THEN o.quantity ELSE 0)
         /\ Weighed(Asks(id), Append(q, o)) =
              Weighed(Asks(id), q) + (IF o.id = id THEN 1 ELSE 0)
<1>1. /\ \A x \in Queued : UnitsFor(id)[x] \in Int
      /\ \A x \in Queued : Asks(id)[x] \in Int
      /\ UnitsFor(id)[o] = (IF o.id = id THEN o.quantity ELSE 0)
      /\ Asks(id)[o] = (IF o.id = id THEN 1 ELSE 0)
  BY Counters
<1>2. Weighed(UnitsFor(id), Append(q, o)) = Weighed(UnitsFor(id), q) + UnitsFor(id)[o]
  BY <1>1, WeighedAppend
<1>3. Weighed(Asks(id), Append(q, o)) = Weighed(Asks(id), q) + Asks(id)[o]
  BY <1>1, WeighedAppend
<1> QED BY <1>1, <1>2, <1>3

LEMMA RejectedGrown ==
  ASSUME NEW q \in Seq(Rejection), NEW r \in Rejection, NEW id \in Nat
  PROVE  Weighed(Refuses(id), Append(q, r)) =
           Weighed(Refuses(id), q) + (IF r.order = id THEN 1 ELSE 0)
<1>1. /\ \A x \in Rejection : Refuses(id)[x] \in Int
      /\ Refuses(id)[r] = (IF r.order = id THEN 1 ELSE 0)
  BY Counters
<1>2. Weighed(Refuses(id), Append(q, r)) = Weighed(Refuses(id), q) + Refuses(id)[r]
  BY <1>1, WeighedAppend
<1> QED BY <1>1, <1>2

LEMMA TradesGrown ==
  ASSUME NEW q \in Seq(Executed), NEW t \in Executed, NEW id \in Nat
  PROVE  Weighed(FilledBy(id), Append(q, t)) =
           Weighed(FilledBy(id), q) + (IF t.order = id THEN t.quantity ELSE 0)
<1>1. /\ \A x \in Executed : FilledBy(id)[x] \in Int
      /\ FilledBy(id)[t] = (IF t.order = id THEN t.quantity ELSE 0)
  BY Counters
<1>2. Weighed(FilledBy(id), Append(q, t)) = Weighed(FilledBy(id), q) + FilledBy(id)[t]
  BY <1>1, WeighedAppend
<1> QED BY <1>1, <1>2

LEMMA WaitAccount ==
  ASSUME BacktestType, NEW id \in Nat, Account(id), WaitForBar \/ WaitForPrice
  PROVE  Account(id)'
<1>1. Due /\ Keep /\ pending # <<>>
  BY DEF WaitForBar, WaitForPrice, Due
<1>2. /\ kept' = Append(kept, Order) /\ pending' = Tail(pending)
      /\ UNCHANGED <<trades, rejected, orders>>
  BY <1>1 DEF Keep, output
<1>3. Order \in Queued /\ kept \in Seq(Queued) /\ Tail(pending) \in Seq(Queued)
  BY <1>1, OrderIs DEF BacktestType
<1> DEFINE pu == Weighed(UnitsFor(id), pending)
           ku == Weighed(UnitsFor(id), kept)
           pc == Weighed(Asks(id), pending)
           kc == Weighed(Asks(id), kept)
           tu == Weighed(UnitsFor(id), Tail(pending))
           tc == Weighed(Asks(id), Tail(pending))
           gu == Weighed(UnitsFor(id), Append(kept, Order))
           gc == Weighed(Asks(id), Append(kept, Order))
           u == IF Order.id = id THEN Order.quantity ELSE 0
           c == IF Order.id = id THEN 1 ELSE 0
<1>4. pu = u + tu /\ pc = c + tc
  BY <1>1, FirstTaken
<1>5. gu = ku + u /\ gc = kc + c
  BY <1>3, QueueGrown
<1>6. /\ tu \in Nat /\ tc \in Nat /\ ku \in Nat /\ kc \in Nat
      /\ u \in Nat /\ c \in Nat
  BY <1>3, PlacesAndUnits, QueuedFields
<1>7. Balanced(id, Weighed(FilledBy(id), trades), pu + ku, pc + kc, Weighed(Refuses(id), rejected))
  BY DEF Account
<1>8. Account(id)' = Balanced(id, Weighed(FilledBy(id), trades), tu + gu, tc + gc,
                              Weighed(Refuses(id), rejected))
  BY <1>2 DEF Account, Balanced
<1> HIDE DEF pu, ku, pc, kc, tu, tc, gu, gc, u, c
<1>9. tu + gu = pu + ku /\ tc + gc = pc + kc
  BY <1>4, <1>5, <1>6
<1> QED BY <1>7, <1>8, <1>9

\* Rejecting an order that has a place closes its account short.
LEMMA DropAccount ==
  ASSUME BacktestType, NEW id \in Nat, Account(id),
         ExpireWithoutBar \/ ExpireUnfilled \/ RejectUnaffordable
  PROVE  Account(id)'
<1>1. Due /\ Drop /\ pending # <<>>
  BY DEF ExpireWithoutBar, ExpireUnfilled, RejectUnaffordable, Due
<1> DEFINE r == [order |-> Order.id, quantity |-> Order.quantity]
           f == Weighed(FilledBy(id), trades)
           pu == Weighed(UnitsFor(id), pending)
           ku == Weighed(UnitsFor(id), kept)
           pc == Weighed(Asks(id), pending)
           kc == Weighed(Asks(id), kept)
           tu == Weighed(UnitsFor(id), Tail(pending))
           tc == Weighed(Asks(id), Tail(pending))
           n == Weighed(Refuses(id), rejected)
           u == IF Order.id = id THEN Order.quantity ELSE 0
           c == IF Order.id = id THEN 1 ELSE 0
<1>2. /\ rejected' = Append(rejected, r) /\ pending' = Tail(pending)
      /\ UNCHANGED <<trades, kept, orders>>
  BY <1>1 DEF Drop, Reject
<1>3. Order \in Queued /\ Tail(pending) \in Seq(Queued) /\ rejected \in Seq(Rejection)
  BY <1>1, OrderIs DEF BacktestType, Rejection
<1>4. pu = u + tu /\ pc = c + tc
  BY <1>1, FirstTaken
<1>5. Weighed(Refuses(id), rejected') = n + c
  <2>1. r \in Rejection /\ r.order = Order.id
    BY <1>3, QueuedFields DEF Rejection
  <2> HIDE DEF r
  <2> QED BY <1>2, <1>3, <2>1, RejectedGrown
<1>6. /\ tu \in Nat /\ tc \in Nat /\ (tc = 0 <=> tu = 0)
      /\ ku \in Nat /\ kc \in Nat /\ (kc = 0 <=> ku = 0) /\ f \in Nat /\ n \in Nat
      /\ c \in {0, 1} /\ u \in Nat /\ (c = 0 <=> u = 0)
  <2>1. c \in {0, 1} /\ u \in Nat /\ (c = 0 <=> u = 0)
    BY <1>3, QueuedFields
  <2>2. tu \in Nat /\ tc \in Nat /\ (tc = 0 <=> tu = 0)
    BY <1>3, PlacesAndUnits
  <2> QED BY <2>1, <2>2, AccountNumbers
<1>7. Balanced(id, f, pu + ku, pc + kc, n)
  BY DEF Account
<1>8. Account(id)' = Balanced(id, f, tu + ku, tc + kc, n + c)
  BY <1>2, <1>5 DEF Account, Balanced
<1> HIDE DEF f, pu, ku, pc, kc, tu, tc, n, u, c
<1>9. Balanced(id, f, tu + ku, tc + kc, n + c)
  <2> DEFINE q == orders[id].quantity
  <2>1. CASE id \in 1..Len(orders)
    <3>1. pc + kc + n <= 1 /\ IF n = 0 THEN f + (pu + ku) = q ELSE f < q
      BY <1>7, <2>1 DEF Balanced
    <3> HIDE DEF q
    <3>2. tc + kc + (n + c) <= 1 /\ IF n + c = 0 THEN f + (tu + ku) = q ELSE f < q
      BY <1>4, <1>6, <3>1
    <3> QED BY <2>1, <3>2 DEF Balanced, q
  <2>2. CASE id \notin 1..Len(orders)
    <3>1. f = 0 /\ pc + kc = 0 /\ n = 0
      BY <1>7, <2>2 DEF Balanced
    <3>2. tc + kc = 0 /\ n + c = 0
      BY <1>4, <1>6, <3>1
    <3> QED BY <2>2, <3>1, <3>2 DEF Balanced
  <2> QED BY <2>1, <2>2
<1> QED BY <1>8, <1>9

LEMMA FillAccount ==
  ASSUME BacktestType, NEW id \in Nat, Account(id), Fill
  PROVE  Account(id)'
<1> DEFINE o == Order
           m == FillQuantity(Order, Today)
           t == Trade(o, m, FillPrice(Order, Today))
           f == Weighed(FilledBy(id), trades)
           pu == Weighed(UnitsFor(id), pending)
           ku == Weighed(UnitsFor(id), kept)
           pc == Weighed(Asks(id), pending)
           kc == Weighed(Asks(id), kept)
           tu == Weighed(UnitsFor(id), Tail(pending))
           tc == Weighed(Asks(id), Tail(pending))
           n == Weighed(Refuses(id), rejected)
           u == IF o.id = id THEN o.quantity ELSE 0
           c == IF o.id = id THEN 1 ELSE 0
           d == IF o.id = id THEN m ELSE 0
<1>1. Due /\ Fillable /\ pending # <<>> /\ date \in Nat
  BY DEF Fill, Due, BacktestType
<1>2. trades' = Append(trades, t) /\ Remainder(o, m) /\ UNCHANGED orders
  BY DEF Fill
<1>3. /\ o \in Queued /\ Tail(pending) \in Seq(Queued) /\ m \in Nat \ {0} /\ m <= o.quantity
      /\ rejected \in Seq(Rejection) /\ kept \in Seq(Queued)
      /\ trades \in Seq(Executed) /\ o.quantity \in Nat \ {0}
  BY <1>1, FillFacts, QueuedFields DEF BacktestType, Rejection
<1>4. pu = u + tu /\ pc = c + tc
  BY <1>1, FirstTaken
<1>5. Weighed(FilledBy(id), trades') = f + d
  <2>1. t.order = o.id /\ t.quantity = m
    BY DEF Trade
  <2>2. trades' \in Seq(Executed)
    BY FillType DEF BacktestType
  <2> HIDE DEF t, m, o
  <2>3. t \in Executed
    <3>1. Len(trades') \in 1..Len(trades') /\ trades'[Len(trades')] = t
      BY <1>2, <1>3
    <3>2. trades'[Len(trades')] \in Executed
      BY <2>2, <3>1
    <3> QED BY <3>1, <3>2
  <2> QED BY <1>2, <1>3, <2>1, <2>3, TradesGrown
<1>6. /\ tu \in Nat /\ tc \in Nat /\ (tc = 0 <=> tu = 0)
      /\ ku \in Nat /\ kc \in Nat /\ (kc = 0 <=> ku = 0) /\ f \in Nat /\ n \in Nat
      /\ c \in {0, 1} /\ u \in Nat /\ (c = 0 <=> u = 0)
      /\ d \in Nat /\ (c = 0 <=> d = 0) /\ d <= u
  <2>1. /\ c \in {0, 1} /\ u \in Nat /\ (c = 0 <=> u = 0)
        /\ d \in Nat /\ (c = 0 <=> d = 0) /\ d <= u
    <3> HIDE DEF o, m
    <3> QED BY <1>3
  <2>2. tu \in Nat /\ tc \in Nat /\ (tc = 0 <=> tu = 0)
    BY <1>3, PlacesAndUnits
  <2> HIDE DEF u, c, d, tu, tc
  <2> QED BY <2>1, <2>2, AccountNumbers
<1>7. Balanced(id, f, pu + ku, pc + kc, n)
  BY DEF Account
<1>8. pending' = Tail(pending)
  BY <1>2 DEF Remainder
<1>9. CASE o.quantity = m
  <2>1. UNCHANGED <<kept, rejected>>
    BY <1>2, <1>9 DEF Remainder
  <2>2. Account(id)' = Balanced(id, f + d, tu + ku, tc + kc, n)
    BY <1>2, <1>5, <1>8, <2>1 DEF Account, Balanced
  <2>3. u = d
    BY <1>9
  <2> HIDE DEF f, pu, ku, pc, kc, tu, tc, n, u, c, d, o, m
  <2>4. Balanced(id, f + d, tu + ku, tc + kc, n)
    <3> DEFINE q == orders[id].quantity
    <3>1. CASE id \in 1..Len(orders)
      <4>1. pc + kc + n <= 1 /\ IF n = 0 THEN f + (pu + ku) = q ELSE f < q
        BY <1>7, <3>1 DEF Balanced
      <4> HIDE DEF q
      <4>2. tc + kc + n <= 1 /\ IF n = 0 THEN (f + d) + (tu + ku) = q ELSE f + d < q
        BY <1>4, <1>6, <2>3, <4>1
      <4> QED BY <3>1, <4>2 DEF Balanced, q
    <3>2. CASE id \notin 1..Len(orders)
      <4>1. f = 0 /\ pc + kc = 0 /\ n = 0
        BY <1>7, <3>2 DEF Balanced
      <4>2. tc + kc = 0 /\ f + d = 0
        BY <1>4, <1>6, <4>1
      <4> QED BY <3>2, <4>1, <4>2 DEF Balanced
    <3> QED BY <3>1, <3>2
  <2> QED BY <2>2, <2>4
<1>10. CASE o.quantity # m /\ date < o.expiry
  <2> DEFINE x == [o EXCEPT !.quantity = o.quantity - m, !.target = date + 1]
             e == IF o.id = id THEN o.quantity - m ELSE 0
  <2>1. kept' = Append(kept, x) /\ UNCHANGED rejected
    BY <1>2, <1>10 DEF Remainder
  <2>2. x \in Queued /\ x.id = o.id /\ x.quantity = o.quantity - m
    <3> HIDE DEF o, m
    <3>1. o.quantity - m \in Nat \ {0} /\ date + 1 \in Nat
      BY <1>1, <1>3, <1>10
    <3> QED BY <1>3, <3>1 DEF Queued
  <2>3. Weighed(UnitsFor(id), kept') = ku + e /\ Weighed(Asks(id), kept') = kc + c
    <3> HIDE DEF x, o, m
    <3>1. /\ Weighed(UnitsFor(id), Append(kept, x)) = ku + (IF x.id = id THEN x.quantity ELSE 0)
          /\ Weighed(Asks(id), Append(kept, x)) = kc + (IF x.id = id THEN 1 ELSE 0)
      BY <1>3, <2>2, QueueGrown
    <3> QED BY <2>1, <2>2, <3>1
  <2>4. Account(id)' = Balanced(id, f + d, tu + (ku + e), tc + (kc + c), n)
    BY <1>2, <1>5, <1>8, <2>1, <2>3 DEF Account, Balanced
  <2>5. e \in Nat /\ u = d + e
    <3> HIDE DEF o, m
    <3> QED BY <1>3
  <2> HIDE DEF f, pu, ku, pc, kc, tu, tc, n, u, c, d, o, m, e, x
  <2>6. Balanced(id, f + d, tu + (ku + e), tc + (kc + c), n)
    <3> DEFINE q == orders[id].quantity
    <3>1. CASE id \in 1..Len(orders)
      <4>1. pc + kc + n <= 1 /\ IF n = 0 THEN f + (pu + ku) = q ELSE f < q
        BY <1>7, <3>1 DEF Balanced
      <4> HIDE DEF q
      <4>2. /\ tc + (kc + c) + n <= 1
            /\ IF n = 0 THEN (f + d) + (tu + (ku + e)) = q ELSE f + d < q
        BY <1>4, <1>6, <2>5, <4>1
      <4> QED BY <3>1, <4>2 DEF Balanced, q
    <3>2. CASE id \notin 1..Len(orders)
      <4>1. f = 0 /\ pc + kc = 0 /\ n = 0
        BY <1>7, <3>2 DEF Balanced
      <4>2. tc + (kc + c) = 0 /\ f + d = 0
        BY <1>4, <1>6, <4>1
      <4> QED BY <3>2, <4>1, <4>2 DEF Balanced
    <3> QED BY <3>1, <3>2
  <2> QED BY <2>4, <2>6
<1>11. CASE o.quantity # m /\ ~(date < o.expiry)
  <2> DEFINE r == [order |-> o.id, quantity |-> o.quantity]
  <2>1. rejected' = Append(rejected, r) /\ UNCHANGED kept
    BY <1>2, <1>11 DEF Remainder, Reject
  <2>2. Weighed(Refuses(id), rejected') = n + c
    <3>1. r \in Rejection /\ r.order = o.id
      BY <1>3, QueuedFields DEF Rejection
    <3> HIDE DEF r
    <3> QED BY <1>3, <2>1, <3>1, RejectedGrown
  <2>3. Account(id)' = Balanced(id, f + d, tu + ku, tc + kc, n + c)
    BY <1>2, <1>5, <1>8, <2>1, <2>2 DEF Account, Balanced
  <2>4. c = 1 => d < u
    <3> HIDE DEF o, m
    <3> QED BY <1>3, <1>11
  <2> HIDE DEF f, pu, ku, pc, kc, tu, tc, n, u, c, d, o, m
  <2>5. Balanced(id, f + d, tu + ku, tc + kc, n + c)
    <3> DEFINE q == orders[id].quantity
    <3>1. CASE id \in 1..Len(orders)
      <4>1. pc + kc + n <= 1 /\ IF n = 0 THEN f + (pu + ku) = q ELSE f < q
        BY <1>7, <3>1 DEF Balanced
      <4> HIDE DEF q
      <4>2. /\ tc + kc + (n + c) <= 1
            /\ IF n + c = 0 THEN (f + d) + (tu + ku) = q ELSE f + d < q
        BY <1>4, <1>6, <2>4, <4>1
      <4> QED BY <3>1, <4>2 DEF Balanced, q
    <3>2. CASE id \notin 1..Len(orders)
      <4>1. f = 0 /\ pc + kc = 0 /\ n = 0
        BY <1>7, <3>2 DEF Balanced
      <4>2. tc + kc = 0 /\ f + d = 0 /\ n + c = 0
        BY <1>4, <1>6, <4>1
      <4> QED BY <3>2, <4>1, <4>2 DEF Balanced
    <3> QED BY <3>1, <3>2
  <2> QED BY <2>3, <2>5
<1> QED BY <1>9, <1>10, <1>11

LEMMA DoneAccount ==
  ASSUME BacktestType, NEW id \in Nat, Account(id), FillsDone
  PROVE  Account(id)'
<1>1. /\ pending = <<>> /\ pending' = kept /\ kept' = <<>>
      /\ UNCHANGED <<trades, rejected, orders>>
  BY DEF FillsDone, output
<1>2. /\ Weighed(UnitsFor(id), pending) = 0 /\ Weighed(Asks(id), pending) = 0
      /\ Weighed(UnitsFor(id), kept') = 0 /\ Weighed(Asks(id), kept') = 0
  BY <1>1, WeighedEmpty
<1>3. Weighed(UnitsFor(id), kept) \in Nat /\ Weighed(Asks(id), kept) \in Nat
  BY AccountNumbers
<1>4. /\ Weighed(UnitsFor(id), pending) + Weighed(UnitsFor(id), kept) =
           Weighed(UnitsFor(id), kept) + Weighed(UnitsFor(id), kept')
      /\ Weighed(Asks(id), pending) + Weighed(Asks(id), kept) =
           Weighed(Asks(id), kept) + Weighed(Asks(id), kept')
  BY <1>2, <1>3
<1> QED BY <1>1, <1>4 DEF Account, Balanced

\* A new order gets a number that appears nowhere yet.
LEMMA DecideAccount ==
  ASSUME BacktestType, NEW id \in Nat, Account(id), NEW intent \in Intents, Decide(intent)
  PROVE  Account(id)'
<1> DEFINE o == Queue(intent)
           f == Weighed(FilledBy(id), trades)
           pu == Weighed(UnitsFor(id), pending)
           ku == Weighed(UnitsFor(id), kept)
           pc == Weighed(Asks(id), pending)
           kc == Weighed(Asks(id), kept)
           n == Weighed(Refuses(id), rejected)
           u == IF o.id = id THEN o.quantity ELSE 0
           c == IF o.id = id THEN 1 ELSE 0
           len == Len(orders)
<1>1. /\ pending' = Append(pending, o) /\ orders' = Append(orders, o)
      /\ UNCHANGED <<kept, trades, rejected>>
  BY DEF Decide
<1>2. o \in Queued /\ o.id = len + 1 /\ o.quantity \in Nat \ {0}
  <2>1. o \in Queued
    BY DecideType
  <2> QED BY <2>1, QueuedFields DEF Queue
<1>3. pending \in Seq(Queued) /\ orders \in Seq(Queued)
  BY DEF BacktestType
<1> HIDE DEF o
<1>4. Weighed(UnitsFor(id), pending') = pu + u /\ Weighed(Asks(id), pending') = pc + c
  BY <1>1, <1>2, <1>3, QueueGrown
<1>5. /\ f \in Nat /\ n \in Nat /\ pu \in Nat /\ pc \in Nat /\ ku \in Nat /\ kc \in Nat
      /\ (pc = 0 <=> pu = 0) /\ (kc = 0 <=> ku = 0)
  BY AccountNumbers
<1>6. Balanced(id, f, pu + ku, pc + kc, n)
  BY DEF Account
<1>8. /\ len \in Nat /\ Len(orders') = len + 1 /\ orders'[len + 1] = o
      /\ \A k \in 1..len : orders'[k] = orders[k]
  BY <1>1, <1>2, <1>3, AppendIs
<1> DEFINE New == IF id \in 1..Len(orders')
                    THEN /\ (pc + c) + kc + n <= 1
                         /\ IF n = 0 THEN f + ((pu + u) + ku) = orders'[id].quantity
                                     ELSE f < orders'[id].quantity
                    ELSE f = 0 /\ (pc + c) + kc = 0 /\ n = 0
<1>9. Account(id)' = New
  BY <1>1, <1>4 DEF Account, Balanced
<1>10. CASE id = len + 1
  <2>1. u = o.quantity /\ c = 1 /\ id \in 1..Len(orders') /\ id \notin 1..len
    BY <1>2, <1>8, <1>10
  <2> HIDE DEF f, pu, ku, pc, kc, n, u, c
  <2>2. f = 0 /\ pc + kc = 0 /\ n = 0
    BY <1>6, <2>1 DEF Balanced
  <2>3. pc = 0 /\ kc = 0 /\ pu = 0 /\ ku = 0
    BY <1>5, <2>2
  <2>4. orders'[id].quantity = o.quantity
    BY <1>8, <1>10
  <2>5. (pc + c) + kc + n <= 1 /\ n = 0 /\ f + ((pu + u) + ku) = orders'[id].quantity
    BY <1>2, <2>1, <2>2, <2>3, <2>4
  <2> QED BY <1>9, <2>1, <2>5
<1>11. CASE id # len + 1
  <2>1. u = 0 /\ c = 0 /\ (id \in 1..Len(orders') <=> id \in 1..len)
    BY <1>2, <1>8, <1>11
  <2>2. id \in 1..len => orders'[id] = orders[id]
    BY <1>8
  <2> HIDE DEF f, pu, ku, pc, kc, n, u, c
  <2>3. (pu + u) + ku = pu + ku /\ (pc + c) + kc = pc + kc
    BY <1>5, <2>1
  <2>4. CASE id \in 1..len
    <3>1. /\ (pc + kc) + n <= 1
          /\ IF n = 0 THEN f + (pu + ku) = orders[id].quantity ELSE f < orders[id].quantity
      BY <1>6, <2>4 DEF Balanced
    <3> QED BY <1>9, <2>1, <2>2, <2>3, <2>4, <3>1
  <2>5. CASE id \notin 1..len
    <3>1. f = 0 /\ pc + kc = 0 /\ n = 0
      BY <1>6, <2>5 DEF Balanced
    <3> QED BY <1>9, <2>1, <2>3, <2>5, <3>1
  <2> QED BY <2>4, <2>5
<1> QED BY <1>10, <1>11

\* The end of the run rejects what is queued, each order once.
LEMMA FinishAccount ==
  ASSUME BacktestType, NEW id \in Nat, Account(id), InTime, Finish
  PROVE  Account(id)'
<1> DEFINE x == [i \in DOMAIN pending |->
                   [order |-> pending[i].id, quantity |-> pending[i].quantity]]
           f == Weighed(FilledBy(id), trades)
           pu == Weighed(UnitsFor(id), pending)
           pc == Weighed(Asks(id), pending)
           n == Weighed(Refuses(id), rejected)
<1>1. /\ rejected' = rejected \o x /\ pending' = <<>> /\ kept = <<>> /\ kept' = <<>>
      /\ UNCHANGED <<trades, orders>>
  BY DEF Finish, InTime
<1>2. /\ pending \in Seq(Queued) /\ rejected \in Seq(Rejection)
      /\ DOMAIN pending = 1..Len(pending) /\ Len(pending) \in Nat
  BY DEF BacktestType, Rejection
<1>3. ASSUME NEW i \in 1..Len(pending)
      PROVE  /\ x[i] \in Rejection /\ x[i].order = pending[i].id /\ pending[i] \in Queued
             /\ Refuses(id)[x[i]] = Asks(id)[pending[i]]
  <2>1. pending[i] \in Queued /\ x[i] = [order |-> pending[i].id, quantity |-> pending[i].quantity]
    BY <1>2
  <2>2. x[i] \in Rejection /\ x[i].order = pending[i].id
    <3>1. pending[i].id \in Nat /\ pending[i].quantity \in Nat
      BY <2>1, QueuedFields
    <3> HIDE DEF x
    <3> QED BY <2>1, <3>1 DEF Rejection
  <2>3. /\ Refuses(id)[x[i]] = (IF x[i].order = id THEN 1 ELSE 0)
        /\ Asks(id)[pending[i]] = (IF pending[i].id = id THEN 1 ELSE 0)
    <3> HIDE DEF x
    <3> QED BY <2>1, <2>2, Counters
  <2> HIDE DEF x
  <2> QED BY <2>1, <2>2, <2>3
<1>4. x \in Seq(Rejection) /\ DOMAIN x = DOMAIN pending
  <2>1. x = [i \in 1..Len(pending) |-> x[i]] /\ DOMAIN x = DOMAIN pending
    BY <1>2
  <2> HIDE DEF x
  <2> QED BY <1>2, <1>3, <2>1
<1>5. Weighed(Refuses(id), x) = pc
  <2>1. [i \in DOMAIN x |-> Refuses(id)[x[i]]] = [i \in DOMAIN pending |-> Asks(id)[pending[i]]]
    <3> HIDE DEF x
    <3> QED BY <1>2, <1>3, <1>4
  <2> HIDE DEF x
  <2> QED BY <2>1 DEF Weighed
<1> HIDE DEF x
<1>6. Weighed(Refuses(id), rejected') = n + pc
  <2>1. \A y \in Rejection : Refuses(id)[y] \in Int
    BY Counters
  <2> QED BY <1>1, <1>2, <1>4, <1>5, <2>1, WeighedConcat
<1>7. /\ Weighed(UnitsFor(id), kept) = 0 /\ Weighed(Asks(id), kept) = 0
      /\ Weighed(UnitsFor(id), <<>>) = 0 /\ Weighed(Asks(id), <<>>) = 0
  BY <1>1, WeighedEmpty
<1>8. f \in Nat /\ n \in Nat /\ pu \in Nat /\ pc \in Nat /\ (pc = 0 <=> pu = 0)
  BY AccountNumbers
<1>9. Balanced(id, f, pu, pc, n)
  <2>1. Balanced(id, f, pu + 0, pc + 0, n)
    BY <1>7 DEF Account
  <2>2. pu + 0 = pu /\ pc + 0 = pc
    BY <1>8
  <2> HIDE DEF pu, pc
  <2> QED BY <2>1, <2>2
<1>10. Account(id)' = Balanced(id, f, 0 + 0, 0 + 0, n + pc)
  BY <1>1, <1>6, <1>7 DEF Account, Balanced
<1> HIDE DEF f, pu, pc, n
<1>11. Balanced(id, f, 0 + 0, 0 + 0, n + pc)
  <2> DEFINE q == orders[id].quantity
  <2>1. CASE id \in 1..Len(orders)
    <3>1. pc + n <= 1 /\ IF n = 0 THEN f + pu = q ELSE f < q
      BY <1>9, <2>1 DEF Balanced
    <3> HIDE DEF q
    <3>2. (0 + 0) + (n + pc) <= 1 /\ IF n + pc = 0 THEN f + (0 + 0) = q ELSE f < q
      BY <1>8, <3>1
    <3> QED BY <2>1, <3>2 DEF Balanced, q
  <2>2. CASE id \notin 1..Len(orders)
    <3>1. f = 0 /\ pc = 0 /\ n = 0
      BY <1>9, <2>2 DEF Balanced
    <3> QED BY <2>2, <3>1 DEF Balanced
  <2> QED BY <2>1, <2>2
<1> QED BY <1>10, <1>11

LEMMA AccountStep ==
  ASSUME BacktestType, AccountInv, [Next]_vars, NEW id \in Nat
  PROVE  Account(id)'
<1>1. Account(id) /\ InTime
  BY DEF AccountInv
<1>2. CASE UNCHANGED <<pending, kept, trades, rejected, orders>>
  BY <1>1, <1>2 DEF Account, Balanced
<1>3. CASE WaitForBar \/ WaitForPrice
  BY <1>1, <1>3, WaitAccount
<1>4. CASE ExpireWithoutBar \/ ExpireUnfilled \/ RejectUnaffordable
  BY <1>1, <1>4, DropAccount
<1>5. CASE Fill
  BY <1>1, <1>5, FillAccount
<1>6. CASE FillsDone
  BY <1>1, <1>6, DoneAccount
<1>7. CASE \E intent \in Intents : Decide(intent)
  BY <1>1, <1>7, DecideAccount
<1>8. CASE Finish
  BY <1>1, <1>8, FinishAccount
<1>9. CASE \/ \E days \in 1..MaxGap : \E printed \in Printed : Advance(days, printed)
           \/ ActionsDone \/ (\E s \in Symbol : PayDividend(s) \/ Split(s)) \/ Mark \/ DayDone
  <2>1. UNCHANGED <<pending, kept, trades, rejected, orders>>
    BY <1>9 DEF Advance, ActionsDone, PayDividend, Split, Mark, DayDone, output
  <2> QED BY <1>2, <2>1
<1>10. CASE UNCHANGED vars
  BY <1>2, <1>10 DEF vars, output
<1> QED BY <1>3, <1>4, <1>5, <1>6, <1>7, <1>8, <1>9, <1>10 DEF Next

LEMMA InTimeStep ==
  ASSUME BacktestType, InTime, [Next]_vars
  PROVE  InTime'
<1>0. /\ pending \in Seq(Queued) /\ kept \in Seq(Queued) /\ date \in Nat
      /\ \A i \in DOMAIN kept : kept[i].expiry \in Nat
      /\ \A i \in DOMAIN pending : pending[i].expiry \in Nat
  <2>1. ASSUME NEW q \in Seq(Queued), NEW i \in DOMAIN q PROVE q[i].expiry \in Nat
    <3>1. q[i] \in Queued
      OBVIOUS
    <3> QED BY <3>1, QueuedFields
  <2> QED BY <2>1 DEF BacktestType
<1>1. CASE WaitForBar \/ WaitForPrice
  <2>1. /\ phase = "fills" /\ phase' = phase /\ date' = date /\ kept' = Append(kept, Order)
        /\ date <= Order.expiry /\ pending # <<>>
    <3>1. Due /\ Keep
      BY <1>1 DEF WaitForBar, WaitForPrice
    <3>2. date <= Order.expiry
      <4>1. Order.expiry \in Nat
        BY <3>1, OrderIs, QueuedFields DEF Due
      <4> QED BY <1>0, <1>1, <4>1 DEF WaitForBar, WaitForPrice
    <3> QED BY <3>1, <3>2 DEF Due, Keep, market
  <2>2. \A i \in DOMAIN kept' : kept'[i] = Order \/ (i \in DOMAIN kept /\ kept'[i] = kept[i])
    BY <1>0, <2>1, OrderIs
  <2> QED BY <2>1, <2>2 DEF InTime
<1>2. CASE ExpireWithoutBar \/ ExpireUnfilled \/ RejectUnaffordable
  <2>1. phase = "fills" /\ phase' = phase /\ date' = date /\ kept' = kept
    BY <1>2 DEF ExpireWithoutBar, ExpireUnfilled, RejectUnaffordable, Due, Drop, market
  <2> QED BY <2>1 DEF InTime
<1>3. CASE Fill
  <2> DEFINE o == Order
             m == FillQuantity(Order, Today)
             x == [o EXCEPT !.quantity = o.quantity - m, !.target = date + 1]
  <2>1. /\ phase = "fills" /\ phase' = phase /\ date' = date
        /\ kept' = kept \/ (kept' = Append(kept, x) /\ date < o.expiry)
    BY <1>3 DEF Fill, Due, Remainder, market
  <2>2. o \in Queued
    BY <1>3, FillFacts DEF Fill
  <2>3. x.expiry = o.expiry /\ o.expiry \in Nat
    BY <2>2, QueuedFields DEF Queued
  <2> HIDE DEF x, o
  <2>4. ASSUME NEW i \in DOMAIN kept' PROVE date' <= kept'[i].expiry
    <3>1. CASE kept' = kept
      BY <2>1, <3>1 DEF InTime
    <3>2. CASE kept' = Append(kept, x) /\ date < o.expiry
      <4>1. kept'[i] = x \/ (i \in DOMAIN kept /\ kept'[i] = kept[i])
        BY <1>0, <3>2
      <4> QED BY <1>0, <2>1, <2>3, <3>2, <4>1 DEF InTime
    <3> QED BY <2>1, <3>1, <3>2
  <2> QED BY <2>1, <2>4 DEF InTime
<1>4. CASE FillsDone
  BY <1>4 DEF FillsDone, InTime, After, market
<1>5. ASSUME NEW intent \in Intents, Decide(intent) PROVE InTime'
  <2>1. /\ phase = "decide" /\ phase' = phase /\ date' = date /\ kept' = kept
        /\ pending' = Append(pending, Queue(intent))
    BY <1>5 DEF Decide, market
  <2>2. Queue(intent).expiry = date + ExpiryDays /\ ExpiryDays \in Nat
    BY BacktestAssumption DEF Queue
  <2>3. \A i \in DOMAIN pending' : \/ pending'[i] = Queue(intent)
                                   \/ i \in DOMAIN pending /\ pending'[i] = pending[i]
    BY <1>0, <2>1
  <2>4. ASSUME NEW i \in DOMAIN pending' PROVE date' <= pending'[i].expiry
    <3>1. CASE pending'[i] = Queue(intent)
      BY <1>0, <2>1, <2>2, <3>1
    <3>2. CASE i \in DOMAIN pending /\ pending'[i] = pending[i]
      BY <2>1, <3>2 DEF InTime
    <3> QED BY <2>3, <3>1, <3>2
  <2> QED BY <2>1, <2>4 DEF InTime
<1>6. CASE Finish
  BY <1>6 DEF Finish, InTime
<1>7. CASE Mark \/ DayDone
  <2>1. /\ phase \in {"mark", "decide"} /\ phase' \in {"decide", "advance"}
        /\ UNCHANGED <<date, pending, kept>>
    BY <1>7 DEF Mark, DayDone, After, market
  <2> QED BY <2>1 DEF InTime
<1>8. CASE \/ \E days \in 1..MaxGap : \E printed \in Printed : Advance(days, printed)
           \/ ActionsDone \/ (\E s \in Symbol : PayDividend(s) \/ Split(s))
  <2>1. /\ phase \in {"advance", "actions"} /\ phase' \in {"actions", "fills"}
        /\ UNCHANGED <<pending, kept>>
    BY <1>8 DEF Advance, ActionsDone, PayDividend, Split, Acts, After
  <2> QED BY <2>1 DEF InTime
<1>9. CASE UNCHANGED vars
  BY <1>9 DEF vars, market, InTime
<1> QED BY <1>1, <1>2, <1>3, <1>4, <1>5, <1>6, <1>7, <1>8, <1>9 DEF Next

LEMMA EntryOf ==
  ASSUME NEW T, NEW q \in Seq(T)
  PROVE  \A i \in DOMAIN q : q[i] \in T
OBVIOUS

LEMMA AccountsAre ==
  ASSUME BacktestType, AccountInv
  PROVE  EveryUnitAccounted
<1>1. ASSUME NEW id \in DOMAIN orders
      PROVE  \/ /\ FilledOf(id) + PendingOf(id) = orders[id].quantity
                /\ RejectedOf(id) = {}
             \/ /\ FilledOf(id) < orders[id].quantity /\ PendingOf(id) = 0
                /\ Cardinality(RejectedOf(id)) = 1
  <2> DEFINE f == Weighed(FilledBy(id), trades)
             pu == Weighed(UnitsFor(id), pending)
             ku == Weighed(UnitsFor(id), kept)
             pc == Weighed(Asks(id), pending)
             kc == Weighed(Asks(id), kept)
             n == Weighed(Refuses(id), rejected)
  <2>1. id \in Nat /\ id \in 1..Len(orders)
    BY DEF BacktestType
  <2>2. /\ \A i \in DOMAIN trades : trades[i] \in Executed
        /\ \A i \in DOMAIN pending : pending[i] \in Queued
        /\ \A i \in DOMAIN kept : kept[i] \in Queued
        /\ \A i \in DOMAIN rejected : rejected[i] \in Rejection
    <3>1. /\ trades \in Seq(Executed) /\ pending \in Seq(Queued) /\ kept \in Seq(Queued)
          /\ rejected \in Seq(Rejection)
      BY DEF BacktestType, Rejection
    <3> QED BY <3>1, EntryOf
  <2>3. FilledOf(id) = f
    BY <2>2 DEF FilledOf, Total, Weighed, FilledBy
  <2>4. PendingOf(id) = pu + ku
    BY <2>2 DEF PendingOf, Total, Weighed, UnitsFor
  <2>5. RejectedOf(id) = {i \in DOMAIN rejected : Refuses(id)[rejected[i]] = 1}
    BY <2>2 DEF RejectedOf, Refuses
  <2>6. IsFiniteSet(RejectedOf(id)) /\ Cardinality(RejectedOf(id)) = n
    <3>1. \A r \in Rejection : Refuses(id)[r] \in {0, 1}
      BY <2>1, Counters
    <3>2. rejected \in Seq(Rejection)
      BY DEF BacktestType, Rejection
    <3> DEFINE refuses == Refuses(id)
    <3> HIDE DEF refuses
    <3>3. /\ \A r \in Rejection : refuses[r] \in {0, 1}
          /\ RejectedOf(id) = {i \in DOMAIN rejected : refuses[rejected[i]] = 1}
      BY <2>5, <3>1 DEF refuses
    <3>4. /\ IsFiniteSet(RejectedOf(id))
          /\ Cardinality(RejectedOf(id)) = Weighed(refuses, rejected)
      BY <3>2, <3>3, WeighedCounts
    <3> QED BY <3>4 DEF refuses
  <2>7. /\ f \in Nat /\ n \in Nat /\ pu \in Nat /\ pc \in Nat /\ ku \in Nat /\ kc \in Nat
        /\ (pc = 0 <=> pu = 0) /\ (kc = 0 <=> ku = 0)
    BY <2>1, AccountNumbers
  <2>8. Balanced(id, f, pu + ku, pc + kc, n)
    BY <2>1 DEF AccountInv, Account
  <2>9. /\ (pc + kc) + n <= 1
        /\ IF n = 0 THEN f + (pu + ku) = orders[id].quantity ELSE f < orders[id].quantity
    <3> HIDE DEF f, pu, ku, pc, kc, n
    <3> QED BY <2>1, <2>8 DEF Balanced
  <2> HIDE DEF f, pu, ku, pc, kc, n
  <2>10. n = 0 => RejectedOf(id) = {}
    BY <2>6, FS_EmptySet
  <2>11. n # 0 => n = 1 /\ pu + ku = 0
    BY <2>7, <2>9
  <2> QED BY <2>3, <2>4, <2>6, <2>9, <2>10, <2>11
<1> QED BY <1>1 DEF EveryUnitAccounted, AccountInv, InTime

\* Every order ends one way and in time, whatever the bars, the expiry and the
\* cash of the day: its units are filled or queued, or it is rejected once, and
\* the fills of a date leave nothing queued past its expiry.
THEOREM UnitsAreAccounted == Spec => []EveryUnitAccounted
<1>1. Init => BacktestType /\ AccountInv
  <2>1. SUFFICES ASSUME Init PROVE AccountInv
    BY TypeInit
  <2>2. /\ trades = <<>> /\ pending = <<>> /\ kept = <<>> /\ rejected = <<>> /\ orders = <<>>
    BY <2>1 DEF Init
  <2>3. ASSUME NEW id \in Nat PROVE Account(id)
    <3>1. /\ Weighed(FilledBy(id), <<>>) = 0 /\ Weighed(UnitsFor(id), <<>>) = 0
          /\ Weighed(Asks(id), <<>>) = 0 /\ Weighed(Refuses(id), <<>>) = 0
      BY WeighedEmpty
    <3>2. id \notin 1..Len(orders)
      BY <2>2
    <3> QED BY <2>2, <3>1, <3>2 DEF Account, Balanced
  <2>4. InTime
    BY <2>2 DEF InTime
  <2> QED BY <2>3, <2>4 DEF AccountInv
<1>2. BacktestType /\ AccountInv /\ [Next]_vars => BacktestType' /\ AccountInv'
  <2>1. SUFFICES ASSUME BacktestType, AccountInv, [Next]_vars PROVE AccountInv'
    BY TypeStep
  <2>2. \A id \in Nat : Account(id)'
    BY <2>1, AccountStep
  <2>3. InTime'
    BY <2>1, InTimeStep DEF AccountInv
  <2> QED BY <2>2, <2>3 DEF AccountInv
<1>3. BacktestType /\ AccountInv => EveryUnitAccounted
  BY AccountsAre
<1> QED BY <1>1, <1>2, <1>3, PTL DEF Spec

-----------------------------------------------------------------------------
(* The equity curve is explained.                                          *)

CostOf   == [t \in Executed |-> t.cost]
GainOf   == [t \in Executed |-> t.gain]
CreditOf == [r \in Receipt |-> r.credited]

Holdings == SumOver([s \in Symbol |-> Basis(lots[s])], Symbol)

\* The tax lots are the position, each from a purchase on or before today.
LotsOf(s) ==
  /\ Units(lots[s]) = position[s]
  /\ \A i \in DOMAIN lots[s] :
       /\ lots[s][i].bought <= date
       /\ \E k \in DOMAIN trades : trades[k].symbol = s /\ trades[k].side = "BUY"
                                    /\ trades[k].date = lots[s][i].bought
       /\ i > 1 => lots[s][i - 1].bought <= lots[s][i].bought

\* Cash and the cost basis of what is held are the capital, less costs, plus
\* realized gains and dividends.
MoneyKept ==
  cash + Holdings = Capital - Weighed(CostOf, trades) + Weighed(GainOf, trades)
                      + Weighed(CreditOf, receipts)

EquityInv ==
  /\ \A s \in Symbol : LotsOf(s)
  /\ MoneyKept
  /\ phase = "decide" => equity = cash + Value(position, last)

LEMMA Weights ==
  /\ \A t \in Executed : CostOf[t] \in Int /\ CostOf[t] = t.cost
  /\ \A t \in Executed : GainOf[t] \in Int /\ GainOf[t] = t.gain
  /\ \A r \in Receipt : CreditOf[r] \in Int /\ CreditOf[r] = r.credited
<1>1. \A t \in Executed : t.cost \in Int /\ t.gain \in Int
  BY DEF Executed
<1>2. \A r \in Receipt : r.credited \in Int
  BY DEF Receipt
<1> QED BY <1>1, <1>2 DEF CostOf, GainOf, CreditOf

LEMMA BasisInt ==
  ASSUME BacktestType
  PROVE  /\ \A s \in Symbol : Basis(lots[s]) \in Int
         /\ Holdings \in Int
<1>1. ASSUME NEW s \in Symbol PROVE Basis(lots[s]) \in Int
  <2>1. lots[s] \in Seq(Lot)
    BY DEF BacktestType
  <2> QED BY <2>1, QueueSums
<1> DEFINE f == [s \in Symbol |-> Basis(lots[s])]
<1>2. \A s \in Symbol : f[s] \in Int
  BY <1>1
<1> HIDE DEF f
<1>3. SumOver(f, Symbol) \in Int
  BY <1>2, SumOverInt, BacktestAssumption
<1> QED BY <1>1, <1>3 DEF Holdings, f

LEMMA LogInt ==
  ASSUME BacktestType
  PROVE  /\ Weighed(CostOf, trades) \in Int /\ Weighed(GainOf, trades) \in Int
         /\ Weighed(CreditOf, receipts) \in Int
<1>1. ASSUME NEW T, NEW q \in Seq(T), NEW a, \A y \in T : a[y] \in Int
      PROVE  Weighed(a, q) \in Int
  <2>1. CASE q = <<>>
    BY <2>1, WeighedEmpty
  <2>2. CASE q # <<>>
    <3>1. q[1] \in T
      BY <2>2
    <3> QED BY <1>1, <3>1, WeighedAppend
  <2> QED BY <2>1, <2>2
<1>2. trades \in Seq(Executed) /\ receipts \in Seq(Receipt)
  BY DEF BacktestType
<1>3. /\ \A t \in Executed : CostOf[t] \in Int
      /\ \A t \in Executed : GainOf[t] \in Int
      /\ \A r \in Receipt : CreditOf[r] \in Int
  BY Weights
<1>4. Weighed(CostOf, trades) \in Int
  BY <1>1, <1>2, <1>3
<1>5. Weighed(GainOf, trades) \in Int
  BY <1>1, <1>2, <1>3
<1>6. Weighed(CreditOf, receipts) \in Int
  BY <1>1, <1>2, <1>3
<1> QED BY <1>4, <1>5, <1>6

\* Holdings when the lots of one symbol change.
LEMMA HoldingsChange ==
  ASSUME BacktestType, BacktestType', NEW s \in Symbol,
         \A x \in Symbol \ {s} : lots'[x] = lots[x]
  PROVE  Holdings' = Holdings - Basis(lots[s]) + Basis(lots'[s])
<1> DEFINE f == [x \in Symbol |-> Basis(lots[x])]
           e == [x \in Symbol |-> Basis(lots'[x])]
<1>1. ASSUME NEW x \in Symbol PROVE f[x] \in Int /\ e[x] \in Int
  <2>1. lots[x] \in Seq(Lot) /\ lots'[x] \in Seq(Lot)
    BY DEF BacktestType
  <2>2. Basis(lots[x]) \in Int /\ Basis(lots'[x]) \in Int
    BY <2>1, QueueSums
  <2> QED BY <2>2
<1>2. \A x \in Symbol \ {s} : f[x] = e[x]
  OBVIOUS
<1>3. f[s] = Basis(lots[s]) /\ e[s] = Basis(lots'[s])
  OBVIOUS
<1> HIDE DEF f, e
<1>4. SumOver(e, Symbol) = SumOver(f, Symbol) - f[s] + e[s]
  BY <1>1, <1>2, SumOverChange, BacktestAssumption
<1>5. Holdings = SumOver(f, Symbol) /\ Holdings' = SumOver(e, Symbol)
  BY DEF Holdings, f, e, Basis, Total
<1> QED BY <1>3, <1>4, <1>5

LEMMA DividendEquity ==
  ASSUME BacktestType, EquityInv, NEW s \in Symbol, PayDividend(s)
  PROVE  EquityInv'
<1> DEFINE r == [date |-> date, symbol |-> s, quantity |-> position[s],
                 credited |-> position[s] * Dividend]
<1>1. /\ cash' = cash + position[s] * Dividend /\ receipts' = Append(receipts, r)
      /\ phase' = "actions"
      /\ UNCHANGED <<date, position, lots, trades>>
  BY DEF PayDividend, Acts
<1>2. /\ position[s] \in Nat /\ Dividend \in Nat /\ cash \in Int /\ date \in Nat
      /\ receipts \in Seq(Receipt) /\ trades \in Seq(Executed)
  BY BacktestAssumption DEF BacktestType
<1>3. position[s] * Dividend \in Nat
  BY <1>2
<1>4. r \in Receipt /\ r.credited = position[s] * Dividend
  BY <1>2, <1>3 DEF Receipt
<1> HIDE DEF r
<1>5. Weighed(CreditOf, receipts') = Weighed(CreditOf, receipts) + position[s] * Dividend
  <2>1. \A x \in Receipt : CreditOf[x] \in Int
    BY Weights
  <2>2. CreditOf[r] = position[s] * Dividend
    BY <1>4, Weights
  <2> QED BY <1>1, <1>2, <1>4, <2>1, <2>2, WeighedAppend
<1>6. MoneyKept'
  <2>1. Holdings' = Holdings
    BY <1>1 DEF Holdings
  <2>2. Weighed(CostOf, trades)' = Weighed(CostOf, trades)
        /\ Weighed(GainOf, trades)' = Weighed(GainOf, trades)
    BY <1>1
  <2>3. /\ Weighed(CostOf, trades) \in Int /\ Weighed(GainOf, trades) \in Int
        /\ Weighed(CreditOf, receipts) \in Int /\ Holdings \in Int /\ Capital \in Int
    BY LogInt, BasisInt, BacktestAssumption
  <2>4. cash + Holdings = Capital - Weighed(CostOf, trades) + Weighed(GainOf, trades)
                            + Weighed(CreditOf, receipts)
    BY DEF EquityInv, MoneyKept
  <2>5. cash' + Holdings' = Capital - Weighed(CostOf, trades') + Weighed(GainOf, trades')
                              + Weighed(CreditOf, receipts')
    <3> DEFINE h == Holdings
               h1 == Holdings'
               a == Weighed(CostOf, trades)
               b == Weighed(GainOf, trades)
               c == Weighed(CreditOf, receipts)
               d == position[s] * Dividend
               a1 == Weighed(CostOf, trades')
               b1 == Weighed(GainOf, trades')
               c1 == Weighed(CreditOf, receipts')
    <3>1. a1 = a /\ b1 = b /\ c1 = c + d /\ h1 = h /\ cash' = cash + d
      BY <1>1, <1>5, <2>1, <2>2
    <3>2. cash + h = Capital - a + b + c
      BY <2>4
    <3>3. a \in Int /\ b \in Int /\ c \in Int /\ d \in Int /\ h \in Int /\ Capital \in Int /\ cash \in Int
      BY <1>2, <1>3, <2>3
    <3> HIDE DEF h, h1, a, b, c, d, a1, b1, c1
    <3>4. cash' + h1 = Capital - a1 + b1 + c1
      BY <3>1, <3>2, <3>3
    <3> QED BY <3>4 DEF h1, a1, b1, c1
  <2> QED BY <2>5 DEF MoneyKept
<1>7. \A x \in Symbol : LotsOf(x)'
  BY <1>1 DEF EquityInv, LotsOf, Units, Total
<1> QED BY <1>1, <1>6, <1>7 DEF EquityInv

LEMMA SplitEquity ==
  ASSUME BacktestType, EquityInv, NEW s \in Symbol, Split(s)
  PROVE  EquityInv'
<1>1. /\ position' = [position EXCEPT ![s] = @ * Ratio]
      /\ lots' = [lots EXCEPT ![s] = SplitLots(s)]
      /\ Divisible(s) /\ phase' = "actions" /\ UNCHANGED <<date, cash, trades, receipts>>
  BY DEF Split, Acts, output
<1>2. lots \in [Symbol -> Seq(Lot)] /\ position \in [Symbol -> Nat] /\ lots[s] \in Seq(Lot)
  BY DEF BacktestType
<1>3. /\ SplitLots(s) \in Seq(Lot) /\ Len(SplitLots(s)) = Len(lots[s])
      /\ \A i \in 1..Len(lots[s]) : SplitLots(s)[i].bought = lots[s][i].bought
      /\ Units(SplitLots(s)) = Units(lots[s]) * Ratio
      /\ Basis(SplitLots(s)) = Basis(lots[s])
  BY <1>1, <1>2, AfterSplit
<1>4. lots'[s] = SplitLots(s) /\ position'[s] = position[s] * Ratio
      /\ \A x \in Symbol \ {s} : lots'[x] = lots[x] /\ position'[x] = position[x]
  BY <1>1, <1>2
<1>5. MoneyKept'
  <2>1. BacktestType'
    BY ActionsType
  <2>2. Holdings' = Holdings - Basis(lots[s]) + Basis(lots'[s])
    BY <1>4, <2>1, HoldingsChange
  <2>3. Basis(lots[s]) \in Int /\ Holdings \in Int
    BY BasisInt
  <2>4. Holdings' = Holdings
    BY <1>3, <1>4, <2>2, <2>3
  <2>5. cash' = cash /\ Weighed(CostOf, trades)' = Weighed(CostOf, trades)
        /\ Weighed(GainOf, trades)' = Weighed(GainOf, trades)
        /\ Weighed(CreditOf, receipts)' = Weighed(CreditOf, receipts)
    BY <1>1
  <2> QED BY <2>4, <2>5 DEF EquityInv, MoneyKept
<1>6. ASSUME NEW x \in Symbol PROVE LotsOf(x)'
  <2>1. LotsOf(x)
    BY DEF EquityInv
  <2>2. CASE x # s
    <3>1. lots'[x] = lots[x] /\ position'[x] = position[x] /\ date' = date /\ trades' = trades
      BY <1>1, <1>4, <2>2
    <3> QED BY <2>1, <3>1 DEF LotsOf, Units, Total
  <2>3. CASE x = s
    <3> DEFINE q == lots[s]
               m == SplitLots(s)
    <3>1. /\ lots'[x] = m /\ position'[x] = position[s] * Ratio /\ date' = date /\ trades' = trades
          /\ DOMAIN q = 1..Len(q) /\ DOMAIN m = 1..Len(q)
          /\ Units(m) = Units(q) * Ratio /\ Units(q) = position[s]
          /\ \A i \in 1..Len(q) : m[i].bought = q[i].bought
      BY <1>1, <1>2, <1>3, <1>4, <2>1, <2>3 DEF LotsOf
    <3>2. /\ \A i \in DOMAIN q :
               /\ q[i].bought <= date
               /\ \E k \in DOMAIN trades : trades[k].symbol = s /\ trades[k].side = "BUY"
                                            /\ trades[k].date = q[i].bought
               /\ i > 1 => q[i - 1].bought <= q[i].bought
      BY <2>1, <2>3 DEF LotsOf
    <3>3. Units(lots'[x]) = position'[x]
      BY <3>1
    <3> HIDE DEF q, m
    <3>4. ASSUME NEW i \in DOMAIN m
          PROVE  /\ m[i].bought <= date
                 /\ \E k \in DOMAIN trades : trades[k].symbol = s /\ trades[k].side = "BUY"
                                              /\ trades[k].date = m[i].bought
                 /\ i > 1 => m[i - 1].bought <= m[i].bought
      <4>1. i \in DOMAIN q /\ m[i].bought = q[i].bought
        BY <3>1
      <4>2. i > 1 => m[i - 1].bought = q[i - 1].bought
        <5>1. i > 1 => i - 1 \in 1..Len(q)
          BY <3>1
        <5> QED BY <3>1, <5>1
      <4> QED BY <3>2, <4>1, <4>2
    <3>5. \A i \in DOMAIN lots'[x] :
             /\ lots'[x][i].bought <= date'
             /\ \E k \in DOMAIN trades' : trades'[k].symbol = x /\ trades'[k].side = "BUY"
                                          /\ trades'[k].date = lots'[x][i].bought
             /\ i > 1 => lots'[x][i - 1].bought <= lots'[x][i].bought
      BY <2>3, <3>1, <3>4
    <3> QED BY <3>3, <3>5 DEF LotsOf, Units, Total
  <2> QED BY <2>2, <2>3
<1> QED BY <1>1, <1>5, <1>6 DEF EquityInv

\* The trade a fill logs.
LEMMA FillLogs ==
  ASSUME BacktestType, Fill
  PROVE  LET o == Order
             n == FillQuantity(Order, Today)
             p == FillPrice(Order, Today)
             t == Trade(o, n, p) IN
           /\ o \in Queued /\ n \in Nat \ {0} /\ p \in Nat \ {0} /\ n * p \in Nat
           /\ t \in Executed /\ t.side = o.side /\ t.symbol = o.symbol /\ t.date = date
           /\ trades' = Append(trades, t)
           /\ Weighed(CostOf, trades') = Weighed(CostOf, trades) + t.cost
           /\ Weighed(GainOf, trades') = Weighed(GainOf, trades) + t.gain
<1> DEFINE o == Order
           n == FillQuantity(Order, Today)
           p == FillPrice(Order, Today)
           t == Trade(o, n, p)
<1>1. o \in Queued /\ n \in Nat \ {0} /\ p \in Nat \ {0}
  BY FillFacts DEF Fill
<1>2. n * p \in Nat
  <2> HIDE DEF n, p
  <2> QED BY <1>1
<1>3. trades' = Append(trades, t) /\ trades \in Seq(Executed) /\ trades' \in Seq(Executed)
  BY FillType DEF Fill, BacktestType
<1>4. t.side = o.side /\ t.symbol = o.symbol /\ t.date = date
  BY DEF Trade
<1>5. t \in Executed
  <2> HIDE DEF t
  <2>1. Len(trades') \in 1..Len(trades') /\ trades'[Len(trades')] = t
    BY <1>3
  <2>2. trades'[Len(trades')] \in Executed
    BY <1>3, <2>1
  <2> QED BY <2>1, <2>2
<1> HIDE DEF t
<1>6. Weighed(CostOf, Append(trades, t)) = Weighed(CostOf, trades) + t.cost
  <2>1. (\A x \in Executed : CostOf[x] \in Int) /\ CostOf[t] = t.cost
    BY <1>5, Weights
  <2>2. Weighed(CostOf, Append(trades, t)) = Weighed(CostOf, trades) + CostOf[t]
    BY <1>3, <1>5, <2>1, WeighedAppend
  <2> QED BY <2>1, <2>2
<1>7. Weighed(GainOf, Append(trades, t)) = Weighed(GainOf, trades) + t.gain
  <2>1. (\A x \in Executed : GainOf[x] \in Int) /\ GainOf[t] = t.gain
    BY <1>5, Weights
  <2>2. Weighed(GainOf, Append(trades, t)) = Weighed(GainOf, trades) + GainOf[t]
    BY <1>3, <1>5, <2>1, WeighedAppend
  <2> QED BY <2>1, <2>2
<1> QED BY <1>1, <1>2, <1>3, <1>4, <1>5, <1>6, <1>7 DEF t

\* What is bought adds its price to the basis; what is sold takes its basis out
\* and leaves the gain.
LEMMA FillLots ==
  ASSUME BacktestType, EquityInv, Fill
  PROVE  LET o == Order
             s == Order.symbol
             n == FillQuantity(Order, Today)
             p == FillPrice(Order, Today)
             t == Trade(o, n, p) IN
           /\ \A x \in Symbol \ {s} : lots'[x] = lots[x] /\ position'[x] = position[x]
           /\ Units(lots'[s]) = position'[s]
           /\ cash' + Basis(lots'[s]) = cash + Basis(lots[s]) - t.cost + t.gain
           /\ IF o.side = "BUY"
                THEN lots'[s] = Append(lots[s], [bought |-> date, quantity |-> n, price |-> p])
                ELSE lots'[s] = MatchSell(lots[s], n)
<1> DEFINE o == Order
           s == Order.symbol
           n == FillQuantity(Order, Today)
           p == FillPrice(Order, Today)
           t == Trade(o, n, p)
           q == lots[s]
<1>1. /\ Due /\ Fillable /\ CanAfford(o, n, p)
      /\ IF o.side = "BUY" THEN Buy(o, n, p) ELSE Sell(o, n, p)
  BY DEF Fill
<1>2. o \in Queued /\ n \in Nat \ {0} /\ p \in Nat \ {0} /\ n * p \in Nat
  BY FillLogs
<1>3. s \in Symbol /\ o.side \in {"BUY", "SELL"} /\ s = o.symbol
  BY <1>2, QueuedFields
<1>4. /\ q \in Seq(Lot) /\ position[s] \in Nat /\ cash \in Int /\ date \in Nat
      /\ lots \in [Symbol -> Seq(Lot)] /\ position \in [Symbol -> Nat]
  BY <1>3 DEF BacktestType
<1>5. Units(q) = position[s] /\ Basis(q) \in Int
  BY <1>3, <1>4, QueueSums DEF EquityInv, LotsOf
<1>6. /\ t.cost = TransactionCost(o.side, n * p)
      /\ t.gain = IF o.side = "BUY" THEN 0 ELSE RealizedGain(q, n, p)
  BY DEF Trade
<1>7. TransactionCost(o.side, n * p) \in Nat
  BY <1>2, <1>3, TransactionCostNat
<1> HIDE DEF o, s, n, p, t, q
<1>8. CASE o.side = "BUY"
  <2> DEFINE lot == [bought |-> date, quantity |-> n, price |-> p]
  <2>1. /\ cash' = cash - n * p - TransactionCost("BUY", n * p)
        /\ position' = [position EXCEPT ![s] = position[s] + n]
        /\ lots' = [lots EXCEPT ![s] = Append(lots[s], lot)]
    BY <1>1, <1>3, <1>8 DEF Buy
  <2>2. lot \in Lot /\ lot.quantity = n /\ lot.price = p
    BY <1>2, <1>4 DEF Lot
  <2> HIDE DEF lot
  <2>3. /\ lots'[s] = Append(q, lot) /\ position'[s] = position[s] + n
        /\ \A x \in Symbol \ {s} : lots'[x] = lots[x] /\ position'[x] = position[x]
    BY <1>3, <1>4, <2>1 DEF q
  <2>4. Units(Append(q, lot)) = Units(q) + n /\ Basis(Append(q, lot)) = Basis(q) + n * p
    BY <1>4, <2>2, AfterPurchase
  <2>5. cash' + Basis(lots'[s]) = cash + Basis(q) - t.cost + t.gain
    <3> DEFINE c == TransactionCost("BUY", n * p)
               b == Basis(q)
               b1 == Basis(lots'[s])
               g == n * p
    <3>1. cash' = cash - g - c /\ b1 = b + g /\ t.cost = c /\ t.gain = 0
      BY <1>6, <1>8, <2>1, <2>3, <2>4
    <3>2. c \in Int /\ b \in Int /\ g \in Int /\ cash \in Int
      BY <1>2, <1>4, <1>5, <1>7, <1>8
    <3> HIDE DEF c, b, b1, g
    <3>3. cash' + b1 = cash + b - t.cost + t.gain
      BY <3>1, <3>2
    <3> QED BY <3>3 DEF b, b1
  <2>6. Units(lots'[s]) = position'[s]
    BY <1>5, <2>3, <2>4
  <2> QED BY <1>8, <2>3, <2>5, <2>6 DEF o, s, n, p, t, q, lot
<1>9. CASE o.side = "SELL"
  <2>1. /\ cash' = cash + n * p - TransactionCost("SELL", n * p)
        /\ position' = [position EXCEPT ![s] = position[s] - n]
        /\ lots' = [lots EXCEPT ![s] = MatchSell(lots[s], n)]
        /\ n <= position[s]
    BY <1>1, <1>3, <1>9 DEF Sell, CanAfford
  <2>2. /\ lots'[s] = MatchSell(q, n) /\ position'[s] = position[s] - n
        /\ \A x \in Symbol \ {s} : lots'[x] = lots[x] /\ position'[x] = position[x]
    BY <1>3, <1>4, <2>1 DEF q
  <2>3. n \in Nat /\ n <= Units(q) /\ p \in Int
    BY <1>2, <1>5, <2>1
  <2>4. Units(MatchSell(q, n)) = Units(q) - n
    BY <1>4, <2>3, UnitsAfterSale
  <2>5. RealizedGain(q, n, p) = n * p - (Basis(q) - Basis(MatchSell(q, n)))
    BY <1>4, <2>3, GainOfSale
  <2>6. cash' + Basis(lots'[s]) = cash + Basis(q) - t.cost + t.gain
    <3> DEFINE c == TransactionCost("SELL", n * p)
               b == Basis(q)
               b1 == Basis(lots'[s])
               g == n * p
    <3>1. cash' = cash + g - c /\ t.cost = c /\ t.gain = g - (b - b1)
      BY <1>6, <1>9, <2>1, <2>2, <2>5
    <3>2. c \in Int /\ b \in Int /\ b1 \in Int /\ g \in Int /\ cash \in Int
      <4>1. MatchSell(q, n) \in Seq(Lot)
        BY <1>4, <2>3, MatchSellIs
      <4>2. b1 \in Int
        BY <2>2, <4>1, QueueSums
      <4> HIDE DEF b1
      <4> QED BY <1>2, <1>4, <1>5, <1>7, <1>9, <4>2
    <3> HIDE DEF c, b, b1, g
    <3>3. cash' + b1 = cash + b - t.cost + t.gain
      BY <3>1, <3>2
    <3> QED BY <3>3 DEF b, b1
  <2>7. Units(lots'[s]) = position'[s]
    BY <1>5, <2>2, <2>4
  <2> QED BY <1>9, <2>2, <2>6, <2>7 DEF o, s, n, p, t, q
<1> QED BY <1>3, <1>8, <1>9

LEMMA FillEquity ==
  ASSUME BacktestType, EquityInv, phase # "decide", Fill
  PROVE  EquityInv'
<1> DEFINE o == Order
           s == Order.symbol
           n == FillQuantity(Order, Today)
           p == FillPrice(Order, Today)
           t == Trade(o, n, p)
<1>1. /\ o \in Queued /\ n \in Nat \ {0} /\ p \in Nat \ {0}
      /\ t \in Executed /\ t.side = o.side /\ t.symbol = s /\ t.date = date
      /\ trades' = Append(trades, t)
      /\ Weighed(CostOf, trades') = Weighed(CostOf, trades) + t.cost
      /\ Weighed(GainOf, trades') = Weighed(GainOf, trades) + t.gain
  BY FillLogs
<1>2. /\ \A x \in Symbol \ {s} : lots'[x] = lots[x] /\ position'[x] = position[x]
      /\ Units(lots'[s]) = position'[s]
      /\ cash' + Basis(lots'[s]) = cash + Basis(lots[s]) - t.cost + t.gain
      /\ IF o.side = "BUY"
           THEN lots'[s] = Append(lots[s], [bought |-> date, quantity |-> n, price |-> p])
           ELSE lots'[s] = MatchSell(lots[s], n)
  BY FillLots
<1>3. date' = date /\ phase' = phase /\ receipts' = receipts
  BY DEF Fill, market
<1>4. s \in Symbol /\ o.side \in {"BUY", "SELL"} /\ t.cost \in Int /\ t.gain \in Int
  BY <1>1, QueuedFields, Weights
<1>5. BacktestType'
  BY FillType
<1>6. /\ lots[s] \in Seq(Lot) /\ lots'[s] \in Seq(Lot) /\ trades \in Seq(Executed) /\ date \in Nat
      /\ cash \in Int /\ cash' \in Int
  BY <1>4, <1>5 DEF BacktestType
<1> HIDE DEF o, s, n, p, t
<1>7. MoneyKept'
  <2> DEFINE h == Holdings
             h1 == Holdings'
             b == Basis(lots[s])
             b1 == Basis(lots'[s])
             c == Weighed(CostOf, trades)
             g == Weighed(GainOf, trades)
             d == Weighed(CreditOf, receipts)
             c1 == Weighed(CostOf, trades')
             g1 == Weighed(GainOf, trades')
             tc == t.cost
             tg == t.gain
             k == cash
             k1 == cash'
  <2>1. h1 = h - b + b1
    BY <1>2, <1>4, <1>5, HoldingsChange
  <2>2. /\ h \in Int /\ b \in Int /\ b1 \in Int /\ c \in Int /\ g \in Int /\ d \in Int /\ Capital \in Int
    <3>1. b \in Int /\ b1 \in Int
      BY <1>6, QueueSums
    <3> HIDE DEF b, b1
    <3> QED BY <3>1, LogInt, BasisInt, BacktestAssumption
  <2>3. cash + h = Capital - c + g + d
    BY DEF EquityInv, MoneyKept
  <2>4. c1 = c + tc /\ g1 = g + tg /\ k1 + b1 = k + b - tc + tg
    BY <1>1, <1>2
  <2>5. tc \in Int /\ tg \in Int /\ k \in Int /\ k1 \in Int
    BY <1>4, <1>6
  <2>6. k + h = Capital - c + g + d
    BY <2>3
  <2> HIDE DEF h, h1, b, b1, c, g, d, c1, g1, tc, tg, k, k1
  <2>7. k1 + h1 = Capital - c1 + g1 + d
    <3>1. k1 + h1 = k1 + (h - b + b1)
      BY <2>1
    <3>2. k1 + b1 = k + b - tc + tg
      BY <2>4
    <3>3. k1 + h1 = (k + h) - tc + tg
      BY <2>2, <2>5, <3>1, <3>2
    <3>4. k1 + h1 = (Capital - c + g + d) - tc + tg
      BY <2>6, <3>3
    <3> QED BY <2>2, <2>4, <2>5, <3>4
  <2> QED BY <1>3, <2>7 DEF MoneyKept, h1, c1, g1, d, k1
<1>8. /\ Len(trades) \in Nat /\ DOMAIN trades = 1..Len(trades)
      /\ DOMAIN trades' = 1..(Len(trades) + 1) /\ trades'[Len(trades) + 1] = t
      /\ \A k \in DOMAIN trades : k \in DOMAIN trades' /\ trades'[k] = trades[k]
  BY <1>1, <1>6, AppendIs
<1> DEFINE Bought(x, day, log) == \E k \in DOMAIN log : /\ log[k].symbol = x /\ log[k].side = "BUY"
                                                         /\ log[k].date = day
<1>9. ASSUME NEW x, NEW day, Bought(x, day, trades) PROVE Bought(x, day, trades')
  BY <1>8, <1>9
<1>10. ASSUME NEW x \in Symbol PROVE LotsOf(x)'
  <2>1. Units(lots[x]) = position[x] /\ \A i \in DOMAIN lots[x] :
          /\ lots[x][i].bought <= date /\ Bought(x, lots[x][i].bought, trades)
          /\ i > 1 => lots[x][i - 1].bought <= lots[x][i].bought
    BY DEF EquityInv, LotsOf
  <2> SUFFICES /\ Units(lots'[x]) = position'[x]
               /\ \A i \in DOMAIN lots'[x] :
                    /\ lots'[x][i].bought <= date /\ Bought(x, lots'[x][i].bought, trades')
                    /\ i > 1 => lots'[x][i - 1].bought <= lots'[x][i].bought
    BY <1>3 DEF LotsOf, Units, Total
  <2> HIDE DEF Bought
  <2>2. CASE x # s
    <3>1. lots'[x] = lots[x] /\ position'[x] = position[x]
      BY <1>2, <2>2
    <3> QED BY <1>9, <2>1, <3>1
  <2>3. CASE x = s /\ o.side = "BUY"
    <3> DEFINE q == lots[s]
               lot == [bought |-> date, quantity |-> n, price |-> p]
    <3>1. lots'[x] = Append(q, lot) /\ lot.bought = date /\ q \in Seq(Lot) /\ lot \in Lot
      BY <1>1, <1>2, <1>6, <2>3 DEF Lot
    <3>2. Bought(x, date, trades')
      <4>1. Len(trades) + 1 \in DOMAIN trades'
        BY <1>8
      <4> QED BY <1>1, <1>8, <2>3, <4>1 DEF Bought
    <3> HIDE DEF q, lot
    <3>3. /\ Len(q) \in Nat /\ DOMAIN q = 1..Len(q) /\ DOMAIN Append(q, lot) = 1..(Len(q) + 1)
          /\ Append(q, lot)[Len(q) + 1] = lot
          /\ \A k \in 1..Len(q) : Append(q, lot)[k] = q[k]
      BY <3>1, AppendIs
    <3>4. ASSUME NEW i \in DOMAIN lots'[x]
          PROVE  /\ lots'[x][i].bought <= date /\ Bought(x, lots'[x][i].bought, trades')
                 /\ i > 1 => lots'[x][i - 1].bought <= lots'[x][i].bought
      <4>1. CASE i = Len(q) + 1
        <5>1. lots'[x][i].bought = date
          BY <3>1, <3>3, <4>1
        <5>2. i > 1 => i - 1 \in 1..Len(q)
          BY <3>3, <4>1
        <5>3. i > 1 => lots'[x][i - 1] = q[i - 1]
          BY <3>1, <3>3, <5>2
        <5> QED BY <5>3, <1>6, <2>1, <2>3, <3>2, <3>3, <5>1, <5>2 DEF q
      <4>2. CASE i # Len(q) + 1
        <5>1. i \in 1..Len(q) /\ lots'[x][i] = q[i]
          BY <3>1, <3>3, <4>2
        <5>2. i > 1 => i - 1 \in 1..Len(q) /\ lots'[x][i - 1] = q[i - 1]
          BY <3>1, <3>3, <5>1
        <5> QED BY <1>9, <2>1, <2>3, <3>3, <5>1, <5>2 DEF q
      <4> QED BY <4>1, <4>2
    <3> QED BY <1>2, <2>3, <3>4
  <2>4. CASE x = s /\ o.side = "SELL"
    <3> DEFINE q == lots[s]
               m == MatchSell(q, n)
               u == Cardinality(UsedUp(q, n))
    <3>1. q \in Seq(Lot) /\ n \in Nat /\ lots'[x] = m /\ DOMAIN q = 1..Len(q)
      BY <1>1, <1>2, <1>6, <2>4
    <3>2. /\ m \in Seq(Lot) /\ DOMAIN m = 1..Len(m)
          /\ \A k \in 1..Len(m) : u + k \in 1..Len(q) /\ m[k].bought = q[u + k].bought
      BY <3>1, MatchSellIs
    <3>3. u \in Nat
      BY <3>1, UsedUpIs
    <3> HIDE DEF q, m, u
    <3>4. ASSUME NEW i \in DOMAIN m
          PROVE  /\ m[i].bought <= date /\ Bought(x, m[i].bought, trades')
                 /\ i > 1 => m[i - 1].bought <= m[i].bought
      <4>1. u + i \in DOMAIN q /\ m[i].bought = q[u + i].bought
        BY <3>1, <3>2
      <4>2. i > 1 => m[i - 1].bought = q[(u + i) - 1].bought /\ u + i > 1
        <5>1. SUFFICES ASSUME i > 1 PROVE m[i - 1].bought = q[(u + i) - 1].bought /\ u + i > 1
          OBVIOUS
        <5>2. i - 1 \in 1..Len(m)
          BY <3>2, <5>1
        <5>3. m[i - 1].bought = q[u + (i - 1)].bought
          BY <3>2, <5>2
        <5>4. u + (i - 1) = (u + i) - 1 /\ u + i > 1
          BY <3>2, <3>3, <5>1
        <5> QED BY <5>3, <5>4
      <4> QED BY <1>9, <2>1, <2>4, <4>1, <4>2 DEF q
    <3> QED BY <1>2, <2>4, <3>1, <3>4
  <2> QED BY <1>4, <2>2, <2>3, <2>4
<1> QED BY <1>3, <1>7, <1>10 DEF EquityInv

LEMMA EquityStep ==
  ASSUME BacktestType, EquityInv, [Next]_vars
  PROVE  EquityInv'
<1>1. CASE UNCHANGED <<cash, position, lots, trades, receipts, last, equity, date>> /\ phase' # "decide"
  <2>1. \A s \in Symbol : LotsOf(s)'
    BY <1>1 DEF EquityInv, LotsOf, Units, Total
  <2>2. MoneyKept'
    BY <1>1 DEF EquityInv, MoneyKept, Holdings, Basis, Total, Weighed, CostOf, GainOf, CreditOf
  <2> QED BY <1>1, <2>1, <2>2 DEF EquityInv
<1>2. ASSUME NEW days \in 1..MaxGap, NEW printed \in Printed, Advance(days, printed)
      PROVE  EquityInv'
  <2>1. /\ date' = date + days /\ phase' = "actions"
        /\ UNCHANGED <<cash, position, lots, trades, receipts>>
    BY <1>2 DEF Advance, After, portfolio, output
  <2>2. date \in Nat /\ date <= date'
    BY <2>1 DEF BacktestType
  <2>3. ASSUME NEW s \in Symbol PROVE LotsOf(s)'
    <3>1. LotsOf(s)
      BY DEF EquityInv
    <3>2. ASSUME NEW i \in DOMAIN lots[s] PROVE lots[s][i].bought <= date'
      <4>1. lots[s] \in Seq(Lot) /\ lots[s][i].bought <= date
        BY <3>1 DEF LotsOf, BacktestType
      <4>2. lots[s][i].bought \in Nat
        <5> DEFINE q == lots[s]
        <5>1. q \in Seq(Lot) /\ i \in 1..Len(q)
          BY <4>1
        <5> HIDE DEF q
        <5>2. q[i].bought \in Nat
          BY <5>1, LotAt
        <5> QED BY <5>2 DEF q
      <4> QED BY <2>1, <2>2, <4>1, <4>2
    <3> QED BY <2>1, <3>1, <3>2 DEF LotsOf, Units, Total
  <2>4. MoneyKept'
    BY <2>1 DEF EquityInv, MoneyKept, Holdings, Basis, Total, Weighed, CostOf, GainOf, CreditOf
  <2> QED BY <2>1, <2>3, <2>4 DEF EquityInv
<1>3. CASE ActionsDone
  <2>1. /\ UNCHANGED <<cash, position, lots, trades, receipts, last, equity, date>>
        /\ phase' = "fills"
    BY <1>3 DEF ActionsDone, After, market, portfolio, output
  <2> QED BY <1>1, <2>1
<1>4. CASE \E s \in Symbol : PayDividend(s) \/ Split(s)
  BY <1>4, DividendEquity, SplitEquity
<1>5. CASE \/ WaitForBar \/ WaitForPrice \/ ExpireWithoutBar \/ ExpireUnfilled
           \/ RejectUnaffordable
  <2>1. /\ UNCHANGED <<cash, position, lots, trades, receipts, last, equity, date>>
        /\ phase = "fills" /\ phase' = phase
    <3>1. Due /\ (Keep \/ Drop)
      BY <1>5 DEF WaitForBar, WaitForPrice, ExpireWithoutBar, ExpireUnfilled, RejectUnaffordable
    <3> QED BY <3>1 DEF Due, Keep, Drop, market, portfolio, output
  <2> QED BY <1>1, <2>1
<1>6. CASE Fill
  <2>1. phase = "fills"
    BY <1>6 DEF Fill, Due
  <2> QED BY <1>6, <2>1, FillEquity
<1>7. CASE FillsDone \/ DayDone \/ Finish
  <2>1. /\ UNCHANGED <<cash, position, lots, trades, receipts, last, equity, date>>
        /\ phase' \in {"mark", "advance", "done"}
    BY <1>7 DEF FillsDone, DayDone, Finish, After, market, portfolio, output
  <2> QED BY <1>1, <2>1
<1>8. CASE Mark
  <2>1. /\ UNCHANGED <<cash, position, lots, trades, receipts, last, date>>
        /\ equity' = cash + Value(position, last)
    BY <1>8 DEF Mark, market, portfolio
  <2>2. \A s \in Symbol : LotsOf(s)'
    BY <2>1 DEF EquityInv, LotsOf, Units, Total
  <2>3. MoneyKept'
    BY <2>1 DEF EquityInv, MoneyKept, Holdings, Basis, Total, Weighed, CostOf, GainOf, CreditOf
  <2>4. equity' = cash' + Value(position', last')
    BY <2>1 DEF Value
  <2> QED BY <2>2, <2>3, <2>4 DEF EquityInv, Value
<1>9. CASE UNCHANGED vars \/ \E intent \in Intents : Decide(intent)
  <2>1. UNCHANGED <<cash, position, lots, trades, receipts, last, equity, date, phase>>
    BY <1>9 DEF Decide, vars, market, portfolio, output
  <2>2. \A s \in Symbol : LotsOf(s)'
    BY <2>1 DEF EquityInv, LotsOf, Units, Total
  <2>3. MoneyKept'
    BY <2>1 DEF EquityInv, MoneyKept, Holdings, Basis, Total, Weighed, CostOf, GainOf, CreditOf
  <2> QED BY <2>1, <2>2, <2>3 DEF EquityInv, Value
<1> QED BY <1>2, <1>3, <1>4, <1>5, <1>6, <1>7, <1>8, <1>9 DEF Next

\* The gain still open on a queue of lots is its value less its basis.
LEMMA OpenGain ==
  ASSUME NEW q \in Seq(Lot), NEW c \in Int
  PROVE  /\ Total(LAMBDA lot : lot.quantity * (c - lot.price), q) = Units(q) * c - Basis(q)
         /\ Total(LAMBDA lot : lot.quantity * (c - lot.price), q) \in Int
<1> DEFINE n == Len(q)
           a == [i \in 1..n |-> q[i].quantity]
           b == [i \in 1..n |-> q[i].quantity * q[i].price]
           g == [i \in 1..n |-> q[i].quantity * (c - q[i].price)]
           v == [i \in 1..n |-> c * q[i].quantity]
<1>1. DOMAIN q = 1..n /\ IsFiniteSet(1..n)
  BY FS_Interval
<1>2. ASSUME NEW i \in 1..n
      PROVE  /\ a[i] \in Int /\ b[i] \in Int /\ g[i] \in Int /\ v[i] = c * a[i]
             /\ v[i] = g[i] + b[i]
  <2> DEFINE x == q[i].quantity
             y == q[i].price
  <2>1. x \in Int /\ y \in Int
    <3>1. x \in Nat /\ y \in Nat
      BY LotAt
    <3> QED BY <3>1
  <2>2. a[i] = x /\ b[i] = x * y /\ g[i] = x * (c - y) /\ v[i] = c * x
    OBVIOUS
  <2> HIDE DEF x, y, a, b, g, v
  <2>3. x * (c - y) = c * x - x * y /\ x * y \in Int /\ c * x \in Int
    BY <2>1
  <2>4. v[i] = g[i] + b[i] /\ g[i] \in Int /\ b[i] \in Int
    BY <2>2, <2>3
  <2> QED BY <2>1, <2>2, <2>4
<1>3. /\ Units(q) = SumOver(a, 1..n) /\ Basis(q) = SumOver(b, 1..n)
      /\ Total(LAMBDA lot : lot.quantity * (c - lot.price), q) = SumOver(g, 1..n)
  BY <1>1 DEF Units, Basis, Total, SumOf
<1> HIDE DEF a, b, g, v
<1>4. SumOver(v, 1..n) = c * SumOver(a, 1..n)
  <2>1. \A i \in 1..n : a[i] \in Int /\ v[i] = c * a[i]
    BY <1>2
  <2> QED BY <1>1, <2>1, SumOverTimes
<1>5. SumOver(v, 1..n) = SumOver(g, 1..n) + SumOver(b, 1..n)
  <2>1. \A i \in 1..n : g[i] \in Int /\ b[i] \in Int /\ v[i] = g[i] + b[i]
    BY <1>2
  <2> QED BY <1>1, <2>1, SumOverPlus
<1>6. SumOver(a, 1..n) \in Int
  <2>1. \A i \in 1..n : a[i] \in Int
    BY <1>2
  <2> QED BY <1>1, <2>1, SumOverInt
<1>7. SumOver(b, 1..n) \in Int
  <2>1. \A i \in 1..n : b[i] \in Int
    BY <1>2
  <2> QED BY <1>1, <2>1, SumOverInt
<1>8. SumOver(g, 1..n) \in Int
  <2>1. \A i \in 1..n : g[i] \in Int
    BY <1>2
  <2> QED BY <1>1, <2>1, SumOverInt
<1> HIDE DEF n
<1>9. SumOver(g, 1..n) = SumOver(a, 1..n) * c - SumOver(b, 1..n)
  <2> DEFINE aa == SumOver(a, 1..n)
             bb == SumOver(b, 1..n)
             gg == SumOver(g, 1..n)
  <2>1. c * aa = gg + bb /\ aa \in Int /\ bb \in Int /\ gg \in Int
    BY <1>4, <1>5, <1>6, <1>7, <1>8
  <2> HIDE DEF aa, bb, gg
  <2>2. c * aa = aa * c /\ c * aa \in Int
    BY <2>1
  <2>3. gg = aa * c - bb
    BY <2>1, <2>2
  <2> QED BY <2>3 DEF aa, bb, gg
<1> QED BY <1>3, <1>8, <1>9

LEMMA EquityIs ==
  ASSUME BacktestType, EquityInv
  PROVE  EquityExplained
<1>1. LotsMatchPosition
  BY DEF EquityInv, LotsOf, LotsMatchPosition, Units
<1>2. ASSUME phase = "decide"
      PROVE  equity = Capital
               - Total(LAMBDA t : t.cost, trades) + Total(LAMBDA t : t.gain, trades)
               + Total(LAMBDA r : r.credited, receipts)
               + SumOver([s \in Symbol |->
                            Total(LAMBDA lot : lot.quantity * (last[s].price - lot.price), lots[s])],
                         Symbol)
  <2> DEFINE b == [s \in Symbol |-> Basis(lots[s])]
             v == [s \in Symbol |-> position[s] * last[s].price]
             g == [s \in Symbol |->
                     Total(LAMBDA lot : lot.quantity * (last[s].price - lot.price), lots[s])]
  <2>1. ASSUME NEW s \in Symbol
        PROVE  g[s] \in Int /\ b[s] \in Int /\ v[s] = g[s] + b[s]
    <3> DEFINE q == lots[s]
               c == last[s].price
    <3>1. q \in Seq(Lot) /\ c \in Int /\ position[s] = Units(q) /\ position[s] \in Int
      BY DEF BacktestType, EquityInv, LotsOf
    <3>2. g[s] = Total(LAMBDA lot : lot.quantity * (c - lot.price), q)
          /\ b[s] = Basis(q) /\ v[s] = position[s] * c
      OBVIOUS
    <3> HIDE DEF q, c, g, b, v
    <3>3. g[s] = Units(q) * c - Basis(q) /\ g[s] \in Int /\ Basis(q) \in Int
      BY <3>1, <3>2, OpenGain, QueueSums
    <3> DEFINE u == Units(q)
               w == Basis(q)
    <3>4. u \in Int /\ c \in Int /\ w \in Int /\ g[s] = u * c - w /\ v[s] = u * c /\ b[s] = w
      BY <3>1, <3>2, <3>3
    <3> HIDE DEF u, w
    <3>5. u * c \in Int
      BY <3>4
    <3> QED BY <3>3, <3>4, <3>5
  <2>2. /\ Holdings = SumOver(b, Symbol) /\ Value(position, last) = SumOver(v, Symbol)
    BY DEF Holdings, Value
  <2>3. /\ Total(LAMBDA t : t.cost, trades) = Weighed(CostOf, trades)
        /\ Total(LAMBDA t : t.gain, trades) = Weighed(GainOf, trades)
        /\ Total(LAMBDA r : r.credited, receipts) = Weighed(CreditOf, receipts)
    <3>1. trades \in Seq(Executed) /\ receipts \in Seq(Receipt)
      BY DEF BacktestType
    <3>2. \A i \in DOMAIN trades : trades[i] \in Executed
      BY <3>1, EntryOf
    <3>3. \A i \in DOMAIN receipts : receipts[i] \in Receipt
      BY <3>1, EntryOf
    <3> QED BY <3>2, <3>3 DEF Total, Weighed, CostOf, GainOf, CreditOf
  <2> HIDE DEF b, v, g
  <2>4. SumOver(v, Symbol) = SumOver(g, Symbol) + SumOver(b, Symbol)
    <3>1. \A s \in Symbol : g[s] \in Int /\ b[s] \in Int /\ v[s] = g[s] + b[s]
      BY <2>1
    <3>2. IsFiniteSet(Symbol)
      BY BacktestAssumption
    <3> QED BY <3>1, <3>2, SumOverPlus
  <2>5. SumOver(g, Symbol) \in Int
    <3>1. \A s \in Symbol : g[s] \in Int
      BY <2>1
    <3> QED BY <3>1, SumOverInt, BacktestAssumption
  <2> DEFINE gg == SumOver(g, Symbol)
             cc == Weighed(CostOf, trades)
             hh == Weighed(GainOf, trades)
             dd == Weighed(CreditOf, receipts)
             bb == Holdings
             vv == Value(position, last)
  <2>6. /\ equity = cash + vv /\ vv = gg + bb
        /\ cash + bb = Capital - cc + hh + dd
    BY <1>2, <2>2, <2>4 DEF EquityInv, MoneyKept
  <2>7. /\ gg \in Int /\ cc \in Int /\ hh \in Int /\ dd \in Int /\ bb \in Int
        /\ cash \in Int /\ Capital \in Int
    BY <2>5, LogInt, BasisInt, BacktestAssumption DEF BacktestType
  <2> HIDE DEF gg, cc, hh, dd, bb, vv
  <2>8. equity = Capital - cc + hh + dd + gg
    BY <2>6, <2>7
  <2> QED BY <2>3, <2>8 DEF gg, cc, hh, dd, g
<1> QED BY <1>1, <1>2 DEF EquityExplained

\* Nothing is created or lost: through purchases, sales that take lots in part,
\* dividends and splits, the tax lots stay the units held, with the dates of
\* their purchases, and every point of the equity curve is the capital, less
\* costs, plus dividends and the gains realized and open.
THEOREM EquityIsExplained == Spec => []EquityExplained
<1>1. Init => BacktestType /\ EquityInv
  <2>1. SUFFICES ASSUME Init PROVE EquityInv
    BY TypeInit
  <2>2. /\ trades = <<>> /\ receipts = <<>> /\ cash = Capital /\ phase = "advance"
        /\ lots = [s \in Symbol |-> <<>>] /\ position = [s \in Symbol |-> 0]
    BY <2>1 DEF Init
  <2>3. Units(<<>>) = 0 /\ Basis(<<>>) = 0
    BY SumOfEmpty DEF Units, Basis, Total
  <2>4. \A s \in Symbol : LotsOf(s)
    BY <2>2, <2>3 DEF LotsOf
  <2>5. Holdings = 0
    <3> DEFINE b == [s \in Symbol |-> Basis(lots[s])]
    <3>1. \A s \in Symbol : b[s] = 0
      BY <2>2, <2>3
    <3> HIDE DEF b
    <3>2. SumOver(b, Symbol) = 0
      BY <3>1, SumOverNone, BacktestAssumption
    <3> QED BY <3>2 DEF Holdings, b
  <2>6. /\ Weighed(CostOf, <<>>) = 0 /\ Weighed(GainOf, <<>>) = 0
        /\ Weighed(CreditOf, <<>>) = 0
    BY WeighedEmpty
  <2>7. MoneyKept
    <3>1. Capital \in Int
      BY BacktestAssumption
    <3> QED BY <2>2, <2>5, <2>6, <3>1 DEF MoneyKept
  <2> QED BY <2>2, <2>4, <2>7 DEF EquityInv
<1>2. BacktestType /\ EquityInv /\ [Next]_vars => BacktestType' /\ EquityInv'
  BY TypeStep, EquityStep
<1>3. BacktestType /\ EquityInv => EquityExplained
  BY EquityIs
<1> QED BY <1>1, <1>2, <1>3, PTL DEF Spec
=============================================================================
