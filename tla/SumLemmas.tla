----------------------------- MODULE SumLemmas -----------------------------
(***************************************************************************)
(* What a sum does when an element joins or leaves, changes or moves.      *)
(*                                                                         *)
(* The induction theorems of the library take an operator, which no prover *)
(* here instantiates.  Induction is done with sets instead: of naturals    *)
(* (NatInduct), from the least element WFMin gives a set, and of subsets   *)
(* of a finite set (SetInduct).  A fold is a CHOOSE of a recursive         *)
(* function, so its existence (StepsExist) comes first.                    *)
(***************************************************************************)
EXTENDS Sums, FiniteSetTheorems, SequenceTheorems, WellFoundedInduction, TLAPS

-----------------------------------------------------------------------------
(* Induction over sets.                                                    *)

\* A set of naturals with 0 and the successors of its members is all of them.
LEMMA NatInduct ==
  ASSUME NEW S, S \subseteq Nat, 0 \in S, \A n \in Nat : n \in S => n + 1 \in S
  PROVE  S = Nat
<1> DEFINE T == Nat \ S
<1>1. SUFFICES ASSUME T # {} PROVE FALSE
  BY <1>1
<1>2. PICK x \in T : \A y \in T : ~ (<<y, x>> \in OpToRel(<, Nat))
  BY <1>1, NatLessThanWellFounded, WFMin, Zenon
<1>3. x \in Nat /\ x # 0 /\ x - 1 \in Nat /\ x - 1 \in S
  <2>1. x \in Nat /\ x # 0
    OBVIOUS
  <2>2. x - 1 \in Nat /\ x - 1 < x
    BY <2>1
  <2>3. <<x - 1, x>> \in OpToRel(<, Nat)
    BY <2>1, <2>2 DEF OpToRel
  <2>4. x - 1 \notin T
    BY <2>3, <1>2
  <2> QED BY <2>1, <2>2, <2>4
<1> QED BY <1>3

\* A collection of subsets of a finite set with the empty set, closed under
\* adding an element, has the whole set.
LEMMA SetInduct ==
  ASSUME NEW S, IsFiniteSet(S), NEW C, {} \in C,
         \A s \in SUBSET S : s \in C => \A x \in S \ s : s \cup {x} \in C
  PROVE  S \in C
<1> DEFINE Sized == {n \in Nat : \A s \in SUBSET S : Cardinality(s) = n => s \in C}
<1>1. \A s \in SUBSET S : IsFiniteSet(s) /\ Cardinality(s) \in Nat
  BY FS_Subset, FS_CardinalityType
<1>2. 0 \in Sized
  BY <1>1, FS_EmptySet
<1>3. ASSUME NEW n \in Nat, n \in Sized PROVE n + 1 \in Sized
  <2>1. ASSUME NEW s \in SUBSET S, Cardinality(s) = n + 1 PROVE s \in C
    <3>1. s # {}
      BY <2>1, <1>1, FS_EmptySet
    <3>2. PICK x \in s : TRUE
      BY <3>1
    <3>3. Cardinality(s \ {x}) = n
      <4>1. Cardinality(s \ {x}) = Cardinality(s) - 1
        BY <1>1, FS_RemoveElement
      <4> QED BY <2>1, <4>1
    <3>4. s \ {x} \in C
      BY <1>3, <3>3
    <3>5. x \in S \ (s \ {x}) /\ (s \ {x}) \cup {x} = s /\ s \ {x} \in SUBSET S
      OBVIOUS
    <3> QED BY <3>4, <3>5
  <2> QED BY <2>1
<1>4. Sized = Nat
  <2>1. Sized \subseteq Nat
    OBVIOUS
  <2> HIDE DEF Sized
  <2> QED BY <1>2, <1>3, <2>1, NatInduct
<1> QED BY <1>1, <1>4

\* Naturals up to a bound have a largest one.
LEMMA LargestOf ==
  ASSUME NEW n \in Nat, NEW S, S \subseteq 0..n, S # {}
  PROVE  Max(S) \in S /\ \A y \in S : Max(S) >= y
<1> DEFINE spare == {n - x : x \in S}
<1>1. spare \subseteq Nat /\ spare # {}
  <2>1. \A x \in S : n - x \in Nat
    OBVIOUS
  <2> QED BY <2>1
<1>2. PICK least \in spare : \A y \in spare : ~(<<y, least>> \in OpToRel(<, Nat))
  BY <1>1, WFMin, NatLessThanWellFounded, Zenon
<1>3. \A y \in spare : ~(y < least)
  BY <1>1, <1>2 DEF OpToRel
<1>4. PICK x \in S : least = n - x
  OBVIOUS
<1>5. \A y \in S : x >= y
  <2> SUFFICES ASSUME NEW y \in S PROVE x >= y
    OBVIOUS
  <2>1. ~(n - y < n - x)
    BY <1>3, <1>4
  <2> QED BY <2>1
<1> QED BY <1>4, <1>5 DEF Max

-----------------------------------------------------------------------------
(* The fold behind a sum, and that it exists.                              *)

Some(s) == CHOOSE x \in s : TRUE

Steps(h, f, S) == h = [s \in SUBSET S |-> IF s = {} THEN 0 ELSE f[Some(s)] + h[s \ {Some(s)}]]

LEMMA SomeIn ==
  ASSUME NEW s, s # {}
  PROVE  Some(s) \in s
BY Zenon DEF Some

LEMMA StepsAre ==
  ASSUME NEW S, NEW f, NEW h, Steps(h, f, S), NEW s \in SUBSET S
  PROVE  /\ s = {} => h[s] = 0
         /\ s # {} => h[s] = f[Some(s)] + h[s \ {Some(s)}]
<1>1. h[s] = IF s = {} THEN 0 ELSE f[Some(s)] + h[s \ {Some(s)}]
  BY Zenon DEF Steps
<1> QED BY <1>1, Zenon

LEMMA StepsEmpty ==
  ASSUME NEW S, NEW f, NEW h, Steps(h, f, S)
  PROVE  h[{}] = 0
<1>1. {} \in SUBSET S
  OBVIOUS
<1> QED BY <1>1, StepsAre

LEMMA StepsExist ==
  ASSUME NEW S, IsFiniteSet(S), NEW f
  PROVE  \E h : Steps(h, f, S)
<1> DEFINE step(h, s) == IF s = {} THEN 0 ELSE f[Some(s)] + h[s \ {Some(s)}]
           Upto(h, n) == \A s \in SUBSET S : Cardinality(s) <= n => h[s] = step(h, s)
           Has == {n \in Nat : \E h : Upto(h, n)}
<1>1. \A s \in SUBSET S : IsFiniteSet(s) /\ Cardinality(s) \in Nat
  BY FS_Subset, FS_CardinalityType
<1>2. 0 \in Has
  <2> DEFINE h == [s \in SUBSET S |-> 0]
  <2>1. ASSUME NEW s \in SUBSET S, Cardinality(s) <= 0 PROVE h[s] = step(h, s)
    <3>1. s = {}
      BY <1>1, <2>1, FS_EmptySet
    <3> QED BY <3>1
  <2>2. Upto(h, 0)
    BY <2>1
  <2> HIDE DEF Upto, h
  <2> QED BY <2>2
<1>3. ASSUME NEW n \in Nat, n \in Has PROVE n + 1 \in Has
  <2>1. PICK h : Upto(h, n)
    BY <1>3
  <2> DEFINE g == [s \in SUBSET S |-> IF Cardinality(s) <= n THEN h[s] ELSE step(h, s)]
  <2>2. ASSUME NEW s \in SUBSET S, Cardinality(s) <= n + 1 PROVE g[s] = step(g, s)
    <3>1. g[s] = step(h, s)
      BY <2>1
    <3>2. CASE s = {}
      BY <3>1, <3>2
    <3>3. CASE s # {}
      <4>1. Some(s) \in s
        BY <3>3, SomeIn
      <4>2. Cardinality(s \ {Some(s)}) <= n
        BY <1>1, <2>2, <4>1, FS_RemoveElement
      <4>3. g[s \ {Some(s)}] = h[s \ {Some(s)}]
        BY <4>2
      <4> HIDE DEF g
      <4> QED BY <3>1, <3>3, <4>3
    <3> QED BY <3>2, <3>3
  <2>3. Upto(g, n + 1)
    <3> HIDE DEF g
    <3> QED BY <2>2
  <2> HIDE DEF Upto, g
  <2> QED BY <2>3
<1>4. Has = Nat
  <2>1. Has \subseteq Nat
    OBVIOUS
  <2> HIDE DEF Has
  <2> QED BY <1>2, <1>3, <2>1, NatInduct
<1>5. PICK h : Upto(h, Cardinality(S))
  BY <1>1, <1>4
<1> DEFINE g == [s \in SUBSET S |-> h[s]]
<1>6. ASSUME NEW s \in SUBSET S PROVE g[s] = step(g, s)
  <2>1. h[s] = step(h, s)
    BY <1>5, <1>1, FS_Subset
  <2>2. s # {} => g[s \ {Some(s)}] = h[s \ {Some(s)}]
    OBVIOUS
  <2> QED BY <2>1, <2>2
<1>7. Steps(g, f, S)
  <2>1. g = [s \in SUBSET S |-> g[s]]
    OBVIOUS
  <2> HIDE DEF g
  <2>2. g = [s \in SUBSET S |-> step(g, s)]
    BY <1>6, <2>1
  <2> QED BY <2>2, Zenon DEF Steps
<1> QED BY <1>7, Zenon

LEMMA SumIsSteps ==
  ASSUME NEW S, IsFiniteSet(S), NEW f
  PROVE  \E h : Steps(h, f, S) /\ SumOver(f, S) = h[S]
<1>1. SumOver(f, S) = (CHOOSE h : Steps(h, f, S))[S]
  BY Zenon DEF SumOver, MapThenSumSet, MapThenFoldSet, Steps, Some
<1>2. \E h : Steps(h, f, S)
  BY StepsExist
<1> QED BY <1>1, <1>2, Zenon

\* Which element is taken first does not matter.
LEMMA AnyFirst ==
  ASSUME NEW S, IsFiniteSet(S), NEW f, NEW h, Steps(h, f, S), \A x \in S : f[x] \in Int
  PROVE  \A s \in SUBSET S : h[s] \in Int /\ \A x \in s : h[s] = f[x] + h[s \ {x}]
<1> DEFINE Good(s) == h[s] \in Int /\ \A x \in s : h[s] = f[x] + h[s \ {x}]
           Sized == {n \in Nat : \A s \in SUBSET S : Cardinality(s) <= n => Good(s)}
<1>1. \A s \in SUBSET S : IsFiniteSet(s) /\ Cardinality(s) \in Nat
  BY FS_Subset, FS_CardinalityType
<1>2. ASSUME NEW s \in SUBSET S, NEW x \in s
      PROVE  s \ {x} \in SUBSET S /\ Cardinality(s \ {x}) = Cardinality(s) - 1
  BY <1>1, FS_RemoveElement
<1>3. 0 \in Sized
  <2>1. ASSUME NEW s \in SUBSET S, Cardinality(s) <= 0 PROVE Good(s)
    <3>1. s = {}
      BY <1>1, <2>1, FS_EmptySet
    <3>2. h[s] = 0
      BY <3>1, StepsAre
    <3> QED BY <3>1, <3>2
  <2> QED BY <2>1
<1>4. ASSUME NEW n \in Nat, n \in Sized PROVE n + 1 \in Sized
  <2>1. ASSUME NEW s \in SUBSET S, Cardinality(s) <= n + 1, s # {} PROVE Good(s)
    <3> DEFINE c == Some(s)
    <3>1. c \in s /\ h[s] = f[c] + h[s \ {c}]
      BY <2>1, SomeIn, StepsAre
    <3> HIDE DEF c
    <3>2. ASSUME NEW x \in s PROVE Good(s \ {x})
      <4>1. s \ {x} \in SUBSET S /\ Cardinality(s \ {x}) <= n
        BY <1>1, <1>2, <2>1
      <4> QED BY <1>4, <4>1
    <3>3. \A x \in s : f[x] \in Int /\ h[s \ {x}] \in Int
      BY <3>2
    <3>4. ASSUME NEW x \in s, x # c PROVE h[s] = f[x] + h[s \ {x}]
      <4>1. h[s \ {c}] = f[x] + h[(s \ {c}) \ {x}]
        BY <3>1, <3>2, <3>4
      <4>2. h[s \ {x}] = f[c] + h[(s \ {x}) \ {c}]
        BY <3>1, <3>2, <3>4
      <4>3. (s \ {c}) \ {x} = (s \ {x}) \ {c}
        OBVIOUS
      <4>4. h[(s \ {x}) \ {c}] \in Int
        <5>1. (s \ {x}) \ {c} \in SUBSET S /\ Cardinality((s \ {x}) \ {c}) <= n
          <6>1. s \ {x} \in SUBSET S /\ c \in s \ {x}
            BY <3>1, <3>4
          <6>2. Cardinality((s \ {x}) \ {c}) = Cardinality(s \ {x}) - 1
            BY <1>2, <6>1
          <6> QED BY <1>1, <1>2, <2>1, <6>1, <6>2
        <5> QED BY <1>4, <5>1
      <4>5. f[x] \in Int /\ f[c] \in Int
        BY <3>1, <3>3
      <4> DEFINE rest == h[(s \ {x}) \ {c}]
      <4>6. h[s \ {c}] = f[x] + rest /\ h[s \ {x}] = f[c] + rest /\ rest \in Int
        BY <4>1, <4>2, <4>3, <4>4, Zenon
      <4> HIDE DEF rest
      <4> QED BY <3>1, <4>5, <4>6
    <3>5. h[s] \in Int
      BY <3>1, <3>3
    <3>6. ASSUME NEW x \in s PROVE h[s] = f[x] + h[s \ {x}]
      BY <3>1, <3>4
    <3> QED BY <3>5, <3>6
  <2>2. ASSUME NEW s \in SUBSET S, s = {} PROVE Good(s)
    BY <2>2, StepsAre
  <2> HIDE DEF Good
  <2> QED BY <2>1, <2>2
<1>5. Sized = Nat
  <2>1. Sized \subseteq Nat
    OBVIOUS
  <2> HIDE DEF Sized
  <2> QED BY <1>3, <1>4, <2>1, NatInduct
<1> HIDE DEF Good
<1>6. \A s \in SUBSET S : Good(s)
  BY <1>1, <1>5
<1> QED BY <1>6 DEF Good

\* Only the elements of the subset count.
LEMMA StepsAgree ==
  ASSUME NEW S, IsFiniteSet(S), NEW f, NEW h, Steps(h, f, S), \A x \in S : f[x] \in Int,
         NEW R, IsFiniteSet(R), NEW e, NEW g, Steps(g, e, R), \A x \in R : e[x] \in Int,
         NEW s, s \subseteq S, s \subseteq R, \A x \in s : f[x] = e[x]
  PROVE  h[s] = g[s]
<1> DEFINE C == {t \in SUBSET s : h[t] = g[t]}
<1>1. {} \in C
  <2>1. h[{}] = 0 /\ g[{}] = 0
    BY StepsEmpty, Zenon
  <2> QED BY <2>1
<1>2. ASSUME NEW t \in SUBSET s, t \in C, NEW x \in s \ t PROVE t \cup {x} \in C
  <2>1. t \cup {x} \in SUBSET S /\ t \cup {x} \in SUBSET R /\ x \in t \cup {x}
        /\ (t \cup {x}) \ {x} = t
    <3>1. t \cup {x} \in SUBSET S /\ t \cup {x} \in SUBSET R
      OBVIOUS
    <3>2. x \notin t
      OBVIOUS
    <3> HIDE DEF C
    <3>3. (t \cup {x}) \ {x} = t
      BY <3>2
    <3> QED BY <3>1, <3>3
  <2>2. h[t \cup {x}] = f[x] + h[t]
    <3>1. h[t \cup {x}] = f[x] + h[(t \cup {x}) \ {x}]
      BY <2>1, AnyFirst
    <3> QED BY <2>1, <3>1, Zenon
  <2>3. g[t \cup {x}] = e[x] + g[t]
    <3>1. g[t \cup {x}] = e[x] + g[(t \cup {x}) \ {x}]
      BY <2>1, AnyFirst
    <3> QED BY <2>1, <3>1, Zenon
  <2> QED BY <1>2, <2>1, <2>2, <2>3
<1>3. IsFiniteSet(s)
  BY FS_Subset
<1>4. s \in C
  <2> HIDE DEF C
  <2> QED BY <1>1, <1>2, <1>3, SetInduct
<1> QED BY <1>4

-----------------------------------------------------------------------------
(* Sums over a finite set.                                                 *)

\* An empty sum is nothing.
LEMMA SumOverEmpty ==
  ASSUME NEW f
  PROVE  SumOver(f, {}) = 0
<1>1. PICK h : Steps(h, f, {}) /\ SumOver(f, {}) = h[{}]
  BY SumIsSteps, FS_EmptySet
<1> QED BY <1>1, StepsEmpty, Zenon

\* A sum of integers is one.
LEMMA SumOverInt ==
  ASSUME NEW S, IsFiniteSet(S), NEW f, \A x \in S : f[x] \in Int
  PROVE  SumOver(f, S) \in Int
BY SumIsSteps, AnyFirst

\* Sums of what agrees agree.
LEMMA SumOverSame ==
  ASSUME NEW S, IsFiniteSet(S), NEW f, NEW e, \A x \in S : f[x] \in Int,
         \A x \in S : f[x] = e[x]
  PROVE  SumOver(f, S) = SumOver(e, S)
<1>1. PICK h : Steps(h, f, S) /\ SumOver(f, S) = h[S]
  BY SumIsSteps
<1>2. PICK g : Steps(g, e, S) /\ SumOver(e, S) = g[S]
  BY SumIsSteps
<1>3. \A x \in S : e[x] \in Int
  OBVIOUS
<1>4. h[S] = g[S]
  BY <1>1, <1>2, <1>3, StepsAgree
<1> QED BY <1>1, <1>2, <1>4

\* An element taken out.
LEMMA SumOverSplit ==
  ASSUME NEW S, IsFiniteSet(S), NEW f, \A x \in S : f[x] \in Int, NEW x \in S
  PROVE  SumOver(f, S) = f[x] + SumOver(f, S \ {x})
<1>1. PICK h : Steps(h, f, S) /\ SumOver(f, S) = h[S]
  BY SumIsSteps
<1>2. IsFiniteSet(S \ {x})
  BY FS_Subset
<1>3. PICK g : Steps(g, f, S \ {x}) /\ SumOver(f, S \ {x}) = g[S \ {x}]
  BY <1>2, SumIsSteps
<1>4. h[S] = f[x] + h[S \ {x}]
  BY <1>1, AnyFirst
<1>5. h[S \ {x}] = g[S \ {x}]
  <2> DEFINE R == S \ {x}
  <2>1. R \subseteq S /\ \A y \in R : f[y] \in Int
    OBVIOUS
  <2> HIDE DEF R
  <2>2. h[R] = g[R]
    BY <1>1, <1>2, <1>3, <2>1, StepsAgree DEF R
  <2> QED BY <2>2 DEF R
<1> QED BY <1>1, <1>3, <1>4, <1>5

\* An element put in.
LEMMA SumOverAdd ==
  ASSUME NEW S, IsFiniteSet(S), NEW f, NEW x, x \notin S, \A y \in S \cup {x} : f[y] \in Int
  PROVE  SumOver(f, S \cup {x}) = f[x] + SumOver(f, S)
<1>1. IsFiniteSet(S \cup {x}) /\ x \in S \cup {x} /\ (S \cup {x}) \ {x} = S
  BY FS_AddElement
<1> DEFINE R == S \cup {x}
<1>2. SumOver(f, R) = f[x] + SumOver(f, R \ {x})
  <2> HIDE DEF R
  <2> QED BY <1>1, SumOverSplit DEF R
<1> QED BY <1>1, <1>2

\* Sums of sums.
LEMMA SumOverPlus ==
  ASSUME NEW S, IsFiniteSet(S), NEW f, NEW e, NEW d,
         \A x \in S : f[x] \in Int /\ e[x] \in Int /\ d[x] = f[x] + e[x]
  PROVE  SumOver(d, S) = SumOver(f, S) + SumOver(e, S)
<1> DEFINE C == {s \in SUBSET S : SumOver(d, s) = SumOver(f, s) + SumOver(e, s)}
<1>1. {} \in C
  BY SumOverEmpty
<1>2. ASSUME NEW s \in SUBSET S, s \in C, NEW x \in S \ s PROVE s \cup {x} \in C
  <2>1. IsFiniteSet(s) /\ s \cup {x} \in SUBSET S /\ x \notin s
    BY FS_Subset
  <2>2. \A y \in s \cup {x} : f[y] \in Int /\ e[y] \in Int /\ d[y] \in Int
    OBVIOUS
  <2>3. /\ SumOver(f, s \cup {x}) = f[x] + SumOver(f, s)
        /\ SumOver(e, s \cup {x}) = e[x] + SumOver(e, s)
        /\ SumOver(d, s \cup {x}) = d[x] + SumOver(d, s)
    BY <2>1, <2>2, SumOverAdd
  <2>4. SumOver(f, s) \in Int /\ SumOver(e, s) \in Int
    BY <2>1, <2>2, SumOverInt
  <2>5. SumOver(d, s) = SumOver(f, s) + SumOver(e, s) /\ d[x] = f[x] + e[x]
    BY <1>2
  <2> QED BY <2>1, <2>2, <2>3, <2>4, <2>5
<1>3. S \in C
  <2> HIDE DEF C
  <2> QED BY <1>1, <1>2, SetInduct
<1> QED BY <1>3

\* Sums of multiples.
LEMMA SumOverTimes ==
  ASSUME NEW S, IsFiniteSet(S), NEW k \in Int, NEW f, NEW d,
         \A x \in S : f[x] \in Int /\ d[x] = k * f[x]
  PROVE  SumOver(d, S) = k * SumOver(f, S)
<1> DEFINE C == {s \in SUBSET S : SumOver(d, s) = k * SumOver(f, s)}
<1>1. {} \in C
  BY SumOverEmpty
<1>2. ASSUME NEW s \in SUBSET S, s \in C, NEW x \in S \ s PROVE s \cup {x} \in C
  <2>1. IsFiniteSet(s) /\ s \cup {x} \in SUBSET S /\ x \notin s
    BY FS_Subset
  <2>2. \A y \in s \cup {x} : f[y] \in Int /\ d[y] \in Int
    OBVIOUS
  <2>3. /\ SumOver(f, s \cup {x}) = f[x] + SumOver(f, s)
        /\ SumOver(d, s \cup {x}) = d[x] + SumOver(d, s)
    BY <2>1, <2>2, SumOverAdd
  <2>4. SumOver(f, s) \in Int /\ f[x] \in Int
    BY <2>1, <2>2, SumOverInt
  <2>5. SumOver(d, s) = k * SumOver(f, s) /\ d[x] = k * f[x]
    BY <1>2
  <2>6. k * (f[x] + SumOver(f, s)) = k * f[x] + k * SumOver(f, s)
    BY <2>4
  <2> QED BY <2>1, <2>3, <2>5, <2>6
<1>3. S \in C
  <2> HIDE DEF C
  <2> QED BY <1>1, <1>2, SetInduct
<1> QED BY <1>3

\* Sums of naturals are naturals, ...
LEMMA SumOverNat ==
  ASSUME NEW S, IsFiniteSet(S), NEW f, \A x \in S : f[x] \in Nat
  PROVE  SumOver(f, S) \in Nat
<1> DEFINE C == {s \in SUBSET S : SumOver(f, s) \in Nat}
<1>1. {} \in C
  BY SumOverEmpty
<1>2. ASSUME NEW s \in SUBSET S, s \in C, NEW x \in S \ s PROVE s \cup {x} \in C
  <2>1. IsFiniteSet(s) /\ s \cup {x} \in SUBSET S /\ x \notin s
    BY FS_Subset
  <2>2. \A y \in s \cup {x} : f[y] \in Int
    OBVIOUS
  <2>3. SumOver(f, s \cup {x}) = f[x] + SumOver(f, s)
    BY <2>1, <2>2, SumOverAdd
  <2> QED BY <1>2, <2>1, <2>3
<1>3. S \in C
  <2> HIDE DEF C
  <2> QED BY <1>1, <1>2, SetInduct
<1> QED BY <1>3

\* ... and none of them is more than the sum.
LEMMA SumOverHas ==
  ASSUME NEW S, IsFiniteSet(S), NEW f, \A x \in S : f[x] \in Nat, NEW x \in S
  PROVE  f[x] <= SumOver(f, S)
<1>1. IsFiniteSet(S \ {x}) /\ \A y \in S \ {x} : f[y] \in Nat
  BY FS_Subset
<1>2. SumOver(f, S \ {x}) \in Nat
  BY <1>1, SumOverNat
<1>3. SumOver(f, S) = f[x] + SumOver(f, S \ {x})
  <2>1. \A y \in S : f[y] \in Int
    OBVIOUS
  <2> QED BY <2>1, SumOverSplit
<1> QED BY <1>2, <1>3

\* A sum of nothings is nothing.
LEMMA SumOverNone ==
  ASSUME NEW S, IsFiniteSet(S), NEW f, \A x \in S : f[x] = 0
  PROVE  SumOver(f, S) = 0
<1>1. \A x \in S : f[x] \in Int /\ f[x] = 0 * f[x]
  OBVIOUS
<1>2. SumOver(f, S) = 0 * SumOver(f, S)
  <2>1. 0 \in Int
    OBVIOUS
  <2> QED BY <1>1, <2>1, SumOverTimes
<1>3. SumOver(f, S) \in Int
  BY <1>1, SumOverInt
<1> QED BY <1>2, <1>3

\* Only part of a set counts.
LEMMA SumOverPart ==
  ASSUME NEW S, IsFiniteSet(S), NEW T \in SUBSET S, NEW f, NEW e,
         \A x \in T : f[x] \in Int /\ e[x] = f[x],
         \A x \in S \ T : e[x] = 0
  PROVE  SumOver(e, S) = SumOver(f, T)
<1> DEFINE C == {s \in SUBSET (S \ T) : SumOver(e, T \cup s) = SumOver(f, T)}
<1>0. IsFiniteSet(T) /\ IsFiniteSet(S \ T) /\ SumOver(f, T) \in Int
  <2>1. IsFiniteSet(T) /\ IsFiniteSet(S \ T)
    BY FS_Subset
  <2> QED BY <2>1, SumOverInt
<1>1. {} \in C
  <2>1. SumOver(f, T) = SumOver(e, T)
    BY <1>0, SumOverSame
  <2>2. T \cup {} = T
    OBVIOUS
  <2> QED BY <2>1, <2>2
<1>2. ASSUME NEW s \in SUBSET (S \ T), s \in C, NEW x \in (S \ T) \ s PROVE s \cup {x} \in C
  <2> DEFINE R == T \cup s
  <2>1. IsFiniteSet(R) /\ x \notin R /\ R \cup {x} = T \cup (s \cup {x})
    <3>1. R \subseteq S
      OBVIOUS
    <3> QED BY <3>1, FS_Subset
  <2>2. \A y \in R \cup {x} : e[y] \in Int
    OBVIOUS
  <2>3. SumOver(e, R) = SumOver(f, T) /\ e[x] = 0
    BY <1>2
  <2> HIDE DEF R
  <2>4. SumOver(e, R \cup {x}) = e[x] + SumOver(e, R)
    BY <2>1, <2>2, SumOverAdd
  <2>5. SumOver(e, R \cup {x}) = SumOver(f, T)
    BY <1>0, <2>3, <2>4
  <2>6. SumOver(e, T \cup (s \cup {x})) = SumOver(f, T)
    BY <2>1, <2>5, Zenon
  <2> QED BY <1>2, <2>6
<1>3. S \ T \in C
  <2> HIDE DEF C
  <2> QED BY <1>0, <1>1, <1>2, SetInduct
<1>4. T \cup (S \ T) = S
  OBVIOUS
<1> QED BY <1>3, <1>4

\* Smaller parts, smaller sum.
LEMMA SumOverLess ==
  ASSUME NEW S, IsFiniteSet(S), NEW f, NEW e,
         \A x \in S : f[x] \in Int /\ e[x] \in Int /\ f[x] <= e[x]
  PROVE  SumOver(f, S) <= SumOver(e, S)
<1> DEFINE d == [x \in S |-> e[x] - f[x]]
<1>1. \A x \in S : d[x] \in Nat /\ e[x] = f[x] + d[x]
  OBVIOUS
<1> HIDE DEF d
<1>2. SumOver(d, S) \in Nat
  BY <1>1, SumOverNat
<1>3. \A x \in S : f[x] \in Int /\ d[x] \in Int /\ e[x] = f[x] + d[x]
  BY <1>1
<1>4. SumOver(e, S) = SumOver(f, S) + SumOver(d, S)
  BY <1>3, SumOverPlus
<1>5. SumOver(f, S) \in Int
  BY SumOverInt
<1> QED BY <1>2, <1>4, <1>5

\* One element changes.
LEMMA SumOverChange ==
  ASSUME NEW S, IsFiniteSet(S), NEW f, NEW e, NEW x \in S,
         \A y \in S : f[y] \in Int /\ e[y] \in Int,
         \A y \in S \ {x} : f[y] = e[y]
  PROVE  SumOver(e, S) = SumOver(f, S) - f[x] + e[x]
<1>1. IsFiniteSet(S \ {x}) /\ \A y \in S \ {x} : f[y] \in Int
  BY FS_Subset
<1>2. SumOver(f, S \ {x}) = SumOver(e, S \ {x}) /\ SumOver(f, S \ {x}) \in Int
  BY <1>1, SumOverSame, SumOverInt
<1>3. SumOver(f, S) = f[x] + SumOver(f, S \ {x})
  BY SumOverSplit
<1>4. SumOver(e, S) = e[x] + SumOver(e, S \ {x})
  BY SumOverSplit
<1>5. f[x] \in Int /\ e[x] \in Int
  OBVIOUS
<1> QED BY <1>2, <1>3, <1>4, <1>5

-----------------------------------------------------------------------------
(* Sums along a sequence.                                                  *)

\* One more.
LEMMA SumUpTo ==
  ASSUME NEW n \in Nat, NEW f, \A k \in 1..(n + 1) : f[k] \in Int
  PROVE  SumOver(f, 1..(n + 1)) = SumOver(f, 1..n) + f[n + 1]
<1>1. 1..(n + 1) = (1..n) \cup {n + 1} /\ n + 1 \notin 1..n /\ n + 1 \in 1..(n + 1)
  OBVIOUS
<1>2. IsFiniteSet(1..n)
  BY FS_Interval
<1>3. \A k \in (1..n) \cup {n + 1} : f[k] \in Int
  BY <1>1
<1>4. SumOver(f, (1..n) \cup {n + 1}) = f[n + 1] + SumOver(f, 1..n)
  BY <1>1, <1>2, <1>3, SumOverAdd
<1>5. SumOver(f, 1..n) \in Int /\ f[n + 1] \in Int
  BY <1>1, <1>2, <1>3, SumOverInt
<1>6. SumOver(f, 1..(n + 1)) = f[n + 1] + SumOver(f, 1..n)
  BY <1>1, <1>4, Zenon
<1> QED BY <1>5, <1>6

\* A sequence in two parts.
LEMMA SumInParts ==
  ASSUME NEW m \in Nat, NEW n \in Nat, NEW t, t = m + n, NEW u, NEW w,
         \A k \in 1..t : u[k] \in Int,
         \A k \in 1..n : w[k] = u[m + k]
  PROVE  SumOver(u, 1..t) = SumOver(u, 1..m) + SumOver(w, 1..n)
<1> DEFINE Good == {k \in Nat :
                      k <= n => SumOver(u, 1..(m + k)) = SumOver(u, 1..m) + SumOver(w, 1..k)}
<1>1. \A k \in Nat : IsFiniteSet(1..k)
  BY FS_Interval
<1>2. \A k \in 1..n : m + k \in 1..t /\ w[k] \in Int
  OBVIOUS
<1>3. SumOver(u, 1..m) \in Int
  <2>1. \A k \in 1..m : u[k] \in Int
    OBVIOUS
  <2> QED BY <1>1, <2>1, SumOverInt
<1>4. 0 \in Good
  <2>1. 1..0 = {} /\ m + 0 = m
    OBVIOUS
  <2>2. SumOver(w, 1..0) = 0
    BY <2>1, SumOverEmpty
  <2> QED BY <1>3, <2>1, <2>2
<1>5. ASSUME NEW k \in Nat, k \in Good PROVE k + 1 \in Good
  <2>1. SUFFICES ASSUME k + 1 <= n
                 PROVE  SumOver(u, 1..(m + (k + 1))) = SumOver(u, 1..m) + SumOver(w, 1..(k + 1))
    OBVIOUS
  <2>2. SumOver(u, 1..(m + k)) = SumOver(u, 1..m) + SumOver(w, 1..k)
    BY <1>5, <2>1
  <2>3. SumOver(w, 1..(k + 1)) = SumOver(w, 1..k) + w[k + 1]
    <3>1. \A j \in 1..(k + 1) : w[j] \in Int
      BY <1>2, <2>1
    <3> QED BY <3>1, SumUpTo
  <2>4. SumOver(u, 1..((m + k) + 1)) = SumOver(u, 1..(m + k)) + u[(m + k) + 1]
    <3>1. \A j \in 1..((m + k) + 1) : u[j] \in Int
      BY <2>1
    <3>2. m + k \in Nat
      OBVIOUS
    <3> QED BY <3>1, <3>2, SumUpTo
  <2>5. w[k + 1] = u[(m + k) + 1] /\ w[k + 1] \in Int /\ (m + k) + 1 = m + (k + 1)
    <3>1. k + 1 \in 1..n /\ m + (k + 1) = (m + k) + 1
      BY <2>1
    <3> QED BY <1>2, <3>1
  <2>6. SumOver(w, 1..k) \in Int
    <3>1. \A j \in 1..k : w[j] \in Int
      BY <1>2, <2>1
    <3> QED BY <1>1, <3>1, SumOverInt
  <2> QED BY <1>3, <2>2, <2>3, <2>4, <2>5, <2>6
<1>6. Good = Nat
  <2>1. Good \subseteq Nat
    OBVIOUS
  <2> HIDE DEF Good
  <2> QED BY <1>4, <1>5, <2>1, NatInduct
<1>7. n \in Good
  <2> HIDE DEF Good
  <2> QED BY <1>6
<1>8. n <= n
  OBVIOUS
<1>9. SumOver(u, 1..(m + n)) = SumOver(u, 1..m) + SumOver(w, 1..n)
  BY <1>7, <1>8
<1> QED BY <1>9

Integral(u, t) == \A k \in 1..t : u[k] \in Int
Shifted(w, u, m, n) == \A k \in 1..n : w[k] = u[m + k]

LEMMA SumShifted ==
  ASSUME NEW m \in Nat, NEW n \in Nat, NEW t, t = m + n, NEW u, NEW w,
         Integral(u, t), Shifted(w, u, m, n)
  PROVE  SumOver(u, 1..t) = SumOver(u, 1..m) + SumOver(w, 1..n)
<1>1. \A k \in 1..t : u[k] \in Int
  BY DEF Integral
<1>2. \A k \in 1..n : w[k] = u[m + k]
  BY DEF Shifted
<1> QED BY <1>1, <1>2, SumInParts

\* An element at the end, ...
LEMMA SumOfGrown ==
  ASSUME NEW n \in Nat, NEW v, NEW w, DOMAIN v = 1..n, DOMAIN w = 1..(n + 1),
         \A k \in 1..n : v[k] \in Int /\ w[k] = v[k], w[n + 1] \in Int
  PROVE  SumOf(v) \in Int /\ SumOf(w) = SumOf(v) + w[n + 1]
<1>1. IsFiniteSet(1..n)
  BY FS_Interval
<1>2. SumOver(v, 1..n) \in Int
  BY <1>1, SumOverInt
<1>3. SumOver(v, 1..n) = SumOver(w, 1..n)
  BY <1>1, SumOverSame
<1>4. SumOver(w, 1..(n + 1)) = SumOver(w, 1..n) + w[n + 1]
  <2>1. \A k \in 1..(n + 1) : w[k] \in Int
    <3>1. ASSUME NEW k \in 1..(n + 1) PROVE k = n + 1 \/ k \in 1..n
      OBVIOUS
    <3> QED BY <3>1
  <2> QED BY <2>1, SumUpTo
<1> QED BY <1>2, <1>3, <1>4 DEF SumOf

\* ... or gone from the front.
LEMMA SumOfShrunk ==
  ASSUME NEW n \in Nat, NEW v, NEW w, DOMAIN v = 1..(n + 1), DOMAIN w = 1..n,
         \A k \in 1..(n + 1) : v[k] \in Int, \A k \in 1..n : w[k] = v[k + 1]
  PROVE  SumOf(w) \in Int /\ SumOf(v) = v[1] + SumOf(w)
<1>3. SumOver(v, 1..(n + 1)) = SumOver(v, 1..1) + SumOver(w, 1..n)
  <2>1. PICK one \in Nat : one = 1
    OBVIOUS
  <2>2. n + 1 = one + n /\ \A k \in 1..n : w[k] = v[one + k]
    BY <2>1
  <2>3. Integral(v, n + 1) /\ Shifted(w, v, one, n)
    BY <2>2 DEF Integral, Shifted
  <2>5. SumOver(v, 1..(n + 1)) = SumOver(v, 1..one) + SumOver(w, 1..n)
    BY <2>2, <2>3, SumShifted
  <2> QED BY <2>1, <2>5
<1>4. SumOver(v, 1..1) = v[1]
  <2>1. SumOver(v, 1..(0 + 1)) = SumOver(v, 1..0) + v[0 + 1]
    <3>1. \A k \in 1..(0 + 1) : v[k] \in Int
      OBVIOUS
    <3> QED BY <3>1, SumUpTo
  <2>2. 1..0 = {} /\ 0 + 1 = 1 /\ v[1] \in Int
    OBVIOUS
  <2>3. SumOver(v, 1..0) = 0
    BY <2>2, SumOverEmpty
  <2> QED BY <2>1, <2>2, <2>3
<1>5. SumOver(w, 1..n) \in Int
  <2>1. IsFiniteSet(1..n)
    BY FS_Interval
  <2>2. \A k \in 1..n : w[k] \in Int
    OBVIOUS
  <2> QED BY <2>1, <2>2, SumOverInt
<1> QED BY <1>3, <1>4, <1>5 DEF SumOf

\* Nothing to add.
LEMMA SumOfEmpty ==
  ASSUME NEW v, DOMAIN v = {}
  PROVE  SumOf(v) = 0
BY SumOverEmpty DEF SumOf

\* A sum of ones counts.
LEMMA SumCounts ==
  ASSUME NEW S, IsFiniteSet(S), NEW f, \A x \in S : f[x] \in {0, 1},
         NEW ones, ones = {x \in S : f[x] = 1}
  PROVE  SumOver(f, S) = Cardinality(ones)
<1> DEFINE Ones(s) == {x \in s : f[x] = 1}
           C == {s \in SUBSET S : SumOver(f, s) = Cardinality(Ones(s))}
<1>1. {} \in C
  <2>1. Ones({}) = {}
    OBVIOUS
  <2> QED BY <2>1, SumOverEmpty, FS_EmptySet
<1>2. ASSUME NEW s \in SUBSET S, s \in C, NEW x \in S \ s PROVE s \cup {x} \in C
  <2>1. IsFiniteSet(s) /\ IsFiniteSet(Ones(s))
    BY FS_Subset
  <2>2. SumOver(f, s \cup {x}) = f[x] + SumOver(f, s)
    <3>1. \A y \in s \cup {x} : f[y] \in Int
      OBVIOUS
    <3> QED BY <2>1, <3>1, SumOverAdd
  <2>3. SumOver(f, s) = Cardinality(Ones(s)) /\ Cardinality(Ones(s)) \in Nat
    BY <1>2, <2>1, FS_CardinalityType
  <2>4. CASE f[x] = 1
    <3>1. Ones(s \cup {x}) = Ones(s) \cup {x} /\ x \notin Ones(s)
      BY <2>4
    <3>2. Cardinality(Ones(s) \cup {x}) = Cardinality(Ones(s)) + 1
      BY <2>1, <3>1, FS_AddElement
    <3>3. Cardinality(Ones(s \cup {x})) = Cardinality(Ones(s)) + 1
      BY <3>1, <3>2, Zenon
    <3>4. SumOver(f, s \cup {x}) = Cardinality(Ones(s \cup {x}))
      <4> HIDE DEF Ones
      <4> QED BY <2>2, <2>3, <2>4, <3>3
    <3> QED BY <3>4
  <2>5. CASE f[x] # 1
    <3>1. Ones(s \cup {x}) = Ones(s) /\ f[x] = 0
      BY <2>5
    <3>2. SumOver(f, s \cup {x}) = Cardinality(Ones(s \cup {x}))
      BY <2>2, <2>3, <3>1
    <3> QED BY <3>2
  <2> QED BY <2>4, <2>5
<1>3. S \in C
  <2> HIDE DEF C
  <2> QED BY <1>1, <1>2, SetInduct
<1> QED BY <1>3

-----------------------------------------------------------------------------
(* Sequences laid end to end.                                              *)

Laid(h, seqs) ==
  h = [i \in 1..Len(seqs) |-> IF i = 1 THEN seqs[i] ELSE h[i - 1] \o seqs[i]]

LEMMA LaidExists ==
  ASSUME NEW seqs, Len(seqs) \in Nat
  PROVE  \E h : Laid(h, seqs)
<1> DEFINE step(h, i) == IF i = 1 THEN seqs[i] ELSE h[i - 1] \o seqs[i]
           Upto(h, n) == \A i \in 1..Len(seqs) : i <= n => h[i] = step(h, i)
           Has == {n \in Nat : \E h : Upto(h, n)}
<1>1. 0 \in Has
  OBVIOUS
<1>2. ASSUME NEW n \in Nat, n \in Has PROVE n + 1 \in Has
  <2>1. PICK h : Upto(h, n)
    BY <1>2
  <2> DEFINE g == [i \in 1..Len(seqs) |-> IF i <= n THEN h[i] ELSE step(h, i)]
  <2>2. ASSUME NEW i \in 1..Len(seqs), i <= n + 1 PROVE g[i] = step(g, i)
    <3>1. g[i] = step(h, i)
      BY <2>1
    <3>2. CASE i = 1
      BY <3>1, <3>2
    <3>3. CASE i # 1
      <4>1. i - 1 \in 1..Len(seqs) /\ i - 1 <= n
        BY <2>2, <3>3
      <4>2. g[i - 1] = h[i - 1]
        BY <4>1
      <4> HIDE DEF g
      <4> QED BY <3>1, <3>3, <4>2
    <3> QED BY <3>2, <3>3
  <2> HIDE DEF g
  <2>3. Upto(g, n + 1)
    BY <2>2
  <2> HIDE DEF Upto
  <2> QED BY <2>3
<1>3. Has = Nat
  <2>1. Has \subseteq Nat
    OBVIOUS
  <2> HIDE DEF Has
  <2> QED BY <1>1, <1>2, <2>1, NatInduct
<1>4. PICK h : Upto(h, Len(seqs))
  BY <1>3
<1> DEFINE g == [i \in 1..Len(seqs) |-> h[i]]
<1>5. ASSUME NEW i \in 1..Len(seqs) PROVE g[i] = step(g, i)
  <2>1. g[i] = step(h, i)
    BY <1>4
  <2>2. CASE i = 1
    BY <2>1, <2>2
  <2>3. CASE i # 1
    <3>1. i - 1 \in 1..Len(seqs)
      BY <2>3
    <3>2. g[i - 1] = h[i - 1]
      BY <3>1
    <3> HIDE DEF g
    <3> QED BY <2>1, <2>3, <3>2
  <2> QED BY <2>2, <2>3
<1>6. g = [i \in 1..Len(seqs) |-> g[i]]
  OBVIOUS
<1> HIDE DEF g
<1>7. Laid(g, seqs)
  BY <1>5, <1>6 DEF Laid
<1> QED BY <1>7

LEMMA FlattenIsLaid ==
  ASSUME NEW seqs, Len(seqs) \in Nat \ {0}
  PROVE  \E h : Laid(h, seqs) /\ FlattenSeq(seqs) = h[Len(seqs)]
<1>1. FlattenSeq(seqs) = (CHOOSE h : Laid(h, seqs))[Len(seqs)]
  BY DEF FlattenSeq, Laid
<1> QED BY <1>1, LaidExists

\* Laying ordered stretches end to end, one per day, gives an ordered whole.
LEMMA FlattenOrdered ==
  ASSUME NEW S, \A x \in S : x.day \in Nat, NEW n \in Nat,
         NEW seqs, Len(seqs) = n, DOMAIN seqs = 1..n,
         \A d \in 1..n : seqs[d] \in Seq(S) /\ \A k \in 1..Len(seqs[d]) : seqs[d][k].day = d
  PROVE  n # 0 => /\ FlattenSeq(seqs) \in Seq(S)
                  /\ \A j, k \in 1..Len(FlattenSeq(seqs)) :
                       j <= k => FlattenSeq(seqs)[j].day <= FlattenSeq(seqs)[k].day
<1> SUFFICES ASSUME n # 0
             PROVE  /\ FlattenSeq(seqs) \in Seq(S)
                    /\ \A j, k \in 1..Len(FlattenSeq(seqs)) :
                         j <= k => FlattenSeq(seqs)[j].day <= FlattenSeq(seqs)[k].day
  OBVIOUS
<1>1. PICK h : Laid(h, seqs) /\ FlattenSeq(seqs) = h[n]
  BY FlattenIsLaid
<1> DEFINE Ordered(q, d) == /\ q \in Seq(S)
                            /\ \A k \in 1..Len(q) : q[k].day <= d
                            /\ \A j, k \in 1..Len(q) : j <= k => q[j].day <= q[k].day
           Done == {d \in Nat : d + 1 \in 1..n => Ordered(h[d + 1], d + 1)}
<1>2. 0 \in Done
  <2>1. h[1] = seqs[1] /\ 1 \in 1..n
    BY <1>1 DEF Laid
  <2>2. \A k \in 1..Len(seqs[1]) : seqs[1][k].day = 1
    BY <2>1
  <2>3. seqs[1] \in Seq(S)
    BY <2>1
  <2> QED BY <2>1, <2>2, <2>3
<1>3. ASSUME NEW d \in Nat, d \in Done PROVE d + 1 \in Done
  <2> SUFFICES ASSUME d + 2 \in 1..n PROVE Ordered(h[d + 2], d + 2)
    <3>1. d + 1 \in Nat /\ (d + 1) + 1 = d + 2
      OBVIOUS
    <3> HIDE DEF Ordered
    <3> QED BY <3>1
  <2>1. h[d + 2] = h[d + 1] \o seqs[d + 2]
    <3>1. h[d + 2] = IF d + 2 = 1 THEN seqs[d + 2] ELSE h[(d + 2) - 1] \o seqs[d + 2]
      BY <1>1 DEF Laid
    <3>2. d + 2 # 1 /\ (d + 2) - 1 = d + 1
      OBVIOUS
    <3> QED BY <3>1, <3>2
  <2>2. Ordered(h[d + 1], d + 1)
    BY <1>3
  <2>3. seqs[d + 2] \in Seq(S) /\ \A k \in 1..Len(seqs[d + 2]) : seqs[d + 2][k].day = d + 2
    OBVIOUS
  <2> DEFINE a == h[d + 1]
             b == seqs[d + 2]
             c == h[d + 2]
  <2>4. /\ c \in Seq(S) /\ Len(c) = Len(a) + Len(b) /\ Len(a) \in Nat /\ Len(b) \in Nat
        /\ \A k \in 1..(Len(a) + Len(b)) : c[k] = IF k <= Len(a) THEN a[k] ELSE b[k - Len(a)]
    <3> HIDE DEF a, b, c
    <3>1. a \in Seq(S) /\ b \in Seq(S) /\ c = a \o b
      BY <2>1, <2>2, <2>3 DEF a, b, c
    <3> QED BY <3>1, ConcatProperties, LenProperties
  <2>5. /\ \A k \in 1..Len(a) : a[k].day <= d + 1 /\ a[k].day \in Nat
        /\ \A j, k \in 1..Len(a) : j <= k => a[j].day <= a[k].day
        /\ \A k \in 1..Len(b) : b[k].day = d + 2
    <3>1. \A k \in 1..Len(a) : a[k] \in S
      BY <2>2
    <3> QED BY <2>2, <2>3, <3>1
  <2> HIDE DEF a, b, c
  <2>6. ASSUME NEW k \in 1..Len(c)
        PROVE  \/ k \in 1..Len(a) /\ c[k] = a[k] /\ c[k].day <= d + 1 /\ c[k].day \in Nat
               \/ k > Len(a) /\ c[k].day = d + 2
    <3>1. CASE k <= Len(a)
      BY <3>1, <2>4, <2>5
    <3>2. CASE ~(k <= Len(a))
      <4>1. k - Len(a) \in 1..Len(b) /\ c[k] = b[k - Len(a)]
        BY <2>4, <3>2
      <4>2. c[k].day = d + 2
        BY <4>1, <2>5
      <4> QED BY <4>2, <3>2, <2>4
    <3> QED BY <3>1, <3>2
  <2>7. \A k \in 1..Len(c) : c[k].day <= d + 2
    <3> SUFFICES ASSUME NEW k \in 1..Len(c) PROVE c[k].day <= d + 2
      OBVIOUS
    <3>1. c[k].day = d + 2 \/ (c[k].day <= d + 1 /\ c[k].day \in Nat)
      BY <2>6
    <3> QED BY <3>1
  <2>8. \A j, k \in 1..Len(c) : j <= k => c[j].day <= c[k].day
    <3> SUFFICES ASSUME NEW j \in 1..Len(c), NEW k \in 1..Len(c), j <= k
                 PROVE  c[j].day <= c[k].day
      OBVIOUS
    <3>1. CASE k \in 1..Len(a)
      <4>1. j \in 1..Len(a)
        BY <3>1, <2>4
      <4>2. c[k] = a[k] /\ c[j] = a[j]
        BY <2>4, <3>1, <4>1
      <4> QED BY <4>1, <4>2, <3>1, <2>5
    <3>2. CASE k \notin 1..Len(a)
      <4>1. c[k].day = d + 2
        BY <2>6, <3>2
      <4> QED BY <4>1, <2>7
    <3> QED BY <3>1, <3>2
  <2> QED BY <2>4, <2>7, <2>8 DEF c
<1>4. Done = Nat
  <2>1. Done \subseteq Nat
    OBVIOUS
  <2> HIDE DEF Done
  <2> QED BY <1>2, <1>3, <2>1, NatInduct
<1> HIDE DEF Done, Ordered
<1>5. n - 1 \in Nat /\ (n - 1) + 1 = n /\ n \in 1..n
  OBVIOUS
<1>6. n - 1 \in Done
  BY <1>4, <1>5
<1>7. Ordered(h[(n - 1) + 1], (n - 1) + 1)
  BY <1>5, <1>6 DEF Done
<1>8. Ordered(h[n], n)
  BY <1>5, <1>7
<1> USE DEF Ordered
<1> QED BY <1>1, <1>8
=============================================================================
