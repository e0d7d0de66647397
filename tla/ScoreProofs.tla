------------------------------ MODULE ScoreProofs ------------------------------
(***************************************************************************)
(* Theorems about RobustScore and TrendForecast, for series of any length, *)
(* samples of any values and any thresholds.                               *)
(*                                                                         *)
(* Sums and ranks are defined over a whole set.  What they are follows by  *)
(* induction over that set, which here rests on minimal subsets: strict    *)
(* inclusion is well-founded on the subsets of a finite set.               *)
(***************************************************************************)
EXTENDS MCScores, FiniteSetTheorems, TLAPS

-----------------------------------------------------------------------------
(* Induction.                                                              *)

(* Among subsets of a finite set there are minimal ones.                   *)
LEMMA MinimalSet ==
  ASSUME NEW S, IsFiniteSet(S), NEW Q \in SUBSET SUBSET S, Q # {}
  PROVE  \E T \in Q : \A U \in SUBSET T : U # T => U \notin Q
  <1>1. Q \subseteq FiniteSubsetsOf(S)
    BY FS_FiniteSubsetsOfFinite
  <1>2. IsWellFoundedOn(StrictSubsetOrdering(S), FiniteSubsetsOf(S))
    BY FS_StrictSubsetOrderingWellFounded
  <1>3. PICK T \in Q : \A U \in Q : <<U, T>> \notin StrictSubsetOrdering(S)
    BY <1>1, <1>2, WFMin
  <1>4. \A U \in Q : U \subseteq T => U = T
    BY <1>3 DEF StrictSubsetOrdering
  <1>. QED  BY <1>4

(* The element that is taken out of s first.                               *)
Any(s) == CHOOSE x \in s : TRUE

LEMMA AnyIn ==
  ASSUME NEW s, s # {}
  PROVE  Any(s) \in s
  BY DEF Any

(* Induction over a finite set, one element taken out at a time.           *)
LEMMA SetInduction ==
  ASSUME NEW S, IsFiniteSet(S), NEW Q \in SUBSET SUBSET S, {} \in Q,
         \A T \in SUBSET S : T # {} /\ T \ {Any(T)} \in Q => T \in Q
  PROVE  S \in Q
  <1>. SUFFICES ASSUME S \notin Q PROVE FALSE
    OBVIOUS
  <1>. DEFINE Bad == (SUBSET S) \ Q
  <1>0. Bad \in SUBSET SUBSET S /\ Bad # {}
    OBVIOUS
  <1>1. PICK T \in Bad : \A U \in SUBSET T : U # T => U \notin Bad
    <2>. HIDE DEF Bad
    <2>. QED  BY <1>0, MinimalSet
  <1>2. T # {}
    OBVIOUS
  <1>3. T \ {Any(T)} \in Q
    BY <1>1, <1>2, AnyIn
  <1>. QED  BY <1>1, <1>2, <1>3

(* g adds up f over the subsets of S, as the fold of module Folds does.     *)
Adds(g, f, S) ==
    g = [s \in SUBSET S |-> IF s = {} THEN 0 ELSE f[Any(s)] + g[s \ {Any(s)}]]

LEMMA AddsIs ==
  ASSUME NEW f, NEW S, NEW g, Adds(g, f, S), NEW s \in SUBSET S
  PROVE  g[s] = IF s = {} THEN 0 ELSE f[Any(s)] + g[s \ {Any(s)}]
  BY DEF Adds

(* On a set all such functions agree, whatever else they are defined on, *)
LEMMA AddsAgree ==
  ASSUME NEW f, NEW S, NEW T, IsFiniteSet(S), S \subseteq T,
         NEW g, Adds(g, f, S), NEW h, Adds(h, f, T)
  PROVE  g[S] = h[S]
  <1>. DEFINE Q == {s \in SUBSET S : g[s] = h[s]}
  <1>1. {} \in Q
    <2>1. {} \in SUBSET S /\ {} \in SUBSET T
      OBVIOUS
    <2>2. g[{}] = 0 /\ h[{}] = 0
      BY <2>1, AddsIs
    <2>. QED  BY <2>1, <2>2
  <1>2. \A s \in SUBSET S : s # {} /\ s \ {Any(s)} \in Q => s \in Q
    <2>. TAKE s \in SUBSET S
    <2>. HAVE s # {} /\ s \ {Any(s)} \in Q
    <2>1. g[s] = IF s = {} THEN 0 ELSE f[Any(s)] + g[s \ {Any(s)}]
      BY AddsIs
    <2>2. s \in SUBSET T
      OBVIOUS
    <2>3. h[s] = IF s = {} THEN 0 ELSE f[Any(s)] + h[s \ {Any(s)}]
      BY <2>2, AddsIs
    <2>4. g[s \ {Any(s)}] = h[s \ {Any(s)}]
      OBVIOUS
    <2>. QED  BY <2>1, <2>3, <2>4
  <1>3. Q \in SUBSET SUBSET S
    OBVIOUS
  <1>. HIDE DEF Q
  <1>4. S \in Q
    BY <1>1, <1>2, <1>3, SetInduction
  <1>. QED  BY <1>4 DEF Q

(* and there is one for every finite set:                                  *)
LEMMA AddsExists ==
  ASSUME NEW f, NEW S, IsFiniteSet(S)
  PROVE  \E g : Adds(g, f, S)
  <1>. SUFFICES ASSUME ~ \E g : Adds(g, f, S) PROVE FALSE
    OBVIOUS
  <1>. DEFINE Bad == {T \in SUBSET S : ~ \E g : Adds(g, f, T)}
  <1>0. S \in Bad /\ Bad \in SUBSET SUBSET S
    OBVIOUS
  <1>1. PICK T \in Bad : \A U \in SUBSET T : U # T => U \notin Bad
    <2>. HIDE DEF Bad
    <2>. QED  BY <1>0, MinimalSet
  <1>. DEFINE sol(U) == CHOOSE g : Adds(g, f, U)
              sum == [s \in SUBSET T |->
                        IF s = {} THEN 0 ELSE f[Any(s)] + sol(s \ {Any(s)})[s \ {Any(s)}]]
  <1>2. \A U \in SUBSET T : U # T => Adds(sol(U), f, U)
    BY <1>1
  <1>3. ASSUME NEW U \in SUBSET T, U # T PROVE sum[U] = sol(U)[U]
    <2>1. Adds(sol(U), f, U) /\ IsFiniteSet(U) /\ U \subseteq S
      BY <1>1, <1>2, <1>3, FS_Subset
    <2>. DEFINE V == U \ {Any(U)}
    <2>2. CASE U = {}
      <3>. HIDE DEF sol
      <3>. QED  BY <2>1, <2>2, AddsIs
    <2>3. CASE U # {}
      <3>1. V \in SUBSET T /\ V # T /\ V \subseteq U
        BY <1>3
      <3>2. Adds(sol(V), f, V)
        BY <1>2, <3>1
      <3>3. IsFiniteSet(V)
        BY <2>1, FS_Subset
      <3>. HIDE DEF sol
      <3>4. sol(V)[V] = sol(U)[V]
        BY <2>1, <3>1, <3>2, <3>3, AddsAgree
      <3>5. sol(U)[U] = f[Any(U)] + sol(U)[V]
        BY <2>1, <2>3, AddsIs
      <3>. QED  BY <2>3, <3>4, <3>5
    <2>. QED  BY <2>2, <2>3
  <1>4. ASSUME NEW s \in SUBSET T, s # {} PROVE s \ {Any(s)} \in SUBSET T /\ s \ {Any(s)} # T
    BY <1>4, AnyIn
  <1>5. Adds(sum, f, T)
    <2>. HIDE DEF sol
    <2>1. ASSUME NEW s \in SUBSET T
          PROVE  sum[s] = IF s = {} THEN 0 ELSE f[Any(s)] + sum[s \ {Any(s)}]
      BY <1>3, <1>4
    <2>. QED  BY <2>1 DEF Adds
  <1>. QED  BY <1>1, <1>5

(* it is what SumFunctionOnSet takes its result from,                      *)
LEMMA SumAdds ==
  ASSUME NEW f, NEW S, IsFiniteSet(S)
  PROVE  \E g : Adds(g, f, S) /\ SumFunctionOnSet(f, S) = g[S]
  <1>1. SumFunctionOnSet(f, S) = (CHOOSE g : Adds(g, f, S))[S]
    BY DEF SumFunctionOnSet, FoldFunctionOnSet, MapThenFoldSet, Adds, Any
  <1>. QED  BY <1>1, AddsExists

(* whose recursion follows.                                                *)
LEMMA SumEmpty ==
  ASSUME NEW f
  PROVE  SumFunctionOnSet(f, {}) = 0
  <1>1. PICK g : Adds(g, f, {}) /\ SumFunctionOnSet(f, {}) = g[{}]
    BY FS_EmptySet, SumAdds
  <1>. QED  BY <1>1, AddsIs

LEMMA SumStep ==
  ASSUME NEW f, NEW S, IsFiniteSet(S), S # {}
  PROVE  SumFunctionOnSet(f, S) = f[Any(S)] + SumFunctionOnSet(f, S \ {Any(S)})
  <1>. DEFINE T == S \ {Any(S)}
  <1>0. IsFiniteSet(T)
    BY FS_Subset
  <1>1. PICK g : Adds(g, f, S) /\ SumFunctionOnSet(f, S) = g[S]
    BY SumAdds
  <1>2. PICK h : Adds(h, f, T) /\ SumFunctionOnSet(f, T) = h[T]
    BY <1>0, SumAdds
  <1>3. g[S] = f[Any(S)] + g[T]
    BY <1>1, AddsIs
  <1>4. h[T] = g[T]
    BY <1>0, <1>1, <1>2, AddsAgree
  <1>. QED  BY <1>1, <1>2, <1>3, <1>4

-----------------------------------------------------------------------------
(* What sums are, by induction over the set.                               *)
LEMMA SumType ==
  ASSUME NEW f, NEW S, IsFiniteSet(S), \A x \in S : f[x] \in Int
  PROVE  SumFunctionOnSet(f, S) \in Int
  <1>. DEFINE Q == {T \in SUBSET S : SumFunctionOnSet(f, T) \in Int}
  <1>1. {} \in Q
    BY SumEmpty
  <1>2. ASSUME NEW T \in SUBSET S, T # {}, T \ {Any(T)} \in Q
        PROVE  T \in Q
    <2>1. IsFiniteSet(T) /\ Any(T) \in T
      BY <1>2, FS_Subset, AnyIn
    <2>2. SumFunctionOnSet(f, T) = f[Any(T)] + SumFunctionOnSet(f, T \ {Any(T)})
      BY <1>2, <2>1, SumStep
    <2>. QED  BY <1>2, <2>1, <2>2
  <1>3. Q \in SUBSET SUBSET S
    OBVIOUS
  <1>. HIDE DEF Q
  <1>4. S \in Q
    BY <1>1, <1>2, <1>3, SetInduction
  <1>. QED  BY <1>4 DEF Q

(* Sums are linear, *)
LEMMA SumLinear ==
  ASSUME NEW S, IsFiniteSet(S), NEW a \in Int, NEW b \in Int, NEW f, NEW g, NEW h,
         \A x \in S : f[x] \in Int /\ g[x] \in Int /\ h[x] = a * f[x] + b * g[x]
  PROVE  SumFunctionOnSet(h, S) = a * SumFunctionOnSet(f, S) + b * SumFunctionOnSet(g, S)
  <1>. DEFINE Good(T) == SumFunctionOnSet(h, T) = a * SumFunctionOnSet(f, T) + b * SumFunctionOnSet(g, T)
              Q == {T \in SUBSET S : Good(T)}
  <1>1. {} \in Q
    BY SumEmpty
  <1>2. ASSUME NEW T \in SUBSET S, T # {}, T \ {Any(T)} \in Q
        PROVE  T \in Q
    <2>. DEFINE c == Any(T)
                U == T \ {c}
                F == SumFunctionOnSet(f, U)
                G == SumFunctionOnSet(g, U)
    <2>1. IsFiniteSet(T) /\ IsFiniteSet(U) /\ c \in T /\ c \in S
      BY <1>2, FS_Subset, AnyIn
    <2>2. /\ SumFunctionOnSet(f, T) = f[c] + F
          /\ SumFunctionOnSet(g, T) = g[c] + G
          /\ SumFunctionOnSet(h, T) = h[c] + SumFunctionOnSet(h, U)
      BY <1>2, <2>1, SumStep
    <2>3. F \in Int /\ G \in Int
      BY <2>1, SumType
    <2>4. SumFunctionOnSet(h, U) = a * F + b * G
      BY <1>2
    <2>. HIDE DEF c, F, G, U
    <2>5. \A p, q, r, s \in Int : (a * p + b * q) + (a * r + b * s) = a * (p + r) + b * (q + s)
      OBVIOUS
    <2>6. f[c] \in Int /\ g[c] \in Int /\ h[c] = a * f[c] + b * g[c]
      BY <2>1
    <2>7. Good(T)
      BY <2>2, <2>3, <2>4, <2>5, <2>6
    <2>. QED  BY <2>7
  <1>3. Q \in SUBSET SUBSET S
    OBVIOUS
  <1>. HIDE DEF Q
  <1>4. S \in Q
    BY <1>1, <1>2, <1>3, SetInduction
  <1>. QED  BY <1>4 DEF Q

Combines(h, a, f, b, g, S) ==
    \A x \in S : f[x] \in Int /\ g[x] \in Int /\ h[x] = a * f[x] + b * g[x]

LEMMA SumCombines ==
  ASSUME NEW S, IsFiniteSet(S), NEW a \in Int, NEW b \in Int, NEW f, NEW g, NEW h,
         Combines(h, a, f, b, g, S)
  PROVE  SumFunctionOnSet(h, S) = a * SumFunctionOnSet(f, S) + b * SumFunctionOnSet(g, S)
  BY SumLinear DEF Combines

(* of a constant it is a multiple, *)
LEMMA SumConstant ==
  ASSUME NEW S, IsFiniteSet(S), NEW c \in Int, NEW f, \A x \in S : f[x] = c
  PROVE  SumFunctionOnSet(f, S) = Cardinality(S) * c
  <1>. DEFINE Q == {T \in SUBSET S : SumFunctionOnSet(f, T) = Cardinality(T) * c}
  <1>1. {} \in Q
    BY SumEmpty, FS_EmptySet
  <1>2. ASSUME NEW T \in SUBSET S, T # {}, T \ {Any(T)} \in Q
        PROVE  T \in Q
    <2>. DEFINE U == T \ {Any(T)}
                n == Cardinality(U)
    <2>1. IsFiniteSet(T) /\ IsFiniteSet(U) /\ Any(T) \in T
      BY <1>2, FS_Subset, AnyIn
    <2>2. Cardinality(T) = n + 1 /\ n \in Int
      BY <2>1, FS_RemoveElement, FS_CardinalityType
    <2>3. SumFunctionOnSet(f, T) = c + n * c
      BY <1>2, <2>1, SumStep
    <2>. HIDE DEF n
    <2>4. c + n * c = (n + 1) * c
      BY <2>2
    <2>. QED  BY <2>2, <2>3, <2>4
  <1>3. Q \in SUBSET SUBSET S
    OBVIOUS
  <1>. HIDE DEF Q
  <1>4. S \in Q
    BY <1>1, <1>2, <1>3, SetInduction
  <1>. QED  BY <1>4 DEF Q

(* and of terms that are not negative it is not, and positive if one is.    *)
LEMMA SumNonnegative ==
  ASSUME NEW S, IsFiniteSet(S), NEW f, \A x \in S : f[x] \in Int /\ f[x] >= 0
  PROVE  SumFunctionOnSet(f, S) >= 0
  <1>. DEFINE Q == {T \in SUBSET S : SumFunctionOnSet(f, T) >= 0}
  <1>1. {} \in Q
    BY SumEmpty
  <1>2. ASSUME NEW T \in SUBSET S, T # {}, T \ {Any(T)} \in Q
        PROVE  T \in Q
    <2>. DEFINE U == T \ {Any(T)}
    <2>1. IsFiniteSet(T) /\ IsFiniteSet(U) /\ Any(T) \in T
      BY <1>2, FS_Subset, AnyIn
    <2>2. SumFunctionOnSet(f, T) = f[Any(T)] + SumFunctionOnSet(f, U)
      BY <1>2, <2>1, SumStep
    <2>3. SumFunctionOnSet(f, U) \in Int /\ SumFunctionOnSet(f, U) >= 0
      BY <1>2, <2>1, SumType
    <2>. QED  BY <2>1, <2>2, <2>3
  <1>3. Q \in SUBSET SUBSET S
    OBVIOUS
  <1>. HIDE DEF Q
  <1>4. S \in Q
    BY <1>1, <1>2, <1>3, SetInduction
  <1>. QED  BY <1>4 DEF Q

LEMMA SumPositive ==
  ASSUME NEW S, IsFiniteSet(S), NEW f, \A x \in S : f[x] \in Int /\ f[x] >= 0,
         NEW y \in S, f[y] > 0
  PROVE  SumFunctionOnSet(f, S) > 0
  <1>. DEFINE Q == {T \in SUBSET S : y \in T => SumFunctionOnSet(f, T) > 0}
  <1>1. {} \in Q
    OBVIOUS
  <1>2. ASSUME NEW T \in SUBSET S, T # {}, T \ {Any(T)} \in Q
        PROVE  T \in Q
    <2>. DEFINE U == T \ {Any(T)}
    <2>1. IsFiniteSet(T) /\ IsFiniteSet(U) /\ Any(T) \in T
      BY <1>2, FS_Subset, AnyIn
    <2>2. SumFunctionOnSet(f, T) = f[Any(T)] + SumFunctionOnSet(f, U)
      BY <1>2, <2>1, SumStep
    <2>3. SumFunctionOnSet(f, U) \in Int /\ SumFunctionOnSet(f, U) >= 0
      BY <2>1, SumType, SumNonnegative
    <2>4. y \in T => y = Any(T) \/ SumFunctionOnSet(f, U) > 0
      BY <1>2
    <2>. QED  BY <2>1, <2>2, <2>3, <2>4
  <1>3. Q \in SUBSET SUBSET S
    OBVIOUS
  <1>. HIDE DEF Q
  <1>4. S \in Q
    BY <1>1, <1>2, <1>3, SetInduction
  <1>. QED  BY <1>4 DEF Q

-----------------------------------------------------------------------------
(* A function on a finite set has a least value.                           *)
LEMMA Lowest ==
  ASSUME NEW S, IsFiniteSet(S), S # {}, NEW f, \A x \in S : f[x] \in Int
  PROVE  \E m \in S : \A x \in S : f[m] <= f[x]
  <1>. DEFINE Q == {T \in SUBSET S : T # {} => \E m \in T : \A x \in T : f[m] <= f[x]}
  <1>1. {} \in Q
    OBVIOUS
  <1>2. ASSUME NEW T \in SUBSET S, T # {}, T \ {Any(T)} \in Q
        PROVE  T \in Q
    <2>1. Any(T) \in T
      BY <1>2, AnyIn
    <2>2. CASE T \ {Any(T)} = {}
      <3>1. \A x \in T : f[Any(T)] <= f[x]
        BY <2>1, <2>2
      <3>. QED  BY <2>1, <3>1
    <2>3. CASE T \ {Any(T)} # {}
      <3>1. PICK m \in T \ {Any(T)} : \A x \in T \ {Any(T)} : f[m] <= f[x]
        BY <1>2, <2>3
      <3>2. CASE f[m] <= f[Any(T)]
        BY <3>1, <3>2
      <3>3. CASE ~(f[m] <= f[Any(T)])
        <4>1. \A x \in T : f[Any(T)] <= f[x]
          BY <2>1, <3>1, <3>3
        <4>. QED  BY <2>1, <4>1
      <3>. QED  BY <3>2, <3>3
    <2>. QED  BY <2>2, <2>3
  <1>3. Q \in SUBSET SUBSET S
    OBVIOUS
  <1>. HIDE DEF Q
  <1>4. S \in Q
    BY <1>1, <1>2, <1>3, SetInduction
  <1>. QED  BY <1>4 DEF Q

(* Induction along a sequence.                                             *)
LEMMA IndexInduction ==
  ASSUME NEW n \in Nat, NEW Q \in SUBSET (1..n), n > 0 => 1 \in Q,
         \A i \in 1..n : i < n /\ i \in Q => i + 1 \in Q
  PROVE  Q = 1..n
  <1>. SUFFICES ASSUME Q # 1..n PROVE FALSE
    OBVIOUS
  <1>. DEFINE Bad == (1..n) \ Q
              id == [i \in Bad |-> i]
  <1>1. Bad # {} /\ IsFiniteSet(Bad)
    <2>1. IsFiniteSet(1..n)
      BY FS_Interval
    <2>. QED  BY <2>1, FS_Subset
  <1>2. \E m \in Bad : \A x \in Bad : id[m] <= id[x]
    <2>1. \A x \in Bad : id[x] \in Int
      OBVIOUS
    <2>. HIDE DEF id, Bad
    <2>. QED  BY <1>1, <2>1, Lowest
  <1>3. PICK m \in Bad : \A x \in Bad : m <= x
    BY <1>2
  <1>4. m # 1 /\ m - 1 \in 1..n /\ m - 1 \notin Bad
    BY <1>3
  <1>. QED  BY <1>4

-----------------------------------------------------------------------------
(* A finite set of samples, and the sums of its times and of its values.   *)
IsTrend(p) == IsFiniteSet(DOMAIN p) /\ \A i \in DOMAIN p : p[i].at \in Int /\ p[i].y \in Int

At(p) == [i \in DOMAIN p |-> p[i].at]
Ys(p) == [i \in DOMAIN p |-> p[i].y]
SumX(p) == SumFunctionOnSet(At(p), DOMAIN p)
SumY(p) == SumFunctionOnSet(Ys(p), DOMAIN p)

(* n times a deviation from the mean, of times and of values.              *)
LEMMA Deviation ==
  ASSUME NEW p, IsTrend(p)
  PROVE  /\ SumX(p) \in Int /\ SumY(p) \in Int /\ Cardinality(DOMAIN p) \in Nat
         /\ \A i \in DOMAIN p :
               /\ DevX(p, i) = Cardinality(DOMAIN p) * p[i].at - SumX(p) /\ DevX(p, i) \in Int
               /\ DevY(p, i) = Cardinality(DOMAIN p) * p[i].y - SumY(p) /\ DevY(p, i) \in Int
  <1>1. DOMAIN At(p) = DOMAIN p /\ DOMAIN Ys(p) = DOMAIN p
    BY DEF At, Ys
  <1>2. \A i \in DOMAIN p : At(p)[i] = p[i].at /\ Ys(p)[i] = p[i].y
    BY DEF At, Ys
  <1>3. SumX(p) \in Int /\ SumY(p) \in Int
    BY <1>2, SumType DEF SumX, SumY, IsTrend
  <1>4. Cardinality(DOMAIN p) \in Nat
    BY FS_CardinalityType DEF IsTrend
  <1>5. /\ SumFunction([j \in DOMAIN p |-> p[j].at]) = SumX(p)
        /\ SumFunction([j \in DOMAIN p |-> p[j].y]) = SumY(p)
    BY DEF SumFunction, SumX, SumY, At, Ys
  <1>6. \A i \in DOMAIN p : p[i].at \in Int /\ p[i].y \in Int
    BY DEF IsTrend
  <1>. QED  BY <1>3, <1>4, <1>5, <1>6 DEF DevX, DevY

(* Deviations from the mean, multiplied by the number of values, add up to  *)
(* nothing,                                                                *)
LEMMA Balance ==
  ASSUME NEW S, IsFiniteSet(S), NEW f, NEW s \in Int, s = SumFunctionOnSet(f, S),
         NEW n, n = Cardinality(S), NEW dev, \A i \in S : f[i] \in Int /\ dev[i] = n * f[i] - s
  PROVE  SumFunctionOnSet(dev, S) = 0
  <1>. DEFINE one == [i \in S |-> 1]
  <1>1. n \in Int
    BY FS_CardinalityType
  <1>2. SumFunctionOnSet(one, S) = n
    <2>1. \A i \in S : one[i] = 1
      OBVIOUS
    <2>. HIDE DEF one
    <2>2. SumFunctionOnSet(one, S) = Cardinality(S) * 1
      BY <2>1, SumConstant
    <2>. QED  BY <1>1, <2>2
  <1>3. \A i \in S : f[i] \in Int /\ one[i] \in Int /\ dev[i] = n * f[i] + (-s) * one[i]
    BY <1>1
  <1>4. -s \in Int
    OBVIOUS
  <1>. HIDE DEF one
  <1>5. SumFunctionOnSet(dev, S) = n * SumFunctionOnSet(f, S) + (-s) * SumFunctionOnSet(one, S)
    <2>1. Combines(dev, n, f, -s, one, S)
      BY <1>3 DEF Combines
    <2>. QED  BY <1>1, <1>4, <2>1, SumCombines
  <1>. QED  BY <1>1, <1>2, <1>5

(* and so do those of a trend.                                             *)
LEMMA DevBalances ==
  ASSUME NEW p, IsTrend(p)
  PROVE  /\ SumFunctionOnSet([i \in DOMAIN p |-> DevX(p, i)], DOMAIN p) = 0
         /\ SumFunctionOnSet([i \in DOMAIN p |-> DevY(p, i)], DOMAIN p) = 0
  <1>. DEFINE D == DOMAIN p
              n == Cardinality(D)
              devx == [i \in D |-> DevX(p, i)]
              devy == [i \in D |-> DevY(p, i)]
  <1>1. IsFiniteSet(D) /\ SumX(p) \in Int /\ SumY(p) \in Int
    BY Deviation DEF IsTrend
  <1>2. \A i \in D : /\ At(p)[i] \in Int /\ devx[i] = n * At(p)[i] - SumX(p)
                     /\ Ys(p)[i] \in Int /\ devy[i] = n * Ys(p)[i] - SumY(p)
    BY Deviation DEF IsTrend, At, Ys
  <1>3. SumX(p) = SumFunctionOnSet(At(p), D) /\ SumY(p) = SumFunctionOnSet(Ys(p), D)
    BY DEF SumX, SumY
  <1>. HIDE DEF devx, devy, n, D
  <1>4. n = Cardinality(D)
    BY DEF n
  <1>5. SumFunctionOnSet(devx, D) = 0
    BY <1>1, <1>2, <1>3, <1>4, Balance
  <1>6. SumFunctionOnSet(devy, D) = 0
    BY <1>1, <1>2, <1>3, <1>4, Balance
  <1>. QED  BY <1>5, <1>6 DEF devx, devy, D

(* A trend in which nothing later is higher does not rise.                 *)
LEMMA NeverHigherNeverRises ==
  ASSUME NEW p, IsTrend(p),
         \A i, j \in DOMAIN p : p[i].at < p[j].at => p[j].y <= p[i].y
  PROVE  Rise(p) \in Int /\ Rise(p) <= 0
  <1>. DEFINE D == DOMAIN p
              dev == [i \in D |-> DevX(p, i)]
              term == [i \in D |-> DevX(p, i) * DevY(p, i)]
              n == Cardinality(D)
  <1>1. /\ IsFiniteSet(D) /\ n \in Nat /\ SumX(p) \in Int /\ SumY(p) \in Int
        /\ \A i \in D :
              /\ DevX(p, i) = n * p[i].at - SumX(p) /\ DevX(p, i) \in Int
              /\ DevY(p, i) = n * p[i].y - SumY(p) /\ DevY(p, i) \in Int
              /\ p[i].at \in Int /\ p[i].y \in Int
    BY Deviation DEF IsTrend
  <1>2. Rise(p) = SumFunctionOnSet(term, D)
    BY DEF Rise, SumFunction
  <1>3. SumFunctionOnSet(dev, D) = 0
    BY DevBalances
  <1>4. CASE D = {}
    BY <1>2, <1>4, SumEmpty
  <1>5. CASE D # {}
    <2>. DEFINE Early == {i \in D : DevX(p, i) <= 0}
                ys == [i \in Early |-> DevY(p, i)]
    <2>1. Early # {}
      <3>. SUFFICES ASSUME Early = {} PROVE FALSE
        OBVIOUS
      <3>1. \A i \in D : dev[i] \in Int /\ dev[i] > 0
        BY <1>1
      <3>. HIDE DEF dev, D
      <3>. QED  BY <1>1, <1>3, <1>5, <3>1, SumPositive
    <2>2. PICK m \in Early : \A i \in Early : DevY(p, m) <= DevY(p, i)
      <3>1. \A i \in Early : ys[i] \in Int /\ ys[i] = DevY(p, i)
        BY <1>1
      <3>2. IsFiniteSet(Early)
        BY <1>1, FS_Subset
      <3>. HIDE DEF ys, Early
      <3>3. \E m \in Early : \A i \in Early : ys[m] <= ys[i]
        BY <2>1, <3>1, <3>2, Lowest
      <3>. QED  BY <3>1, <3>3
    <2>. DEFINE c == DevY(p, m)
                under == [i \in D |-> DevX(p, i) * (c - DevY(p, i))]
    <2>3. ASSUME NEW i \in D, DevX(p, i) > 0 PROVE DevY(p, i) <= c
      <3>1. n * p[m].at < n * p[i].at
        BY <1>1, <2>3
      <3>2. p[m].at < p[i].at
        <4>. SUFFICES ASSUME p[i].at <= p[m].at PROVE n * p[i].at <= n * p[m].at
          BY <1>1, <3>1
        <4>. QED  BY <1>1
      <3>3. p[i].y <= p[m].y
        BY <3>2
      <3>4. n * p[i].y <= n * p[m].y
        BY <1>1, <3>3
      <3>. QED  BY <1>1, <3>4
    <2>4. \A i \in D : under[i] \in Int /\ under[i] >= 0
      <3>. TAKE i \in D
      <3>. DEFINE x == DevX(p, i)
                  y == DevY(p, i)
      <3>1. x \in Int /\ y \in Int /\ c \in Int
        BY <1>1
      <3>2. (x > 0 /\ c - y >= 0) \/ (x <= 0 /\ c - y <= 0)
        BY <1>1, <2>2, <2>3
      <3>. HIDE DEF x, y, c
      <3>3. x * (c - y) \in Int /\ x * (c - y) >= 0
        BY <3>1, <3>2
      <3>. QED  BY <3>3 DEF x, y
    <2>5. \A i \in D : dev[i] \in Int /\ term[i] = (-1) * under[i] + c * dev[i]
      BY <1>1
    <2>6. SumFunctionOnSet(term, D) = (-1) * SumFunctionOnSet(under, D) + c * SumFunctionOnSet(dev, D)
      <3>1. c \in Int
        BY <1>1
      <3>. HIDE DEF term, under, dev, c, D
      <3>. QED  BY <1>1, <2>4, <2>5, <3>1, SumLinear
    <2>7. SumFunctionOnSet(under, D) \in Int /\ SumFunctionOnSet(under, D) >= 0
      <3>. HIDE DEF under, D
      <3>. QED  BY <1>1, <2>4, SumType, SumNonnegative
    <2>8. c \in Int
      BY <1>1
    <2>. QED  BY <1>2, <1>3, <2>6, <2>7, <2>8
  <1>. QED  BY <1>4, <1>5

-----------------------------------------------------------------------------
(* A trend on a line through (t, y) that rises by rise in span.            *)
OnLine(p, t, y, rise, span) ==
    \A i \in DOMAIN p : (p[i].y - y) * span = rise * (p[i].at - t)

(* On a line the deviations are in proportion.                             *)
LEMMA LineDeviations ==
  ASSUME NEW p, IsTrend(p), NEW t \in Int, NEW y \in Int, NEW rise \in Int, NEW span \in Int,
         OnLine(p, t, y, rise, span)
  PROVE  \A i \in DOMAIN p : DevY(p, i) * span = rise * DevX(p, i)
  <1>. DEFINE D == DOMAIN p
              n == Cardinality(D)
              k == span * y + (-rise) * t
              level == [i \in D |-> span * p[i].y + (-rise) * p[i].at]
              sx == SumX(p)
              sy == SumY(p)
  <1>1. /\ IsFiniteSet(D) /\ n \in Int /\ sx \in Int /\ sy \in Int
        /\ \A i \in D :
              /\ DevX(p, i) = n * p[i].at - sx /\ DevX(p, i) \in Int
              /\ DevY(p, i) = n * p[i].y - sy /\ DevY(p, i) \in Int
              /\ p[i].at \in Int /\ p[i].y \in Int
    BY Deviation DEF IsTrend
  <1>2. ASSUME NEW i \in D PROVE span * p[i].y + (-rise) * p[i].at = k
    <2>. DEFINE a == p[i].at
                b == p[i].y
    <2>1. a \in Int /\ b \in Int /\ (b - y) * span = rise * (a - t)
      BY <1>1 DEF OnLine
    <2>. HIDE DEF a, b
    <2>2. span * b + (-rise) * a = span * y + (-rise) * t
      BY <2>1
    <2>. QED  BY <2>2 DEF a, b
  <1>3. k \in Int
    OBVIOUS
  <1>4. SumFunctionOnSet(level, D) = n * k
    <2>1. \A i \in D : level[i] = k
      BY <1>2
    <2>. HIDE DEF level, k, D
    <2>. QED  BY <1>1, <1>3, <2>1, SumConstant
  <1>5. SumFunctionOnSet(level, D) = span * sy + (-rise) * sx
    <2>1. \A i \in D : /\ Ys(p)[i] \in Int /\ At(p)[i] \in Int
                       /\ level[i] = span * Ys(p)[i] + (-rise) * At(p)[i]
      BY <1>1 DEF Ys, At
    <2>2. -rise \in Int
      OBVIOUS
    <2>. HIDE DEF level, D
    <2>3. SumFunctionOnSet(level, D) = span * SumFunctionOnSet(Ys(p), D) + (-rise) * SumFunctionOnSet(At(p), D)
      BY <1>1, <2>1, <2>2, SumLinear
    <2>. QED  BY <2>3 DEF D, SumX, SumY
  <1>6. span * sy + (-rise) * sx = n * k
    BY <1>4, <1>5
  <1>7. ASSUME NEW i \in D PROVE DevY(p, i) * span = rise * DevX(p, i)
    <2>. DEFINE a == p[i].at
                b == p[i].y
    <2>1. a \in Int /\ b \in Int /\ span * b + (-rise) * a = k
          /\ DevX(p, i) = n * a - sx /\ DevY(p, i) = n * b - sy
      BY <1>1, <1>2
    <2>. HIDE DEF a, b, k, n, sx, sy
    <2>2. n * (span * b + (-rise) * a) = n * k
      BY <2>1
    <2>3. n * (span * b + (-rise) * a) = span * (n * b) + (-rise) * (n * a)
      BY <1>1, <2>1
    <2>4. (n * b - sy) * span - rise * (n * a - sx)
             = (span * (n * b) + (-rise) * (n * a)) - (span * sy + (-rise) * sx)
      BY <1>1, <2>1
    <2>5. (n * b - sy) * span - rise * (n * a - sx) = 0
      BY <1>1, <1>3, <1>6, <2>2, <2>3, <2>4
    <2>. QED  BY <1>1, <2>1, <2>5
  <1>. QED  BY <1>7

(* The sums of squares of a trend, and that there is a slope if the samples *)
(* have more than one time.                                                *)
LEMMA Squares ==
  ASSUME NEW p, IsTrend(p)
  PROVE  /\ Rise(p) \in Int /\ Run(p) \in Int /\ Run(p) >= 0
         /\ Total(p) \in Int /\ Total(p) >= 0
         /\ \A u, v \in DOMAIN p : p[u].at # p[v].at => Run(p) > 0
  <1>. DEFINE D == DOMAIN p
              square == [i \in D |-> DevX(p, i) * DevX(p, i)]
              term == [i \in D |-> DevX(p, i) * DevY(p, i)]
              total == [i \in D |-> DevY(p, i) * DevY(p, i)]
  <1>1. IsFiniteSet(D) /\ \A i \in D : DevX(p, i) \in Int /\ DevY(p, i) \in Int
    BY Deviation DEF IsTrend
  <1>2. /\ Rise(p) = SumFunctionOnSet(term, D) /\ Run(p) = SumFunctionOnSet(square, D)
        /\ Total(p) = SumFunctionOnSet(total, D)
    BY DEF Rise, Run, Total, SumFunction
  <1>3. \A x \in Int : x * x \in Int /\ x * x >= 0 /\ (x # 0 => x * x > 0)
    OBVIOUS
  <1>4. \A i \in D : /\ square[i] \in Int /\ square[i] >= 0 /\ (DevX(p, i) # 0 => square[i] > 0)
                     /\ total[i] \in Int /\ total[i] >= 0 /\ term[i] \in Int
    BY <1>1, <1>3
  <1>5. ASSUME NEW u \in D, NEW v \in D, p[u].at # p[v].at
        PROVE  DevX(p, u) # 0 \/ DevX(p, v) # 0
    <2>. DEFINE n == Cardinality(D)
    <2>1. /\ DevX(p, u) = n * p[u].at - SumX(p) /\ DevX(p, v) = n * p[v].at - SumX(p)
          /\ SumX(p) \in Int /\ n \in Nat /\ p[u].at \in Int /\ p[v].at \in Int
      BY Deviation DEF IsTrend
    <2>2. n # 0
      BY <1>1, FS_EmptySet
    <2>. HIDE DEF n
    <2>3. \A a, b \in Int : n * a = n * b => a = b
      BY <2>1, <2>2
    <2>4. n * p[u].at # n * p[v].at
      BY <1>5, <2>1, <2>3
    <2>. QED  BY <2>1, <2>4
  <1>6. ASSUME NEW i \in D, DevX(p, i) # 0 PROVE Run(p) > 0
    <2>. HIDE DEF square, term, total, D
    <2>. QED  BY <1>1, <1>2, <1>4, <1>6, SumPositive
  <1>7. \A u, v \in D : p[u].at # p[v].at => Run(p) > 0
    BY <1>5, <1>6
  <1>8. /\ Rise(p) \in Int /\ Run(p) \in Int /\ Run(p) >= 0
        /\ Total(p) \in Int /\ Total(p) >= 0
    <2>. HIDE DEF square, term, total, D
    <2>. QED  BY <1>1, <1>2, <1>4, SumType, SumNonnegative
  <1>. QED  BY <1>7, <1>8

(* The least-squares line through points on a line is that line.           *)
LEMMA LineIsFitted ==
  ASSUME NEW p, IsTrend(p), NEW t \in Int, NEW y \in Int, NEW rise \in Int, NEW span \in Int,
         OnLine(p, t, y, rise, span), span > 0,
         NEW u \in DOMAIN p, NEW v \in DOMAIN p, p[u].at # p[v].at
  PROVE  /\ Rise(p) \in Int /\ Run(p) \in Int /\ Run(p) > 0
         /\ Rise(p) * span = rise * Run(p)
         /\ Fits(p)
  <1>. DEFINE D == DOMAIN p
              square == [i \in D |-> DevX(p, i) * DevX(p, i)]
              term == [i \in D |-> DevX(p, i) * DevY(p, i)]
  <1>1. /\ IsFiniteSet(D) /\ u \in D /\ v \in D
        /\ \A i \in D : /\ DevX(p, i) \in Int /\ DevY(p, i) \in Int
                        /\ DevY(p, i) * span = rise * DevX(p, i)
    BY Deviation, LineDeviations DEF IsTrend
  <1>2. Rise(p) = SumFunctionOnSet(term, D) /\ Run(p) = SumFunctionOnSet(square, D)
    BY DEF Rise, Run, SumFunction
  <1>4. \A i \in D : square[i] \in Int /\ term[i] \in Int
    BY <1>1
  <1>6. Run(p) \in Int /\ Run(p) > 0 /\ Rise(p) \in Int /\ Total(p) \in Int /\ Total(p) >= 0
    BY Squares
  <1>7. Rise(p) * span = rise * Run(p)
    <2>. DEFINE both == [i \in D |-> span * term[i]]
    <2>1. \A i \in D : span * term[i] = rise * square[i]
      <3>. TAKE i \in D
      <3>. DEFINE x == DevX(p, i)
                  b == DevY(p, i)
      <3>1. x \in Int /\ b \in Int /\ b * span = rise * x
        BY <1>1
      <3>2. term[i] = x * b /\ square[i] = x * x
        OBVIOUS
      <3>. HIDE DEF x, b
      <3>3. span * (x * b) = x * (b * span)
        BY <3>1
      <3>4. rise * (x * x) = x * (rise * x)
        BY <3>1
      <3>. QED  BY <3>1, <3>2, <3>3, <3>4
    <2>2. /\ \A i \in D : both[i] = span * term[i] + 0 * term[i]
          /\ \A i \in D : both[i] = rise * square[i] + 0 * square[i]
      BY <1>4, <2>1
    <2>. HIDE DEF both, square, term, D
    <2>3. SumFunctionOnSet(both, D) = span * SumFunctionOnSet(term, D) + 0 * SumFunctionOnSet(term, D)
      BY <1>1, <1>4, <2>2, SumLinear
    <2>4. SumFunctionOnSet(both, D) = rise * SumFunctionOnSet(square, D) + 0 * SumFunctionOnSet(square, D)
      BY <1>1, <1>4, <2>2, SumLinear
    <2>. QED  BY <1>2, <1>6, <2>3, <2>4
  <1>8. Residual(p) = 0
    <2>. DEFINE miss(i) == DevY(p, i) * Run(p) - Rise(p) * DevX(p, i)
                misses == [i \in D |-> miss(i) * miss(i)]
    <2>1. \A i \in D : miss(i) = 0
      <3>. TAKE i \in D
      <3>. DEFINE x == DevX(p, i)
                  b == DevY(p, i)
                  r == Run(p)
                  q == Rise(p)
      <3>1. /\ x \in Int /\ b \in Int /\ b * span = rise * x
            /\ r \in Int /\ q \in Int /\ q * span = rise * r
        BY <1>1, <1>6, <1>7
      <3>. HIDE DEF x, b, r, q
      <3>2. (b * r - q * x) * span = (b * span) * r - (q * span) * x
        BY <3>1
      <3>3. (b * span) * r - (q * span) * x = (rise * x) * r - (rise * r) * x
        BY <3>1
      <3>4. (b * r - q * x) * span = 0
        BY <3>1, <3>2, <3>3
      <3>5. b * r - q * x = 0
        BY <3>1, <3>4
      <3>. QED  BY <3>5 DEF x, b, r, q
    <2>2. \A i \in D : misses[i] = 0
      BY <2>1
    <2>3. Residual(p) = SumFunctionOnSet(misses, D)
      BY DEF Residual, SumFunction
    <2>. HIDE DEF misses, D
    <2>4. SumFunctionOnSet(misses, D) = Cardinality(D) * 0
      BY <1>1, <2>2, SumConstant
    <2>. QED  BY <1>1, <2>3, <2>4, FS_CardinalityType
  <1>9. Fits(p)
    <2>. DEFINE r == Run(p)
                q == Total(p)
    <2>1. r \in Int /\ r > 0 /\ q \in Int /\ q >= 0
      BY <1>6
    <2>. HIDE DEF r, q
    <2>2. r * r \in Int /\ r * r >= 0
      BY <2>1
    <2>3. (r * r) * q >= 0
      BY <2>1, <2>2
    <2>4. 0 <= 2 * r * r * q
      BY <2>1, <2>3
    <2>. QED  BY <1>8, <2>4 DEF Fits, r, q
  <1>. QED  BY <1>6, <1>7, <1>9

(* The squares of what the line through the means with slope b / a, moved   *)
(* by c, misses, added up.                                                 *)
MissedSquares(f, p, a, b, c) ==
    \A i \in DOMAIN p : f[i] = (a * DevY(p, i) - b * DevX(p, i) + c)
                                * (a * DevY(p, i) - b * DevX(p, i) + c)

LEMMA Misses ==
  ASSUME NEW p, IsTrend(p), NEW a \in Int, NEW b \in Int, NEW c \in Int,
         NEW f, MissedSquares(f, p, a, b, c)
  PROVE  SumFunctionOnSet(f, DOMAIN p)
           = (a * a) * Total(p) - 2 * ((a * b) * Rise(p)) + (b * b) * Run(p)
             + Cardinality(DOMAIN p) * (c * c)
  <1>. DEFINE D == DOMAIN p
              n == Cardinality(D)
              dx == [i \in D |-> DevX(p, i)]
              dy == [i \in D |-> DevY(p, i)]
              xx == [i \in D |-> DevX(p, i) * DevX(p, i)]
              xy == [i \in D |-> DevX(p, i) * DevY(p, i)]
              yy == [i \in D |-> DevY(p, i) * DevY(p, i)]
              cc == [i \in D |-> c * c]
              product == [i \in D |-> (a * a) * yy[i] + (-2 * (a * b)) * xy[i]]
              square == [i \in D |-> (b * b) * xx[i] + 1 * cc[i]]
              mixed == [i \in D |-> (2 * (a * c)) * dy[i] + (-2 * (b * c)) * dx[i]]
              even == [i \in D |-> 1 * product[i] + 1 * square[i]]
  <1>1. /\ IsFiniteSet(D) /\ n \in Nat
        /\ Rise(p) \in Int /\ Run(p) \in Int /\ Total(p) \in Int
        /\ \A i \in D : DevX(p, i) \in Int /\ DevY(p, i) \in Int
    BY Deviation, Squares DEF IsTrend
  <1>2. /\ Rise(p) = SumFunctionOnSet(xy, D) /\ Run(p) = SumFunctionOnSet(xx, D)
        /\ Total(p) = SumFunctionOnSet(yy, D)
    BY DEF Rise, Run, Total, SumFunction
  <1>3. SumFunctionOnSet(dx, D) = 0 /\ SumFunctionOnSet(dy, D) = 0
    BY DevBalances
  <1>4. /\ a * a \in Int /\ b * b \in Int /\ c * c \in Int
        /\ -2 * (a * b) \in Int /\ 2 * (a * c) \in Int /\ -2 * (b * c) \in Int
    OBVIOUS
  <1>5. \A i \in D : /\ xx[i] \in Int /\ xy[i] \in Int /\ yy[i] \in Int
                     /\ cc[i] = c * c /\ cc[i] \in Int
                     /\ dx[i] \in Int /\ dy[i] \in Int
    BY <1>1
  <1>6. \A i \in D : /\ product[i] = (a * a) * yy[i] + (-2 * (a * b)) * xy[i] /\ product[i] \in Int
                     /\ square[i] = (b * b) * xx[i] + 1 * cc[i] /\ square[i] \in Int
                     /\ mixed[i] = (2 * (a * c)) * dy[i] + (-2 * (b * c)) * dx[i] /\ mixed[i] \in Int
    <2>. HIDE DEF dx, dy, xx, xy, yy, cc
    <2>. QED  BY <1>4, <1>5
  <1>7. \A i \in D : even[i] = 1 * product[i] + 1 * square[i] /\ even[i] \in Int
    <2>. HIDE DEF product, square
    <2>. QED  BY <1>6
  <1>8. \A i \in D : f[i] = 1 * even[i] + 1 * mixed[i]
    <2>1. ASSUME NEW x \in Int, NEW y \in Int
          PROVE  (a * y - b * x + c) * (a * y - b * x + c)
                   = 1 * (1 * ((a * a) * (y * y) + (-2 * (a * b)) * (x * y)) + 1 * ((b * b) * (x * x) + 1 * (c * c)))
                     + 1 * ((2 * (a * c)) * y + (-2 * (b * c)) * x)
      OBVIOUS
    <2>. TAKE i \in D
    <2>2. even[i] = 1 * ((a * a) * (DevY(p, i) * DevY(p, i)) + (-2 * (a * b)) * (DevX(p, i) * DevY(p, i)))
                    + 1 * ((b * b) * (DevX(p, i) * DevX(p, i)) + 1 * (c * c))
      OBVIOUS
    <2>3. mixed[i] = (2 * (a * c)) * DevY(p, i) + (-2 * (b * c)) * DevX(p, i)
      OBVIOUS
    <2>4. f[i] = (a * DevY(p, i) - b * DevX(p, i) + c) * (a * DevY(p, i) - b * DevX(p, i) + c)
      BY DEF MissedSquares
    <2>5. DevX(p, i) \in Int /\ DevY(p, i) \in Int
      BY <1>1
    <2>. HIDE DEF even, mixed
    <2>. QED  BY <2>1, <2>2, <2>3, <2>4, <2>5
  <1>. HIDE DEF D, n, dx, dy, xx, xy, yy, cc, product, square, mixed, even
  <1>9. SumFunctionOnSet(product, D) = (a * a) * Total(p) + (-2 * (a * b)) * Rise(p)
    <2>1. Combines(product, a * a, yy, -2 * (a * b), xy, D)
      BY <1>5, <1>6 DEF Combines
    <2>. QED  BY <1>1, <1>2, <1>4, <2>1, SumCombines
  <1>10. SumFunctionOnSet(cc, D) = n * (c * c)
    BY <1>1, <1>4, <1>5, SumConstant DEF n
  <1>11. SumFunctionOnSet(square, D) = (b * b) * Run(p) + 1 * (n * (c * c))
    <2>1. Combines(square, b * b, xx, 1, cc, D)
      BY <1>5, <1>6 DEF Combines
    <2>. QED  BY <1>1, <1>2, <1>4, <1>10, <2>1, SumCombines
  <1>12. SumFunctionOnSet(mixed, D) = 0
    <2>1. SumFunctionOnSet(mixed, D) = (2 * (a * c)) * 0 + (-2 * (b * c)) * 0
      <3>1. Combines(mixed, 2 * (a * c), dy, -2 * (b * c), dx, D)
        BY <1>5, <1>6 DEF Combines
      <3>. QED  BY <1>1, <1>3, <1>4, <3>1, SumCombines
    <2>. QED  BY <1>4, <2>1
  <1>13. SumFunctionOnSet(even, D) = 1 * SumFunctionOnSet(product, D) + 1 * SumFunctionOnSet(square, D)
    <2>1. Combines(even, 1, product, 1, square, D)
      BY <1>6, <1>7 DEF Combines
    <2>. QED  BY <1>1, <2>1, SumCombines
  <1>14. SumFunctionOnSet(f, D) = 1 * SumFunctionOnSet(even, D) + 1 * SumFunctionOnSet(mixed, D)
    <2>1. Combines(f, 1, even, 1, mixed, D)
      BY <1>6, <1>7, <1>8 DEF Combines
    <2>. QED  BY <1>1, <2>1, SumCombines
  <1>15. /\ (a * a) * Total(p) \in Int /\ (a * b) * Rise(p) \in Int /\ (b * b) * Run(p) \in Int
         /\ n * (c * c) \in Int
         /\ (-2 * (a * b)) * Rise(p) = -2 * ((a * b) * Rise(p))
    BY <1>1
  <1>16. SumFunctionOnSet(f, D) = (a * a) * Total(p) - 2 * ((a * b) * Rise(p)) + (b * b) * Run(p) + n * (c * c)
    BY <1>9, <1>11, <1>12, <1>13, <1>14, <1>15
  <1>. QED  BY <1>16 DEF D, n

(* What the fitted line leaves unexplained, by the sums.                    *)
LEMMA ResidualIs ==
  ASSUME NEW p, IsTrend(p)
  PROVE  /\ Residual(p) = Run(p) * (Run(p) * Total(p)) - Run(p) * (Rise(p) * Rise(p))
         /\ Residual(p) >= 0
  <1>. DEFINE D == DOMAIN p
              r == Run(p)
              q == Rise(p)
              f == [i \in D |-> (DevY(p, i) * r - q * DevX(p, i)) * (DevY(p, i) * r - q * DevX(p, i))]
  <1>1. /\ IsFiniteSet(D) /\ r \in Int /\ q \in Int /\ Total(p) \in Int /\ Cardinality(D) \in Nat
        /\ \A i \in D : DevX(p, i) \in Int /\ DevY(p, i) \in Int
    BY Deviation, Squares DEF IsTrend
  <1>2. Residual(p) = SumFunctionOnSet(f, D)
    BY DEF Residual, SumFunction
  <1>3. ASSUME NEW i \in D
        PROVE  /\ f[i] = (r * DevY(p, i) - q * DevX(p, i) + 0) * (r * DevY(p, i) - q * DevX(p, i) + 0)
               /\ f[i] \in Int /\ f[i] >= 0
    <2>1. f[i] = (DevY(p, i) * r - q * DevX(p, i)) * (DevY(p, i) * r - q * DevX(p, i))
      OBVIOUS
    <2>2. DevX(p, i) \in Int /\ DevY(p, i) \in Int /\ r \in Int /\ q \in Int
      BY <1>1
    <2>. HIDE DEF f, r, q
    <2>3. \A x, y \in Int : y * r - q * x = r * y - q * x + 0 /\ y * r - q * x \in Int
      BY <2>2
    <2>4. \A x \in Int : x * x \in Int /\ x * x >= 0
      OBVIOUS
    <2>. QED  BY <2>1, <2>2, <2>3, <2>4
  <1>. HIDE DEF f, r, q, D
  <1>4. SumFunctionOnSet(f, D) >= 0
    BY <1>1, <1>3, SumNonnegative
  <1>5. SumFunctionOnSet(f, D) = (r * r) * Total(p) - 2 * ((r * q) * q) + (q * q) * r + Cardinality(D) * (0 * 0)
    <2>1. MissedSquares(f, p, r, q, 0)
      BY <1>3 DEF MissedSquares, D
    <2>2. SumFunctionOnSet(f, D) = (r * r) * Total(p) - 2 * ((r * q) * Rise(p)) + (q * q) * Run(p)
                                   + Cardinality(D) * (0 * 0)
      BY <1>1, <2>1, Misses DEF D
    <2>. QED  BY <2>2 DEF r, q
  <1>6. (r * r) * Total(p) - 2 * ((r * q) * q) + (q * q) * r + Cardinality(D) * (0 * 0)
           = r * (r * Total(p)) - r * (q * q)
    <2>1. /\ (r * r) * Total(p) = r * (r * Total(p))
          /\ (r * q) * q = r * (q * q) /\ (q * q) * r = r * (q * q)
          /\ Cardinality(D) * (0 * 0) = 0
      BY <1>1
    <2>2. r * (r * Total(p)) \in Int /\ r * (q * q) \in Int
      BY <1>1
    <2>. QED  BY <2>1, <2>2
  <1>. QED  BY <1>2, <1>4, <1>5, <1>6 DEF r, q

(* "Fit a least-squares trend" (forecast_threshold): no line is closer to a *)
(* history than the one with the slope Rise / Run, whatever its slope b / a *)
(* and its height c / a.  Its r squared is a share: the code's max(0.0, ...) *)
(* has only rounding to catch.                                             *)
THEOREM NoLineIsCloser ==
  ASSUME NEW p, IsTrend(p), NEW a \in Int, NEW b \in Int, NEW c \in Int
  PROVE  LET n == Cardinality(DOMAIN p)
             miss(i) == a * p[i].y - (b * p[i].at + c)
         IN (a * a) * Residual(p)
              <= ((n * Run(p)) * (n * Run(p))) * SumFunction([i \in DOMAIN p |-> miss(i) * miss(i)])
  <1>. DEFINE D == DOMAIN p
              n == Cardinality(D)
              r == Run(p)
              q == Rise(p)
              t == Total(p)
              k == a * SumY(p) - b * SumX(p) - n * c
              miss(i) == a * p[i].y - (b * p[i].at + c)
              f == [i \in D |-> miss(i) * miss(i)]
              g == [i \in D |-> (n * miss(i)) * (n * miss(i))]
  <1>1. /\ IsFiniteSet(D) /\ n \in Nat /\ r \in Int /\ r >= 0 /\ q \in Int /\ t \in Int
        /\ SumX(p) \in Int /\ SumY(p) \in Int
    BY Deviation, Squares DEF IsTrend
  <1>2. ASSUME NEW i \in D
        PROVE  /\ p[i].at \in Int /\ p[i].y \in Int
               /\ DevX(p, i) = n * p[i].at - SumX(p) /\ DevX(p, i) \in Int
               /\ DevY(p, i) = n * p[i].y - SumY(p) /\ DevY(p, i) \in Int
    BY Deviation DEF IsTrend
  <1>3. k \in Int
    BY <1>1
  <1>4. ASSUME NEW i \in D
        PROVE  miss(i) \in Int /\ n * miss(i) = a * DevY(p, i) - b * DevX(p, i) + k
    <2>1. ASSUME NEW x \in Int, NEW y \in Int, NEW sx \in Int, NEW sy \in Int, NEW m \in Int
          PROVE  /\ a * y - (b * x + c) \in Int
                 /\ m * (a * y - (b * x + c))
                      = a * (m * y - sy) - b * (m * x - sx) + (a * sy - b * sx - m * c)
      OBVIOUS
    <2>2. n \in Int
      BY <1>1
    <2>. HIDE DEF n
    <2>. QED  BY <1>1, <1>2, <2>1, <2>2
  <1>5. \A i \in D : f[i] = miss(i) * miss(i) /\ g[i] = (n * miss(i)) * (n * miss(i))
    OBVIOUS
  <1>. HIDE DEF k, f, g, miss
  <1>6. ASSUME NEW i \in D
        PROVE  /\ f[i] \in Int /\ g[i] = (n * n) * f[i] + 0 * f[i]
               /\ g[i] = (a * DevY(p, i) - b * DevX(p, i) + k) * (a * DevY(p, i) - b * DevX(p, i) + k)
    <2>1. \A m, x \in Int : x * x \in Int /\ (m * x) * (m * x) = (m * m) * (x * x) + 0 * (x * x)
      OBVIOUS
    <2>2. n \in Int /\ miss(i) \in Int
      BY <1>1, <1>4
    <2>. HIDE DEF n, D
    <2>. QED  BY <1>4, <1>5, <2>1, <2>2
  <1>7. SumFunctionOnSet(g, D) = (a * a) * t - 2 * ((a * b) * q) + (b * b) * r + n * (k * k)
    <2>1. MissedSquares(g, p, a, b, k)
      BY <1>6 DEF MissedSquares
    <2>. QED  BY <1>3, <2>1, Misses
  <1>8. SumFunctionOnSet(g, D) = (n * n) * SumFunctionOnSet(f, D) /\ SumFunctionOnSet(f, D) \in Int
    <2>1. n * n \in Int /\ 0 \in Int
      BY <1>1
    <2>. HIDE DEF n, D
    <2>2. SumFunctionOnSet(f, D) \in Int
      BY <1>1, <1>6, SumType
    <2>3. SumFunctionOnSet(g, D) = (n * n) * SumFunctionOnSet(f, D) + 0 * SumFunctionOnSet(f, D)
      <3>1. Combines(g, n * n, f, 0, f, D)
        BY <1>6 DEF Combines
      <3>. QED  BY <1>1, <2>1, <3>1, SumCombines
    <2>. QED  BY <2>1, <2>2, <2>3
  <1>9. Residual(p) = r * (r * t) - r * (q * q)
    BY ResidualIs
  <1>. DEFINE F == SumFunctionOnSet(f, D)
  <1>10. F \in Int /\ n \in Int /\ (n * n) * F = (a * a) * t - 2 * ((a * b) * q) + (b * b) * r + n * (k * k)
    BY <1>1, <1>7, <1>8
  <1>. HIDE DEF n, r, q, t, F, D
  <1>11. (r * r) * ((n * n) * F) - (a * a) * (r * (r * t) - r * (q * q))
            = r * ((b * r - a * q) * (b * r - a * q)) + n * ((r * k) * (r * k))
    <2>1. (r * r) * ((n * n) * F)
             = (r * r) * ((a * a) * t - 2 * ((a * b) * q) + (b * b) * r + n * (k * k))
      BY <1>10
    <2>2. (r * r) * ((a * a) * t - 2 * ((a * b) * q) + (b * b) * r + n * (k * k))
             - (a * a) * (r * (r * t) - r * (q * q))
             = r * ((b * r - a * q) * (b * r - a * q)) + n * ((r * k) * (r * k))
      BY <1>1, <1>3, <1>10
    <2>. QED  BY <2>1, <2>2
  <1>12. r * ((b * r - a * q) * (b * r - a * q)) + n * ((r * k) * (r * k)) >= 0
    <2>1. \A x \in Int : x * x \in Int /\ x * x >= 0
      OBVIOUS
    <2>2. b * r - a * q \in Int /\ r * k \in Int
      BY <1>1, <1>3
    <2>3. \A x, y \in Int : x >= 0 /\ y >= 0 => x * y \in Int /\ x * y >= 0
      OBVIOUS
    <2>4. n >= 0
      BY <1>1
    <2>. QED  BY <1>1, <1>10, <2>1, <2>2, <2>3, <2>4
  <1>13. (n * r) * (n * r) * F = (r * r) * ((n * n) * F)
    BY <1>1, <1>10
  <1>14. (a * a) * (r * (r * t) - r * (q * q)) <= ((n * r) * (n * r)) * F
    <2>. DEFINE u == (a * a) * (r * (r * t) - r * (q * q))
                v == (r * r) * ((n * n) * F)
    <2>1. u \in Int /\ v \in Int
      BY <1>1, <1>10
    <2>2. v - u >= 0 /\ ((n * r) * (n * r)) * F = v
      BY <1>11, <1>12, <1>13
    <2>. HIDE DEF u, v
    <2>3. u <= v
      BY <2>1, <2>2
    <2>. QED  BY <2>2, <2>3 DEF u
  <1>15. SumFunction([i \in D |-> miss(i) * miss(i)]) = F
    BY DEF SumFunction, F, f
  <1>16. (a * a) * Residual(p) <= ((n * r) * (n * r)) * SumFunction([i \in D |-> miss(i) * miss(i)])
    BY <1>9, <1>14, <1>15
  <1>. QED  BY <1>16 DEF n, r, D, miss

(* Whenever forecast gets to its fit, samples of two times, the slope has a *)
(* denominator and r squared is between 0 and 1.                           *)
THEOREM FitIsAShare ==
  ASSUME NEW p, IsTrend(p), NEW u \in DOMAIN p, NEW v \in DOMAIN p, p[u].at # p[v].at
  PROVE  Run(p) > 0 /\ 0 <= Residual(p) /\ Residual(p) <= Run(p) * Run(p) * Total(p)
  <1>. DEFINE r == Run(p)
              q == Rise(p)
              t == Total(p)
  <1>1. r \in Int /\ r > 0 /\ q \in Int /\ t \in Int
    BY Squares
  <1>2. Residual(p) = r * (r * t) - r * (q * q) /\ Residual(p) >= 0
    BY ResidualIs
  <1>. HIDE DEF r, q, t
  <1>3. q * q \in Int /\ q * q >= 0
    BY <1>1
  <1>4. r * (q * q) \in Int /\ r * (q * q) >= 0
    BY <1>1, <1>3
  <1>5. r * (r * t) = r * r * t /\ r * r * t \in Int
    BY <1>1
  <1>6. Residual(p) <= r * r * t
    BY <1>2, <1>4, <1>5
  <1>. QED  BY <1>1, <1>2, <1>6 DEF r, t

-----------------------------------------------------------------------------
(* The series of MCScores.                                                 *)
Ordered(s) == \A i, j \in DOMAIN s : i < j => s[i].at <= s[j].at

SeriesOK ==
    /\ series \in Seq([at : Int, y : Values])
    /\ Len(series) <= MaxLength
    /\ Ordered(series)

LEMMA SequenceIs ==
  ASSUME NEW T, NEW s \in Seq(T)
  PROVE  Len(s) \in Nat /\ DOMAIN s = 1..Len(s) /\ \A i \in 1..Len(s) : s[i] \in T
  OBVIOUS

(* Every series observed is in the order of its times.                     *)
LEMMA SeriesInit == Init => SeriesOK
  BY SeriesAssumption DEF Init, SeriesOK, Ordered

LEMMA SeriesNext ==
  ASSUME SeriesOK, [Next]_series
  PROVE  SeriesOK'
  <1>1. CASE UNCHANGED series
    BY <1>1 DEF SeriesOK, Ordered
  <1>2. CASE Next
    <2>1. PICK gap \in Gaps, y \in Values : Len(series) < MaxLength /\ Observe(gap, y)
      BY <1>2 DEF Next
    <2>. DEFINE n == Len(series)
                at == gap + IF series = <<>> THEN 0 ELSE series[n].at
                sample == [at |-> at, y |-> y]
    <2>2. series \in Seq([at : Int, y : Values]) /\ n \in Nat
      BY DEF SeriesOK
    <2>12. DOMAIN series = 1..n /\ \A i \in 1..n : series[i] \in [at : Int, y : Values]
      BY <2>2, SequenceIs
    <2>3. at \in Int /\ (n > 0 => series[n].at <= at)
      <3>1. gap \in Nat
        BY SeriesAssumption
      <3>2. CASE series = <<>>
        BY <3>1, <3>2
      <3>3. CASE series # <<>>
        <4>1. n > 0
          BY <2>2, <3>3
        <4>2. series[n].at \in Int
          BY <2>2, <2>12, <4>1
        <4>3. at = gap + series[n].at
          BY <3>3
        <4>. QED  BY <3>1, <4>2, <4>3
      <3>. QED  BY <3>2, <3>3
    <2>4. series' = Append(series, sample) /\ sample \in [at : Int, y : Values]
      BY <2>1, <2>3 DEF Observe
    <2>5. /\ series' \in Seq([at : Int, y : Values]) /\ Len(series') = n + 1
          /\ \A i \in 1..n : series'[i] = series[i]
          /\ series'[n + 1] = sample
      BY <2>2, <2>4
    <2>6. \A i \in 1..n : series[i].at <= at
      <3>. TAKE i \in 1..n
      <3>1. i \in DOMAIN series /\ n \in DOMAIN series /\ (i = n \/ i < n) /\ n > 0
        <4>1. (i = n \/ i < n) /\ n > 0 /\ n \in 1..n
          <5>. HIDE DEF n
          <5>. QED  BY <2>2
        <4>. QED  BY ONLY <2>12, <4>1, i \in 1..n
      <3>2. series[i].at <= series[n].at
        <4>1. series[n].at \in Int
          BY <2>12, <3>1
        <4>2. i < n => series[i].at <= series[n].at
          BY <3>1 DEF SeriesOK, Ordered
        <4>. QED  BY <3>1, <4>1, <4>2
      <3>3. series[i].at \in Int /\ series[n].at \in Int
        BY <2>12, <3>1
      <3>. HIDE DEF at, n
      <3>. QED  BY <2>3, <3>1, <3>2, <3>3
    <2>7. Ordered(series')
      <3>. HIDE DEF n, at
      <3>1. DOMAIN series' = 1..(n + 1)
        BY <2>2, <2>5, SequenceIs
      <3>2. series'[n + 1].at = at
        BY <2>5
      <3>. SUFFICES ASSUME NEW i \in 1..(n + 1), NEW j \in 1..(n + 1), i < j
                    PROVE  series'[i].at <= series'[j].at
        BY <3>1 DEF Ordered
      <3>3. i \in 1..n
        BY <2>2
      <3>4. CASE j = n + 1
        BY <2>5, <2>6, <3>2, <3>3, <3>4
      <3>5. CASE j # n + 1
        <4>1. j \in 1..n
          BY <2>2, <3>5
        <4>. QED  BY <2>12, <2>5, <3>3, <4>1 DEF SeriesOK, Ordered
      <3>. QED  BY <3>4, <3>5
    <2>8. Len(series') <= MaxLength
      BY <2>1, <2>2, <2>5, SeriesAssumption
    <2>. QED  BY <2>5, <2>7, <2>8 DEF SeriesOK
  <1>. QED  BY <1>1, <1>2

LEMMA SeriesAlways == Spec => []SeriesOK
  BY SeriesInit, SeriesNext, PTL DEF Spec

(* A series, as the set of samples that the forecast takes.                *)
LEMMA SeriesIsTrend ==
  ASSUME SeriesOK
  PROVE  /\ IsTrend(series) /\ Len(series) \in Nat /\ DOMAIN series = 1..Len(series)
         /\ Cardinality(DOMAIN series) = Len(series)
         /\ \A i \in DOMAIN series : series[i].at \in Int /\ series[i].y \in Values /\ series[i].y \in Int
  <1>0. series \in Seq([at : Int, y : Values])
    BY DEF SeriesOK
  <1>1. /\ Len(series) \in Nat /\ DOMAIN series = 1..Len(series)
        /\ \A i \in DOMAIN series : series[i] \in [at : Int, y : Values]
    BY <1>0, SequenceIs
  <1>2. IsFiniteSet(1..Len(series)) /\ Cardinality(1..Len(series)) = Len(series)
    <2>1. ASSUME NEW n \in Nat PROVE IsFiniteSet(1..n) /\ Cardinality(1..n) = n
      BY FS_Interval
    <2>. QED  BY <1>1, <2>1
  <1>. QED  BY <1>1, <1>2, SeriesAssumption DEF IsTrend

(* "Weak, declining, noisy, or under-sampled trends produce no forecast":   *)
(* the samples above the mean of a series that never rises are its earlier  *)
(* ones, so the slope that forecast fits to it is not positive.             *)
THEOREM DecliningHasNoRisk == Spec => []DecliningIsSilent
  <1>1. ASSUME SeriesOK PROVE DecliningIsSilent
    <2>. SUFFICES ASSUME \A i, j \in DOMAIN series : i < j => series[j].y <= series[i].y,
                         NEW limit \in Limits
                  PROVE  Risk(series, limit) = "none"
      BY DEF DecliningIsSilent
    <2>1. /\ IsTrend(series) /\ DOMAIN series = 1..Len(series) /\ Len(series) \in Nat
          /\ \A i \in DOMAIN series : series[i].at \in Int /\ series[i].y \in Int
      BY <1>1, SeriesIsTrend
    <2>2. \A i, j \in DOMAIN series : series[i].at < series[j].at => series[j].y <= series[i].y
      <3>. TAKE i, j \in DOMAIN series
      <3>. HAVE series[i].at < series[j].at
      <3>1. i \in Nat /\ j \in Nat /\ series[i].at \in Int /\ series[j].at \in Int
        BY <2>1
      <3>2. ~(j < i)
        BY <1>1, <3>1 DEF SeriesOK, Ordered
      <3>3. i # j
        BY <3>1
      <3>. QED  BY <3>1, <3>2, <3>3
    <2>3. Rise(series) \in Int /\ Rise(series) <= 0
      BY <2>1, <2>2, NeverHigherNeverRises
    <2>. QED  BY <2>3 DEF Risk, Trend
  <1>. QED  BY <1>1, SeriesAlways, PTL

(* The series between which the gates measure: from the first sample to the *)
(* last.                                                                   *)
LEMMA Ends ==
  ASSUME SeriesOK, Len(series) > 0
  PROVE  Earliest(series) = 1 /\ Latest(series) = Len(series)
  <1>. DEFINE n == Len(series)
  <1>1. /\ n \in Nat /\ n > 0 /\ DOMAIN series = 1..n
        /\ \A i \in 1..n : series[i].at \in Int
        /\ \A i, j \in 1..n : i < j => series[i].at <= series[j].at
    BY SeriesIsTrend DEF SeriesOK, Ordered
  <1>. HIDE DEF n
  <1>2. \A i, j \in 1..n : Later(series, j, i) <=> i < j
    BY <1>1 DEF Later
  <1>3. Earliest(series) = 1
    <2>1. \A i \in 1..n : (\A j \in (1..n) \ {i} : i < j) <=> i = 1
      BY <1>1
    <2>2. \A i \in 1..n : (\A j \in (1..n) \ {i} : Later(series, j, i)) <=> i = 1
      BY <1>2, <2>1
    <2>3. Earliest(series) = CHOOSE i \in 1..n : \A j \in (1..n) \ {i} : Later(series, j, i)
      BY <1>1 DEF Earliest
    <2>. QED  BY <1>1, <2>2, <2>3
  <1>4. Latest(series) = n
    <2>1. \A i \in 1..n : (\A j \in (1..n) \ {i} : j < i) <=> i = n
      BY <1>1
    <2>2. \A i \in 1..n : (\A j \in (1..n) \ {i} : Later(series, i, j)) <=> i = n
      BY <1>2, <2>1
    <2>3. Latest(series) = CHOOSE i \in 1..n : \A j \in (1..n) \ {i} : Later(series, i, j)
      BY <1>1 DEF Latest
    <2>. QED  BY <1>1, <2>2, <2>3
  <1>. QED  BY <1>3, <1>4 DEF n

(* What is in proportion from each point to the next is so from the first. *)
Numbers(X, n) == \A i \in 1..n : X[i] \in Int

NextInProportion(X, Y, n, a, b) ==
    \A i \in 1..n : i < n => (Y[i + 1] - Y[i]) * a = b * (X[i + 1] - X[i])

AllInProportion(X, Y, n, a, b) ==
    \A i \in 1..n : (Y[i] - Y[1]) * a = b * (X[i] - X[1])

LEMMA Chained ==
  ASSUME NEW n \in Nat \ {0}, NEW X, NEW Y, Numbers(X, n), Numbers(Y, n),
         NEW a \in Int, NEW b \in Int, NextInProportion(X, Y, n, a, b)
  PROVE  AllInProportion(X, Y, n, a, b)
  <1>. DEFINE Q == {i \in 1..n : (Y[i] - Y[1]) * a = b * (X[i] - X[1])}
  <1>0. ASSUME NEW u \in Int, NEW v \in Int, NEW w \in Int, NEW x \in Int, NEW y \in Int, NEW z \in Int,
               (v - u) * a = b * (y - x), (u - w) * a = b * (x - z)
        PROVE  (v - w) * a = b * (y - z)
    <2>1. (v - w) * a = (v - u) * a + (u - w) * a
      OBVIOUS
    <2>2. b * (y - z) = b * (y - x) + b * (x - z)
      OBVIOUS
    <2>. QED  BY <1>0, <2>1, <2>2
  <1>1. 1 \in 1..n
    OBVIOUS
  <1>2. 1 \in Q
    <2>1. X[1] \in Int /\ Y[1] \in Int
      BY <1>1 DEF Numbers
    <2>2. (Y[1] - Y[1]) * a = 0 /\ b * (X[1] - X[1]) = 0
      BY <2>1
    <2>. QED  BY <1>1, <2>2
  <1>3. ASSUME NEW i \in 1..n, i < n, i \in Q PROVE i + 1 \in Q
    <2>1. i + 1 \in 1..n
      <3>. HIDE DEF Q
      <3>. QED  BY <1>3
    <2>2. /\ X[1] \in Int /\ X[i] \in Int /\ X[i + 1] \in Int
          /\ Y[1] \in Int /\ Y[i] \in Int /\ Y[i + 1] \in Int
      BY <1>1, <2>1 DEF Numbers
    <2>3. (Y[i + 1] - Y[i]) * a = b * (X[i + 1] - X[i])
      BY <1>3 DEF NextInProportion
    <2>4. (Y[i] - Y[1]) * a = b * (X[i] - X[1])
      BY <1>3
    <2>5. (Y[i + 1] - Y[1]) * a = b * (X[i + 1] - X[1])
      BY <1>0, <2>2, <2>3, <2>4
    <2>. QED  BY <2>1, <2>5
  <1>4. Q \in SUBSET (1..n)
    OBVIOUS
  <1>. HIDE DEF Q
  <1>5. Q = 1..n
    BY <1>2, <1>3, <1>4, IndexInduction
  <1>. QED  BY <1>5 DEF Q, AllInProportion

(* Points of which each is on the line of its neighbours are on one line.  *)
LEMMA SeriesOnLine ==
  ASSUME SeriesOK, Len(series) > 0, OnALine
  PROVE  OnLine(series, series[1].at, series[1].y,
                series[Len(series)].y - series[1].y, series[Len(series)].at - series[1].at)
  <1>. DEFINE n == Len(series)
              X == [i \in DOMAIN series |-> series[i].at]
              Y == [i \in DOMAIN series |-> series[i].y]
  <1>1. /\ n \in Nat \ {0} /\ DOMAIN series = 1..n
        /\ \A i \in 1..n : series[i].at \in Int /\ series[i].y \in Int
    BY SeriesIsTrend
  <1>2. \A i \in 1..n : /\ X[i] = series[i].at /\ Y[i] = series[i].y
                        /\ X[i] \in Int /\ Y[i] \in Int
    BY <1>1
  <1>3. 1 \in 1..n /\ n \in 1..n /\ \A i \in 1..n : i < n => i + 1 \in 1..n
    <2>. HIDE DEF n
    <2>. QED  BY <1>1
  <1>4. \A i, j \in 1..n : i < n /\ j < n =>
           (Y[i + 1] - Y[i]) * (X[j + 1] - X[j]) = (Y[j + 1] - Y[j]) * (X[i + 1] - X[i])
    <2>1. \A i, j \in 1..n : i < n /\ j < n =>
             (series[i + 1].y - series[i].y) * (series[j + 1].at - series[j].at)
               = (series[j + 1].y - series[j].y) * (series[i + 1].at - series[i].at)
      BY <1>1 DEF OnALine
    <2>. HIDE DEF n, X, Y
    <2>. QED  BY <1>2, <1>3, <2>1
  <1>. HIDE DEF n, X, Y
  <1>5. ASSUME NEW j \in 1..n, j < n
        PROVE  \A i \in 1..n : (Y[i] - Y[1]) * (X[j + 1] - X[j]) = (Y[j + 1] - Y[j]) * (X[i] - X[1])
    <2>1. X[j + 1] - X[j] \in Int /\ Y[j + 1] - Y[j] \in Int
      <3>1. j \in 1..n /\ j + 1 \in 1..n
        BY <1>3, <1>5
      <3>2. X[j] \in Int /\ X[j + 1] \in Int /\ Y[j] \in Int /\ Y[j + 1] \in Int
        BY <1>2, <3>1
      <3>. QED  BY <3>2
    <2>2. \A i \in 1..n : i < n =>
             (Y[i + 1] - Y[i]) * (X[j + 1] - X[j]) = (Y[j + 1] - Y[j]) * (X[i + 1] - X[i])
      BY <1>4, <1>5
    <2>. DEFINE a == X[j + 1] - X[j]
                b == Y[j + 1] - Y[j]
    <2>. HIDE DEF a, b
    <2>3. AllInProportion(X, Y, n, a, b)
      <3>1. a \in Int /\ b \in Int /\ Numbers(X, n) /\ Numbers(Y, n)
        BY <1>2, <2>1 DEF a, b, Numbers
      <3>2. NextInProportion(X, Y, n, a, b)
        BY <2>2 DEF a, b, NextInProportion
      <3>. QED  BY <1>1, <3>1, <3>2, Chained
    <2>. QED  BY <2>3 DEF a, b, AllInProportion
  <1>6. ASSUME NEW i \in 1..n
        PROVE  (Y[n] - Y[1]) * (X[i] - X[1]) = (Y[i] - Y[1]) * (X[n] - X[1])
    <2>1. X[i] - X[1] \in Int /\ Y[i] - Y[1] \in Int
      BY <1>2, <1>3
    <2>2. \A j \in 1..n : j < n =>
             (Y[j + 1] - Y[j]) * (X[i] - X[1]) = (Y[i] - Y[1]) * (X[j + 1] - X[j])
      <3>. SUFFICES ASSUME NEW j \in 1..n, j < n
                    PROVE  (Y[j + 1] - Y[j]) * (X[i] - X[1]) = (Y[i] - Y[1]) * (X[j + 1] - X[j])
        OBVIOUS
      <3>1. \A k \in 1..n : (Y[k] - Y[1]) * (X[j + 1] - X[j]) = (Y[j + 1] - Y[j]) * (X[k] - X[1])
        BY <1>5
      <3>. QED  BY <3>1
    <2>. DEFINE a == X[i] - X[1]
                b == Y[i] - Y[1]
    <2>. HIDE DEF a, b
    <2>3. AllInProportion(X, Y, n, a, b)
      <3>1. a \in Int /\ b \in Int /\ Numbers(X, n) /\ Numbers(Y, n)
        BY <1>2, <2>1 DEF a, b, Numbers
      <3>2. NextInProportion(X, Y, n, a, b)
        BY <2>2 DEF a, b, NextInProportion
      <3>. QED  BY <1>1, <3>1, <3>2, Chained
    <2>. QED  BY <1>3, <2>3 DEF a, b, AllInProportion
  <1>7. \A i \in 1..n : (series[i].y - series[1].y) * (series[n].at - series[1].at)
                          = (series[n].y - series[1].y) * (series[i].at - series[1].at)
    <2>. SUFFICES ASSUME NEW i \in 1..n
                  PROVE  (series[i].y - series[1].y) * (series[n].at - series[1].at)
                           = (series[n].y - series[1].y) * (series[i].at - series[1].at)
      OBVIOUS
    <2>1. (Y[n] - Y[1]) * (X[i] - X[1]) = (Y[i] - Y[1]) * (X[n] - X[1])
      BY <1>6
    <2>2. X[1] = series[1].at /\ Y[1] = series[1].y /\ X[n] = series[n].at /\ Y[n] = series[n].y
      BY <1>2, <1>3
    <2>3. X[i] = series[i].at /\ Y[i] = series[i].y
      BY <1>2
    <2>. QED  BY ONLY <2>1, <2>2, <2>3
  <1>. QED  BY <1>1, <1>7 DEF OnLine, n

(* What the risk asks of the line, and what the promise asks of it.        *)
LEMMA Crossing ==
  ASSUME NEW rise \in Int, NEW run \in Int, NEW r \in Int, NEW span \in Int, NEW y \in Int,
         NEW limit \in Int, NEW time \in Nat,
         rise > 0, run > 0, span > 0, r * span = rise * run
  PROVE  (y >= limit \/ (limit - y) * run <= time * r) <=> y * span + rise * time >= limit * span
  <1>1. ((limit - y) * run) * span = run * ((limit - y) * span)
    OBVIOUS
  <1>2. (time * r) * span = time * (r * span)
    OBVIOUS
  <1>3. (time * r) * span = run * (rise * time)
    <2>1. time * (rise * run) = run * (rise * time)
      OBVIOUS
    <2>. QED  BY <1>2, <2>1
  <1>4. (limit - y) * run <= time * r <=> ((limit - y) * run) * span <= (time * r) * span
    <2>. DEFINE a == (limit - y) * run
                b == time * r
    <2>1. a \in Int /\ b \in Int
      OBVIOUS
    <2>. HIDE DEF a, b
    <2>2. a <= b <=> a * span <= b * span
      BY <2>1
    <2>. QED  BY <2>2 DEF a, b
  <1>5. run * ((limit - y) * span) <= run * (rise * time) <=> (limit - y) * span <= rise * time
    <2>. DEFINE a == (limit - y) * span
                b == rise * time
    <2>1. a \in Int /\ b \in Int
      OBVIOUS
    <2>. HIDE DEF a, b
    <2>2. run * a <= run * b <=> a <= b
      BY <2>1
    <2>. QED  BY <2>2 DEF a, b
  <1>6. (limit - y) * run <= time * r <=> (limit - y) * span <= rise * time
    BY <1>1, <1>3, <1>4, <1>5
  <1>7. (limit - y) * span = limit * span - y * span
    OBVIOUS
  <1>8. y >= limit => (limit - y) * span <= rise * time
    <2>1. y >= limit => (limit - y) * span <= 0
      <3>. DEFINE d == y - limit
      <3>1. (limit - y) * span = -(d * span)
        OBVIOUS
      <3>2. d \in Int
        OBVIOUS
      <3>. HIDE DEF d
      <3>3. d >= 0 => d * span >= 0
        BY <3>2
      <3>4. d * span \in Int
        BY <3>2
      <3>5. y >= limit => d >= 0
        BY DEF d
      <3>. QED  BY <3>1, <3>3, <3>4, <3>5
    <2>2. rise * time >= 0 /\ rise * time \in Int
      OBVIOUS
    <2>. QED  BY <2>1, <2>2
  <1>9. limit * span \in Int /\ y * span \in Int /\ rise * time \in Int
    OBVIOUS
  <1>. QED  BY <1>6, <1>7, <1>8, <1>9

(* The forecast is right about rising lines: the line it fits to samples on *)
(* a line is that line, so the risk is what the line says of six hours, a   *)
(* day and a week after the last sample.                                    *)
THEOREM RisingLinesCrossInTime == Spec => []LineCrossesInTime
  <1>1. ASSUME SeriesOK PROVE LineCrossesInTime
    <2>. DEFINE n == Len(series)
                span == series[n].at - series[1].at
                rise == series[n].y - series[1].y
                over(limit, hours) == series[n].y * span + rise * hours * Hour >= limit * span
    <2>. SUFFICES ASSUME n >= MinPoints, span >= MinSpan, rise > 0, OnALine, NEW limit \in Limits
                  PROVE  Risk(series, limit) = IF over(limit, 6) THEN "critical"
                                  ELSE IF over(limit, 24) THEN "warning"
                                  ELSE IF over(limit, 168) THEN "watch" ELSE "none"
      BY DEF LineCrossesInTime
    <2>1. /\ IsTrend(series) /\ n \in Nat /\ DOMAIN series = 1..n /\ Cardinality(DOMAIN series) = n
          /\ \A i \in DOMAIN series : series[i].at \in Int /\ series[i].y \in Int
      BY <1>1, SeriesIsTrend
    <2>2. /\ MinPoints \in Nat /\ MinPoints > 0 /\ MinSpan \in Nat /\ MinSpan > 0
          /\ Hour \in Nat /\ Hour > 0 /\ limit \in Int
      BY ForecastAssumption, SeriesAssumption
    <2>3. n > 0 /\ 1 \in DOMAIN series /\ n \in DOMAIN series
      BY <2>1, <2>2
    <2>4. span \in Int /\ span > 0 /\ rise \in Int /\ series[n].y \in Int /\ series[1].at # series[n].at
          /\ series[1].at \in Int /\ series[1].y \in Int
      BY <2>1, <2>2, <2>3
    <2>5. OnLine(series, series[1].at, series[1].y, rise, span)
      BY <1>1, <2>3, SeriesOnLine
    <2>. HIDE DEF rise, span
    <2>6. /\ Rise(series) \in Int /\ Run(series) \in Int /\ Run(series) > 0
          /\ Rise(series) * span = rise * Run(series) /\ Fits(series)
      BY <2>1, <2>3, <2>4, <2>5, LineIsFitted
    <2>7. Rise(series) > 0
      <3>. DEFINE r == Rise(series)
                  run == Run(series)
      <3>1. r \in Int /\ run \in Int /\ run > 0 /\ r * span = rise * run
        BY <2>6
      <3>. HIDE DEF r, run
      <3>2. rise * run > 0
        BY <2>4, <3>1
      <3>3. r > 0
        BY <2>4, <3>1, <3>2
      <3>. QED  BY <3>3 DEF r
    <2>8. Earliest(series) = 1 /\ Latest(series) = n
      BY <1>1, <2>3, Ends
    <2>9. Trend(series)
      BY <2>1, <2>6, <2>7, <2>8 DEF Trend, span
    <2>10. ASSUME NEW hours \in Nat PROVE CrossesWithin(series, limit, hours) <=> over(limit, hours)
      <3>. DEFINE time == hours * Hour
      <3>1. time \in Nat
        BY <2>2
      <3>2. CrossesWithin(series, limit, hours) <=>
               series[n].y >= limit \/ (limit - series[n].y) * Run(series) <= time * Rise(series)
        BY <2>8 DEF CrossesWithin
      <3>3. rise * hours * Hour = rise * time
        BY <2>2, <2>4
      <3>. HIDE DEF time
      <3>4. (series[n].y >= limit \/ (limit - series[n].y) * Run(series) <= time * Rise(series))
               <=> series[n].y * span + rise * time >= limit * span
        <4>. DEFINE r == Rise(series)
                    run == Run(series)
                    y == series[n].y
        <4>1. r \in Int /\ run \in Int /\ run > 0 /\ r * span = rise * run /\ y \in Int
          BY <2>4, <2>6
        <4>. HIDE DEF r, run, y
        <4>2. (y >= limit \/ (limit - y) * run <= time * r) <=> y * span + rise * time >= limit * span
          BY <2>2, <2>4, <3>1, <4>1, Crossing
        <4>. QED  BY <4>2 DEF r, run, y
      <3>. QED  BY <3>2, <3>3, <3>4
    <2>11. \A hours \in {6, 24, 168} : CrossesWithin(series, limit, hours) <=> over(limit, hours)
      BY <2>10
    <2>12. over(limit, 6) => over(limit, 168)
      <3>1. rise * 6 * Hour <= rise * 168 * Hour /\ rise * 6 * Hour \in Int /\ rise * 168 * Hour \in Int
        <4>1. rise * Hour \in Nat
          BY <2>2, <2>4
        <4>2. rise * 6 * Hour = 6 * (rise * Hour) /\ rise * 168 * Hour = 168 * (rise * Hour)
          BY <2>2, <2>4
        <4>. QED  BY <4>1, <4>2
      <3>2. series[n].y * span \in Int /\ limit * span \in Int
        BY <2>2, <2>4
      <3>. QED  BY <3>1, <3>2
    <2>13. over(limit, 24) => over(limit, 168)
      <3>1. rise * 24 * Hour <= rise * 168 * Hour /\ rise * 24 * Hour \in Int /\ rise * 168 * Hour \in Int
        <4>1. rise * Hour \in Nat
          BY <2>2, <2>4
        <4>2. rise * 24 * Hour = 24 * (rise * Hour) /\ rise * 168 * Hour = 168 * (rise * Hour)
          BY <2>2, <2>4
        <4>. QED  BY <4>1, <4>2
      <3>2. series[n].y * span \in Int /\ limit * span \in Int
        BY <2>2, <2>4
      <3>. QED  BY <3>1, <3>2
    <2>. HIDE DEF over
    <2>. QED  BY <2>9, <2>11, <2>12, <2>13 DEF Risk
  <1>. QED  BY <1>1, SeriesAlways, PTL
-----------------------------------------------------------------------------
(* The values of the samples that the score takes.                         *)
IsHistory(h) == IsFiniteSet(DOMAIN h) /\ \A i \in DOMAIN h : h[i] \in Int

(* How many values of a history are below, up to and equal to a number.    *)
LEMMA Counts ==
  ASSUME NEW h, IsHistory(h), NEW x \in Int
  PROVE  /\ Below(h, x) \in Nat /\ UpTo(h, x) \in Nat /\ Occurrences(h, x) \in Nat
         /\ UpTo(h, x) = Below(h, x) + Occurrences(h, x)
         /\ UpTo(h, x) <= Cardinality(DOMAIN h) /\ Cardinality(DOMAIN h) \in Nat
  <1>. DEFINE B == {i \in DOMAIN h : h[i] < x}
              O == {i \in DOMAIN h : h[i] = x}
              U == {i \in DOMAIN h : h[i] <= x}
  <1>1. IsFiniteSet(DOMAIN h) /\ \A i \in DOMAIN h : h[i] \in Int
    BY DEF IsHistory
  <1>2. B \in SUBSET DOMAIN h /\ O \in SUBSET DOMAIN h /\ U \in SUBSET DOMAIN h
    OBVIOUS
  <1>3. B \cup O = U /\ B \cap O = {}
    BY <1>1
  <1>. HIDE DEF B, O, U
  <1>4. IsFiniteSet(B) /\ IsFiniteSet(O) /\ IsFiniteSet(U) /\ Cardinality(U) <= Cardinality(DOMAIN h)
    BY <1>1, <1>2, FS_Subset
  <1>5. /\ Cardinality(B) \in Nat /\ Cardinality(O) \in Nat /\ Cardinality(U) \in Nat
        /\ Cardinality(DOMAIN h) \in Nat
    BY <1>1, <1>4, FS_CardinalityType
  <1>6. Cardinality(B \cup O) = Cardinality(B) + Cardinality(O) - Cardinality(B \cap O)
    BY <1>4, FS_Union
  <1>7. Cardinality(U) = Cardinality(B) + Cardinality(O)
    BY <1>3, <1>5, <1>6, FS_EmptySet
  <1>. QED  BY <1>4, <1>5, <1>7 DEF Below, UpTo, Occurrences, B, O, U

(* What is not above x is below whatever is above x.                       *)
LEMMA CountsGrow ==
  ASSUME NEW h, IsHistory(h), NEW x \in Int, NEW y \in Int, x < y
  PROVE  UpTo(h, x) <= Below(h, y)
  <1>. DEFINE U == {i \in DOMAIN h : h[i] <= x}
              B == {i \in DOMAIN h : h[i] < y}
  <1>1. IsFiniteSet(B)
    BY FS_Subset DEF IsHistory
  <1>2. U \in SUBSET B
    BY DEF IsHistory
  <1>. HIDE DEF U, B
  <1>3. Cardinality(U) <= Cardinality(B)
    BY <1>1, <1>2, FS_Subset
  <1>. QED  BY <1>3 DEF Below, UpTo, U, B

(* The k-th smallest value is the one its definition describes, *)
LEMMA KthIs ==
  ASSUME NEW h, IsHistory(h), NEW k \in Nat, NEW i \in DOMAIN h,
         Below(h, h[i]) < k, k <= UpTo(h, h[i])
  PROVE  Kth(h, k) = h[i]
  <1>1. ASSUME NEW j \in DOMAIN h, Below(h, h[j]) < k, k <= UpTo(h, h[j])
        PROVE  h[j] = h[i]
    <2>1. h[i] \in Int /\ h[j] \in Int
      BY DEF IsHistory
    <2>2. /\ Below(h, h[i]) \in Nat /\ UpTo(h, h[i]) \in Nat
          /\ Below(h, h[j]) \in Nat /\ UpTo(h, h[j]) \in Nat
      BY <2>1, Counts
    <2>3. ~(h[i] < h[j]) /\ ~(h[j] < h[i])
      BY <1>1, <2>1, <2>2, CountsGrow
    <2>. QED  BY <2>1, <2>3
  <1>. QED  BY <1>1 DEF Kth

(* and there is one for every k. *)
LEMMA KthExists ==
  ASSUME NEW h, IsHistory(h), NEW k \in 1..Cardinality(DOMAIN h)
  PROVE  \E i \in DOMAIN h : Below(h, h[i]) < k /\ k <= UpTo(h, h[i])
  <1>. DEFINE D == DOMAIN h
              n == Cardinality(D)
              S == {i \in D : k <= UpTo(h, h[i])}
  <1>1. IsFiniteSet(D) /\ n \in Nat /\ k \in Nat /\ k > 0 /\ k <= n /\ \A i \in D : h[i] \in Int
    BY FS_CardinalityType DEF IsHistory
  <1>2. ASSUME NEW T \in SUBSET D, T # {} PROVE \E m \in T : \A i \in T : h[i] <= h[m]
    <2>. DEFINE low == [i \in T |-> -h[i]]
    <2>1. IsFiniteSet(T) /\ \A i \in T : low[i] \in Int
      BY <1>1, FS_Subset
    <2>2. \E m \in T : \A i \in T : low[m] <= low[i]
      <3>. HIDE DEF low
      <3>. QED  BY <1>2, <2>1, Lowest
    <2>3. PICK m \in T : \A i \in T : -h[m] <= -h[i]
      BY <2>2
    <2>. QED  BY <1>1, <2>3
  <1>. HIDE DEF n, S
  <1>3. S # {}
    <2>1. D # {}
      BY <1>1, FS_EmptySet DEF n
    <2>2. PICK m \in D : \A i \in D : h[i] <= h[m]
      BY <1>2, <2>1
    <2>3. {i \in D : h[i] <= h[m]} = D
      BY <2>2
    <2>4. UpTo(h, h[m]) = n
      BY <2>3 DEF UpTo, n
    <2>. QED  BY <1>1, <2>4 DEF S
  <1>4. PICK m \in S : \A i \in S : h[m] <= h[i]
    <2>1. IsFiniteSet(S) /\ \A i \in S : h[i] \in Int
      BY <1>1, FS_Subset DEF S
    <2>. QED  BY <1>3, <2>1, Lowest
  <1>5. m \in D /\ k <= UpTo(h, h[m]) /\ h[m] \in Int
    BY <1>1 DEF S
  <1>6. Below(h, h[m]) < k
    <2>. SUFFICES ASSUME ~(Below(h, h[m]) < k) PROVE FALSE
      OBVIOUS
    <2>. DEFINE B == {i \in D : h[i] < h[m]}
    <2>1. Below(h, h[m]) \in Nat
      BY <1>5, Counts
    <2>2. B # {}
      <3>1. Cardinality(B) # 0
        BY <1>1, <2>1 DEF Below
      <3>. QED  BY <3>1, FS_EmptySet
    <2>3. PICK j \in B : \A i \in B : h[i] <= h[j]
      BY <1>2, <2>2
    <2>4. {i \in D : h[i] <= h[j]} = B
      BY <1>1, <1>5, <2>3
    <2>5. UpTo(h, h[j]) = Below(h, h[m])
      BY <2>4 DEF UpTo, Below
    <2>6. j \in S
      BY <1>1, <2>1, <2>5 DEF S
    <2>. QED  BY <1>1, <1>4, <1>5, <2>6
  <1>. QED  BY <1>5, <1>6

(* So it is one of the values, with fewer than k below it,                 *)
LEMMA KthProperties ==
  ASSUME NEW h, IsHistory(h), NEW k \in 1..Cardinality(DOMAIN h)
  PROVE  /\ \E i \in DOMAIN h : Kth(h, k) = h[i]
         /\ Kth(h, k) \in Int /\ Below(h, Kth(h, k)) < k /\ k <= UpTo(h, Kth(h, k))
  <1>1. PICK i \in DOMAIN h : Below(h, h[i]) < k /\ k <= UpTo(h, h[i])
    BY KthExists
  <1>2. Kth(h, k) = h[i]
    <2>1. k \in Nat
      BY FS_CardinalityType DEF IsHistory
    <2>. QED  BY <1>1, <2>1, KthIs
  <1>. QED  BY <1>1, <1>2 DEF IsHistory

(* and it grows with k.                                                    *)
LEMMA KthAscends ==
  ASSUME NEW h, IsHistory(h), NEW k \in 1..Cardinality(DOMAIN h), NEW l \in 1..Cardinality(DOMAIN h), k < l
  PROVE  Kth(h, k) <= Kth(h, l)
  <1>1. /\ Kth(h, k) \in Int /\ Below(h, Kth(h, k)) < k
        /\ Kth(h, l) \in Int /\ l <= UpTo(h, Kth(h, l))
    BY KthProperties
  <1>2. Below(h, Kth(h, k)) \in Nat /\ UpTo(h, Kth(h, l)) \in Nat /\ Cardinality(DOMAIN h) \in Nat
    BY <1>1, Counts
  <1>3. Kth(h, l) < Kth(h, k) => UpTo(h, Kth(h, l)) <= Below(h, Kth(h, k))
    BY <1>1, CountsGrow
  <1>. QED  BY <1>1, <1>2, <1>3

(* The k-th smallest values, k from 1 to n, are the values, as often as they *)
(* occur.                                                                  *)
LEMMA KthRearranges ==
  ASSUME NEW h, IsHistory(h), NEW v \in Int
  PROVE  Occurrences([k \in 1..Cardinality(DOMAIN h) |-> Kth(h, k)], v) = Occurrences(h, v)
  <1>. DEFINE n == Cardinality(DOMAIN h)
              K == {k \in 1..n : Kth(h, k) = v}
              b == Below(h, v)
              u == UpTo(h, v)
  <1>1. /\ b \in Nat /\ u \in Nat /\ Occurrences(h, v) \in Nat /\ n \in Nat
        /\ u = b + Occurrences(h, v) /\ u <= n
    BY Counts
  <1>2. Occurrences([k \in 1..n |-> Kth(h, k)], v) = Cardinality(K)
    <2>. DEFINE sorted == [k \in 1..n |-> Kth(h, k)]
    <2>1. {l \in DOMAIN sorted : sorted[l] = v} = K
      OBVIOUS
    <2>. QED  BY <2>1 DEF Occurrences
  <1>3. K = (b + 1)..u
    <2>1. ASSUME NEW k \in K PROVE k \in (b + 1)..u
      <3>1. b < k /\ k <= u /\ k \in Nat
        BY <1>1, KthProperties
      <3>. QED  BY <1>1, <3>1
    <2>2. ASSUME NEW k \in (b + 1)..u PROVE k \in K
      <3>1. k \in 1..n /\ k \in Nat /\ b < k /\ k <= u
        BY <1>1
      <3>2. Occurrences(h, v) # 0
        BY <1>1, <3>1
      <3>3. PICK i \in DOMAIN h : h[i] = v
        <4>1. {i \in DOMAIN h : h[i] = v} # {}
          BY <3>2, FS_EmptySet DEF Occurrences
        <4>. QED  BY <4>1
      <3>4. Kth(h, k) = v
        BY <3>1, <3>3, KthIs
      <3>. QED  BY <3>1, <3>4
    <2>. QED  BY <2>1, <2>2
  <1>4. Cardinality((b + 1)..u) = u - b
    <2>1. b + 1 \in Int /\ u \in Int
      BY <1>1
    <2>2. Cardinality((b + 1)..u) = IF b + 1 > u THEN 0 ELSE u - (b + 1) + 1
      BY <2>1, FS_Interval
    <2>. QED  BY <1>1, <2>2
  <1>. HIDE DEF n, K, b, u
  <1>5. Cardinality(K) = Occurrences(h, v)
    BY <1>1, <1>3, <1>4
  <1>. QED  BY <1>2, <1>5 DEF n

(* A value that more than half of a history has is its median, twice.      *)
LEMMA MajorityIsMedian ==
  ASSUME NEW h, IsHistory(h), NEW s \in Int, 2 * Occurrences(h, s) > Cardinality(DOMAIN h)
  PROVE  DoubleMedian(h) = 2 * s
  <1>. DEFINE n == Cardinality(DOMAIN h)
              o == Occurrences(h, s)
              b == Below(h, s)
              u == UpTo(h, s)
  <1>1. b \in Nat /\ u \in Nat /\ o \in Nat /\ u = b + o /\ u <= n /\ n \in Nat /\ 2 * o > n
    BY Counts
  <1>2. PICK i \in DOMAIN h : h[i] = s
    <2>1. o # 0
      BY <1>1
    <2>2. {i \in DOMAIN h : h[i] = s} # {}
      BY <2>1, FS_EmptySet DEF Occurrences
    <2>. QED  BY <2>2
  <1>3. ASSUME NEW k \in {(n + 1) \div 2, (n + 2) \div 2} PROVE Kth(h, k) = s
    <2>. HIDE DEF n, o, b, u
    <2>1. k \in Nat /\ b < k /\ k <= u
      BY <1>1
    <2>. QED  BY <1>2, <2>1, KthIs DEF b, u
  <1>4. DoubleMedian(h) = s + s
    BY <1>3 DEF DoubleMedian
  <1>. QED  BY <1>4

(* Distances, and of doubled numbers the doubled distance.                 *)
LEMMA DistanceType ==
  ASSUME NEW x \in Int, NEW y \in Int
  PROVE  /\ Distance(x, y) \in Nat /\ (Distance(x, y) = 0 <=> x = y)
         /\ Distance(2 * x, 2 * y) = 2 * Distance(x, y)
  BY DEF Distance

(* The samples of a series, as a history.                                  *)
LEMMA SeriesHistory ==
  ASSUME SeriesOK
  PROVE  /\ IsHistory(History) /\ DOMAIN History = 1..Len(series)
         /\ Cardinality(DOMAIN History) = Len(series) /\ Len(series) \in Nat
         /\ \A i \in DOMAIN History : History[i] \in Values
  BY SeriesIsTrend DEF History, IsHistory, IsTrend

(* The baseline of the score is the median: the k-th smallest values, k     *)
(* from 1 to n, are the history sorted, and DoubleMedian adds its two       *)
(* middle ones.                                                             *)
THEOREM MedianIsInTheMiddle == Spec => []MedianIsMiddle
  <1>1. ASSUME SeriesOK PROVE MedianIsMiddle
    <2>. DEFINE n == Len(series)
                h == History
                sorted == [k \in 1..n |-> Kth(h, k)]
    <2>. SUFFICES ASSUME n > 0
                  PROVE  \E order \in Ascending[n] :
                            /\ Rearranges(order, h)
                            /\ DoubleMedian(h) = order[(n + 1) \div 2] + order[n \div 2 + 1]
      BY DEF MedianIsMiddle
    <2>1. /\ IsHistory(h) /\ Cardinality(DOMAIN h) = n /\ n \in Nat
          /\ \A i \in DOMAIN h : h[i] \in Values
      BY <1>1, SeriesHistory
    <2>2. n \in 0..MaxLength
      BY <1>1, <2>1, SeriesAssumption DEF SeriesOK
    <2>. HIDE DEF n, h
    <2>3. \A k \in 1..n : Kth(h, k) \in Values
      BY <2>1, KthProperties
    <2>4. \A k, l \in 1..n : k < l => Kth(h, k) <= Kth(h, l)
      BY <2>1, KthAscends
    <2>5. sorted \in Ascending[n]
      BY <2>2, <2>3, <2>4 DEF Ascending
    <2>6. Rearranges(sorted, h)
      BY <2>1, KthRearranges, SeriesAssumption DEF Rearranges
    <2>7. /\ (n + 1) \div 2 \in 1..n /\ n \div 2 + 1 \in 1..n /\ (n + 2) \div 2 = n \div 2 + 1
      BY <2>1
    <2>8. DoubleMedian(h) = sorted[(n + 1) \div 2] + sorted[n \div 2 + 1]
      BY <2>1, <2>7 DEF DoubleMedian
    <2>. QED  BY <2>5, <2>6, <2>8
  <1>. QED  BY <1>1, SeriesAlways, PTL

(* "Resistant to individual spikes": a value that more than half of the     *)
(* history has is its median, half of the deviations from it are nothing,   *)
(* so the dispersion is the metric's floor, and the severity of a sample    *)
(* depends on its distance from that value alone.                           *)
THEOREM SpikesAreResisted == Spec => []SpikesDoNotMask
  <1>1. ASSUME SeriesOK PROVE SpikesDoNotMask
    <2>. DEFINE h == History
                n == Len(series)
                far(v, steady, floor, tenths) == 6745 * Distance(v, steady) >= tenths * 1000 * floor
    <2>. SUFFICES ASSUME NEW steady \in Values, NEW v \in Values, NEW floor \in Floors \ {0},
                         n >= MinBaseline, 2 * Occurrences(h, steady) > n
                  PROVE  Severity(v, h, floor) =
                            IF far(v, steady, floor, 70) THEN "critical"
                            ELSE IF far(v, steady, floor, 35) THEN "warning" ELSE "none"
      BY DEF SpikesDoNotMask
    <2>1. IsHistory(h) /\ Cardinality(DOMAIN h) = n /\ n \in Nat
      BY <1>1, SeriesHistory
    <2>2. steady \in Int /\ v \in Int /\ floor \in Nat /\ floor > 0 /\ MinBaseline \in Nat
      BY SeriesAssumption, MinBaselineAssumption
    <2>. HIDE DEF h, n
    <2>3. DoubleMedian(h) = 2 * steady
      BY <2>1, <2>2, MajorityIsMedian
    <2>. DEFINE d == Deviations(h)
    <2>4. /\ DOMAIN d = DOMAIN h
          /\ \A i \in DOMAIN h : d[i] = 2 * Distance(h[i], steady) /\ d[i] \in Int /\ (d[i] = 0 <=> h[i] = steady)
      <3>1. DOMAIN d = DOMAIN h /\ \A i \in DOMAIN h : d[i] = Distance(2 * h[i], 2 * steady)
        BY <2>3 DEF Deviations
      <3>2. ASSUME NEW i \in DOMAIN h
            PROVE  d[i] = 2 * Distance(h[i], steady) /\ d[i] \in Int /\ (d[i] = 0 <=> h[i] = steady)
        <4>1. h[i] \in Int
          BY <2>1 DEF IsHistory
        <4>2. /\ Distance(h[i], steady) \in Nat /\ (Distance(h[i], steady) = 0 <=> h[i] = steady)
              /\ Distance(2 * h[i], 2 * steady) = 2 * Distance(h[i], steady)
          BY <2>2, <4>1, DistanceType
        <4>. QED  BY <3>1, <4>2
      <3>. QED  BY <3>1, <3>2
    <2>. HIDE DEF d
    <2>5. IsHistory(d) /\ Occurrences(d, 0) = Occurrences(h, steady)
      <3>1. {i \in DOMAIN d : d[i] = 0} = {i \in DOMAIN h : h[i] = steady}
        BY <2>4
      <3>. QED  BY <2>1, <2>4, <3>1 DEF IsHistory, Occurrences
    <2>6. DoubleMedian(d) = 0
      <3>1. 2 * Occurrences(d, 0) > Cardinality(DOMAIN d)
        BY <2>1, <2>4, <2>5
      <3>2. DoubleMedian(d) = 2 * 0
        BY <2>5, <3>1, MajorityIsMedian
      <3>. QED  BY <3>2
    <2>7. Noise(h, floor) = 4 * floor
      BY <2>2, <2>6 DEF Noise, d
    <2>8. ASSUME NEW tenths \in Nat
          PROVE  ScoreAtLeast(v, h, floor, tenths) <=> far(v, steady, floor, tenths)
      <3>. DEFINE dist == Distance(v, steady)
      <3>1. dist \in Nat /\ Distance(2 * v, 2 * steady) = 2 * dist
        BY <2>2, DistanceType
      <3>2. ScoreAtLeast(v, h, floor, tenths) <=> 6745 * 2 * (2 * dist) >= tenths * 1000 * (4 * floor)
        BY <2>2, <2>3, <2>7, <3>1 DEF ScoreAtLeast
      <3>. HIDE DEF dist
      <3>3. tenths * 1000 * (4 * floor) = 4 * (tenths * 1000 * floor) /\ tenths * 1000 * floor \in Nat
        BY <2>2
      <3>. DEFINE bar == tenths * 1000 * floor
      <3>. HIDE DEF bar
      <3>4. 6745 * 2 * (2 * dist) >= 4 * bar <=> 6745 * dist >= bar
        BY <3>1, <3>3 DEF bar
      <3>. QED  BY <3>2, <3>3, <3>4 DEF bar, dist
    <2>9. far(v, steady, floor, 70) => far(v, steady, floor, 35)
      <3>1. 6745 * Distance(v, steady) \in Int
        BY <2>2, DistanceType
      <3>2. 70 * 1000 * floor >= 35 * 1000 * floor /\ 70 * 1000 * floor \in Int /\ 35 * 1000 * floor \in Int
        BY <2>2
      <3>. QED  BY <3>1, <3>2
    <2>10. ~(Cardinality(DOMAIN h) < MinBaseline)
      BY <2>1, <2>2
    <2>11. \A tenths \in {35, 70} : ScoreAtLeast(v, h, floor, tenths) <=> far(v, steady, floor, tenths)
      BY <2>8
    <2>. HIDE DEF far
    <2>. QED  BY <2>9, <2>10, <2>11 DEF Severity
  <1>. QED  BY <1>1, SeriesAlways, PTL
=============================================================================
