------------------------------ MODULE RobustScore ------------------------------
(***************************************************************************)
(* anomaly.py: how far a value is from the median of a node's history, in  *)
(* units of the median absolute deviation.                                 *)
(*                                                                         *)
(* A history is a function from a finite set of samples to their values,   *)
(* which are integers in a fixed unit.  Medians are kept doubled, and      *)
(* deviations from a doubled median doubled again: nothing is rounded.     *)
(***************************************************************************)
EXTENDS Integers, FiniteSets

CONSTANT MinBaseline   \* MIN_BASELINE_SAMPLES

ASSUME MinBaselineAssumption == MinBaseline \in Nat \ {0}

Below(h, x) == Cardinality({i \in DOMAIN h : h[i] < x})
UpTo(h, x) == Cardinality({i \in DOMAIN h : h[i] <= x})

(* The k-th smallest of the values, *)
Kth(h, k) == CHOOSE x \in {h[i] : i \in DOMAIN h} : Below(h, x) < k /\ k <= UpTo(h, x)

(* Mutant: the upper of the two middle values. *)
DoubleMedianHigh(h) == 2 * Kth(h, (Cardinality(DOMAIN h) + 2) \div 2)

(* and twice the median. *)
DoubleMedian(h) ==
    LET n == Cardinality(DOMAIN h)
    IN Kth(h, (n + 1) \div 2) + Kth(h, (n + 2) \div 2)

Distance(x, y) == IF x < y THEN y - x ELSE x - y

Deviations(h) == [i \in DOMAIN h |-> Distance(2 * h[i], DoubleMedian(h))]

(* Mutant: nearly flat histories have next to no noise. *)
NoiseUnfloored(h, floor) == DoubleMedian(Deviations(h))

(* Four times the dispersion, which is no less than the metric's floor. *)
Noise(h, floor) ==
    LET measured == DoubleMedian(Deviations(h))
    IN IF measured < 4 * floor THEN 4 * floor ELSE measured

(* The score, 0.6745 * distance / dispersion, is at least tenths / 10. *)
ScoreAtLeast(v, h, floor, tenths) ==
    /\ Noise(h, floor) # 0
    /\ 6745 * 2 * Distance(2 * v, DoubleMedian(h)) >= tenths * 1000 * Noise(h, floor)

Severity(v, h, floor) ==
    IF Cardinality(DOMAIN h) < MinBaseline \/ ~ScoreAtLeast(v, h, floor, 35) THEN "none"
    ELSE IF ScoreAtLeast(v, h, floor, 70) THEN "critical" ELSE "warning"
=============================================================================
