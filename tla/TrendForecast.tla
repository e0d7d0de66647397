----------------------------- MODULE TrendForecast -----------------------------
(***************************************************************************)
(* forecast.py: the least-squares line through a node's history of a       *)
(* metric, and the risk that it crosses a threshold.                       *)
(*                                                                         *)
(* A trend is a function from a finite set of samples to records of a time *)
(* at and a value y, integers in a fixed unit.  Deviations from the means  *)
(* are kept multiplied by the number of samples, slope and time to the     *)
(* threshold as fractions: nothing is rounded.  CPU and GPU fit the same   *)
(* line, and a GPU that fails is replaced by the CPU.                      *)
(***************************************************************************)
EXTENDS Integers, FiniteSets, Functions

CONSTANTS
    MinPoints,   \* MIN_FORECAST_SAMPLES
    MinSpan,     \* MIN_SPAN_SECONDS, in units of time
    Hour         \* one hour, in units of time

ASSUME ForecastAssumption ==
    MinPoints \in Nat \ {0} /\ MinSpan \in Nat \ {0} /\ Hour \in Nat \ {0}

DevX(p, i) == Cardinality(DOMAIN p) * p[i].at - SumFunction([j \in DOMAIN p |-> p[j].at])
DevY(p, i) == Cardinality(DOMAIN p) * p[i].y - SumFunction([j \in DOMAIN p |-> p[j].y])

(* The slope of the line is Rise / Run. *)
Rise(p) == SumFunction([i \in DOMAIN p |-> DevX(p, i) * DevY(p, i)])
Run(p) == SumFunction([i \in DOMAIN p |-> DevX(p, i) * DevX(p, i)])

Total(p) == SumFunction([i \in DOMAIN p |-> DevY(p, i) * DevY(p, i)])

(* What the line leaves unexplained, multiplied by Run^2. *)
Residual(p) ==
    LET miss(i) == DevY(p, i) * Run(p) - Rise(p) * DevX(p, i)
    IN SumFunction([i \in DOMAIN p |-> miss(i) * miss(i)])

(* r squared, 1 - Residual / (Run^2 * Total), is at least 0.6. *)
Fits(p) == 5 * Residual(p) <= 2 * Run(p) * Run(p) * Total(p)

(* The samples come in the order of (observed_at, event_id). *)
Later(p, i, j) == p[i].at > p[j].at \/ (p[i].at = p[j].at /\ i > j)

Earliest(p) == CHOOSE i \in DOMAIN p : \A j \in DOMAIN p \ {i} : Later(p, j, i)
Latest(p) == CHOOSE i \in DOMAIN p : \A j \in DOMAIN p \ {i} : Later(p, i, j)

(* Mutant: a falling metric crosses a threshold too. *)
TrendAnySlope(p) ==
    /\ Cardinality(DOMAIN p) >= MinPoints
    /\ p[Latest(p)].at - p[Earliest(p)].at >= MinSpan
    /\ Fits(p)

(* The gates: enough samples, over enough time, on a line that rises and   *)
(* fits.                                                                   *)
Trend(p) ==
    /\ Cardinality(DOMAIN p) >= MinPoints
    /\ p[Latest(p)].at - p[Earliest(p)].at >= MinSpan
    /\ Rise(p) > 0
    /\ Fits(p)

(* Mutant: the time is counted from the first value. *)
CrossesFromFirst(p, threshold, hours) ==
    (threshold - p[Earliest(p)].y) * Run(p) <= hours * Hour * Rise(p)

(* The line reaches the threshold from the last value within these hours.  *)
CrossesWithin(p, threshold, hours) ==
    \/ p[Latest(p)].y >= threshold
    \/ (threshold - p[Latest(p)].y) * Run(p) <= hours * Hour * Rise(p)

Risk(p, threshold) ==
    IF ~Trend(p) \/ ~CrossesWithin(p, threshold, 168) THEN "none"
    ELSE IF CrossesWithin(p, threshold, 6) THEN "critical"
    ELSE IF CrossesWithin(p, threshold, 24) THEN "warning" ELSE "watch"
=============================================================================
