------------------------------- MODULE MCScores -------------------------------
(***************************************************************************)
(* RobustScore and TrendForecast over every series of up to MaxLength      *)
(* samples, one sample after the other, against what their results should  *)
(* mean: independent definitions, and promises of the design documents.    *)
(***************************************************************************)
EXTENDS RobustScore, TrendForecast, Sequences

CONSTANTS
    Values,      \* of samples
    Gaps,        \* times between samples
    Floors,      \* dispersions
    Limits,      \* thresholds
    MaxLength

ASSUME SeriesAssumption ==
    /\ Values \subseteq Int /\ Limits \subseteq Int
    /\ Gaps \subseteq Nat /\ Floors \subseteq Nat /\ MaxLength \in Nat

VARIABLE series

Init == series = <<>>

Observe(gap, y) ==
    series' = Append(series,
        [at |-> gap + IF series = <<>> THEN 0 ELSE series[Len(series)].at, y |-> y])

Next == Len(series) < MaxLength /\ \E gap \in Gaps, y \in Values : Observe(gap, y)

Spec == Init /\ [][Next]_series

History == [i \in DOMAIN series |-> series[i].y]

(* n values in ascending order, and whether they are the values of h.      *)
Ascending ==
    [n \in 0..MaxLength |->
        {sorted \in [1..n -> Values] : \A i, j \in 1..n : i < j => sorted[i] <= sorted[j]}]

Occurrences(h, v) == Cardinality({i \in DOMAIN h : h[i] = v})
Rearranges(sorted, h) == \A v \in Values : Occurrences(sorted, v) = Occurrences(h, v)

(* The baseline of a history is the mean of the two middle values (or the   *)
(* middle one twice) of the sorted history: statistics.median, which        *)
(* robust_anomaly_score calls twice.                                        *)
MedianIsMiddle ==
    LET n == Len(series)
    IN n > 0 =>
         \E sorted \in Ascending[n] :
            /\ Rearranges(sorted, History)
            /\ DoubleMedian(History) = sorted[(n + 1) \div 2] + sorted[n \div 2 + 1]

(* "Resistant to individual spikes" (ADR 0007): while more than half of a   *)
(* history has one value, the severity of a new value depends on how far    *)
(* it is from that value, and on nothing else in the history.               *)
SpikesDoNotMask ==
    \A steady, v \in Values, floor \in Floors \ {0} :
        /\ Len(series) >= MinBaseline
        /\ 2 * Occurrences(History, steady) > Len(series)
        => Severity(v, History, floor) =
              LET far(tenths) == 6745 * Distance(v, steady) >= tenths * 1000 * floor
              IN IF far(70) THEN "critical" ELSE IF far(35) THEN "warning" ELSE "none"

OnALine ==
    \A i, j \in DOMAIN series : i < Len(series) /\ j < Len(series) =>
        (series[i + 1].y - series[i].y) * (series[j + 1].at - series[j].at) =
        (series[j + 1].y - series[j].y) * (series[i + 1].at - series[i].at)

(* For samples on a rising line the risk says whether the line is at the    *)
(* threshold or over it six hours, a day and a week after the last sample.  *)
LineCrossesInTime ==
    LET n == Len(series)
        span == series[n].at - series[1].at
        rise == series[n].y - series[1].y
        over(limit, hours) == series[n].y * span + rise * hours * Hour >= limit * span
    IN n >= MinPoints /\ span >= MinSpan /\ rise > 0 /\ OnALine =>
         \A limit \in Limits :
            Risk(series, limit) = IF over(limit, 6) THEN "critical"
                                  ELSE IF over(limit, 24) THEN "warning"
                                  ELSE IF over(limit, 168) THEN "watch" ELSE "none"

(* "Weak, declining, noisy, or under-sampled trends produce no forecast"    *)
(* (ADR 0008): a series that never rises has no risk, not even above the    *)
(* threshold.                                                               *)
DecliningIsSilent ==
    (\A i, j \in DOMAIN series : i < j => series[j].y <= series[i].y) =>
        \A limit \in Limits : Risk(series, limit) = "none"
=============================================================================
