-------------------------------- MODULE ZScore --------------------------------
(***************************************************************************)
(* The statistical anomaly detector: the newest value of a metric against  *)
(* the mean and the standard deviation of a baseline taken from the same   *)
(* window.  A z-score is compared without dividing or taking roots: with n *)
(* values of sum S and sum of squares Q, mean = S/n and                    *)
(* std^2 = (n*Q - S^2)/n^2, so z > a/b iff                                 *)
(* b^2 * (n*x - S)^2 > a^2 * (n*Q - S^2).                                  *)
(*                                                                         *)
(* The code computes the z-score in floating point: the square of what it  *)
(* computes is the exact one times 1 + e / Precision, for some e in        *)
(* Errors, which is a choice of the model.  Near a threshold this decides. *)
(***************************************************************************)
EXTENDS Integers, Sequences

CONSTANTS
    Usual,        \* the usual value of the metric
    Unusual,      \* other values it can take
    MinSamples,   \* BehavioralBaseline.min_samples
    WindowLimit,  \* the LIMIT of the query
    MaxMetrics,   \* bound on the values recorded
    MaxUnusual,   \* bound on the unusual ones among them
    Precision     \* 1 / Precision bounds the relative error of a computed z^2

ASSUME ValuesAssumption == Unusual \subseteq Int /\ Usual \in Int \ Unusual

ASSUME SizesAssumption ==
    /\ MinSamples \in Nat /\ WindowLimit \in Nat
    /\ MaxMetrics \in Nat /\ MaxUnusual \in Nat

\* Floating point is about 10^13 times as precise, unless the values differ in
\* their last digits only; the window has 100 values.
ASSUME PrecisionAssumption ==
    /\ Precision \in Nat /\ Precision >= 100
    /\ WindowLimit <= 9 * Precision

VARIABLE metrics   \* the values recorded for one device and type, newest first

Init == metrics = <<>>

Record(v) ==
    /\ Len(metrics) < MaxMetrics
    /\ metrics' = <<v>> \o metrics
    /\ Len(SelectSeq(metrics', LAMBDA x : x # Usual)) <= MaxUnusual

Next == \E v \in Unusual \cup {Usual} : Record(v)

Spec == Init /\ [][Next]_metrics

-----------------------------------------------------------------------------
(* check_device_metrics, for one metric type.                              *)

\* order_by(timestamp.desc()).limit(100)
Window == SubSeq(metrics, 1, IF Len(metrics) < WindowLimit THEN Len(metrics)
                                                           ELSE WindowLimit)

\* The sums of the first values of s.
Sums(s) ==
    LET sum[i \in 0 .. Len(s)] == IF i = 0 THEN 0 ELSE sum[i - 1] + s[i] IN sum

Sum(s) == Sums(s)[Len(s)]

Squares(s) == Sum([i \in DOMAIN s |-> s[i] * s[i]])

\* n^2 times the variance of s.
Spread(s) == Len(s) * Squares(s) - Sum(s) * Sum(s)

Errors == -1 .. 1

\* Whether the z-score of x against the values of s, computed with error e, is
\* above a/b.
Above(x, s, a, b, e) ==
    LET d == Len(s) * x - Sum(s)
    IN (Precision + e) * (b * b * d * d) > Precision * (a * a * Spread(s))

\* Faulty: the newest value is left out of the baseline, not the oldest.
Earlier(w) == Tail(w)

\* values[:-1] of a list whose newest value comes first
Baseline(w) == SubSeq(w, 1, Len(w) - 1)

ZAbove(w, a, b, e) == Above(Head(w), Baseline(w), a, b, e)

Flagged(w, e) ==
    /\ Len(w) >= MinSamples
    /\ Spread(Baseline(w)) # 0
    /\ ZAbove(w, 3, 1, e)

\* The severity compares the same computed z-score.
Severity(w, e) ==
    CASE ZAbove(w, 5, 1, e) -> "critical"
      [] ~ ZAbove(w, 5, 1, e) /\ ZAbove(w, 4, 1, e) -> "high"
      [] ~ ZAbove(w, 4, 1, e) /\ ZAbove(w, 7, 2, e) -> "medium"
      [] OTHER -> "low"

-----------------------------------------------------------------------------
(* Properties.                                                             *)

\* How many samples each severity needs.  The newest value is part of the
\* baseline of n = Len - 1 values it is compared with, so z^2 <= n - 1, and a
\* value that differs from n - 1 equal ones gets there: it can be rounded above
\* the threshold 3, 4 or 5.  With fewer samples no value, however extreme,
\* reaches the severity (59-67, and _compute_severity 103-110).
SamplesFor(severity) ==
    CASE severity = "low"      -> 11
      [] severity = "medium"   -> 15
      [] severity = "high"     -> 18
      [] severity = "critical" -> 27

SeverityNeedsSamples ==
    \A e \in Errors :
        Flagged(Window, e) => Len(Window) >= SamplesFor(Severity(Window, e))

\* The newest value in its own baseline can hide an anomaly but not make one:
\* what is flagged, rounding included, is truly as far from the baseline
\* without it.
Between(w) == SubSeq(w, 2, Len(w) - 1)

MaskingOnly ==
    \A e \in Errors :
        Flagged(Window, e) => Above(Head(Window), Between(Window), 3, 1, 0)

\* What test_anomaly.py test_zscore_detection says of the detector's rule: with
\* at least ten earlier values, a newest value more than three standard
\* deviations from their mean is an anomaly.  (The values of that test miss the
\* threshold by one part in ten thousand, which is no matter of rounding.)
OutlierFlagged ==
    (Len(Window) > MinSamples /\ Spread(Tail(Window)) # 0
        /\ Above(Head(Window), Tail(Window), 3, 1, 0)) => Flagged(Window, 0)
===============================================================================
