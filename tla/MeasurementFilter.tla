--------------------------- MODULE MeasurementFilter --------------------------
(***************************************************************************)
(* src/main.cpp, finalizeA02YYUWMeasurement(): the distance that a window  *)
(* of samples yields.  samples is a02Samples, sorted.                      *)
(*                                                                         *)
(* Medians may end in one half: the median is kept in halves of a          *)
(* millimetre and the median absolute deviation (MAD) in quarters, so that *)
(* every comparison is one of integers.  The code compares floats of 24    *)
(* bits, which hold these values; 3 * 1.4826 is taken as 4.4478.           *)
(***************************************************************************)
EXTENDS Integers, Sequences, MeasurementRecord

CONSTANT A02YYUW_MIN_VALID_SAMPLES

ASSUME FilterAssumption == A02YYUW_MIN_VALID_SAMPLES \in Nat \ {0}

A02YYUW_MIN_OUTLIER_LIMIT_MM == 20
A02YYUW_GOOD_MAX_MAD_MM == 30

\* One round of sortUint16 and sortFloat: the key goes behind the last value that is not
\* greater.
Inserted(values, key) ==
    LET n == Len(values)
        j == CHOOSE k \in 0 .. n : /\ k = 0 \/ values[k] <= key
                                   /\ \A i \in k + 1 .. n : values[i] > key
    IN  SubSeq(values, 1, j) \o <<key>> \o SubSeq(values, j + 1, n)

Sorted(s) ==
    LET first[i \in 0 .. Len(s)] == IF i = 0 THEN <<>> ELSE Inserted(first[i - 1], s[i])
    IN  first[Len(s)]

Size(n) == IF n < 0 THEN -n ELSE n

\* medianSorted, doubled
TwiceMedian(s) ==
    LET n == Len(s)
    IN  IF n % 2 # 0 THEN 2 * s[n \div 2 + 1] ELSE s[n \div 2] + s[n \div 2 + 1]

TwiceDeviation(sample, twiceMedian) == Size(2 * sample - twiceMedian)

FourfoldMad(s) ==
    LET median == TwiceMedian(s)
    IN  TwiceMedian(Sorted([i \in DOMAIN s |-> TwiceDeviation(s[i], median)]))

\* Mutant: every sample is an inlier.
WithinAnyLimit(sample, twiceMedian, fourfoldMad) == TRUE

\* Not farther from the median than latestOutlierLimitMm.
WithinLimit(sample, twiceMedian, fourfoldMad) ==
    LET deviation == TwiceDeviation(sample, twiceMedian)
    IN  \/ deviation <= 2 * A02YYUW_MIN_OUTLIER_LIMIT_MM
        \/ 20000 * deviation <= 44478 * fourfoldMad

Inliers(s) ==
    LET median == TwiceMedian(s)
        mad == FourfoldMad(s)
        kept[i \in 0 .. Len(s)] ==
            IF i = 0 THEN <<>>
            ELSE IF WithinLimit(s[i], median, mad) THEN Append(kept[i - 1], s[i])
            ELSE kept[i - 1]
    IN  kept[Len(s)]

Total(s) == LET sum[i \in 0 .. Len(s)] == IF i = 0 THEN 0 ELSE sum[i - 1] + s[i]
            IN  sum[Len(s)]

\* The mean of what remains of the sorted inliers, as lround rounds it.
TrimmedMean(inliers) ==
    LET n == Len(inliers)
        trimEachSide == n \div TRIM_SHARE
        used == Trimmed(n)
    IN  (2 * Total(SubSeq(inliers, trimEachSide + 1, n - trimEachSide)) + used) \div (2 * used)

\* The quality of a window that yields a distance.
Quality(samples, inliers, errors, full) ==
    IF /\ ~full
       /\ Len(inliers) * 100 >= Len(samples) * 80
       /\ FourfoldMad(samples) <= 4 * A02YYUW_GOOD_MAX_MAD_MM
       /\ Len(samples) * 100 >= (Len(samples) + errors) * 90
    THEN "GOOD" ELSE "POOR"

NaN == -1
NoMeasurement == [valid |-> FALSE, quality |-> "INVALID", distance |-> 0, used |-> 0,
                  outliers |-> 0, fourfoldMad |-> NaN]

\* finalizeA02YYUWMeasurement()
Finalized(samples, errors, full) ==
    IF Len(samples) < A02YYUW_MIN_VALID_SAMPLES THEN NoMeasurement
    ELSE LET inliers == Inliers(samples)
             judged == [NoMeasurement EXCEPT !.outliers = Len(samples) - Len(inliers),
                                             !.fourfoldMad = FourfoldMad(samples)]
         IN  IF Len(inliers) < A02YYUW_MIN_VALID_SAMPLES THEN judged
             ELSE [judged EXCEPT !.valid = TRUE,
                                 !.quality = Quality(samples, inliers, errors, full),
                                 !.distance = TrimmedMean(inliers),
                                 !.used = Trimmed(Len(inliers))]
=============================================================================
