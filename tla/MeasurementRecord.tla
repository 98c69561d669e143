--------------------------- MODULE MeasurementRecord --------------------------
(***************************************************************************)
(* src/MeasurementRecord.h: the sample counts of a record.  Schema 2 packs *)
(* the acquired and the inlier counts, of 12 bits each, into the three     *)
(* bytes that schema 1 used for acquired, used and outlier samples.  A     *)
(* shift or a mask of the code is a division or a remainder here.          *)
(***************************************************************************)
EXTENDS Integers

CONSTANT TRIM_SHARE   \* one part of so many is trimmed from each end: 10

ASSUME RecordAssumption == TRIM_SHARE \in Nat /\ TRIM_SHARE > 2

Byte == 0 .. 255
CountLimit == 4096   \* of a packed count; a02Samples holds fewer

Counts == [schema : 1 .. 2, acquiredByte : Byte, usedByte : Byte, outlierByte : Byte]

\* Mutant: the halves of the shared byte are swapped.
SetSwappedSampleCounts(acquired, inliers) ==
    [schema |-> 2,
     acquiredByte |-> acquired % 256,
     usedByte |-> ((acquired \div 256) % 16) * 16 + (inliers % 16),
     outlierByte |-> (inliers \div 16) % 256]

\* setMeasurementSampleCounts
SetMeasurementSampleCounts(acquired, inliers) ==
    [schema |-> 2,
     acquiredByte |-> acquired % 256,
     usedByte |-> ((acquired \div 256) % 16) + ((inliers % 16) * 16),
     outlierByte |-> (inliers \div 16) % 256]

MeasurementAcquiredSamples(c) ==
    IF c.schema < 2 THEN c.acquiredByte
    ELSE c.acquiredByte + ((c.usedByte % 16) * 256)

MeasurementInlierSamples(c) ==
    IF c.schema < 2
    THEN IF c.acquiredByte >= c.outlierByte THEN c.acquiredByte - c.outlierByte ELSE 0
    ELSE ((c.usedByte \div 16) % 16) + (c.outlierByte * 16)

\* What the trimmed mean keeps of the inliers.
Trimmed(inliers) == inliers - 2 * (inliers \div TRIM_SHARE)

MeasurementUsedSamples(c) ==
    IF c.schema < 2 THEN c.usedByte ELSE Trimmed(MeasurementInlierSamples(c))

MeasurementOutlierSamples(c) ==
    LET acquired == MeasurementAcquiredSamples(c)
        inliers == MeasurementInlierSamples(c)
    IN  IF acquired >= inliers THEN acquired - inliers ELSE 0
=============================================================================
