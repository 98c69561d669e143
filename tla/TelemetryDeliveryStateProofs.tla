-------------------- MODULE TelemetryDeliveryStateProofs --------------------
(***************************************************************************)
(* The sequence arithmetic is right for every word size: what the code     *)
(* computes agrees with positions on the ring.                             *)
(***************************************************************************)
EXTENDS TelemetryDeliveryState, TLAPS

\* Moving along the ring stays on the ring, and never reaches zero.
LEMMA NthType ==
    ASSUME NEW s \in Sequence, NEW n \in Int, -Modulus < n, n < Modulus - 1
    PROVE  Nth(s, n) \in Sequence
BY HalfRangeAssumption DEF Nth, Sequence, Modulus

\* The successor of a word is a word, and of a sequence a sequence.
LEMMA IncrementType == \A x \in Word : Increment(x) \in Word
BY HalfRangeAssumption DEF Increment, Word, Modulus

LEMMA NextSequenceType == \A s \in Sequence : NextSequence(s) \in Sequence
BY HalfRangeAssumption DEF NextSequence, Increment, Sequence, Modulus

\* enqueue assigns consecutive points of the ring (OfflineQueue.cpp:358-361).
THEOREM NextSequenceIsOneStep == \A s \in Sequence : NextIsOneStep(s)
BY HalfRangeAssumption
   DEF NextIsOneStep, NextSequence, Increment, Nth, Sequence, Modulus

\* The positions behind a sequence name different sequences.
LEMMA NthDistinct ==
    ASSUME NEW s \in Sequence, NEW m \in Int, NEW n \in Int,
           -HalfRange < m, m <= 0, -HalfRange < n, n <= 0, m # n
    PROVE  Nth(s, m) # Nth(s, n)
BY HalfRangeAssumption DEF Nth, Sequence, Modulus

\* Stepping the reference point forward moves every position back by one.
LEMMA NthShift ==
    ASSUME NEW s \in Sequence, NEW n \in Int, -HalfRange < n, n <= 0
    PROVE  Nth(NextSequence(s), n - 1) = Nth(s, n)
BY HalfRangeAssumption DEF Nth, NextSequence, Increment, Sequence, Modulus

\* No move stays, and two moves along the ring are one.
LEMMA NthZero == \A s \in Sequence : Nth(s, 0) = s
BY HalfRangeAssumption DEF Nth, Sequence, Modulus

LEMMA NthChain ==
    ASSUME NEW s \in Sequence, NEW m \in Nat, NEW n \in Nat, n <= m, m < HalfRange
    PROVE  Nth(Nth(s, -m), n) = Nth(s, n - m)
BY HalfRangeAssumption DEF Nth, Sequence, Modulus

\* The wrapping comparison of two positions less than half the ring apart.
LEMMA PositiveDifference ==
    ASSUME NEW s \in Sequence, NEW m \in Int, NEW n \in Int,
           -HalfRange < m, m < HalfRange, -HalfRange < n, n < HalfRange,
           n - m < HalfRange - 1, m - n < HalfRange - 1
    PROVE  PositiveInt32(Minus(Nth(s, n), Nth(s, m))) <=> n > m
BY HalfRangeAssumption, SMTT(60) DEF PositiveInt32, Minus, Nth, Sequence, Modulus

(***************************************************************************)
(* telemetrySequenceAfter decides delivery for every record whose distance *)
(* from the cursor is below 2^31 - 1.                                      *)
(***************************************************************************)
THEOREM AfterAgreesWithPosition ==
    ASSUME NEW head \in Sequence, NEW delivered \in Int, NEW i \in Int,
           -HalfRange < delivered - 1, delivered - 1 < HalfRange,
           -HalfRange < i, i < HalfRange,
           i - (delivered - 1) < HalfRange - 1, (delivered - 1) - i < HalfRange - 1
    PROVE  AfterIsPosition(head, delivered, i)
<1> DEFINE m == delivered - 1
<1>1. m \in Int /\ -Modulus < m /\ m < Modulus - 1
  BY HalfRangeAssumption DEF Modulus
<1>2. Nth(head, m) # 0
  BY <1>1, NthType DEF Sequence
<1>3. PositiveInt32(Minus(Nth(head, i), Nth(head, m))) <=> i > m
  BY PositiveDifference
<1>4. i > m <=> i >= delivered
  OBVIOUS
<1> QED
  BY <1>2, <1>3, <1>4 DEF AfterIsPosition, CursorAt, TelemetrySequenceAfter

(***************************************************************************)
(* telemetryPendingOffset counts the delivered records of the live range,  *)
(* with the correction for the skipped zero.                               *)
(***************************************************************************)
THEOREM OffsetAgreesWithPosition ==
    ASSUME NEW head \in Sequence, NEW delivered \in Nat, delivered <= HalfRange
    PROVE  OffsetIsPosition(head, delivered)
BY HalfRangeAssumption, SMTT(60)
   DEF OffsetIsPosition, CursorAt, TelemetryPendingOffset, Minus, Increment, Nth,
       Sequence, Modulus
=============================================================================
