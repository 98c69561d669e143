----------------------- MODULE TelemetryDeliveryState -----------------------
(***************************************************************************)
(* src/TelemetryDeliveryState.h: the arithmetic that decides, from a       *)
(* cursor per destination, which queued records were delivered.            *)
(*                                                                         *)
(* Sequences, cursors and header generations are uint32_t in the code.     *)
(* Here they are numbers below Modulus == 2 * HalfRange (HalfRange is 2^31 *)
(* in the code): subtraction and increment wrap, and a cast to int32_t is  *)
(* positive exactly for 1 .. HalfRange - 1.  Sequence 0 is never assigned; *)
(* cursor 0 means that nothing has been delivered.                         *)
(***************************************************************************)
EXTENDS Integers

CONSTANT HalfRange

ASSUME HalfRangeAssumption == HalfRange \in Nat /\ HalfRange >= 2

Modulus == 2 * HalfRange
Word == 0 .. Modulus - 1
Sequence == 1 .. Modulus - 1

Increment(x) == IF x = Modulus - 1 THEN 0 ELSE x + 1
Minus(a, b) == IF a >= b THEN a - b ELSE a - b + Modulus
PositiveInt32(x) == 0 < x /\ x < HalfRange

-----------------------------------------------------------------------------

TelemetryDestination == {"BLYNK", "MQTT"}

\* Mutant: a plain comparison.
PlainAfter(sequence, cursor) == cursor = 0 \/ sequence > cursor

TelemetrySequenceAfter(sequence, cursor) ==
    cursor = 0 \/ PositiveInt32(Minus(sequence, cursor))

TelemetrySequenceDelivered(sequence, cursor) ==
    cursor # 0 /\ ~TelemetrySequenceAfter(sequence, cursor)

\* Mutant: no correction for the skipped zero.
OffsetWithoutGap(headSequence, cursor) == Increment(Minus(cursor, headSequence))

TelemetryPendingOffset(headSequence, cursor) ==
    IF cursor < headSequence
    THEN Minus(cursor, headSequence)
    ELSE Increment(Minus(cursor, headSequence))

\* OfflineQueue::enqueue: ++nextSequence, and zero becomes one.
NextSequence(sequence) ==
    IF Increment(sequence) = 0 THEN 1 ELSE Increment(sequence)

-----------------------------------------------------------------------------
(***************************************************************************)
(* Reference definition: sequences are the points of a ring without zero.  *)
(* Nth(s, n) is n assignments after s, for -Modulus < n < Modulus.         *)
(***************************************************************************)
Nth(s, n) ==
    IF s + n >= Modulus THEN s + n - (Modulus - 1)
    ELSE IF s + n < 1 THEN s + n + (Modulus - 1)
    ELSE s + n

\* A queue that starts at head, and a cursor that stands after the first
\* `delivered` of its records (delivered <= 0: behind the head by that many).
CursorAt(head, delivered) == Nth(head, delivered - 1)

\* The code's comparison agrees with the position in the ring.
AfterIsPosition(head, delivered, i) ==
    TelemetrySequenceAfter(Nth(head, i), CursorAt(head, delivered)) <=> i >= delivered

\* The code's offset is the number of delivered records, over the skipped zero.
OffsetIsPosition(head, delivered) ==
    delivered > 0 =>
        TelemetryPendingOffset(head, CursorAt(head, delivered)) = delivered

\* Cursor zero precedes every sequence.
ZeroCursorDeliversNothing(s) == ~TelemetrySequenceDelivered(s, 0)

\* Assigning the next sequence is one step along the ring.
NextIsOneStep(s) == NextSequence(s) = Nth(s, 1)
=============================================================================
