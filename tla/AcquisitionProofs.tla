--------------------------- MODULE AcquisitionProofs ---------------------------
(***************************************************************************)
(* What holds of the acquisition for every window, filter and buffer size: *)
(* how far the frame parser can be misled and that it finds its place      *)
(* again, that a sample which the sensor did not report needs a fault of   *)
(* the line, that the filter keeps the distance near what was reported     *)
(* while such samples are fewer than half, that counts survive their       *)
(* packing into a record and its payload, and that a record keeps to the   *)
(* reference height.                                                       *)
(*                                                                         *)
(* The filter is written with recursive functions.  RecursiveFunction says *)
(* that such a function exists, UpTo that what holds at 0 and is handed on *)
(* holds up to n: both rest on the order of the natural numbers.           *)
(***************************************************************************)
EXTENDS Acquisition, FiniteSetTheorems, SequenceTheorems, WellFoundedInduction, TLAPS

-----------------------------------------------------------------------------
(***************************************************************************)
(* Bytes and sums                                                          *)
(***************************************************************************)
HighByte == 0 .. 29   \* of a distance in SensorRange
Sum(a, b, c) == (a + b + c) % 256

\* A distance that the sensor sends fits in a high byte up to 29 and a low byte.
LEMMA TwoBytes ==
    ASSUME NEW d \in SensorRange
    PROVE  /\ d \div 256 \in HighByte
           /\ d % 256 \in Byte
           /\ d = 256 * (d \div 256) + (d % 256)
  BY DEF SensorRange, HighByte, Byte

SumFrom255(n) == IF n = 0 THEN 255 ELSE IF n <= 256 THEN n - 1 ELSE n - 257

\* The checksum of the header and two bytes, without the remainder.
LEMMA SumOf255 == \A a \in Byte, b \in Byte : Sum(255, a, b) = SumFrom255(a + b)
<1> SUFFICES ASSUME NEW a \in 0 .. 255, NEW b \in 0 .. 255
             PROVE  Sum(255, a, b) = SumFrom255(a + b)
  BY DEF Byte
<1>1. a + b = 0 => Sum(255, a, b) = 255
  BY DEF Sum
<1>2. a + b \in 1 .. 256 => Sum(255, a, b) = a + b - 1
  BY DEF Sum
<1>3. a + b > 256 => Sum(255, a, b) = a + b - 257
  BY DEF Sum
<1> QED BY <1>1, <1>2, <1>3 DEF SumFrom255

(***************************************************************************)
(* The sum of a frame changes when one of its bytes does.                  *)
(***************************************************************************)
LEMMA SumDetectsChange ==
    \A h \in HighByte, l \in Byte, x \in Byte :
        /\ x # h => Sum(255, x, l) # Sum(255, h, l)
        /\ x # l => Sum(255, h, x) # Sum(255, h, l)
<1> SUFFICES ASSUME NEW h \in 0 .. 29, NEW l \in 0 .. 255, NEW x \in 0 .. 255
             PROVE  /\ x # h => Sum(255, x, l) # Sum(255, h, l)
                    /\ x # l => Sum(255, h, x) # Sum(255, h, l)
  BY DEF HighByte, Byte
<1>1. h \in Byte /\ l \in Byte /\ x \in Byte
  BY DEF Byte
<1>2. Sum(255, h, l) = SumFrom255(h + l)
  BY <1>1, SumOf255
<1>3. x # h => Sum(255, x, l) # Sum(255, h, l)
  <2>1. Sum(255, x, l) = SumFrom255(x + l)
    BY <1>1, SumOf255
  <2>2. x # h => SumFrom255(x + l) # SumFrom255(h + l)
    BY DEF SumFrom255
  <2> QED BY <1>2, <2>1, <2>2
<1>4. x # l => Sum(255, h, x) # Sum(255, h, l)
  <2>1. Sum(255, h, x) = SumFrom255(h + x)
    BY <1>1, SumOf255
  <2>2. x # l => SumFrom255(h + x) # SumFrom255(h + l)
    BY DEF SumFrom255
  <2> QED BY <1>2, <2>1, <2>2
<1> QED BY <1>3, <1>4

(***************************************************************************)
(* A frame that begins at the low byte of another, when that byte is 0xFF: *)
(* its sum and its range fit only if the high byte falls by four.          *)
(***************************************************************************)
LEMMA BeginsAtLowByte ==
    \A h \in HighByte, g \in HighByte :
        LET c == Sum(255, h, 255)
        IN  Sum(255, c, 255) = g /\ c * 256 + 255 <= 4500 => c = h - 2 /\ g = h - 4
<1> SUFFICES ASSUME NEW h \in HighByte, NEW g \in HighByte,
                    Sum(255, Sum(255, h, 255), 255) = g, Sum(255, h, 255) * 256 + 255 <= 4500
             PROVE  Sum(255, h, 255) = h - 2 /\ g = h - 4
  OBVIOUS
<1>1. h < 2 => Sum(255, h, 255) = 254 + h
  BY DEF Sum, HighByte
<1>2. h >= 2 => Sum(255, h, 255) = h - 2
  BY DEF Sum, HighByte
<1>3. h >= 2 /\ Sum(255, h, 255) = h - 2
  BY <1>1, <1>2 DEF HighByte
<1>4. Sum(255, h - 2, 255) = g
  BY <1>3
<1>5. h < 4 => Sum(255, h - 2, 255) = 252 + h
  BY <1>3 DEF Sum, HighByte
<1>6. h >= 4 => Sum(255, h - 2, 255) = h - 4
  BY DEF Sum, HighByte
<1> QED BY <1>3, <1>4, <1>5, <1>6 DEF HighByte

\* A frame whose high byte is 0xFF is out of range (4500 mm), whatever its low byte.
LEMMA HeaderIsNoDistance == \A g \in HighByte : ~(65280 + g <= 4500)
  BY DEF HighByte

\* The four bytes of the frame of a distance, in terms of its high and low byte.
LEMMA FrameBytes ==
    ASSUME NEW d \in SensorRange
    PROVE  \E h \in HighByte, l \in Byte :
               /\ d = 256 * h + l
               /\ FrameByte(d, 0) = 255 /\ FrameByte(d, 1) = h /\ FrameByte(d, 2) = l
               /\ FrameByte(d, 3) = Sum(255, h, l)
<1>1. /\ FrameByte(d, 0) = 255 /\ FrameByte(d, 1) = d \div 256 /\ FrameByte(d, 2) = d % 256
      /\ FrameByte(d, 3) = Sum(255, d \div 256, d % 256)
  BY DEF FrameByte, Sum
<1> QED BY <1>1, TwoBytes

\* validateA02YYUWFrame accepts only frames whose checksum fits.
LEMMA VerdictOnSum ==
    ASSUME NEW b
    PROVE  /\ Verdict(b) = "VALID" => Sum(b[1], b[2], b[3]) = b[4] /\ DistanceOf(b) <= 4500
           /\ Sum(b[1], b[2], b[3]) # b[4] => Verdict(b) = "CHECKSUM_ERROR"
  BY DEF Verdict, Sum

-----------------------------------------------------------------------------
(***************************************************************************)
(* A frame of which one byte is garbled is never taken for a measurement.  *)
(***************************************************************************)
THEOREM GarbledByteIsDetected ==
    ASSUME NEW d \in SensorRange, NEW i \in 0 .. 3, NEW x \in Byte, x # FrameByte(d, i),
           NEW b, b[1] = 255,
           \A k \in 1 .. 4 : b[k] = IF k = i + 1 THEN x ELSE FrameByte(d, k - 1)
    PROVE  Verdict(b) = "CHECKSUM_ERROR"
<1>1. PICK h \in HighByte, l \in Byte :
          /\ FrameByte(d, 0) = 255 /\ FrameByte(d, 1) = h /\ FrameByte(d, 2) = l
          /\ FrameByte(d, 3) = Sum(255, h, l)
  BY FrameBytes
<1>2. Sum(b[1], b[2], b[3]) # b[4]
  <2>1. CASE i = 0
    BY <1>1, <2>1
  <2>2. CASE i = 1
    <3>1. b[2] = x /\ b[3] = l /\ b[4] = Sum(255, h, l) /\ x # h
      BY <1>1, <2>2
    <3> QED BY <3>1, SumDetectsChange
  <2>3. CASE i = 2
    <3>1. b[2] = h /\ b[3] = x /\ b[4] = Sum(255, h, l) /\ x # l
      BY <1>1, <2>3
    <3> QED BY <3>1, SumDetectsChange
  <2>4. CASE i = 3
    <3>1. b[2] = h /\ b[3] = l /\ b[4] = x /\ x # Sum(255, h, l)
      BY <1>1, <2>4
    <3> QED BY <3>1
  <2> QED BY <2>1, <2>2, <2>3, <2>4
<1> QED BY <1>2, VerdictOnSum

(***************************************************************************)
(* Four consecutive bytes of the stream that the parser accepts, wherever  *)
(* they begin, report the distance of their frame or one between those of  *)
(* the two frames that they are taken from.                                *)
(***************************************************************************)
THEOREM AcceptedIsBetween ==
    ASSUME NEW d \in SensorRange, NEW e \in SensorRange, NEW p \in 0 .. 3,
           NEW b, b[1] = 255, Verdict(b) = "VALID",
           \A k \in 1 .. 4 : b[k] = IF p + k <= 4 THEN FrameByte(d, p + k - 1)
                                    ELSE FrameByte(e, p + k - 5)
    PROVE  \/ p = 0 /\ DistanceOf(b) = d
           \/ e <= DistanceOf(b) /\ DistanceOf(b) <= d
<1>1. PICK h \in HighByte, l \in Byte :
          /\ d = 256 * h + l
          /\ FrameByte(d, 0) = 255 /\ FrameByte(d, 1) = h /\ FrameByte(d, 2) = l
          /\ FrameByte(d, 3) = Sum(255, h, l)
  BY FrameBytes
<1>2. PICK g \in HighByte, m \in Byte :
          /\ e = 256 * g + m
          /\ FrameByte(e, 0) = 255 /\ FrameByte(e, 1) = g /\ FrameByte(e, 2) = m
  BY FrameBytes
<1>3. Sum(b[1], b[2], b[3]) = b[4]
  BY VerdictOnSum
<1>8. DistanceOf(b) <= 4500
  BY VerdictOnSum
<1>4. CASE p = 0
  <2>1. b[2] = h /\ b[3] = l
    BY <1>1, <1>4
  <2> QED BY <1>1, <1>4, <2>1 DEF DistanceOf, HighByte, Byte
<1>5. CASE p = 1
  <2>1. b[1] = h
    BY <1>1, <1>5
  <2> QED BY <2>1 DEF HighByte
<1>6. CASE p = 2
  <2> DEFINE c == Sum(255, h, 255)
  <2>1. b[1] = l /\ b[3] = 255 /\ b[4] = g
    BY <1>1, <1>2, <1>6
  <2>2. l = 255 /\ b[2] = c
    <3>1. b[2] = Sum(255, h, l)
      BY <1>1, <1>6
    <3> QED BY <2>1, <3>1
  <2>3. c \in Int
    BY DEF Sum, HighByte
  <2>4. DistanceOf(b) = c * 256 + 255
    BY <2>1, <2>2 DEF DistanceOf
  <2>5. Sum(255, c, 255) = g /\ c * 256 + 255 <= 4500
    <3>1. Sum(255, c, 255) = g
      BY <1>3, <2>1, <2>2
    <3>2. c * 256 + 255 <= 4500
      BY <1>8, <2>4
    <3> QED BY <3>1, <3>2
  <2>6. c = h - 2 /\ g = h - 4
    BY <2>5, BeginsAtLowByte
  <2>7. d = 256 * h + 255 /\ e = 256 * (h - 4) + m /\ DistanceOf(b) = 256 * (h - 2) + 255
    BY <1>1, <1>2, <2>2, <2>4, <2>6 DEF HighByte
  <2> QED BY <2>7 DEF HighByte, Byte
<1>7. CASE p = 3
  <2>1. b[2] = 255 /\ b[3] = g
    BY <1>2, <1>7
  <2>2. DistanceOf(b) = 65280 + g
    BY <2>1 DEF DistanceOf, HighByte
  <2>3. 65280 + g <= 4500
    BY <1>8, <2>2
  <2> QED BY <2>3, HeaderIsNoDistance
<1> QED BY <1>4, <1>5, <1>6, <1>7

-----------------------------------------------------------------------------
(***************************************************************************)
(* Two counts of twelve bits survive their packing into three bytes.       *)
(***************************************************************************)
THEOREM CountsSurvivePacking ==
    ASSUME NEW acquired \in 0 .. CountLimit - 1, NEW inliers \in 0 .. CountLimit - 1
    PROVE  LET c == SetMeasurementSampleCounts(acquired, inliers)
           IN  /\ MeasurementAcquiredSamples(c) = acquired
               /\ MeasurementInlierSamples(c) = inliers
<1>1. acquired = (acquired % 256) + (((acquired \div 256) % 16) * 256)
  <2>1. acquired \div 256 < 16
    BY DEF CountLimit
  <2>4. acquired \div 256 >= 0
    BY DEF CountLimit
  <2>2. (acquired \div 256) % 16 = acquired \div 256
    BY <2>1, <2>4 DEF CountLimit
  <2>3. acquired = (acquired % 256) + ((acquired \div 256) * 256)
    BY DEF CountLimit
  <2> QED BY <2>2, <2>3
<1>2. inliers = (inliers % 16) + (((inliers \div 16) % 256) * 16)
  <2>1. inliers \div 16 < 256
    BY DEF CountLimit
  <2>4. inliers \div 16 >= 0
    BY DEF CountLimit
  <2>2. (inliers \div 16) % 256 = inliers \div 16
    BY <2>1, <2>4 DEF CountLimit
  <2>3. inliers = (inliers % 16) + ((inliers \div 16) * 16)
    BY DEF CountLimit
  <2> QED BY <2>2, <2>3
<1> DEFINE high == (acquired \div 256) % 16
           low == inliers % 16
<1>3. high \in 0 .. 15 /\ low \in 0 .. 15
  BY DEF CountLimit
<1> HIDE DEF high, low
<1>4. (high + (low * 16)) % 16 = high /\ ((high + (low * 16)) \div 16) % 16 = low
  BY <1>3
<1> QED BY <1>1, <1>2, <1>4 DEF SetMeasurementSampleCounts, MeasurementAcquiredSamples,
                              MeasurementInlierSamples, high, low

-----------------------------------------------------------------------------
(***************************************************************************)
(* The parser finds the next header                                        *)
(***************************************************************************)
\* While a frame arrives whole, the parser has taken in at least the part of it that is out,
\* or waits for a header.
ParserInv ==
    /\ frame \in Seq(Byte) /\ Len(frame) < 4
    /\ sensor.position \in 0 .. 3
    /\ Sampling /\ clean =>
           IF sensor.position = 0 THEN frame = <<>>
           ELSE frame = <<>> \/ Len(frame) >= sensor.position

\* What the sensor sends are bytes, and the first of a frame is the header.
LEMMA FrameByteIsByte ==
    \A d \in SensorRange, i \in 0 .. 3 :
        FrameByte(d, i) \in Byte /\ (i = 0 => FrameByte(d, i) = 255)
<1> SUFFICES ASSUME NEW d \in SensorRange, NEW i \in 0 .. 3
             PROVE  FrameByte(d, i) \in Byte /\ (i = 0 => FrameByte(d, i) = 255)
  OBVIOUS
<1>1. PICK h \in HighByte, l \in Byte :
          /\ FrameByte(d, 0) = 255 /\ FrameByte(d, 1) = h /\ FrameByte(d, 2) = l
          /\ FrameByte(d, 3) = Sum(255, h, l)
  BY FrameBytes
<1>2. 255 \in Byte /\ h \in Byte /\ Sum(255, h, l) \in Byte
  BY DEF HighByte, Byte, Sum
<1> QED BY <1>1, <1>2

\* What one byte does to the parser.
LEMMA ReceiveFrame ==
    ASSUME NEW byte \in Byte, frame \in Seq(Byte), Len(frame) < 4, Receive(byte)
    PROVE  /\ frame' \in Seq(Byte) /\ Len(frame') < 4
           /\ frame' = <<>> \/ Len(frame') = Len(frame) + 1
           /\ frame = <<>> /\ byte # 255 => frame' = <<>>
           /\ Len(frame) >= 3 => frame' = <<>>
<1>1. CASE frame = <<>> /\ byte # 255
  BY <1>1 DEF Receive, Fed
<1>2. CASE ~(frame = <<>> /\ byte # 255)
  <2>1. Fed(frame, byte) = Append(frame, byte)
    BY <1>2 DEF Fed
  <2>2. Append(frame, byte) \in Seq(Byte) /\ Len(Append(frame, byte)) = Len(frame) + 1
    OBVIOUS
  <2>3. frame' = IF Len(frame) + 1 < 4 THEN Append(frame, byte) ELSE <<>>
    BY <2>1, <2>2 DEF Receive
  <2> QED BY <1>2, <2>2, <2>3
<1> QED BY <1>1, <1>2

\* ParserInv holds in every reachable state: every byte fed to the parser preserves it.
THEOREM ParserInvariant == Spec => []ParserInv
<1>1. Init => ParserInv
  BY DEF Init, ParserInv, At, Sampling
<1>2. ParserInv /\ [Next]_vars => ParserInv'
  <2> SUFFICES ASSUME ParserInv, [Next]_vars PROVE ParserInv'
    OBVIOUS
  <2>1. CASE StartNormalMeasurementCycle
    BY <2>1 DEF StartNormalMeasurementCycle, ParserInv, At, Sampling
  <2>2. ASSUME NEW d \in Distances, NEW q \in 0 .. 3, WarmUpEnds(d, q)
        PROVE  ParserInv'
    BY <2>2 DEF WarmUpEnds, ParserInv, At, Sampling
  <2>3. ASSUME NEW d \in Distances, NEW q \in 0 .. 3, Gap(d, q)
        PROVE  ParserInv'
    BY <2>3 DEF Gap, ParserInv, At, Sampling
  <2>4. ASSUME NEW d \in Distances, ByteArrives(d)
        PROVE  ParserInv'
    <3> DEFINE q == sensor.position
               byte == FrameByte(d, q)
    <3>1. byte \in Byte /\ (q = 0 => byte = 255) /\ q \in 0 .. 3
      BY FrameByteIsByte, AcquisitionAssumption DEF ParserInv
    <3>2. /\ Sampling /\ Sampling' /\ sensor'.position = (q + 1) % 4
          /\ clean' = (q = 0 \/ (clean /\ byte # 255))
      BY <2>4 DEF ByteArrives, Emit, At, Sampling
    <3>3. /\ frame' \in Seq(Byte) /\ Len(frame') < 4
          /\ frame' = <<>> \/ Len(frame') = Len(frame) + 1
          /\ frame = <<>> /\ byte # 255 => frame' = <<>>
          /\ Len(frame) >= 3 => frame' = <<>>
      BY <2>4, <3>1, ReceiveFrame DEF ByteArrives, ParserInv
    <3>4. /\ frame \in Seq(Byte) /\ Len(frame) < 4
          /\ clean => IF q = 0 THEN frame = <<>> ELSE frame = <<>> \/ Len(frame) >= q
      BY <3>2 DEF ParserInv
    <3> HIDE DEF q, byte
    <3>5. (q + 1) % 4 = IF q = 3 THEN 0 ELSE q + 1
      BY <3>1
    <3>6. clean' => IF sensor'.position = 0 THEN frame' = <<>>
                    ELSE frame' = <<>> \/ Len(frame') >= sensor'.position
      <4>1. CASE q = 0
        BY <3>2, <3>3, <3>4, <3>5, <4>1
      <4>2. CASE q # 0
        <5>1. SUFFICES ASSUME clean, byte # 255
                       PROVE  IF sensor'.position = 0 THEN frame' = <<>>
                              ELSE frame' = <<>> \/ Len(frame') >= sensor'.position
          BY <3>2, <4>2
        <5>2. CASE frame = <<>>
          BY <3>3, <5>1, <5>2
        <5>3. CASE Len(frame) >= q
          <6>1. CASE q = 3
            <7>1. Len(frame) >= 3
              BY <5>3, <6>1
            <7> QED BY <3>2, <3>3, <3>5, <6>1, <7>1
          <6>2. CASE q \in {1, 2}
            BY <3>2, <3>3, <3>4, <3>5, <5>3, <6>2
          <6> QED BY <3>1, <4>2, <6>1, <6>2
        <5> QED BY <3>4, <4>2, <5>1, <5>2, <5>3
      <4> QED BY <4>1, <4>2
    <3> QED BY <3>1, <3>2, <3>3, <3>5, <3>6 DEF ParserInv
  <2>5. ASSUME NEW d \in Distances, NEW x \in Noise, ByteIsGarbled(d, x)
        PROVE  ParserInv'
    <3>1. x \in Byte
      BY AcquisitionAssumption
    <3>2. frame' \in Seq(Byte) /\ Len(frame') < 4
      BY <2>5, <3>1, ReceiveFrame DEF ByteIsGarbled, ParserInv
    <3>3. ~clean' /\ sensor'.position \in 0 .. 3
      BY <2>5 DEF ByteIsGarbled, Emit, At, ParserInv
    <3> QED BY <3>2, <3>3 DEF ParserInv
  <2>6. CASE FinalizeA02YYUWMeasurement
    BY <2>6 DEF FinalizeA02YYUWMeasurement, ParserInv, Sampling, line
  <2>7. CASE PerformOtherCycleMeasurements
    BY <2>7 DEF PerformOtherCycleMeasurements, ParserInv, Sampling, line
  <2>8. ASSUME NEW new \in Heights, SetSensorHeight(new)
        PROVE  ParserInv'
    BY <2>8 DEF SetSensorHeight, ParserInv, Sampling, line
  <2>9. CASE UNCHANGED vars
    BY <2>9 DEF vars, ParserInv, Sampling, line
  <2> QED BY <2>1, <2>2, <2>3, <2>4, <2>5, <2>6, <2>7, <2>8, <2>9 DEF Next
<1> QED BY <1>1, <1>2, PTL DEF Spec

(***************************************************************************)
(* After a frame that arrives whole and holds 0xFF only as its header, the *)
(* parser is in step with the sensor.                                      *)
(***************************************************************************)
THEOREM ParserFindsHeader == Spec => []FindsHeader
<1>1. ParserInv => FindsHeader
  BY DEF ParserInv, FindsHeader
<1> QED BY <1>1, ParserInvariant, PTL

-----------------------------------------------------------------------------
(***************************************************************************)
(* A record keeps to the reference height                                  *)
(***************************************************************************)
\* latestWaterLevelMm and the record follow the height and the distance of the window.
DatumInv ==
    /\ result.valid => level = height - result.distance
    /\ record = [distanceValid |-> record.distanceValid, distance |-> record.distance,
                 waterLevel |-> record.waterLevel, fourfoldMad |-> record.fourfoldMad,
                 quality |-> record.quality, counts |-> record.counts]
    /\ phase = "recorded" /\ record.distanceValid =>
           result.valid /\ record.distance = result.distance /\ record.waterLevel = level

\* DatumInv holds in every reachable state, through V6 at any moment of the cycle.
THEOREM DatumInvariant == Spec => []DatumInv
<1>1. Init => DatumInv
  BY DEF Init, DatumInv, NoMeasurement, NoRecord
<1>2. DatumInv /\ [Next]_vars => DatumInv'
  <2> SUFFICES ASSUME DatumInv, [Next]_vars PROVE DatumInv'
    OBVIOUS
  <2>1. CASE StartNormalMeasurementCycle
    BY <2>1 DEF StartNormalMeasurementCycle, DatumInv, NoMeasurement, NoRecord
  <2>2. ASSUME NEW d \in Distances, NEW q \in 0 .. 3, WarmUpEnds(d, q)
        PROVE  DatumInv'
    BY <2>2 DEF WarmUpEnds, DatumInv, outcome
  <2>3. ASSUME NEW d \in Distances, NEW q \in 0 .. 3, Gap(d, q)
        PROVE  DatumInv'
    BY <2>3 DEF Gap, DatumInv, outcome
  <2>4. ASSUME NEW d \in Distances, ByteArrives(d)
        PROVE  DatumInv'
    BY <2>4 DEF ByteArrives, DatumInv, outcome
  <2>5. ASSUME NEW d \in Distances, NEW x \in Noise, ByteIsGarbled(d, x)
        PROVE  DatumInv'
    BY <2>5 DEF ByteIsGarbled, DatumInv, outcome
  <2>6. CASE FinalizeA02YYUWMeasurement
    BY <2>6 DEF FinalizeA02YYUWMeasurement, DatumInv
  <2>7. CASE PerformOtherCycleMeasurements
    BY <2>7 DEF PerformOtherCycleMeasurements, CurrentMeasurementRecord, DatumInv
  <2>8. ASSUME NEW new \in Heights, SetSensorHeight(new)
        PROVE  DatumInv'
    <3>1. CASE result.valid /\ phase = "recorded" /\ record.distanceValid
      <4>1. /\ height' = new /\ level' = new - result.distance /\ result' = result
            /\ phase' = phase /\ record' = [record EXCEPT !.waterLevel = new - result.distance]
        BY <2>8, <3>1 DEF SetSensorHeight, CorrectedRecord
      <4> QED BY <3>1, <4>1 DEF DatumInv
    <3>2. CASE ~(result.valid /\ phase = "recorded" /\ record.distanceValid)
      BY <2>8, <3>2 DEF SetSensorHeight, CorrectedRecord, DatumInv
    <3> QED BY <3>1, <3>2
  <2>9. CASE UNCHANGED vars
    BY <2>9 DEF vars, DatumInv, outcome
  <2> QED BY <2>1, <2>2, <2>3, <2>4, <2>5, <2>6, <2>7, <2>8, <2>9 DEF Next
<1> QED BY <1>1, <1>2, PTL DEF Spec

(***************************************************************************)
(* The water level of a record belongs to the reference height in force.   *)
(***************************************************************************)
THEOREM DatumStaysInForce == Spec => []DatumIsInForce
<1>1. DatumInv => DatumIsInForce
  BY DEF DatumInv, DatumIsInForce, Published, SentToBlynk
<1> QED BY <1>1, DatumInvariant, PTL

-----------------------------------------------------------------------------
(***************************************************************************)
(* Recursive functions                                                     *)
(***************************************************************************)
\* A set of natural numbers that is not empty has a least one.
LEMMA LeastNumber ==
    ASSUME NEW T, T \subseteq Nat, T # {}
    PROVE  \E m \in T : \A n \in T : m <= n
<1>1. \E x \in T : \A y \in T : ~ (<<y, x>> \in OpToRel(<, Nat))
  BY WFMin, NatLessThanWellFounded
<1>2. \E x \in T : \A y \in T : ~ (y < x)
  BY <1>1 DEF OpToRel
<1> QED BY <1>2

\* Induction up to n, for membership in a set.
LEMMA UpTo ==
    ASSUME NEW n \in Nat, NEW S, 0 \in S, \A i \in 1 .. n : i - 1 \in S => i \in S
    PROVE  \A i \in 0 .. n : i \in S
<1> DEFINE T == (0 .. n) \ S
<1>1. SUFFICES ASSUME T # {} PROVE FALSE
  OBVIOUS
<1>2. T \subseteq Nat
  OBVIOUS
<1>3. PICK m \in T : \A k \in T : m <= k
  <2> HIDE DEF T
  <2> QED BY <1>1, <1>2, LeastNumber
<1>4. m # 0 /\ m \in 1 .. n /\ m - 1 \notin T
  BY <1>3
<1> QED BY <1>3, <1>4

\* There is a function on 0 .. n that starts at c and goes on by h, its values in A: the choice
\* that a recursive definition makes has something to choose.
LEMMA RecursiveFunction ==
    ASSUME NEW A, NEW c \in A, NEW n \in Nat, NEW h \in [1 .. n -> [A -> A]]
    PROVE  \E f \in [0 .. n -> A] :
               f[0] = c /\ \A i \in 1 .. n : f[i] = h[i][f[i - 1]]
<1> DEFINE Defines(f, m) == /\ f \in [0 .. m -> A]
                            /\ f[0] = c
                            /\ \A i \in 1 .. m : f[i] = h[i][f[i - 1]]
           S == {m \in 0 .. n : \E f \in [0 .. m -> A] : Defines(f, m)}
<1>1. 0 \in S
  <2>1. Defines([i \in 0 .. 0 |-> c], 0)
    OBVIOUS
  <2>2. [i \in 0 .. 0 |-> c] \in [0 .. 0 -> A]
    OBVIOUS
  <2> HIDE DEF Defines
  <2> QED BY <2>1, <2>2
<1>2. ASSUME NEW m \in 1 .. n, m - 1 \in S PROVE m \in S
  <2>1. PICK f : Defines(f, m - 1)
    BY <1>2
  <2> DEFINE g == [i \in 0 .. m |-> IF i = m THEN h[m][f[m - 1]] ELSE f[i]]
  <2>2. f[m - 1] \in A /\ h[m][f[m - 1]] \in A
    BY <2>1
  <2>3. g \in [0 .. m -> A]
    BY <2>1, <2>2
  <2>4. \A i \in 1 .. m : g[i] = h[i][g[i - 1]]
    BY <2>1
  <2>5. g[0] = c
    BY <2>1
  <2>6. Defines(g, m)
    BY <2>3, <2>4, <2>5
  <2> HIDE DEF Defines, g
  <2> QED BY <2>3, <2>6
<1> HIDE DEF S
<1>3. n \in S
  <2>1. \A m \in 1 .. n : m - 1 \in S => m \in S
    BY <1>2
  <2>2. \A m \in 0 .. n : m \in S
    BY <1>1, <2>1, UpTo
  <2> QED BY <2>2
<1>4. PICK f \in [0 .. n -> A] : Defines(f, n)
  BY <1>3 DEF S
<1> QED BY <1>4

-----------------------------------------------------------------------------
(***************************************************************************)
(* The sort                                                                *)
(***************************************************************************)
\* One round of the sort.
LEMMA InsertedAt ==
    ASSUME NEW s \in Seq(Int), NEW x \in Int
    PROVE  \E j \in 0 .. Len(s) :
               /\ j = 0 \/ s[j] <= x
               /\ \A i \in j + 1 .. Len(s) : s[i] > x
               /\ Inserted(s, x) \in Seq(Int)
               /\ Len(Inserted(s, x)) = Len(s) + 1
               /\ \A i \in 1 .. j : Inserted(s, x)[i] = s[i]
               /\ Inserted(s, x)[j + 1] = x
               /\ \A i \in j + 2 .. Len(s) + 1 : Inserted(s, x)[i] = s[i - 1]
<1> DEFINE n == Len(s)
           P(k) == /\ k = 0 \/ s[k] <= x
                   /\ \A i \in k + 1 .. n : s[i] > x
           T == {m \in 0 .. n : n - m = 0 \/ s[n - m] <= x}
           j == CHOOSE k \in 0 .. n : P(k)
<1>1. n \in Nat /\ \A i \in 1 .. n : s[i] \in Int
  OBVIOUS
<1>2. \E k \in 0 .. n : P(k)
  <2>1. T \subseteq Nat /\ n \in T
    BY <1>1
  <2>2. PICK m \in T : \A k \in T : m <= k
    <3> HIDE DEF T
    <3> QED BY <2>1, LeastNumber
  <2>3. n - m \in 0 .. n /\ (n - m = 0 \/ s[n - m] <= x)
    BY <1>1, <2>2
  <2>4. ASSUME NEW i \in n - m + 1 .. n PROVE s[i] > x
    <3>1. n - i \in 0 .. n /\ n - i < m /\ n - (n - i) = i /\ i \in 1 .. n
      BY <1>1, <2>2, <2>3
    <3>2. n - i \notin T
      BY <1>1, <3>1, <2>2
    <3>3. ~(s[i] <= x)
      BY <3>1, <3>2
    <3> QED BY <1>1, <3>1, <3>3
  <2> QED BY <2>3, <2>4
<1>3. j \in 0 .. n /\ P(j)
  <2> HIDE DEF P
  <2> QED BY <1>2
<1> HIDE DEF j
<1> DEFINE a == SubSeq(s, 1, j)
           b == SubSeq(s, j + 1, n)
<1>4. /\ a \in Seq(Int) /\ Len(a) = j /\ \A i \in 1 .. j : a[i] = s[i]
  BY <1>1, <1>3, SubSeqProperties
<1>5. /\ b \in Seq(Int) /\ Len(b) = n - j /\ \A i \in 1 .. n - j : b[i] = s[j + i]
  BY <1>1, <1>3, SubSeqProperties
<1>6. Inserted(s, x) = (a \o <<x>>) \o b
  BY DEF Inserted, j
<1> HIDE DEF a, b
<1> DEFINE c == a \o <<x>>
<1>7. /\ c \in Seq(Int) /\ Len(c) = j + 1
      /\ \A i \in 1 .. j : c[i] = a[i]
      /\ c[j + 1] = x
  BY <1>1, <1>3, <1>4, ConcatProperties
<1> HIDE DEF c
<1>8. /\ c \o b \in Seq(Int) /\ Len(c \o b) = n + 1
      /\ \A i \in 1 .. j + 1 : (c \o b)[i] = c[i]
      /\ \A i \in j + 2 .. n + 1 : (c \o b)[i] = b[i - (j + 1)]
  BY <1>1, <1>3, <1>5, <1>7
<1>9. \A i \in j + 2 .. n + 1 : (c \o b)[i] = s[i - 1]
  <2> SUFFICES ASSUME NEW i \in j + 2 .. n + 1 PROVE (c \o b)[i] = s[i - 1]
    OBVIOUS
  <2>1. i - (j + 1) \in 1 .. n - j /\ j + (i - (j + 1)) = i - 1
    BY <1>1, <1>3
  <2> QED BY <1>5, <1>8, <2>1
<1>10. Inserted(s, x) = c \o b
  BY <1>6 DEF c
<1>11. \A i \in 1 .. j : (c \o b)[i] = s[i]
  BY <1>1, <1>3, <1>4, <1>7, <1>8
<1>12. (c \o b)[j + 1] = x
  BY <1>1, <1>3, <1>7, <1>8
<1> HIDE DEF P
<1>13. /\ j = 0 \/ s[j] <= x
       /\ \A i \in j + 1 .. n : s[i] > x
  BY <1>3 DEF P
<1> QED BY <1>3, <1>8, <1>9, <1>10, <1>11, <1>12, <1>13

\* How many of the first n values lie in S.
Hits(s, n, S) == Cardinality({i \in 1 .. n : s[i] \in S})

\* What one value adds to Hits.
Hit(x, S) == IF x \in S THEN 1 ELSE 0

\* In the order that the sort leaves.
Ascending(s) == \A i, k \in 1 .. Len(s) : i <= k => s[i] <= s[k]

\* Hits counts from 0 up, one value at a time.
LEMMA HitsFacts ==
    ASSUME NEW s, NEW n \in Nat, NEW S
    PROVE  /\ IsFiniteSet({i \in 1 .. n : s[i] \in S})
           /\ Hits(s, n, S) \in Nat
           /\ Hits(s, 0, S) = 0
           /\ Hits(s, n + 1, S) = Hits(s, n, S) + Hit(s[n + 1], S)
<1> DEFINE u(k) == {i \in 1 .. k : s[i] \in S}
<1>1. ASSUME NEW k \in Nat PROVE IsFiniteSet(u(k))
  <2>1. u(k) \in SUBSET (1 .. k)
    OBVIOUS
  <2>2. IsFiniteSet(1 .. k)
    BY FS_Interval
  <2> HIDE DEF u
  <2> QED BY <2>1, <2>2, FS_Subset
<1>2. u(0) = {}
  OBVIOUS
<1>5. \A k : Hits(s, k, S) = Cardinality(u(k))
  BY DEF Hits
<1>6. /\ IsFiniteSet({i \in 1 .. n : s[i] \in S})
      /\ Hits(s, n, S) \in Nat /\ Hits(s, 0, S) = 0
  <2>1. IsFiniteSet(u(n))
    BY <1>1
  <2>2. Cardinality(u(n)) \in Nat
    <3> HIDE DEF u
    <3> QED BY <2>1, FS_CardinalityType
  <2>3. Cardinality(u(0)) = 0
    BY <1>2, FS_EmptySet
  <2> QED BY <1>5, <2>1, <2>2, <2>3
<1>3. CASE s[n + 1] \in S
  <2>1. u(n + 1) = u(n) \cup {n + 1} /\ n + 1 \notin u(n)
    BY <1>3
  <2> HIDE DEF u
  <2>2. Cardinality(u(n + 1)) = Cardinality(u(n)) + 1
    BY <1>1, <2>1, FS_AddElement
  <2>3. Hits(s, n + 1, S) = Hits(s, n, S) + 1
    BY <1>5, <2>2
  <2> QED BY <1>3, <1>6, <2>3 DEF Hit
<1>4. CASE s[n + 1] \notin S
  <2>1. u(n + 1) = u(n)
    BY <1>4
  <2> HIDE DEF u
  <2>2. Hits(s, n + 1, S) = Hits(s, n, S)
    BY <1>5, <2>1
  <2>3. Hits(s, n + 1, S) = Hits(s, n, S) + 0
    BY <1>6, <2>2
  <2> QED BY <1>4, <1>6, <2>3 DEF Hit
<1> QED BY <1>3, <1>4

\* A round of the sort keeps the values, adds the key, and leaves them in order.
LEMMA InsertedKeeps ==
    ASSUME NEW s \in Seq(Int), NEW x \in Int
    PROVE  /\ Inserted(s, x) \in Seq(Int) /\ Len(Inserted(s, x)) = Len(s) + 1
           /\ Ascending(s) => Ascending(Inserted(s, x))
           /\ \A S : Hits(Inserted(s, x), Len(s) + 1, S) =
                         Hits(s, Len(s), S) + Hit(x, S)
<1> DEFINE n == Len(s)
           t == Inserted(s, x)
<1>1. PICK j \in 0 .. n :
          /\ j = 0 \/ s[j] <= x
          /\ \A i \in j + 1 .. n : s[i] > x
          /\ t \in Seq(Int) /\ Len(t) = n + 1
          /\ \A i \in 1 .. j : t[i] = s[i]
          /\ t[j + 1] = x
          /\ \A i \in j + 2 .. n + 1 : t[i] = s[i - 1]
  BY InsertedAt
<1>2. n \in Nat /\ \A i \in 1 .. n : s[i] \in Int
  OBVIOUS
<1> HIDE DEF n, t
<1>3. ASSUME Ascending(s) PROVE Ascending(t)
  <2> SUFFICES ASSUME NEW i \in 1 .. n + 1, NEW k \in 1 .. n + 1, i <= k PROVE t[i] <= t[k]
    BY <1>1 DEF Ascending
  <2>1. \A a, b \in 1 .. n : a <= b => s[a] <= s[b]
    BY <1>3 DEF Ascending, n
  <2>2. CASE k <= j
    BY <1>1, <1>2, <2>1, <2>2
  <2>3. CASE k = j + 1
    <3>1. CASE i = k
      BY <1>1, <2>3, <3>1
    <3>2. CASE i < k
      <4>1. i \in 1 .. j /\ j \in 1 .. n /\ i \in 1 .. n /\ i <= j
        BY <1>1, <1>2, <2>3, <3>2
      <4>2. t[i] = s[i] /\ s[i] <= s[j] /\ s[j] <= x /\ s[i] \in Int /\ s[j] \in Int
        BY <1>1, <1>2, <2>1, <4>1
      <4> QED BY <1>1, <2>3, <4>2
    <3> QED BY <3>1, <3>2
  <2>4. CASE k > j + 1
    <3>1. t[k] = s[k - 1] /\ k - 1 \in j + 1 .. n /\ s[k - 1] > x
      BY <1>1, <1>2, <2>4
    <3>2. CASE i <= j
      <4>1. i \in 1 .. j /\ i \in 1 .. n /\ k - 1 \in 1 .. n /\ i <= k - 1
        BY <1>2, <3>1, <3>2
      <4>2. t[i] = s[i]
        BY <1>1, <4>1
      <4> QED BY <2>1, <3>1, <4>1, <4>2
    <3>3. CASE i = j + 1
      BY <1>1, <1>2, <3>1, <3>3
    <3>4. CASE i > j + 1
      <4>1. t[i] = s[i - 1] /\ i - 1 \in 1 .. n /\ k - 1 \in 1 .. n /\ i - 1 <= k - 1
        BY <1>1, <1>2, <3>1, <3>4
      <4> QED BY <2>1, <3>1, <4>1
    <3> QED BY <1>1, <1>2, <3>2, <3>3, <3>4
  <2> QED BY <1>1, <1>2, <2>2, <2>3, <2>4
<1>4. ASSUME NEW S PROVE Hits(t, n + 1, S) = Hits(s, n, S) + Hit(x, S)
  <2> DEFINE u == {i \in 1 .. n : s[i] \in S}
             v == {i \in 1 .. n + 1 : t[i] \in S}
             w == v \ {j + 1}
             f == [i \in u |-> IF i <= j THEN i ELSE i + 1]
  <2>1. IsFiniteSet(u) /\ IsFiniteSet(v)
    <3>1. u \in SUBSET (1 .. n) /\ v \in SUBSET (1 .. n + 1)
      OBVIOUS
    <3>2. IsFiniteSet(1 .. n) /\ IsFiniteSet(1 .. n + 1)
      BY <1>2, FS_Interval
    <3> HIDE DEF u, v
    <3> QED BY <3>1, <3>2, FS_Subset
  <2>2. f \in [u -> w]
    <3> SUFFICES ASSUME NEW i \in u PROVE (IF i <= j THEN i ELSE i + 1) \in w
      OBVIOUS
    <3>1. CASE i <= j
      BY <1>1, <1>2, <3>1
    <3>2. CASE i > j
      <4>1. i + 1 \in j + 2 .. n + 1 /\ t[i + 1] = s[(i + 1) - 1]
        BY <1>1, <1>2, <3>2
      <4> QED BY <1>1, <1>2, <3>2, <4>1
    <3> QED BY <1>1, <1>2, <3>1, <3>2
  <2>3. \A a, b \in u : f[a] = f[b] => a = b
    BY <1>1, <1>2
  <2>4. ASSUME NEW k \in w PROVE \E i \in u : f[i] = k
    <3>1. CASE k <= j
      <4>1. k \in 1 .. n /\ t[k] = s[k]
        BY <1>1, <1>2, <3>1
      <4>2. k \in u /\ f[k] = k
        BY <3>1, <4>1
      <4> QED BY <4>2
    <3>2. CASE k > j
      <4>1. k \in j + 2 .. n + 1 /\ t[k] = s[k - 1]
        BY <1>1, <1>2, <3>2
      <4>2. k - 1 \in u
        BY <1>1, <1>2, <4>1
      <4>3. f[k - 1] = k
        BY <1>1, <1>2, <4>1, <4>2
      <4> QED BY <4>2, <4>3
    <3>3. k \in Int /\ j \in Int
      BY <1>1, <1>2
    <3>4. k <= j \/ k > j
      BY <3>3
    <3> HIDE DEF u, w, f
    <3> QED BY <3>1, <3>2, <3>4
  <2> HIDE DEF u, w, f
  <2>5. f \in Bijection(u, w)
    BY <2>2, <2>3, <2>4 DEF Bijection, Injection, Surjection, IsInjective
  <2>6. Cardinality(w) = Cardinality(u)
    BY <2>1, <2>5, FS_Bijection DEF ExistsBijection
  <2>7. Cardinality(w) = IF j + 1 \in v THEN Cardinality(v) - 1 ELSE Cardinality(v)
    <3> HIDE DEF v
    <3> QED BY <2>1, FS_RemoveElement DEF w
  <2>8. j + 1 \in v <=> x \in S
    BY <1>1, <1>2
  <2>9. Cardinality(v) \in Nat /\ Cardinality(u) \in Nat
    BY <2>1, FS_CardinalityType
  <2> HIDE DEF v
  <2> QED BY <2>6, <2>7, <2>8, <2>9 DEF Hits, Hit, u, v
<1> QED BY <1>1, <1>3, <1>4 DEF n, t

\* The rounds of the sort.
LEMMA SortedKeeps ==
    ASSUME NEW s \in Seq(Int)
    PROVE  /\ Sorted(s) \in Seq(Int) /\ Len(Sorted(s)) = Len(s) /\ Ascending(Sorted(s))
           /\ \A S : Hits(Sorted(s), Len(s), S) = Hits(s, Len(s), S)
<1> DEFINE n == Len(s)
           h == [i \in 1 .. n |-> [r \in Seq(Int) |-> Inserted(r, s[i])]]
           Rounds(g) == g = [i \in 0 .. n |-> IF i = 0 THEN <<>> ELSE Inserted(g[i - 1], s[i])]
           first == CHOOSE g : Rounds(g)
<1>1. n \in Nat /\ \A i \in 1 .. n : s[i] \in Int
  OBVIOUS
<1>6. Sorted(s) = first[n]
  BY DEF Sorted
<1>n. n = Len(s)
  OBVIOUS
<1> HIDE DEF n
<1>2. h \in [1 .. n -> [Seq(Int) -> Seq(Int)]]
  <2> SUFFICES ASSUME NEW r \in Seq(Int), NEW i \in 1 .. n PROVE Inserted(r, s[i]) \in Seq(Int)
    OBVIOUS
  <2>1. s[i] \in Int
    BY <1>1
  <2> QED BY <2>1, InsertedKeeps
<1>3. <<>> \in Seq(Int)
  OBVIOUS
<1>4. \E f : Rounds(f)
  <2>1. PICK f \in [0 .. n -> Seq(Int)] :
            f[0] = <<>> /\ \A i \in 1 .. n : f[i] = h[i][f[i - 1]]
    <3> HIDE DEF h
    <3>1. n \in Nat
      BY <1>1
    <3> DEFINE A == Seq(Int)
               c == <<>>
    <3>2. c \in A /\ h \in [1 .. n -> [A -> A]]
      BY <1>2, <1>3
    <3> HIDE DEF A, c
    <3>3. \E f \in [0 .. n -> A] : f[0] = c /\ \A i \in 1 .. n : f[i] = h[i][f[i - 1]]
      BY <3>1, <3>2, RecursiveFunction
    <3> QED BY <3>3 DEF A, c
  <2>2. \A i \in 1 .. n : h[i][f[i - 1]] = Inserted(f[i - 1], s[i])
    <3> SUFFICES ASSUME NEW i \in 1 .. n PROVE h[i][f[i - 1]] = Inserted(f[i - 1], s[i])
      OBVIOUS
    <3>1. f[i - 1] \in Seq(Int)
      BY <1>1
    <3> QED BY <3>1
  <2> HIDE DEF h
  <2>3. \A i \in 0 .. n : f[i] = IF i = 0 THEN <<>> ELSE Inserted(f[i - 1], s[i])
    <3> SUFFICES ASSUME NEW i \in 0 .. n PROVE f[i] = IF i = 0 THEN <<>> ELSE Inserted(f[i - 1], s[i])
      OBVIOUS
    <3>1. CASE i = 0
      BY <2>1, <3>1
    <3>2. CASE i # 0
      <4>1. i \in 1 .. n
        BY <1>1, <3>2
      <4> QED BY <2>1, <2>2, <3>2, <4>1
    <3> QED BY <3>1, <3>2
  <2>4. Rounds(f)
    BY <2>3
  <2> QED BY <2>4
<1>5. Rounds(first)
  <2> HIDE DEF Rounds
  <2> QED BY <1>4
<1> HIDE DEF first
<1>7. first[0] = <<>> /\ \A i \in 1 .. n : first[i] = Inserted(first[i - 1], s[i])
  BY <1>1, <1>5
<1> HIDE DEF Rounds, h
<1> DEFINE Good(i) == /\ first[i] \in Seq(Int) /\ Len(first[i]) = i /\ Ascending(first[i])
                      /\ \A S : Hits(first[i], i, S) = Hits(s, i, S)
           G == {i \in 0 .. n : Good(i)}
<1>8. 0 \in G
  <2>1. Ascending(<<>>)
    BY DEF Ascending
  <2>2. \A S : Hits(<<>>, 0, S) = Hits(s, 0, S)
    BY HitsFacts
  <2>3. Good(0)
    BY <1>7, <2>1, <2>2
  <2> HIDE DEF Good
  <2> QED BY <1>1, <2>3
<1>9. ASSUME NEW i \in 1 .. n, i - 1 \in G PROVE i \in G
  <2>0. i - 1 \in Nat /\ (i - 1) + 1 = i
    BY <1>1
  <2>1. Good(i - 1)
    <3> HIDE DEF Good
    <3> QED BY <1>9
  <2>2. first[i] = Inserted(first[i - 1], s[i]) /\ s[i] \in Int
    BY <1>1, <1>7
  <2> DEFINE r == first[i - 1]
  <2>r. r \in Seq(Int) /\ Len(r) = i - 1 /\ Ascending(r)
        /\ \A S : Hits(r, i - 1, S) = Hits(s, i - 1, S)
    BY <2>1
  <2> HIDE DEF r
  <2>3. /\ Inserted(r, s[i]) \in Seq(Int) /\ Len(Inserted(r, s[i])) = i /\ Ascending(Inserted(r, s[i]))
    BY <2>r, <2>0, <2>2, InsertedKeeps
  <2>4. ASSUME NEW S
        PROVE  Hits(Inserted(r, s[i]), i, S) = Hits(s, i, S)
    <3>1. Hits(Inserted(r, s[i]), Len(r) + 1, S) = Hits(r, Len(r), S) + Hit(s[i], S)
      BY <2>r, <2>2, InsertedKeeps
    <3> DEFINE m == i - 1
    <3>m. m \in Nat /\ m + 1 = i /\ m = i - 1
      BY <2>0
    <3> HIDE DEF m
    <3>2. Hits(s, m + 1, S) = Hits(s, m, S) + Hit(s[m + 1], S)
      BY <3>m, HitsFacts
    <3> QED BY <2>0, <2>r, <3>m, <3>1, <3>2
  <2>5. Good(i)
    BY <2>2, <2>3, <2>4 DEF r
  <2> HIDE DEF Good
  <2> QED BY <2>5
<1>10. n \in G
  <2> HIDE DEF G
  <2>1. \A i \in 1 .. n : i - 1 \in G => i \in G
    BY <1>9
  <2>2. \A i \in 0 .. n : i \in G
    BY <1>1, <1>8, <2>1, UpTo
  <2> QED BY <1>1, <2>2
<1> QED BY <1>6, <1>10, <1>n

-----------------------------------------------------------------------------
(***************************************************************************)
(* The median and the MAD of samples most of which lie between two bounds  *)
(***************************************************************************)
\* A stretch of indices whose values lie in S.
LEMMA HitsAtLeast ==
    ASSUME NEW s, NEW n \in Nat, NEW S, NEW a \in 1 .. n, NEW b \in a .. n,
           \A i \in a .. b : s[i] \in S
    PROVE  Hits(s, n, S) >= b - a + 1
<1> DEFINE u == {i \in 1 .. n : s[i] \in S}
<1>1. IsFiniteSet(u)
  BY HitsFacts
<1>2. a .. b \subseteq u
  OBVIOUS
<1>3. Cardinality(a .. b) = b - a + 1
  BY FS_Interval
<1>4. Hits(s, n, S) = Cardinality(u)
  BY DEF Hits
<1> HIDE DEF u
<1>5. Cardinality(a .. b) <= Cardinality(u)
  BY <1>1, <1>2, FS_Subset
<1> QED BY <1>3, <1>4, <1>5

\* More values lie in the larger set.
LEMMA HitsOfMore ==
    ASSUME NEW s, NEW t, NEW n \in Nat, NEW S, NEW T,
           \A i \in 1 .. n : s[i] \in S => t[i] \in T
    PROVE  Hits(s, n, S) <= Hits(t, n, T)
<1> DEFINE u == {i \in 1 .. n : s[i] \in S}
           v == {i \in 1 .. n : t[i] \in T}
<1>1. IsFiniteSet(v)
  BY HitsFacts
<1>2. u \subseteq v
  OBVIOUS
<1>3. Hits(s, n, S) = Cardinality(u) /\ Hits(t, n, T) = Cardinality(v)
  BY DEF Hits
<1> HIDE DEF u, v
<1>4. Cardinality(u) <= Cardinality(v)
  BY <1>1, <1>2, FS_Subset
<1> QED BY <1>3, <1>4

\* What the sensor did not report, when all that it reported lies between lo and hi.
Outside(lo, hi) == Int \ (lo .. hi)

\* While fewer than half of the values lie outside of lo .. hi, those in the middle do not.
LEMMA MiddleIsInside ==
    ASSUME NEW s \in Seq(Int), Ascending(s), NEW lo \in Int, NEW hi \in Int,
           2 * Hits(s, Len(s), Outside(lo, hi)) < Len(s),
           NEW p \in 1 .. Len(s), 2 * p >= Len(s), 2 * (Len(s) - p + 1) >= Len(s)
    PROVE  s[p] \in lo .. hi
<1> DEFINE n == Len(s)
           S == Outside(lo, hi)
           m == Hits(s, n, S)
<1>1. n \in Nat /\ (\A i \in 1 .. n : s[i] \in Int) /\ p \in 1 .. n
  OBVIOUS
<1>2. m \in Nat
  BY <1>1, HitsFacts
<1>3. \A i, k \in 1 .. n : i <= k => s[i] <= s[k]
  BY DEF Ascending
<1>4. 2 * m < n /\ 2 * p >= n /\ 2 * (n - p + 1) >= n
  OBVIOUS
<1> HIDE DEF n
<1>5. ~(s[p] < lo)
  <2> SUFFICES ASSUME s[p] < lo PROVE FALSE
    OBVIOUS
  <2>1. \A i \in 1 .. p : s[i] \in S
    <3> SUFFICES ASSUME NEW i \in 1 .. p PROVE s[i] \in S
      OBVIOUS
    <3>1. i \in 1 .. n /\ i <= p
      BY <1>1
    <3>2. s[i] \in Int /\ s[p] \in Int /\ s[i] <= s[p]
      BY <1>1, <1>3, <3>1
    <3> QED BY <3>2 DEF Outside
  <2> HIDE DEF S
  <2>2. 1 \in 1 .. n /\ p - 1 + 1 = p
    BY <1>1
  <2>3. m >= p - 1 + 1
    BY <1>1, <2>1, <2>2, HitsAtLeast
  <2> HIDE DEF m
  <2> QED BY <1>1, <1>2, <1>4, <2>3
<1>6. ~(s[p] > hi)
  <2> SUFFICES ASSUME s[p] > hi PROVE FALSE
    OBVIOUS
  <2>1. \A i \in p .. n : s[i] \in S
    <3> SUFFICES ASSUME NEW i \in p .. n PROVE s[i] \in S
      OBVIOUS
    <3>1. i \in 1 .. n /\ p <= i
      BY <1>1
    <3>2. s[i] \in Int /\ s[p] \in Int /\ s[p] <= s[i]
      BY <1>1, <1>3, <3>1
    <3> QED BY <3>2 DEF Outside
  <2> HIDE DEF S
  <2>2. n \in p .. n
    BY <1>1
  <2>3. m >= n - p + 1
    BY <1>1, <2>1, <2>2, HitsAtLeast
  <2> HIDE DEF m
  <2> QED BY <1>1, <1>2, <1>4, <2>3
<1> QED BY <1>1, <1>5, <1>6

\* The median then lies inside, too.
LEMMA MedianIsInside ==
    ASSUME NEW s \in Seq(Int), Ascending(s), NEW lo \in Int, NEW hi \in Int,
           2 * Hits(s, Len(s), Outside(lo, hi)) < Len(s)
    PROVE  TwiceMedian(s) \in 2 * lo .. 2 * hi
<1> DEFINE n == Len(s)
           k == n \div 2
<1>1. n \in Nat /\ \A i \in 1 .. n : s[i] \in Int
  OBVIOUS
<1>2. n > 0
  <2>1. Hits(s, n, Outside(lo, hi)) \in Nat
    BY <1>1, HitsFacts
  <2> QED BY <1>1, <2>1
<1>3. CASE n % 2 # 0
  <2>1. n = 2 * k + 1 /\ k + 1 \in 1 .. n
    BY <1>1, <1>3
  <2>2. s[k + 1] \in lo .. hi
    <3>1. 2 * (k + 1) >= n /\ 2 * (n - (k + 1) + 1) >= n
      BY <1>1, <2>1
    <3> QED BY <2>1, <3>1, MiddleIsInside
  <2>3. TwiceMedian(s) = 2 * s[k + 1]
    BY <1>3 DEF TwiceMedian
  <2> QED BY <2>2, <2>3
<1>4. CASE n % 2 = 0
  <2>1. n = 2 * k /\ k \in 1 .. n /\ k + 1 \in 1 .. n
    BY <1>1, <1>2, <1>4
  <2>2. s[k] \in lo .. hi
    <3>1. 2 * k >= n /\ 2 * (n - k + 1) >= n
      BY <1>1, <2>1
    <3> QED BY <2>1, <3>1, MiddleIsInside
  <2>3. s[k + 1] \in lo .. hi
    <3>1. 2 * (k + 1) >= n /\ 2 * (n - (k + 1) + 1) >= n
      BY <1>1, <2>1
    <3> QED BY <2>1, <3>1, MiddleIsInside
  <2>4. TwiceMedian(s) = s[k] + s[k + 1]
    BY <1>4 DEF TwiceMedian
  <2> QED BY <2>2, <2>3, <2>4
<1> QED BY <1>3, <1>4

\* None of the values lies in S.
LEMMA HitsNone ==
    ASSUME NEW s, NEW n \in Nat, NEW S, \A i \in 1 .. n : s[i] \notin S
    PROVE  Hits(s, n, S) = 0
<1>1. {i \in 1 .. n : s[i] \in S} = {}
  OBVIOUS
<1> QED BY <1>1, FS_EmptySet DEF Hits

\* The MAD is at most the spread of what holds more than half of the samples.
LEMMA MadWithinSpread ==
    ASSUME NEW s \in Seq(Int), Ascending(s), NEW lo \in Int, NEW hi \in Int, lo <= hi,
           2 * Hits(s, Len(s), Outside(lo, hi)) < Len(s)
    PROVE  FourfoldMad(s) \in 0 .. 4 * (hi - lo)
<1> DEFINE n == Len(s)
           median == TwiceMedian(s)
           spread == 2 * (hi - lo)
           t == [i \in DOMAIN s |-> TwiceDeviation(s[i], median)]
           r == Sorted(t)
<1>1. n \in Nat /\ DOMAIN s = 1 .. n /\ (\A i \in 1 .. n : s[i] \in Int)
  OBVIOUS
<1>2. median \in 2 * lo .. 2 * hi
  BY MedianIsInside
<1>3. \A i \in 1 .. n : t[i] = TwiceDeviation(s[i], median)
  BY <1>1
<1>4. t \in Seq(Int) /\ Len(t) = n
  <2> HIDE DEF median
  <2>1. \A i \in 1 .. n : TwiceDeviation(s[i], median) \in Int
    BY <1>1, <1>2 DEF TwiceDeviation, Size
  <2>2. t \in [1 .. n -> Int]
    BY <1>1, <2>1
  <2> QED BY <1>1, <2>2
<1>5. FourfoldMad(s) = TwiceMedian(r)
  BY DEF FourfoldMad
<1> HIDE DEF median, t
<1>6. Hits(t, n, Outside(0, spread)) <= Hits(s, n, Outside(lo, hi))
  <2>1. ASSUME NEW i \in 1 .. n, s[i] \notin Outside(lo, hi) PROVE t[i] \notin Outside(0, spread)
    <3>1. s[i] \in Int /\ lo <= s[i] /\ s[i] <= hi
      BY <1>1, <2>1 DEF Outside
    <3>2. t[i] \in 0 .. spread
      BY <1>2, <1>3, <3>1 DEF TwiceDeviation, Size
    <3> QED BY <3>2 DEF Outside
  <2> HIDE DEF spread, n
  <2>2. \A i \in 1 .. n : t[i] \in Outside(0, spread) => s[i] \in Outside(lo, hi)
    BY <2>1
  <2> QED BY <1>1, <2>2, HitsOfMore
<1>7. r \in Seq(Int) /\ Len(r) = n /\ Ascending(r)
      /\ Hits(r, n, Outside(0, spread)) = Hits(t, n, Outside(0, spread))
  <2> HIDE DEF spread
  <2> QED BY <1>4, SortedKeeps
<1> HIDE DEF r
<1>8. 2 * Hits(r, Len(r), Outside(0, spread)) < Len(r)
  <2>1. Hits(t, n, Outside(0, spread)) \in Nat /\ Hits(s, n, Outside(lo, hi)) \in Nat
    <3> HIDE DEF spread
    <3> QED BY <1>1, HitsFacts
  <2> QED BY <1>6, <1>7, <2>1
<1>9. TwiceMedian(r) \in 2 * 0 .. 2 * spread
  <2>1. 0 \in Int /\ spread \in Int
    OBVIOUS
  <2> HIDE DEF spread
  <2> QED BY <1>7, <1>8, <2>1, MedianIsInside
<1> QED BY <1>5, <1>9

\* The inliers are samples within the limit.
LEMMA InliersAreSamples ==
    ASSUME NEW s \in Seq(Int)
    PROVE  /\ Inliers(s) \in Seq(Int) /\ Len(Inliers(s)) <= Len(s)
           /\ \A k \in 1 .. Len(Inliers(s)) :
                  /\ WithinLimit(Inliers(s)[k], TwiceMedian(s), FourfoldMad(s))
                  /\ \E i \in 1 .. Len(s) : Inliers(s)[k] = s[i]
<1> DEFINE n == Len(s)
           median == TwiceMedian(s)
           mad == FourfoldMad(s)
           Kept(g) == g = [i \in 0 .. n |->
                              IF i = 0 THEN <<>>
                              ELSE IF WithinLimit(s[i], median, mad) THEN Append(g[i - 1], s[i])
                              ELSE g[i - 1]]
           kept == CHOOSE g : Kept(g)
           W == {x \in Int : WithinLimit(x, median, mad) /\ \E i \in 1 .. n : x = s[i]}
           h == [i \in 1 .. n |->
                    [r \in Seq(W) |-> IF WithinLimit(s[i], median, mad) THEN Append(r, s[i]) ELSE r]]
<1>1. n \in Nat /\ \A i \in 1 .. n : s[i] \in Int
  OBVIOUS
<1>2. Inliers(s) = kept[n]
  BY DEF Inliers
<1>n. n = Len(s)
  OBVIOUS
<1> HIDE DEF n, median, mad
<1>3. \A i \in 1 .. n : WithinLimit(s[i], median, mad) => s[i] \in W
  BY <1>1
<1>4. \A x \in W : x \in Int /\ WithinLimit(x, median, mad) /\ \E i \in 1 .. n : x = s[i]
  OBVIOUS
<1> HIDE DEF W
<1>5. h \in [1 .. n -> [Seq(W) -> Seq(W)]]
  <2> SUFFICES ASSUME NEW i \in 1 .. n, NEW r \in Seq(W)
               PROVE  (IF WithinLimit(s[i], median, mad) THEN Append(r, s[i]) ELSE r) \in Seq(W)
    OBVIOUS
  <2> QED BY <1>3
<1>6. \E f : Kept(f)
  <2>1. PICK f \in [0 .. n -> Seq(W)] :
            f[0] = <<>> /\ \A i \in 1 .. n : f[i] = h[i][f[i - 1]]
    <3>1. n \in Nat
      BY <1>1
    <3> DEFINE A == Seq(W)
               c == <<>>
    <3>2. c \in A /\ h \in [1 .. n -> [A -> A]]
      BY <1>5
    <3> HIDE DEF A, c, h
    <3>3. \E f \in [0 .. n -> A] : f[0] = c /\ \A i \in 1 .. n : f[i] = h[i][f[i - 1]]
      BY <3>1, <3>2, RecursiveFunction
    <3> QED BY <3>3 DEF A, c
  <2>2. \A i \in 1 .. n : h[i][f[i - 1]] = IF WithinLimit(s[i], median, mad)
                                           THEN Append(f[i - 1], s[i]) ELSE f[i - 1]
    <3> SUFFICES ASSUME NEW i \in 1 .. n
                 PROVE  h[i][f[i - 1]] = IF WithinLimit(s[i], median, mad)
                                         THEN Append(f[i - 1], s[i]) ELSE f[i - 1]
      OBVIOUS
    <3>1. f[i - 1] \in Seq(W)
      BY <1>1
    <3> QED BY <3>1
  <2> HIDE DEF h
  <2>3. \A i \in 0 .. n : f[i] = IF i = 0 THEN <<>>
                                 ELSE IF WithinLimit(s[i], median, mad) THEN Append(f[i - 1], s[i])
                                 ELSE f[i - 1]
    <3> SUFFICES ASSUME NEW i \in 0 .. n
                 PROVE  f[i] = IF i = 0 THEN <<>>
                               ELSE IF WithinLimit(s[i], median, mad) THEN Append(f[i - 1], s[i])
                               ELSE f[i - 1]
      OBVIOUS
    <3>1. CASE i = 0
      BY <2>1, <3>1
    <3>2. CASE i # 0
      <4>1. i \in 1 .. n
        BY <1>1, <3>2
      <4> QED BY <2>1, <2>2, <3>2, <4>1
    <3> QED BY <3>1, <3>2
  <2>4. Kept(f)
    BY <2>3
  <2> QED BY <2>4
<1>7. Kept(kept)
  <2> HIDE DEF Kept
  <2> QED BY <1>6
<1> HIDE DEF kept, h
<1>8. /\ kept[0] = <<>>
      /\ \A i \in 1 .. n : kept[i] = IF WithinLimit(s[i], median, mad)
                                     THEN Append(kept[i - 1], s[i]) ELSE kept[i - 1]
  <2>1. 0 \in 0 .. n /\ \A i \in 1 .. n : i \in 0 .. n /\ i # 0
    BY <1>1
  <2>2. \A i \in 0 .. n : kept[i] = IF i = 0 THEN <<>>
                                    ELSE IF WithinLimit(s[i], median, mad)
                                    THEN Append(kept[i - 1], s[i]) ELSE kept[i - 1]
    BY <1>7, Zenon
  <2> QED BY <2>1, <2>2
<1> HIDE DEF Kept
<1> DEFINE G == {i \in 0 .. n : kept[i] \in Seq(W) /\ Len(kept[i]) <= i}
<1>9. 0 \in G
  <2>1. kept[0] \in Seq(W) /\ Len(kept[0]) <= 0
    BY <1>8
  <2> QED BY <1>1, <2>1
<1>10. ASSUME NEW i \in 1 .. n, i - 1 \in G PROVE i \in G
  <2>1. kept[i - 1] \in Seq(W) /\ Len(kept[i - 1]) <= i - 1
    BY <1>10
  <2>2. CASE WithinLimit(s[i], median, mad)
    <3>1. kept[i] = Append(kept[i - 1], s[i]) /\ s[i] \in W
      BY <1>3, <1>8, <2>2
    <3>2. kept[i] \in Seq(W) /\ Len(kept[i]) = Len(kept[i - 1]) + 1
      BY <2>1, <3>1
    <3> QED BY <1>1, <2>1, <3>2
  <2>3. CASE ~WithinLimit(s[i], median, mad)
    <3>1. kept[i] = kept[i - 1]
      BY <1>8, <2>3
    <3>2. kept[i] \in Seq(W) /\ Len(kept[i]) <= i
      BY <1>1, <2>1, <3>1
    <3> QED BY <1>1, <3>2
  <2> QED BY <2>2, <2>3
<1>11. n \in G
  <2> HIDE DEF G
  <2>1. \A i \in 1 .. n : i - 1 \in G => i \in G
    BY <1>10
  <2>2. \A i \in 0 .. n : i \in G
    BY <1>1, <1>9, <2>1, UpTo
  <2> QED BY <1>1, <2>2
<1>12. kept[n] \in Seq(W) /\ Len(kept[n]) <= n
  BY <1>11
<1>13. \A k \in 1 .. Len(kept[n]) : kept[n][k] \in W
  BY <1>12
<1>14. kept[n] \in Seq(Int)
  BY <1>4, <1>12
<1> QED BY <1>2, <1>4, <1>12, <1>13, <1>14, <1>n DEF n, median, mad

-----------------------------------------------------------------------------
(***************************************************************************)
(* The trimmed mean                                                        *)
(***************************************************************************)
\* The sums that lead to the total.
LEMMA TotalIsSum ==
    ASSUME NEW s \in Seq(Int)
    PROVE  \E sum : /\ sum[0] = 0 /\ \A i \in 1 .. Len(s) : sum[i] = sum[i - 1] + s[i]
                   /\ Total(s) = sum[Len(s)]
<1> DEFINE n == Len(s)
           Sums(g) == g = [i \in 0 .. n |-> IF i = 0 THEN 0 ELSE g[i - 1] + s[i]]
           sum == CHOOSE g : Sums(g)
           h == [i \in 1 .. n |-> [r \in Int |-> r + s[i]]]
<1>1. n \in Nat /\ \A i \in 1 .. n : s[i] \in Int
  OBVIOUS
<1>2. Total(s) = sum[n]
  BY DEF Total
<1>n. n = Len(s)
  OBVIOUS
<1> HIDE DEF n
<1>5. h \in [1 .. n -> [Int -> Int]]
  BY <1>1
<1>6. \E f : Sums(f)
  <2>1. PICK f \in [0 .. n -> Int] :
            f[0] = 0 /\ \A i \in 1 .. n : f[i] = h[i][f[i - 1]]
    <3>1. n \in Nat
      BY <1>1
    <3> DEFINE A == Int
               c == 0
    <3>2. c \in A /\ h \in [1 .. n -> [A -> A]]
      BY <1>5
    <3> HIDE DEF A, c, h
    <3>3. \E f \in [0 .. n -> A] : f[0] = c /\ \A i \in 1 .. n : f[i] = h[i][f[i - 1]]
      BY <3>1, <3>2, RecursiveFunction
    <3> QED BY <3>3 DEF A, c
  <2>2. \A i \in 1 .. n : h[i][f[i - 1]] = f[i - 1] + s[i]
    BY <1>1
  <2> HIDE DEF h
  <2>3. \A i \in 0 .. n : f[i] = IF i = 0 THEN 0 ELSE f[i - 1] + s[i]
    <3> SUFFICES ASSUME NEW i \in 0 .. n
                 PROVE  f[i] = IF i = 0 THEN 0 ELSE f[i - 1] + s[i]
      OBVIOUS
    <3>1. CASE i = 0
      BY <2>1, <3>1
    <3>2. CASE i # 0
      <4>1. i \in 1 .. n
        BY <1>1, <3>2
      <4> QED BY <2>1, <2>2, <3>2, <4>1
    <3> QED BY <3>1, <3>2
  <2>4. Sums(f)
    BY <2>3
  <2> QED BY <2>4
<1>7. Sums(sum)
  <2> HIDE DEF Sums
  <2> QED BY <1>6
<1> HIDE DEF sum, h
<1>8. sum[0] = 0 /\ \A i \in 1 .. n : sum[i] = sum[i - 1] + s[i]
  <2>1. 0 \in 0 .. n /\ \A i \in 1 .. n : i \in 0 .. n /\ i # 0
    BY <1>1
  <2>2. \A i \in 0 .. n : sum[i] = IF i = 0 THEN 0 ELSE sum[i - 1] + s[i]
    BY <1>7, Zenon
  <2> QED BY <2>1, <2>2
<1> HIDE DEF Sums
<1> QED BY <1>2, <1>8, <1>n

\* The total of values between lo and hi.
LEMMA TotalBetween ==
    ASSUME NEW s \in Seq(Int), NEW lo \in Int, NEW hi \in Int,
           \A i \in 1 .. Len(s) : s[i] \in lo .. hi
    PROVE  /\ Total(s) \in Int
           /\ Len(s) * lo <= Total(s) /\ Total(s) <= Len(s) * hi
<1> DEFINE n == Len(s)
<1>1. n \in Nat /\ \A i \in 1 .. n : s[i] \in Int /\ lo <= s[i] /\ s[i] <= hi
  OBVIOUS
<1>8. PICK sum : /\ sum[0] = 0 /\ \A i \in 1 .. n : sum[i] = sum[i - 1] + s[i]
                 /\ Total(s) = sum[n]
  BY TotalIsSum
<1>n. n = Len(s)
  OBVIOUS
<1> HIDE DEF n
<1> DEFINE G == {i \in 0 .. n : sum[i] \in Int /\ i * lo <= sum[i] /\ sum[i] <= i * hi}
<1>9. 0 \in G
  BY <1>1, <1>8
<1>10. ASSUME NEW i \in 1 .. n, i - 1 \in G PROVE i \in G
  <2>1. sum[i - 1] \in Int /\ (i - 1) * lo <= sum[i - 1] /\ sum[i - 1] <= (i - 1) * hi
    BY <1>10
  <2>2. (i - 1) * lo + lo = i * lo /\ (i - 1) * hi + hi = i * hi
    OBVIOUS
  <2>3. (i - 1) * lo \in Int /\ (i - 1) * hi \in Int /\ i * lo \in Int /\ i * hi \in Int
    OBVIOUS
  <2>4. sum[i] = sum[i - 1] + s[i] /\ s[i] \in Int /\ lo <= s[i] /\ s[i] <= hi
    BY <1>1, <1>8
  <2>5. sum[i] \in Int /\ i * lo <= sum[i] /\ sum[i] <= i * hi
    BY <2>1, <2>2, <2>3, <2>4
  <2> QED BY <1>1, <2>5
<1>11. n \in G
  <2> HIDE DEF G
  <2>1. \A i \in 1 .. n : i - 1 \in G => i \in G
    BY <1>10
  <2>2. \A i \in 0 .. n : i \in G
    BY <1>1, <1>9, <2>1, UpTo
  <2> QED BY <1>1, <2>2
<1> QED BY <1>8, <1>11, <1>n

\* Something remains of inliers when both ends are trimmed.
LEMMA TrimmedIsPositive ==
    ASSUME NEW n \in Nat \ {0}
    PROVE  /\ n \div TRIM_SHARE \in Nat /\ Trimmed(n) \in 1 .. n
           /\ n \div TRIM_SHARE + Trimmed(n) = n - n \div TRIM_SHARE
<1> DEFINE q == n \div TRIM_SHARE
<1>1. TRIM_SHARE \in Nat /\ TRIM_SHARE >= 3
  BY RecordAssumption
<1>2. q \in Int /\ TRIM_SHARE * q <= n /\ n < TRIM_SHARE * (q + 1)
  BY <1>1
<1> HIDE DEF q
<1>3. q \in Nat
  <2> SUFFICES ASSUME q + 1 <= 0 PROVE FALSE
    BY <1>2
  <2>1. TRIM_SHARE * (q + 1) <= 0
    BY <1>1, <1>2
  <2> QED BY <1>1, <1>2, <2>1
<1>4. 3 * q <= TRIM_SHARE * q
  BY <1>1, <1>3
<1>5. 3 * q <= n
  BY <1>1, <1>2, <1>3, <1>4
<1> QED BY <1>3, <1>5 DEF Trimmed, q

\* The mean of what remains lies between the values it is taken of, rounded or not.
LEMMA TrimmedMeanBetween ==
    ASSUME NEW s \in Seq(Int), Len(s) > 0, NEW lo \in Int, NEW hi \in Int,
           \A i \in 1 .. Len(s) : s[i] \in lo .. hi
    PROVE  TrimmedMean(s) \in lo .. hi
<1> DEFINE n == Len(s)
           q == n \div TRIM_SHARE
           u == Trimmed(n)
           r == SubSeq(s, q + 1, n - q)
<1>1. n \in Nat \ {0} /\ \A i \in 1 .. n : s[i] \in lo .. hi
  OBVIOUS
<1>2. q \in Nat /\ u \in 1 .. n /\ q + u = n - q
  BY <1>1, TrimmedIsPositive
<1>3. TrimmedMean(s) = (2 * Total(r) + u) \div (2 * u)
  BY DEF TrimmedMean
<1>n. n = Len(s)
  OBVIOUS
<1> HIDE DEF q, u, n
<1>4. r \in Seq(Int) /\ Len(r) = u /\ \A i \in 1 .. u : r[i] = s[q + i]
  <2>1. q + 1 \in 1 .. n + 1 /\ n - q \in q .. n /\ n - q - (q + 1) + 1 = u
    BY <1>1, <1>2
  <2> QED BY <1>1, <1>2, <1>n, <2>1, SubSeqProperties
<1> HIDE DEF r
<1>5. \A i \in 1 .. u : r[i] \in lo .. hi
  <2>1. \A i \in 1 .. u : q + i \in 1 .. n
    BY <1>1, <1>2
  <2> QED BY <1>1, <1>4, <2>1
<1> DEFINE t == Total(r)
<1>6. t \in Int /\ u * lo <= t /\ t <= u * hi
  BY <1>4, <1>5, TotalBetween
<1> HIDE DEF t
<1> DEFINE m == (2 * t + u) \div (2 * u)
<1>7. u \in Int /\ u > 0
  BY <1>1, <1>2
<1>8. m \in Int /\ (2 * u) * m <= 2 * t + u /\ 2 * t + u < (2 * u) * (m + 1)
  <2> DEFINE v == 2 * t + u
             e == 2 * u
  <2>1. v \in Int /\ e \in Int /\ e > 0
    BY <1>6, <1>7
  <2> HIDE DEF v, e
  <2>2. v \div e \in Int /\ e * (v \div e) <= v /\ v < e * (v \div e + 1)
    BY <2>1
  <2> QED BY <2>2 DEF v, e
<1>9. m \in lo .. hi
  <2> HIDE DEF m
  <2> DEFINE a == u * lo
             b == u * hi
             c == u * m
  <2>1. a \in Int /\ b \in Int /\ c \in Int
    BY <1>7, <1>8
  <2>2. (2 * u) * m = 2 * c /\ (2 * u) * (m + 1) = 2 * c + 2 * u
    BY <1>7, <1>8
  <2>3. 2 * c <= 2 * b + u /\ 2 * a + u < 2 * c + 2 * u
    <3> HIDE DEF a, b, c
    <3>1. a <= t /\ t <= b
      BY <1>6 DEF a, b
    <3> QED BY <1>6, <1>7, <1>8, <2>1, <2>2, <3>1
  <2>4. ~(m < lo)
    <3> SUFFICES ASSUME m + 1 <= lo PROVE FALSE
      BY <1>8
    <3>1. u * (m + 1) <= u * lo
      BY <1>7, <1>8
    <3>2. c + u <= a
      BY <1>7, <1>8, <3>1
    <3> HIDE DEF a, b, c
    <3> QED BY <1>7, <2>1, <2>3, <3>2
  <2>5. ~(m > hi)
    <3> SUFFICES ASSUME hi + 1 <= m PROVE FALSE
      BY <1>8
    <3>1. u * (hi + 1) <= u * m
      BY <1>7, <1>8
    <3>2. b + u <= c
      BY <1>7, <1>8, <3>1
    <3> HIDE DEF a, b, c
    <3> QED BY <1>7, <2>1, <2>3, <3>2
  <2> QED BY <1>8, <2>4, <2>5
<1> QED BY <1>3, <1>9 DEF t

-----------------------------------------------------------------------------
(***************************************************************************)
(* The result of the filter                                                *)
(***************************************************************************)
\* What finalizeA02YYUWMeasurement makes of samples, case by case.
LEMMA FinalizedFacts ==
    ASSUME NEW s \in Seq(Int), NEW errs, NEW b
    PROVE  LET r == Finalized(s, errs, b)
               inliers == Inliers(s)
           IN  /\ Len(s) < A02YYUW_MIN_VALID_SAMPLES => r = NoMeasurement
               /\ r.valid \in BOOLEAN /\ (r.valid <=> r.quality # "INVALID")
               /\ Len(s) >= A02YYUW_MIN_VALID_SAMPLES =>
                      r.fourfoldMad = FourfoldMad(s) /\ r.outliers = Len(s) - Len(inliers)
               /\ r.valid => /\ Len(s) >= A02YYUW_MIN_VALID_SAMPLES
                             /\ Len(inliers) >= A02YYUW_MIN_VALID_SAMPLES
                             /\ r.distance = TrimmedMean(inliers)
                             /\ r.used = Trimmed(Len(inliers))
<1> DEFINE r == Finalized(s, errs, b)
           inliers == Inliers(s)
           mad == FourfoldMad(s)
           judged == [NoMeasurement EXCEPT !.outliers = Len(s) - Len(inliers), !.fourfoldMad = mad]
           quality == Quality(s, inliers, errs, b)
           found == [judged EXCEPT !.valid = TRUE, !.quality = quality,
                                   !.distance = TrimmedMean(inliers), !.used = Trimmed(Len(inliers))]
<1>1. A02YYUW_MIN_VALID_SAMPLES \in Nat /\ Len(s) \in Nat
  BY FilterAssumption
<1>2. Len(inliers) \in Nat
  BY InliersAreSamples
<1>3. r = IF Len(s) < A02YYUW_MIN_VALID_SAMPLES THEN NoMeasurement
          ELSE IF Len(inliers) < A02YYUW_MIN_VALID_SAMPLES THEN judged ELSE found
  BY DEF Finalized
<1>4. quality \in {"GOOD", "POOR"}
  BY DEF Quality
<1> HIDE DEF quality, mad, inliers
<1>5. /\ judged.outliers = Len(s) - Len(inliers) /\ judged.fourfoldMad = mad
      /\ judged.valid = FALSE /\ judged.quality = "INVALID"
  BY DEF NoMeasurement
<1>6. /\ found.outliers = Len(s) - Len(inliers) /\ found.fourfoldMad = mad
      /\ found.valid = TRUE /\ found.quality = quality
      /\ found.distance = TrimmedMean(inliers) /\ found.used = Trimmed(Len(inliers))
  BY DEF NoMeasurement
<1>7. NoMeasurement.valid = FALSE /\ NoMeasurement.quality = "INVALID"
  BY DEF NoMeasurement
<1> HIDE DEF judged, found, r
<1>8. CASE Len(s) < A02YYUW_MIN_VALID_SAMPLES
  <2>1. r = NoMeasurement /\ ~(Len(s) >= A02YYUW_MIN_VALID_SAMPLES)
    BY <1>1, <1>3, <1>8
  <2> QED BY <1>7, <2>1 DEF r
<1>9. CASE Len(s) >= A02YYUW_MIN_VALID_SAMPLES
  <2>0. ~(Len(s) < A02YYUW_MIN_VALID_SAMPLES)
    BY <1>1, <1>9
  <2>1. CASE Len(inliers) < A02YYUW_MIN_VALID_SAMPLES
    <3>1. r = judged
      BY <1>3, <2>0, <2>1
    <3> QED BY <1>5, <2>0, <3>1 DEF r, inliers, mad
  <2>2. CASE Len(inliers) >= A02YYUW_MIN_VALID_SAMPLES
    <3>1. r = found
      BY <1>1, <1>2, <1>3, <2>0, <2>2
    <3> QED BY <1>4, <1>6, <1>9, <2>0, <2>2, <3>1 DEF r, inliers, mad
  <2> QED BY <1>1, <1>2, <2>1, <2>2
<1> QED BY <1>1, <1>8, <1>9

\* The MAD of samples is no less than 0.
LEMMA MadIsNotNegative ==
    ASSUME NEW s \in Seq(Int), Ascending(s), Len(s) > 0, NEW lo \in Int, NEW hi \in Int, lo <= hi,
           \A i \in 1 .. Len(s) : s[i] \in Int /\ lo <= s[i] /\ s[i] <= hi
    PROVE  FourfoldMad(s) >= 0
<1>1. Len(s) \in Nat
  OBVIOUS
<1>2. \A i \in 1 .. Len(s) : s[i] \notin Outside(lo, hi)
  BY DEF Outside
<1>3. Hits(s, Len(s), Outside(lo, hi)) = 0
  BY <1>1, <1>2, HitsNone
<1>4. 2 * Hits(s, Len(s), Outside(lo, hi)) < Len(s)
  BY <1>1, <1>3
<1>5. FourfoldMad(s) \in 0 .. 4 * (hi - lo)
  BY <1>4, MadWithinSpread
<1> DEFINE mad == FourfoldMad(s)
           top == 4 * (hi - lo)
<1>6. mad \in 0 .. top /\ top \in Int
  BY <1>5
<1> HIDE DEF mad, top
<1>7. mad >= 0
  BY <1>6
<1> QED BY <1>7 DEF mad

\* The margin that the outlier limit leaves around values that are spread so far.
Margin(w, lo, hi) == w >= 20 /\ 10000 * w > 44478 * (hi - lo) - 10000

\* What is not farther from the median than the outlier limit, when the median and the MAD are
\* those of samples that mostly lie between lo and hi.
LEMMA InlierIsNear ==
    ASSUME NEW lo \in Int, NEW hi \in Int, lo <= hi, NEW x \in Int,
           NEW median \in Int, 2 * lo <= median, median <= 2 * hi,
           NEW mad \in Int, mad <= 4 * (hi - lo),
           WithinLimit(x, median, mad),
           NEW w \in Int, Margin(w, lo, hi)
    PROVE  lo - w <= x /\ x <= hi + w
<1> DEFINE dev == TwiceDeviation(x, median)
<1>1. median \in Int /\ mad \in Int /\ 2 * lo <= median /\ median <= 2 * hi /\ mad <= 4 * (hi - lo)
  OBVIOUS
<1>2. dev \in Int /\ dev >= 2 * x - median /\ dev >= median - 2 * x
  BY <1>1 DEF TwiceDeviation, Size
<1>3. dev <= 40 \/ 20000 * dev <= 44478 * mad
  BY DEF WithinLimit, A02YYUW_MIN_OUTLIER_LIMIT_MM
<1> HIDE DEF dev
<1>7. w >= 20 /\ 10000 * w > 44478 * (hi - lo) - 10000
  BY DEF Margin
<1>4. 2 * (x - hi) <= dev /\ 2 * (lo - x) <= dev
  BY <1>1, <1>2
<1>5. CASE dev <= 40
  BY <1>2, <1>4, <1>5, <1>7
<1>6. CASE 20000 * dev <= 44478 * mad
  <2>1. 20000 * dev <= 177912 * (hi - lo)
    BY <1>1, <1>2, <1>6
  <2>2. 40000 * (x - hi) <= 177912 * (hi - lo) /\ 40000 * (lo - x) <= 177912 * (hi - lo)
    BY <1>2, <1>4, <2>1
  <2>3. 10000 * (x - hi) < 10000 * w + 10000 /\ 10000 * (lo - x) < 10000 * w + 10000
    BY <1>7, <2>2
  <2> QED BY <2>3
<1> QED BY <1>3, <1>5, <1>6

\* The distance of a window most of whose samples lie between lo and hi.
LEMMA FinalizedDistance ==
    ASSUME NEW s \in Seq(Int), Ascending(s), NEW lo \in Int, NEW hi \in Int, lo <= hi,
           2 * Hits(s, Len(s), Outside(lo, hi)) < Len(s),
           NEW errs, NEW b, Finalized(s, errs, b).valid
    PROVE  LET d == Finalized(s, errs, b).distance
           IN  \/ InRange(d, lo - 20, hi + 20)
               \/ /\ 10000 * (d - hi) <= 44478 * (hi - lo)
                  /\ 10000 * (lo - d) <= 44478 * (hi - lo)
<1> DEFINE inliers == Inliers(s)
           d == TrimmedMean(inliers)
           spread == hi - lo
           limit == (44478 * spread) \div 10000
           w == IF limit < 20 THEN 20 ELSE limit
<1>1. Finalized(s, errs, b).distance = d /\ Len(inliers) >= A02YYUW_MIN_VALID_SAMPLES
  BY FinalizedFacts
<1>2. /\ inliers \in Seq(Int) /\ Len(inliers) \in Nat
      /\ \A k \in 1 .. Len(inliers) : WithinLimit(inliers[k], TwiceMedian(s), FourfoldMad(s))
  BY InliersAreSamples
<1>3. Len(inliers) > 0
  BY <1>1, <1>2, FilterAssumption
<1>4. TwiceMedian(s) \in 2 * lo .. 2 * hi
  BY MedianIsInside
<1>5. FourfoldMad(s) \in 0 .. 4 * (hi - lo)
  BY MadWithinSpread
<1>6. /\ spread \in Int /\ limit \in Int /\ w \in Int /\ w >= 20
      /\ 10000 * limit <= 44478 * spread /\ 44478 * spread < 10000 * limit + 10000
      /\ limit <= w /\ (w = 20 \/ w = limit)
  OBVIOUS
<1>7. w \in Int /\ Margin(w, lo, hi)
  <2> HIDE DEF limit, w
  <2> QED BY <1>6 DEF Margin
<1> HIDE DEF inliers, limit, w
<1>8. \A k \in 1 .. Len(inliers) : inliers[k] \in Int
  BY <1>2, ElementOfSeq
<1>9. \A k \in 1 .. Len(inliers) : lo - w <= inliers[k] /\ inliers[k] <= hi + w
  <2> DEFINE median == TwiceMedian(s)
             mad == FourfoldMad(s)
  <2>1. /\ median \in 2 * lo .. 2 * hi
        /\ mad \in 0 .. 4 * (hi - lo)
        /\ \A k \in 1 .. Len(inliers) : WithinLimit(inliers[k], median, mad)
    BY <1>2, <1>4, <1>5
  <2> HIDE DEF median, mad
  <2>2. /\ median \in Int /\ 2 * lo <= median /\ median <= 2 * hi
        /\ mad \in Int /\ mad <= 4 * (hi - lo)
    BY <2>1
  <2>3. \A x \in Int : WithinLimit(x, median, mad) => lo - w <= x /\ x <= hi + w
    <3> SUFFICES ASSUME NEW x \in Int, WithinLimit(x, median, mad)
                 PROVE  lo - w <= x /\ x <= hi + w
      OBVIOUS
    <3> QED BY <1>7, <2>2, InlierIsNear
  <2> QED BY <1>8, <2>1, <2>3
<1>10. lo - w \in Int /\ hi + w \in Int
  BY <1>7
<1>11. d \in lo - w .. hi + w
  <2> DEFINE e == lo - w
             f == hi + w
  <2>1. e \in Int /\ f \in Int
    BY <1>10
  <2>2. \A k \in 1 .. Len(inliers) : e <= inliers[k] /\ inliers[k] <= f
    BY <1>9
  <2> HIDE DEF e, f
  <2>3. \A k \in 1 .. Len(inliers) : inliers[k] \in e .. f
    BY <1>8, <2>1, <2>2
  <2>4. d \in e .. f
    BY <1>2, <1>3, <2>1, <2>3, TrimmedMeanBetween
  <2> QED BY <2>4 DEF e, f
<1> HIDE DEF d
<1>12. d \in Int /\ lo - w <= d /\ d <= hi + w
  BY <1>10, <1>11
<1>13. CASE w = 20
  BY <1>1, <1>12, <1>13 DEF InRange
<1>14. CASE w = limit
  <2>1. 10000 * (d - hi) <= 10000 * limit /\ 10000 * (lo - d) <= 10000 * limit
    BY <1>6, <1>12, <1>14
  <2>2. 10000 * (d - hi) <= 44478 * spread /\ 10000 * (lo - d) <= 44478 * spread
    BY <1>6, <1>12, <2>1
  <2> QED BY <1>1, <2>2
<1> QED BY <1>6, <1>13, <1>14
-----------------------------------------------------------------------------
(***************************************************************************)
(* Bytes in step with the stream                                           *)
(***************************************************************************)
\* Byte k of the stream, counted from the header of the frame that is being sent.
StreamByte(previous, distance, k) ==
    IF k >= 0 THEN FrameByte(distance, k) ELSE FrameByte(previous, 4 + k)

\* The bytes are the last of the stream, of which the frame being sent has come to a position.
Streamed(bytes, previous, distance, position) ==
    \A k \in 1 .. Len(bytes) :
        bytes[k] = StreamByte(previous, distance, position - Len(bytes) + k - 1)

\* With the next byte of the sensor, bytes in step remain in step, into the next frame.
LEMMA StreamedOn ==
    ASSUME NEW bytes \in Seq(Byte), Len(bytes) < 3, NEW previous, NEW distance, NEW p \in 0 .. 3,
           NEW d, p # 0 => d = distance, Streamed(bytes, previous, distance, p)
    PROVE  /\ p < 3 => Streamed(Append(bytes, FrameByte(d, p)), previous, d, p + 1)
           /\ p = 3 => \A e : Streamed(Append(bytes, FrameByte(d, p)), d, e, 0)
<1> DEFINE n == Len(bytes)
           byte == FrameByte(d, p)
           a == Append(bytes, byte)
<1>1. n \in Nat /\ n < 3 /\ p \in 0 .. 3
  OBVIOUS
<1>2. Len(a) = n + 1 /\ (\A k \in 1 .. n : a[k] = bytes[k]) /\ a[n + 1] = byte
  OBVIOUS
<1>3. \A k \in 1 .. n : bytes[k] = StreamByte(previous, distance, p - n + k - 1)
  BY DEF Streamed
<1> HIDE DEF n, a
<1>4. ASSUME p < 3 PROVE Streamed(a, previous, d, p + 1)
  <2> SUFFICES ASSUME NEW k \in 1 .. n + 1 PROVE a[k] = StreamByte(previous, d, (p + 1) - (n + 1) + k - 1)
    BY <1>2 DEF Streamed
  <2>1. (p + 1) - (n + 1) + k - 1 = p - n + k - 1
    BY <1>1
  <2>2. CASE k = n + 1
    <3>1. p - n + k - 1 = p
      BY <1>1, <2>2
    <3> QED BY <1>1, <1>2, <2>1, <2>2, <3>1 DEF StreamByte
  <2>3. CASE k # n + 1
    <3>1. k \in 1 .. n
      BY <1>1, <2>3
    <3>2. a[k] = StreamByte(previous, distance, p - n + k - 1)
      BY <1>2, <1>3, <3>1
    <3>3. p = 0 => ~(p - n + k - 1 >= 0)
      BY <1>1, <3>1
    <3> QED BY <2>1, <3>2, <3>3 DEF StreamByte
  <2> QED BY <2>2, <2>3
<1>5. ASSUME p = 3, NEW e PROVE Streamed(a, d, e, 0)
  <2> SUFFICES ASSUME NEW k \in 1 .. n + 1 PROVE a[k] = StreamByte(d, e, 0 - (n + 1) + k - 1)
    BY <1>2 DEF Streamed
  <2>1. ~(0 - (n + 1) + k - 1 >= 0) /\ 4 + (0 - (n + 1) + k - 1) = p - n + k - 1
    BY <1>1, <1>5
  <2>2. p - n + k - 1 >= 0
    BY <1>1, <1>5
  <2>3. StreamByte(d, e, 0 - (n + 1) + k - 1) = FrameByte(d, p - n + k - 1)
    BY <2>1 DEF StreamByte
  <2>4. CASE k = n + 1
    <3>1. p - n + k - 1 = p
      BY <1>1, <2>4
    <3> QED BY <1>2, <2>3, <2>4, <3>1
  <2>5. CASE k # n + 1
    <3>1. k \in 1 .. n
      BY <1>1, <2>5
    <3>2. a[k] = StreamByte(previous, distance, p - n + k - 1)
      BY <1>2, <1>3, <3>1
    <3> QED BY <1>5, <2>2, <2>3, <3>2 DEF StreamByte
  <2> QED BY <2>4, <2>5
<1> QED BY <1>4, <1>5 DEF a

\* A byte is a number from 0 to 255.
LEMMA ByteIsNumber == \A x \in Byte : x \in Int /\ 0 <= x /\ x <= 255
  BY DEF Byte

\* What a byte leaves of those before it.
LEMMA AppendedByte ==
    ASSUME NEW bytes \in Seq(Byte), NEW byte \in Byte
    PROVE  /\ \A k \in 1 .. Len(bytes) : Append(bytes, byte)[k] = bytes[k]
           /\ Append(bytes, byte)[Len(bytes) + 1] = byte
  OBVIOUS

\* Bytes that begin as a frame does.
HasHeader(bytes) == bytes[1] = 255

\* Four bytes of the stream that the parser accepts report one of the distances that they are
\* taken from, or one between them.
LEMMA StreamedIsBetween ==
    ASSUME NEW bytes \in Seq(Byte), Len(bytes) = 3, HasHeader(bytes),
           NEW previous \in SensorRange, NEW distance, NEW p \in 0 .. 3,
           NEW d \in SensorRange, p # 0 => d = distance, Streamed(bytes, previous, distance, p),
           Verdict(Append(bytes, FrameByte(d, p))) = "VALID"
    PROVE  LET x == DistanceOf(Append(bytes, FrameByte(d, p)))
           IN  x = d \/ (d <= x /\ x <= previous)
<1> DEFINE a == Append(bytes, FrameByte(d, p))
<1>1. (\A k \in 1 .. 3 : a[k] = bytes[k] /\ a[k] \in Byte) /\ a[4] = FrameByte(d, p)
  <2>1. FrameByte(d, p) \in Byte
    BY FrameByteIsByte
  <2> DEFINE byte == FrameByte(d, p)
  <2>2. byte \in Byte
    BY <2>1
  <2> HIDE DEF byte
  <2>3. /\ \A k \in 1 .. Len(bytes) : Append(bytes, byte)[k] = bytes[k]
        /\ Append(bytes, byte)[Len(bytes) + 1] = byte
    BY <2>2, AppendedByte
  <2>4. \A k \in 1 .. Len(bytes) : bytes[k] \in Byte
    BY ElementOfSeq
  <2>5. Len(bytes) + 1 = 4 /\ 1 .. Len(bytes) = 1 .. 3
    OBVIOUS
  <2> QED BY <2>3, <2>4, <2>5 DEF byte
<1>2. \A k \in 1 .. 3 : bytes[k] = StreamByte(previous, distance, p - 3 + k - 1)
  BY DEF Streamed
<1>3. a[1] = 255 /\ Verdict(a) = "VALID"
  <2>1. a[1] = bytes[1]
    BY <1>1
  <2> QED BY <2>1 DEF HasHeader
<1> HIDE DEF a
<1>4. CASE p = 3
  <2>1. \A k \in 1 .. 4 : a[k] = FrameByte(d, k - 1)
    <3>1. a[4] = FrameByte(d, 3)
      BY <1>1, <1>4
    <3>2. ASSUME NEW k \in 1 .. 3 PROVE a[k] = FrameByte(d, k - 1)
      <4>1. p - 3 + k - 1 = k - 1 /\ k - 1 >= 0
        BY <1>4
      <4> QED BY <1>1, <1>2, <1>4, <4>1 DEF StreamByte
    <3> QED BY <3>1, <3>2
  <2> DEFINE q == 0
  <2>2. \A k \in 1 .. 4 : a[k] = IF q + k <= 4 THEN FrameByte(d, q + k - 1) ELSE FrameByte(d, q + k - 5)
    BY <2>1
  <2>3. q \in 0 .. 3
    OBVIOUS
  <2> HIDE DEF q
  <2>4. DistanceOf(a) = d \/ (d <= DistanceOf(a) /\ DistanceOf(a) <= d)
    BY <1>3, <2>2, <2>3, AcceptedIsBetween
  <2>5. DistanceOf(a) = d
    <3>1. DistanceOf(a) \in Int
      <4>1. a[2] \in Byte /\ a[3] \in Byte
        BY <1>1
      <4>2. a[2] \in Int /\ a[3] \in Int
        BY <4>1, ByteIsNumber
      <4> QED BY <4>2 DEF DistanceOf
    <3> QED BY <2>4, <3>1 DEF SensorRange
  <2> QED BY <2>5 DEF a
<1>5. CASE p < 3
  <2> DEFINE q == p + 1
  <2>1. q \in 0 .. 3 /\ q # 0
    BY <1>5
  <2>2. ASSUME NEW k \in 1 .. 4
        PROVE  a[k] = IF q + k <= 4 THEN FrameByte(previous, q + k - 1) ELSE FrameByte(d, q + k - 5)
    <3>1. CASE k = 4
      <4>1. ~(q + k <= 4) /\ q + k - 5 = p
        BY <3>1
      <4> QED BY <1>1, <3>1, <4>1
    <3>2. CASE k # 4
      <4>1. k \in 1 .. 3
        BY <3>2
      <4>2. a[k] = StreamByte(previous, distance, p - 3 + k - 1)
        BY <1>1, <1>2, <4>1
      <4>3. CASE q + k <= 4
        <5>1. ~(p - 3 + k - 1 >= 0) /\ 4 + (p - 3 + k - 1) = q + k - 1
          BY <4>3
        <5> QED BY <4>2, <4>3, <5>1 DEF StreamByte
      <4>4. CASE ~(q + k <= 4)
        <5>1. p - 3 + k - 1 >= 0 /\ p - 3 + k - 1 = q + k - 5 /\ p # 0
          BY <4>1, <4>4
        <5> QED BY <4>2, <4>4, <5>1 DEF StreamByte
      <4> QED BY <4>3, <4>4
    <3> QED BY <3>1, <3>2
  <2> HIDE DEF q
  <2>3. d <= DistanceOf(a) /\ DistanceOf(a) <= previous
    BY <1>3, <2>1, <2>2, AcceptedIsBetween
  <2> QED BY <2>3 DEF a
<1> QED BY <1>4, <1>5

-----------------------------------------------------------------------------
(***************************************************************************)
(* The samples                                                             *)
(***************************************************************************)
\* A round of the sort yields the key or values that were there.
LEMMA InsertedHolds ==
    ASSUME NEW s \in Seq(Int), NEW x \in Int, NEW i \in 1 .. Len(s) + 1
    PROVE  Inserted(s, x)[i] = x \/ \E k \in 1 .. Len(s) : Inserted(s, x)[i] = s[k]
<1> DEFINE n == Len(s)
           t == Inserted(s, x)
<1>1. PICK j \in 0 .. n :
          /\ j = 0 \/ s[j] <= x
          /\ \A k \in j + 1 .. n : s[k] > x
          /\ t \in Seq(Int) /\ Len(t) = n + 1
          /\ \A k \in 1 .. j : t[k] = s[k]
          /\ t[j + 1] = x
          /\ \A k \in j + 2 .. n + 1 : t[k] = s[k - 1]
  BY InsertedAt
<1>2. n \in Nat /\ i \in 1 .. n + 1
  OBVIOUS
<1> HIDE DEF n, t
<1>3. CASE i <= j
  <2>1. i \in 1 .. j /\ i \in 1 .. n
    BY <1>2, <1>3
  <2> QED BY <1>1, <2>1 DEF n, t
<1>4. CASE i = j + 1
  BY <1>1, <1>4 DEF t
<1>5. CASE i > j + 1
  <2>1. i \in j + 2 .. n + 1 /\ i - 1 \in 1 .. n
    BY <1>2, <1>5
  <2> QED BY <1>1, <2>1 DEF n, t
<1> QED BY <1>2, <1>3, <1>4, <1>5

\* The distances that readA02YYUWFrame() accepts.
Measurable == 30 .. 4500   \* of a frame in range

\* A measurable distance is a number from 30 to 4500.
LEMMA MeasurableIsNumber == \A x \in Measurable : x \in Int /\ 30 <= x /\ x <= 4500
  BY DEF Measurable

\* The frame and the samples.
SamplesInv ==
    /\ frame \in Seq(Byte) /\ Len(frame) < 4
    /\ frame # <<>> => HasHeader(frame)
    /\ discarded \in 0 .. A02YYUW_DISCARD_SAMPLES
    /\ samples \in Seq(Int) /\ Len(samples) <= A02YYUW_SAMPLE_CAPACITY /\ Ascending(samples)
    /\ \A i \in 1 .. Len(samples) : samples[i] \in Measurable
    /\ full => Len(samples) = A02YYUW_SAMPLE_CAPACITY
    /\ phase \in {"idle", "warming"} => samples = <<>> /\ frame = <<>>

\* What passes for a valid frame reports a measurable distance.
LEMMA VerdictValid ==
    ASSUME NEW b, b[2] \in Byte, b[3] \in Byte, Verdict(b) = "VALID"
    PROVE  DistanceOf(b) \in Measurable
<1>1. 30 <= DistanceOf(b) /\ DistanceOf(b) <= 4500
  BY DEF Verdict
<1>2. DistanceOf(b) \in Int
  BY ByteIsNumber DEF DistanceOf
<1> DEFINE d == DistanceOf(b)
<1>3. d \in Int /\ 30 <= d /\ d <= 4500
  BY <1>1, <1>2
<1> HIDE DEF d
<1>4. d \in Measurable
  BY <1>3 DEF Measurable
<1> QED BY <1>4 DEF d

\* What one byte does to the frame and the samples.
LEMMA ReceiveSamples ==
    ASSUME NEW byte \in Byte, SamplesInv, Receive(byte)
    PROVE  /\ \/ frame' = <<>>
              \/ frame' = Append(frame, byte) /\ Len(frame) < 3 /\ (frame = <<>> => byte = 255)
           /\ \/ samples' = samples /\ (full' => full \/ Len(samples) = A02YYUW_SAMPLE_CAPACITY)
              \/ /\ Len(frame) = 3 /\ frame' = <<>> /\ Verdict(Append(frame, byte)) = "VALID"
                 /\ samples' = Inserted(samples, DistanceOf(Append(frame, byte)))
                 /\ Len(samples) < A02YYUW_SAMPLE_CAPACITY /\ full' = full
           /\ discarded' \in 0 .. A02YYUW_DISCARD_SAMPLES
<1> DEFINE a == Append(frame, byte)
<1>0. A02YYUW_DISCARD_SAMPLES \in Nat /\ A02YYUW_SAMPLE_CAPACITY \in Nat
  BY AcquisitionAssumption
<1>f. frame \in Seq(Byte) /\ Len(frame) < 4 /\ Len(frame) \in Nat
  BY DEF SamplesInv
<1>s. /\ discarded \in 0 .. A02YYUW_DISCARD_SAMPLES
      /\ Len(samples) <= A02YYUW_SAMPLE_CAPACITY /\ Len(samples) \in Nat
  BY DEF SamplesInv
<1>1. CASE frame = <<>> /\ byte # 255
  <2>1. Fed(frame, byte) = <<>>
    BY <1>1 DEF Fed
  <2>2. frame' = <<>> /\ UNCHANGED window
    BY <2>1 DEF Receive
  <2> QED BY <1>s, <2>2 DEF window
<1>2. CASE ~(frame = <<>> /\ byte # 255)
  <2>1. Fed(frame, byte) = a
    BY <1>2 DEF Fed
  <2>2. a \in Seq(Byte) /\ Len(a) = Len(frame) + 1
    BY <1>f, AppendProperties
  <2> HIDE DEF a
  <2>3. CASE Len(frame) < 3
    <3>1. frame' = a /\ UNCHANGED window
      BY <1>f, <2>1, <2>2, <2>3 DEF Receive
    <3>2. frame = <<>> => byte = 255
      BY <1>2
    <3> QED BY <1>s, <2>3, <3>1, <3>2 DEF window, a
  <2>4. CASE Len(frame) = 3
    <3>1. ~(Len(a) < 4)
      BY <2>2, <2>4
    <3>2. /\ frame' = <<>>
          /\ \/ Discard(Verdict(a))
             \/ Verdict(a) = "VALID" /\ Sample(DistanceOf(a))
             \/ Verdict(a) # "VALID" /\ CountError(Verdict(a))
      BY <2>1, <3>1 DEF Receive
    <3>3. CASE Discard(Verdict(a))
      <4>1. samples' = samples /\ full' = full /\ discarded' \in 0 .. A02YYUW_DISCARD_SAMPLES
        BY <1>0, <1>s, <3>3 DEF Discard
      <4> QED BY <3>2, <4>1
    <3>4. CASE Verdict(a) = "VALID" /\ Sample(DistanceOf(a))
      <4>1. CASE Len(samples) < A02YYUW_SAMPLE_CAPACITY
        <5>1. samples' = Inserted(samples, DistanceOf(a)) /\ full' = full /\ discarded' = discarded
          BY <3>4, <4>1 DEF Sample
        <5> QED BY <1>s, <2>4, <3>2, <3>4, <4>1, <5>1 DEF a
      <4>2. CASE ~(Len(samples) < A02YYUW_SAMPLE_CAPACITY)
        <5>1. samples' = samples /\ discarded' = discarded
          BY <3>4, <4>2 DEF Sample
        <5>2. Len(samples) = A02YYUW_SAMPLE_CAPACITY
          BY <1>0, <1>s, <4>2
        <5> QED BY <1>s, <3>2, <5>1, <5>2
      <4> QED BY <4>1, <4>2
    <3>5. CASE CountError(Verdict(a))
      BY <1>s, <3>2, <3>5 DEF CountError
    <3> QED BY <3>2, <3>3, <3>4, <3>5
  <2> DEFINE n == Len(frame)
  <2>6. n \in Nat /\ n < 4
    BY <1>f
  <2> HIDE DEF n
  <2>7. n < 3 \/ n = 3
    BY <2>6
  <2>5. Len(frame) < 3 \/ Len(frame) = 3
    BY <2>7 DEF n
  <2> QED BY <2>3, <2>4, <2>5
<1> QED BY <1>1, <1>2

\* One more sample, where the sort puts it.
LEMMA OneMoreSample ==
    ASSUME NEW s \in Seq(Int), Ascending(s), \A i \in 1 .. Len(s) : s[i] \in Measurable,
           NEW x \in Measurable
    PROVE  /\ Inserted(s, x) \in Seq(Int) /\ Len(Inserted(s, x)) = Len(s) + 1
           /\ Ascending(Inserted(s, x))
           /\ \A i \in 1 .. Len(Inserted(s, x)) : Inserted(s, x)[i] \in Measurable
<1>1. x \in Int
  BY DEF Measurable
<1>2. /\ Inserted(s, x) \in Seq(Int) /\ Len(Inserted(s, x)) = Len(s) + 1
      /\ Ascending(Inserted(s, x))
  BY <1>1, InsertedKeeps
<1>3. ASSUME NEW i \in 1 .. Len(s) + 1 PROVE Inserted(s, x)[i] \in Measurable
  <2>1. Inserted(s, x)[i] = x \/ \E k \in 1 .. Len(s) : Inserted(s, x)[i] = s[k]
    BY <1>1, InsertedHolds
  <2> QED BY <2>1
<1> QED BY <1>2, <1>3

\* A byte, whatever it is, keeps the frame and the samples as they should be.
LEMMA ReceiveKeepsSamples ==
    ASSUME NEW byte \in Byte, SamplesInv, Receive(byte), phase' = "collecting"
    PROVE  SamplesInv'
<1>1. /\ \/ frame' = <<>>
         \/ frame' = Append(frame, byte) /\ Len(frame) < 3 /\ (frame = <<>> => byte = 255)
      /\ \/ samples' = samples /\ (full' => full \/ Len(samples) = A02YYUW_SAMPLE_CAPACITY)
         \/ /\ Len(frame) = 3 /\ frame' = <<>> /\ Verdict(Append(frame, byte)) = "VALID"
            /\ samples' = Inserted(samples, DistanceOf(Append(frame, byte)))
            /\ Len(samples) < A02YYUW_SAMPLE_CAPACITY /\ full' = full
      /\ discarded' \in 0 .. A02YYUW_DISCARD_SAMPLES
  BY ReceiveSamples
<1>2. /\ frame \in Seq(Byte) /\ Len(frame) < 4 /\ (frame # <<>> => HasHeader(frame))
      /\ samples \in Seq(Int) /\ Len(samples) <= A02YYUW_SAMPLE_CAPACITY /\ Ascending(samples)
      /\ \A i \in 1 .. Len(samples) : samples[i] \in Measurable
      /\ full => Len(samples) = A02YYUW_SAMPLE_CAPACITY
  BY DEF SamplesInv
<1>3. A02YYUW_SAMPLE_CAPACITY \in Nat
  BY AcquisitionAssumption
<1>4. frame' \in Seq(Byte) /\ Len(frame') < 4 /\ (frame' # <<>> => HasHeader(frame'))
  <2>1. CASE frame' = <<>>
    BY <2>1
  <2>2. CASE frame' = Append(frame, byte) /\ Len(frame) < 3 /\ (frame = <<>> => byte = 255)
    <3>1. /\ Append(frame, byte) \in Seq(Byte) /\ Len(Append(frame, byte)) = Len(frame) + 1
          /\ Len(frame) \in Nat
      BY <1>2, AppendProperties
    <3>2. HasHeader(Append(frame, byte))
      <4>1. CASE frame = <<>>
        <5>1. Append(frame, byte) = <<byte>>
          BY <4>1
        <5> QED BY <2>2, <4>1, <5>1 DEF HasHeader
      <4>2. CASE frame # <<>>
        <5>1. 1 \in 1 .. Len(frame)
          BY <1>2, <4>2
        <5>2. Append(frame, byte)[1] = frame[1]
          BY <1>2, <5>1, AppendedByte
        <5> QED BY <1>2, <4>2, <5>2 DEF HasHeader
      <4> QED BY <4>1, <4>2
    <3> QED BY <2>2, <3>1, <3>2
  <2> QED BY <1>1, <2>1, <2>2
<1>5. /\ samples' \in Seq(Int) /\ Len(samples') <= A02YYUW_SAMPLE_CAPACITY /\ Ascending(samples')
      /\ \A i \in 1 .. Len(samples') : samples'[i] \in Measurable
      /\ full' => Len(samples') = A02YYUW_SAMPLE_CAPACITY
  <2>1. CASE samples' = samples /\ (full' => full \/ Len(samples) = A02YYUW_SAMPLE_CAPACITY)
    BY <1>2, <2>1
  <2>2. CASE /\ Len(frame) = 3 /\ frame' = <<>> /\ Verdict(Append(frame, byte)) = "VALID"
             /\ samples' = Inserted(samples, DistanceOf(Append(frame, byte)))
             /\ Len(samples) < A02YYUW_SAMPLE_CAPACITY /\ full' = full
    <3> DEFINE x == DistanceOf(Append(frame, byte))
    <3>1. x \in Measurable
      <4>1. \A k \in 1 .. Len(frame) : Append(frame, byte)[k] = frame[k] /\ frame[k] \in Byte
        BY <1>2, AppendedByte, ElementOfSeq
      <4>2. 2 \in 1 .. Len(frame) /\ 3 \in 1 .. Len(frame) /\ Verdict(Append(frame, byte)) = "VALID"
        BY <2>2
      <4> QED BY <4>1, <4>2, VerdictValid
    <3>2. samples' = Inserted(samples, x)
      BY <2>2
    <3> HIDE DEF x
    <3>3. /\ samples' \in Seq(Int) /\ Len(samples') = Len(samples) + 1
          /\ Ascending(samples') /\ \A i \in 1 .. Len(samples') : samples'[i] \in Measurable
      BY <1>2, <3>1, <3>2, OneMoreSample
    <3>4. ~full' /\ Len(samples') <= A02YYUW_SAMPLE_CAPACITY
      <4> DEFINE n == Len(samples)
      <4>1. n \in Nat /\ n < A02YYUW_SAMPLE_CAPACITY /\ Len(samples') = n + 1
        BY <1>2, <2>2, <3>3
      <4>2. ~full'
        BY <1>2, <1>3, <2>2
      <4> HIDE DEF n
      <4> QED BY <1>3, <4>1, <4>2
    <3> QED BY <3>3, <3>4
  <2> QED BY <1>1, <2>1, <2>2
<1> QED BY <1>1, <1>4, <1>5 DEF SamplesInv

\* The samples of a window are distances in range, in order, and no more than the buffer holds.
THEOREM SamplesInvariant == Spec => []SamplesInv
<1>1. Init => SamplesInv
  <2> SUFFICES ASSUME Init PROVE SamplesInv
    OBVIOUS
  <2>1. Ascending(<<>>)
    BY DEF Ascending
  <2>2. /\ frame = <<>> /\ samples = <<>> /\ discarded = 0 /\ ~full /\ phase = "idle"
    BY DEF Init
  <2>3. A02YYUW_DISCARD_SAMPLES \in Nat /\ A02YYUW_SAMPLE_CAPACITY \in Nat
    BY AcquisitionAssumption
  <2> QED BY <2>1, <2>2, <2>3 DEF SamplesInv
<1>2. SamplesInv /\ ParserInv /\ [Next]_vars => SamplesInv'
  <2> SUFFICES ASSUME SamplesInv, ParserInv, [Next]_vars PROVE SamplesInv'
    OBVIOUS
  <2>1. CASE StartNormalMeasurementCycle
    <3>1. Ascending(<<>>)
      BY DEF Ascending
    <3>2. /\ frame' = <<>> /\ samples' = <<>> /\ discarded' = 0 /\ ~full' /\ phase' = "warming"
      BY <2>1 DEF StartNormalMeasurementCycle, ClearWindow
    <3>3. A02YYUW_DISCARD_SAMPLES \in Nat /\ A02YYUW_SAMPLE_CAPACITY \in Nat
      BY AcquisitionAssumption
    <3> QED BY <3>1, <3>2, <3>3 DEF SamplesInv
  <2>2. ASSUME NEW d \in Distances, NEW q \in 0 .. 3, WarmUpEnds(d, q)
        PROVE  SamplesInv'
    BY <2>2 DEF WarmUpEnds, window, SamplesInv
  <2>3. ASSUME NEW d \in Distances, NEW q \in 0 .. 3, Gap(d, q)
        PROVE  SamplesInv'
    BY <2>3 DEF Gap, window, SamplesInv
  <2>4. ASSUME NEW d \in Distances, ByteArrives(d)
        PROVE  SamplesInv'
    <3>1. Receive(FrameByte(d, sensor.position)) /\ phase' = "collecting"
      BY <2>4 DEF ByteArrives, Emit, Sampling
    <3>2. FrameByte(d, sensor.position) \in Byte
      BY FrameByteIsByte, AcquisitionAssumption DEF ParserInv
    <3> QED BY <3>1, <3>2, ReceiveKeepsSamples
  <2>5. ASSUME NEW d \in Distances, NEW x \in Noise, ByteIsGarbled(d, x)
        PROVE  SamplesInv'
    <3>1. x \in Byte
      BY AcquisitionAssumption
    <3>2. Receive(x) /\ phase' = "collecting"
      BY <2>5 DEF ByteIsGarbled, Emit, Sampling
    <3> QED BY <3>1, <3>2, ReceiveKeepsSamples
  <2>6. CASE FinalizeA02YYUWMeasurement
    BY <2>6 DEF FinalizeA02YYUWMeasurement, window, SamplesInv
  <2>7. CASE PerformOtherCycleMeasurements
    BY <2>7 DEF PerformOtherCycleMeasurements, window, SamplesInv
  <2>8. ASSUME NEW new \in Heights, SetSensorHeight(new)
        PROVE  SamplesInv'
    BY <2>8 DEF SetSensorHeight, window, SamplesInv
  <2>9. CASE UNCHANGED vars
    BY <2>9 DEF vars, window, SamplesInv
  <2> QED BY <2>1, <2>2, <2>3, <2>4, <2>5, <2>6, <2>7, <2>8, <2>9 DEF Next
<1> QED BY <1>1, <1>2, ParserInvariant, PTL DEF Spec

-----------------------------------------------------------------------------
(***************************************************************************)
(* Samples that the sensor did not report                                  *)
(***************************************************************************)
\* The bytes that the parser holds are the last of the stream, whose earlier frame, if they
\* reach back to it, reports a distance that has been sent.
InStep ==
    \/ frame = <<>>
    \/ \E previous \in SensorRange :
           /\ InRange(previous, sent.least, sent.greatest)
           /\ Streamed(frame, previous, sensor.distance, sensor.position)

\* The sample that bytes out of step may become.
Pending == IF InStep THEN 0 ELSE 1

\* Bytes in the parser that are not the last of the stream count for the sample they may become.
StrayInv ==
    /\ sent.least \in SensorRange /\ sent.greatest \in SensorRange
    /\ sensor.position # 0 => /\ sensor.distance \in SensorRange
                              /\ InRange(sensor.distance, sent.least, sent.greatest)
    /\ faults \in Nat
    /\ Hits(samples, Len(samples), Outside(sent.least, sent.greatest)) + Pending <= faults

\* One sample at most is pending, before and after a step.
LEMMA PendingType ==
    Pending \in Nat /\ Pending <= 1 /\ Pending' \in Nat /\ Pending' <= 1
  BY DEF Pending

\* A distance of the sensor is a number.
LEMMA SensorIsNumber == \A x \in SensorRange : x \in Int
  BY DEF SensorRange

\* What was sent only widens, and holds the distance that is being sent.
LEMMA WidenedFacts ==
    ASSUME NEW d \in SensorRange, sent.least \in SensorRange, sent.greatest \in SensorRange,
           sent' = Widened(d)
    PROVE  /\ sent'.least \in SensorRange /\ sent'.greatest \in SensorRange
           /\ sent'.least <= sent.least /\ sent.greatest <= sent'.greatest
           /\ InRange(d, sent'.least, sent'.greatest)
           /\ \A x \in Int : InRange(x, sent.least, sent.greatest)
                                 => InRange(x, sent'.least, sent'.greatest)
<1>1. /\ sent'.least = (IF d < sent.least THEN d ELSE sent.least)
      /\ sent'.greatest = (IF d > sent.greatest THEN d ELSE sent.greatest)
  BY DEF Widened
<1> DEFINE a == sent.least
           b == sent.greatest
           a1 == sent'.least
           b1 == sent'.greatest
<1>2. a \in SensorRange /\ b \in SensorRange /\ a \in Int /\ b \in Int /\ d \in Int
  BY SensorIsNumber
<1>3. a1 = (IF d < a THEN d ELSE a) /\ b1 = (IF d > b THEN d ELSE b)
  BY <1>1
<1> HIDE DEF a, b, a1, b1
<1>4. a1 \in SensorRange /\ b1 \in SensorRange /\ a1 \in Int /\ b1 \in Int
  BY <1>2, <1>3
<1>5. a1 <= a /\ b <= b1 /\ a1 <= d /\ d <= b1
  BY <1>2, <1>3
<1>6. InRange(d, a1, b1) /\ \A x \in Int : InRange(x, a, b) => InRange(x, a1, b1)
  BY <1>2, <1>4, <1>5 DEF InRange
<1> QED BY <1>4, <1>5, <1>6 DEF a, b, a1, b1

\* Widening what was sent makes no stray.
LEMMA StraysOfWider ==
    ASSUME NEW s \in Seq(Int), NEW a \in Int, NEW b \in Int, NEW c \in Int, NEW d \in Int, c <= a, b <= d
    PROVE  Hits(s, Len(s), Outside(c, d)) <= Hits(s, Len(s), Outside(a, b))
<1>1. Len(s) \in Nat
  OBVIOUS
<1>2. \A x : x \in Outside(c, d) => x \in Outside(a, b)
  BY DEF Outside
<1> QED BY <1>1, <1>2, HitsOfMore

\* A byte that arrives as it was sent keeps the parser in step, and what it completes reports a
\* distance that was sent or one between two.
LEMMA ArrivalInStep ==
    ASSUME NEW d \in SensorRange, SamplesInv, ParserInv, StrayInv, InStep,
           sensor.position # 0 => d = sensor.distance,
           sensor' = At((sensor.position + 1) % 4, d), sent' = Widened(d)
    PROVE  LET a == Append(frame, FrameByte(d, sensor.position))
           IN  /\ frame' = <<>> \/ (frame' = a /\ Len(frame) < 3) => InStep'
               /\ Len(frame) = 3 /\ Verdict(a) = "VALID"
                      => InRange(DistanceOf(a), sent'.least, sent'.greatest)
<1> DEFINE p == sensor.position
           a == Append(frame, FrameByte(d, p))
<1>1. p \in 0 .. 3 /\ frame \in Seq(Byte)
  BY DEF ParserInv
<1>2. /\ sent'.least \in SensorRange /\ sent'.greatest \in SensorRange
      /\ InRange(d, sent'.least, sent'.greatest)
      /\ \A x \in Int : InRange(x, sent.least, sent.greatest) => InRange(x, sent'.least, sent'.greatest)
  BY WidenedFacts DEF StrayInv
<1>3. PICK previous \in SensorRange :
          /\ InRange(previous, sent'.least, sent'.greatest)
          /\ Streamed(frame, previous, sensor.distance, p)
  <2>1. CASE frame = <<>>
    <3>1. Streamed(frame, d, sensor.distance, p)
      BY <2>1 DEF Streamed
    <3> QED BY <1>2, <3>1
  <2>2. CASE frame # <<>>
    <3>1. PICK e \in SensorRange : /\ InRange(e, sent.least, sent.greatest)
                                   /\ Streamed(frame, e, sensor.distance, p)
      BY <2>2 DEF InStep
    <3>2. e \in Int
      BY DEF SensorRange
    <3> QED BY <1>2, <3>1, <3>2
  <2> QED BY <2>1, <2>2
<1>4. ASSUME frame' = a, Len(frame) < 3 PROVE InStep'
  <2>1. /\ p < 3 => Streamed(a, previous, d, p + 1)
        /\ p = 3 => \A e : Streamed(a, d, e, 0)
    BY <1>1, <1>3, <1>4, StreamedOn
  <2>2. CASE p < 3
    <3>1. sensor'.position = p + 1 /\ sensor'.distance = d
      BY <1>1, <2>2 DEF At
    <3>2. Streamed(frame', previous, sensor'.distance, sensor'.position)
      BY <1>4, <2>1, <2>2, <3>1
    <3> QED BY <1>3, <3>2 DEF InStep
  <2>3. CASE p = 3
    <3>1. sensor'.position = 0
      BY <2>3 DEF At
    <3>2. Streamed(frame', d, sensor'.distance, sensor'.position)
      BY <1>4, <2>1, <2>3, <3>1
    <3> QED BY <1>2, <3>2 DEF InStep
  <2> QED BY <1>1, <2>2, <2>3
<1>5. frame' = <<>> => InStep'
  BY DEF InStep
<1>6. ASSUME Len(frame) = 3, Verdict(a) = "VALID"
      PROVE  InRange(DistanceOf(a), sent'.least, sent'.greatest)
  <2>1. HasHeader(frame)
    <3>1. frame # <<>>
      BY <1>6
    <3> QED BY <3>1 DEF SamplesInv
  <2> DEFINE x == DistanceOf(a)
  <2>2. x = d \/ (d <= x /\ x <= previous)
    BY <1>1, <1>3, <1>6, <2>1, StreamedIsBetween
  <2>3. x \in Int
    <3>0. FrameByte(d, p) \in Byte
      BY <1>1, FrameByteIsByte
    <3>1. \A k \in 1 .. Len(frame) : a[k] = frame[k] /\ frame[k] \in Byte
      BY <1>1, <3>0, AppendedByte, ElementOfSeq
    <3>2. 2 \in 1 .. Len(frame) /\ 3 \in 1 .. Len(frame)
      BY <1>6
    <3>3. x \in Measurable
      BY <1>6, <3>1, <3>2, VerdictValid
    <3> QED BY <3>3, MeasurableIsNumber
  <2> HIDE DEF x
  <2> DEFINE b == sent'.least
             c == sent'.greatest
  <2>4. InRange(d, b, c) /\ InRange(previous, b, c)
    BY <1>2, <1>3
  <2>5. b \in Int /\ c \in Int /\ d \in Int /\ previous \in Int
    BY <1>2, SensorIsNumber
  <2> HIDE DEF b, c
  <2>6. InRange(x, b, c)
    BY <2>2, <2>3, <2>4, <2>5 DEF InRange
  <2> QED BY <2>6 DEF x, b, c
<1> QED BY <1>4, <1>5, <1>6

\* What is pending is one at most.
LEMMA AtMostOneMore ==
    \A a, b, c, d \in Int : c <= 1 => /\ 0 <= b /\ a + b <= d => a + c <= d + 1
                                      /\ a + 1 <= d => a + c <= d
  OBVIOUS

\* Widening leaves the samples with no more strays.
LEMMA WidenedStrays ==
    ASSUME NEW d \in SensorRange, SamplesInv, StrayInv, sent' = Widened(d)
    PROVE  /\ Hits(samples, Len(samples), Outside(sent'.least, sent'.greatest)) \in Nat
           /\ Hits(samples, Len(samples), Outside(sent'.least, sent'.greatest)) + Pending <= faults
<1>1. /\ sent'.least \in SensorRange /\ sent'.greatest \in SensorRange
      /\ sent'.least <= sent.least /\ sent.greatest <= sent'.greatest
  BY WidenedFacts DEF StrayInv
<1>2. /\ sent.least \in Int /\ sent.greatest \in Int
      /\ sent'.least \in Int /\ sent'.greatest \in Int
  BY <1>1, SensorIsNumber DEF StrayInv
<1>3. samples \in Seq(Int) /\ Len(samples) \in Nat
  BY DEF SamplesInv
<1>4. Hits(samples, Len(samples), Outside(sent'.least, sent'.greatest))
         <= Hits(samples, Len(samples), Outside(sent.least, sent.greatest))
  BY <1>1, <1>2, <1>3, StraysOfWider
<1>5. /\ Hits(samples, Len(samples), Outside(sent.least, sent.greatest)) \in Nat
      /\ Hits(samples, Len(samples), Outside(sent'.least, sent'.greatest)) \in Nat
  BY <1>3, HitsFacts
<1>6. /\ Hits(samples, Len(samples), Outside(sent.least, sent.greatest)) + Pending <= faults
      /\ Pending \in Int /\ faults \in Int
  BY PendingType DEF StrayInv
<1> QED BY <1>4, <1>5, <1>6

\* One more sample is one more stray at most, and none if it lies between what was sent.
LEMMA SampledStrays ==
    ASSUME NEW s \in Seq(Int), NEW x \in Int, NEW a \in Int, NEW b \in Int
    PROVE  LET before == Hits(s, Len(s), Outside(a, b))
               after == Hits(Inserted(s, x), Len(Inserted(s, x)), Outside(a, b))
           IN  /\ before \in Nat /\ after \in Nat /\ after <= before + 1
               /\ InRange(x, a, b) => after = before
<1> DEFINE t == Inserted(s, x)
           S == Outside(a, b)
<1>0. Len(s) \in Nat
  OBVIOUS
<1>1. Len(t) = Len(s) + 1 /\ Len(s) \in Nat
  BY <1>0, InsertedKeeps
<1>2. Hits(t, Len(s) + 1, S) = Hits(s, Len(s), S) + Hit(x, S)
  BY InsertedKeeps
<1>3. Hits(s, Len(s), S) \in Nat
  <2> HIDE DEF S
  <2> QED BY <1>1, HitsFacts
<1>4. Hit(x, S) \in {0, 1} /\ (InRange(x, a, b) => Hit(x, S) = 0)
  BY DEF Hit, Outside, InRange
<1> HIDE DEF S, t
<1>5. Hits(t, Len(t), S) = Hits(s, Len(s), S) + Hit(x, S)
  BY <1>1, <1>2
<1>6. Hits(t, Len(t), S) \in Nat /\ Hits(t, Len(t), S) <= Hits(s, Len(s), S) + 1
      /\ (InRange(x, a, b) => Hits(t, Len(t), S) = Hits(s, Len(s), S))
  BY <1>3, <1>4, <1>5
<1> QED BY <1>3, <1>6 DEF t, S

\* What a byte, as it was sent or garbled, may do to the strays.
LEMMA ReceiveStrays ==
    ASSUME NEW byte \in Byte, NEW d \in SensorRange, SamplesInv, StrayInv, Receive(byte), sent' = Widened(d)
    PROVE  LET strays == Hits(samples', Len(samples'), Outside(sent'.least, sent'.greatest))
           IN  /\ strays \in Nat
               /\ \/ /\ samples' = samples /\ strays + Pending <= faults
                     /\ \/ frame' = <<>>
                        \/ frame' = Append(frame, byte) /\ Len(frame) < 3
                  \/ /\ frame' = <<>> /\ Len(frame) = 3 /\ Verdict(Append(frame, byte)) = "VALID"
                     /\ strays + Pending <= faults + 1
                     /\ InRange(DistanceOf(Append(frame, byte)), sent'.least, sent'.greatest)
                            => strays + Pending <= faults
<1>1. /\ sent'.least \in Int /\ sent'.greatest \in Int
  BY WidenedFacts, SensorIsNumber DEF StrayInv
<1>2. /\ Hits(samples, Len(samples), Outside(sent'.least, sent'.greatest)) \in Nat
      /\ Hits(samples, Len(samples), Outside(sent'.least, sent'.greatest)) + Pending <= faults
  BY WidenedStrays
<1>3. /\ \/ frame' = <<>>
         \/ frame' = Append(frame, byte) /\ Len(frame) < 3
      /\ \/ samples' = samples
         \/ /\ Len(frame) = 3 /\ frame' = <<>> /\ Verdict(Append(frame, byte)) = "VALID"
            /\ samples' = Inserted(samples, DistanceOf(Append(frame, byte)))
  BY ReceiveSamples
<1>4. CASE samples' = samples
  BY <1>2, <1>3, <1>4
<1>5. CASE /\ Len(frame) = 3 /\ frame' = <<>> /\ Verdict(Append(frame, byte)) = "VALID"
           /\ samples' = Inserted(samples, DistanceOf(Append(frame, byte)))
  <2> DEFINE x == DistanceOf(Append(frame, byte))
             before == Hits(samples, Len(samples), Outside(sent'.least, sent'.greatest))
             after == Hits(samples', Len(samples'), Outside(sent'.least, sent'.greatest))
  <2>1. x \in Int
    <3>0. frame \in Seq(Byte)
      BY DEF SamplesInv
    <3>1. \A k \in 1 .. Len(frame) : Append(frame, byte)[k] = frame[k] /\ frame[k] \in Byte
      BY <3>0, AppendedByte, ElementOfSeq
    <3>2. 2 \in 1 .. Len(frame) /\ 3 \in 1 .. Len(frame)
      BY <1>5
    <3>3. x \in Measurable
      BY <1>5, <3>1, <3>2, VerdictValid
    <3> QED BY <3>3, MeasurableIsNumber
  <2>2. samples' = Inserted(samples, x) /\ samples \in Seq(Int)
    BY <1>5 DEF SamplesInv
  <2> HIDE DEF x
  <2>3. /\ before \in Nat /\ after \in Nat /\ after <= before + 1
        /\ InRange(x, sent'.least, sent'.greatest) => after = before
    BY <1>1, <2>1, <2>2, SampledStrays
  <2>4. before + Pending <= faults /\ Pending \in Int /\ faults \in Int
    BY <1>2, PendingType DEF StrayInv
  <2> HIDE DEF before, after
  <2>5. after \in Nat /\ after + Pending <= faults + 1
        /\ (InRange(x, sent'.least, sent'.greatest) => after + Pending <= faults)
    BY <2>3, <2>4
  <2> QED BY <1>5, <2>5 DEF after, x
<1> QED BY <1>3, <1>4, <1>5

\* No sample is a stray without a fault of the line, and none needs more than one.
THEOREM StrayInvariant == Spec => []StrayInv
<1>0. Init => StrayInv
  <2> SUFFICES ASSUME Init PROVE StrayInv
    OBVIOUS
  <2>1. /\ samples = <<>> /\ frame = <<>> /\ faults = 0
        /\ sent.least = 0 /\ sent.greatest = 0 /\ sensor.position = 0
    BY DEF Init, At
  <2>2. Hits(samples, Len(samples), Outside(sent.least, sent.greatest)) = 0
    BY <2>1, HitsNone
  <2>3. Pending = 0
    BY <2>1 DEF Pending, InStep
  <2>4. 0 \in SensorRange
    BY DEF SensorRange
  <2> QED BY <2>1, <2>2, <2>3, <2>4 DEF StrayInv
<1>1. SamplesInv /\ ParserInv /\ StrayInv /\ [Next]_vars => StrayInv'
  <2> SUFFICES ASSUME SamplesInv, ParserInv, StrayInv, [Next]_vars PROVE StrayInv'
    OBVIOUS
  <2>d. \A d \in Distances : d \in SensorRange
    BY AcquisitionAssumption
  <2>p. sensor.position \in 0 .. 3
    BY DEF ParserInv
  <2> DEFINE strays == Hits(samples, Len(samples), Outside(sent.least, sent.greatest))
  <2>h. /\ strays \in Nat /\ strays + Pending <= faults /\ faults \in Nat
        /\ Pending \in Nat /\ Pending <= 1 /\ Pending' \in Nat /\ Pending' <= 1
    <3>1. Len(samples) \in Nat
      BY DEF SamplesInv
    <3>2. strays \in Nat
      BY <3>1, HitsFacts
    <3> QED BY <3>2, PendingType DEF StrayInv
  <2>1. CASE StartNormalMeasurementCycle
    <3>1. /\ samples' = <<>> /\ frame' = <<>> /\ faults' = 0
          /\ sent'.least = 0 /\ sent'.greatest = 0 /\ sensor'.position = 0
      BY <2>1 DEF StartNormalMeasurementCycle, ClearWindow, At
    <3>2. Hits(samples', Len(samples'), Outside(sent'.least, sent'.greatest)) = 0
      BY <3>1, HitsNone
    <3>3. Pending' = 0
      BY <3>1 DEF Pending, InStep
    <3>4. 0 \in SensorRange
      BY DEF SensorRange
    <3> QED BY <3>1, <3>2, <3>3, <3>4 DEF StrayInv
  <2>2. ASSUME NEW d \in Distances, NEW q \in 0 .. 3, WarmUpEnds(d, q)
        PROVE  StrayInv'
    <3>1. /\ samples' = <<>> /\ frame' = <<>> /\ faults' = faults
          /\ sent'.least = d /\ sent'.greatest = d /\ sensor' = At(q, d)
      BY <2>2 DEF WarmUpEnds, window, SamplesInv
    <3>2. Hits(samples', Len(samples'), Outside(sent'.least, sent'.greatest)) = 0
      BY <3>1, HitsNone
    <3>3. Pending' = 0
      BY <3>1 DEF Pending, InStep
    <3>4. d \in SensorRange /\ d \in Int
      BY <2>d, SensorIsNumber
    <3>5. sensor'.position # 0 => sensor'.distance = d
      BY <3>1 DEF At
    <3>6. InRange(d, d, d)
      BY <3>4 DEF InRange
    <3> QED BY <2>h, <3>1, <3>2, <3>3, <3>4, <3>5, <3>6 DEF StrayInv
  <2>3. ASSUME NEW d \in Distances, NEW q \in 0 .. 3, Gap(d, q)
        PROVE  StrayInv'
    <3>1. /\ samples' = samples /\ frame' = frame /\ faults' = faults + 1 /\ sensor' = At(q, d)
          /\ sent' = IF q = 0 THEN sent ELSE Widened(d)
      BY <2>3 DEF Gap, window
    <3>3. CASE q = 0
      <4>1. sent' = sent /\ sensor'.position = 0
        BY <3>1, <3>3 DEF At
      <4>2. Hits(samples', Len(samples'), Outside(sent'.least, sent'.greatest)) + Pending' <= faults'
        <5>1. Hits(samples', Len(samples'), Outside(sent'.least, sent'.greatest)) = strays
          BY <3>1, <4>1
        <5> HIDE DEF strays
        <5>2. /\ strays \in Int /\ Pending \in Int /\ Pending' \in Int /\ faults \in Int
              /\ 0 <= Pending /\ Pending' <= 1
          BY <2>h
        <5> QED BY <2>h, <3>1, <5>1, <5>2, AtMostOneMore
      <4> QED BY <2>h, <3>1, <4>1, <4>2 DEF StrayInv
    <3>4. CASE q # 0
      <4>1. sent' = Widened(d) /\ sensor'.position = q /\ sensor'.distance = d
        BY <3>1, <3>4 DEF At
      <4>2. /\ sent'.least \in SensorRange /\ sent'.greatest \in SensorRange
            /\ InRange(d, sent'.least, sent'.greatest)
        BY <2>d, <4>1, WidenedFacts DEF StrayInv
      <4> DEFINE after == Hits(samples, Len(samples), Outside(sent'.least, sent'.greatest))
      <4>3. after \in Nat /\ after + Pending <= faults
        BY <2>d, <4>1, WidenedStrays
      <4>4. after + Pending' <= faults'
        <5> HIDE DEF after
        <5>1. /\ after \in Int /\ Pending \in Int /\ Pending' \in Int /\ faults \in Int
              /\ 0 <= Pending /\ Pending' <= 1
          BY <2>h, <4>3
        <5> QED BY <3>1, <4>3, <5>1, AtMostOneMore
      <4> QED BY <2>d, <2>h, <3>1, <4>1, <4>2, <4>4 DEF StrayInv
    <3> QED BY <3>3, <3>4
  <2>4. ASSUME NEW d \in Distances, ByteArrives(d)
        PROVE  StrayInv'
    <3> DEFINE byte == FrameByte(d, sensor.position)
               after == Hits(samples', Len(samples'), Outside(sent'.least, sent'.greatest))
    <3>1. /\ Receive(byte) /\ faults' = faults /\ sent' = Widened(d)
          /\ sensor' = At((sensor.position + 1) % 4, d)
          /\ sensor.position # 0 => d = sensor.distance
      BY <2>4 DEF ByteArrives, Emit
    <3>2. d \in SensorRange /\ byte \in Byte
      BY <2>d, <2>p, FrameByteIsByte
    <3>3. /\ sent'.least \in SensorRange /\ sent'.greatest \in SensorRange
          /\ InRange(d, sent'.least, sent'.greatest)
      BY <3>1, <3>2, WidenedFacts DEF StrayInv
    <3>4. sensor'.position # 0 => sensor'.distance = d
      BY <3>1 DEF At
    <3>5. /\ after \in Nat
          /\ \/ /\ samples' = samples /\ after + Pending <= faults
                /\ \/ frame' = <<>>
                   \/ frame' = Append(frame, byte) /\ Len(frame) < 3
             \/ /\ frame' = <<>> /\ Len(frame) = 3 /\ Verdict(Append(frame, byte)) = "VALID"
                /\ after + Pending <= faults + 1
                /\ InRange(DistanceOf(Append(frame, byte)), sent'.least, sent'.greatest)
                       => after + Pending <= faults
      BY <3>1, <3>2, ReceiveStrays
    <3>6. InStep =>
            /\ frame' = <<>> \/ (frame' = Append(frame, byte) /\ Len(frame) < 3) => InStep'
            /\ Len(frame) = 3 /\ Verdict(Append(frame, byte)) = "VALID"
                   => InRange(DistanceOf(Append(frame, byte)), sent'.least, sent'.greatest)
      BY <3>1, <3>2, ArrivalInStep
    <3>7. frame' = <<>> => InStep'
      BY DEF InStep
    <3> HIDE DEF after, byte, strays
    <3>8. after + Pending' <= faults
      <4>1. CASE InStep
        <5>1. Pending = 0 /\ Pending' = 0
          BY <3>5, <3>6, <3>7, <4>1 DEF Pending
        <5>2. after + Pending <= faults
          BY <3>5, <3>6, <4>1
        <5> QED BY <5>1, <5>2
      <4>2. CASE ~InStep
        <5>1. Pending = 1
          BY <4>2 DEF Pending
        <5>2. CASE after + Pending <= faults
          <6>1. after \in Int /\ Pending' \in Int /\ faults \in Int /\ Pending' <= 1
            BY <2>h, <3>5
          <6>2. after + 1 <= faults
            BY <5>1, <5>2
          <6> QED BY <6>1, <6>2, AtMostOneMore
        <5>3. CASE frame' = <<>> /\ after + Pending <= faults + 1
          <6>1. Pending' = 0
            BY <3>7, <5>3 DEF Pending
          <6> QED BY <2>h, <3>5, <5>1, <5>3, <6>1
        <5> QED BY <3>5, <5>2, <5>3
      <4> QED BY <4>1, <4>2
    <3> QED BY <2>h, <3>1, <3>2, <3>3, <3>4, <3>8 DEF StrayInv, after
  <2>5. ASSUME NEW d \in Distances, NEW x \in Noise, ByteIsGarbled(d, x)
        PROVE  StrayInv'
    <3> DEFINE after == Hits(samples', Len(samples'), Outside(sent'.least, sent'.greatest))
    <3>1. /\ Receive(x) /\ faults' = faults + 1 /\ sent' = Widened(d)
          /\ sensor' = At((sensor.position + 1) % 4, d)
      BY <2>5 DEF ByteIsGarbled, Emit
    <3>2. d \in SensorRange /\ x \in Byte
      BY <2>d, AcquisitionAssumption
    <3>3. /\ sent'.least \in SensorRange /\ sent'.greatest \in SensorRange
          /\ InRange(d, sent'.least, sent'.greatest)
      BY <3>1, <3>2, WidenedFacts DEF StrayInv
    <3>4. sensor'.position # 0 => sensor'.distance = d
      BY <3>1 DEF At
    <3>5. /\ after \in Nat
          /\ \/ after + Pending <= faults
             \/ frame' = <<>> /\ after + Pending <= faults + 1
      BY <3>1, <3>2, ReceiveStrays
    <3>7. frame' = <<>> => Pending' = 0
      BY DEF InStep, Pending
    <3> HIDE DEF after, strays
    <3>8. after + Pending' <= faults + 1
      <4>1. /\ after \in Int /\ Pending \in Int /\ Pending' \in Int /\ faults \in Int
            /\ 0 <= Pending /\ Pending' <= 1
        BY <2>h, <3>5
      <4>2. CASE after + Pending <= faults
        BY <4>1, <4>2, AtMostOneMore
      <4>3. CASE frame' = <<>> /\ after + Pending <= faults + 1
        <5>1. Pending' = 0
          BY <3>7, <4>3
        <5> QED BY <4>1, <4>3, <5>1
      <4> QED BY <3>5, <4>2, <4>3
    <3> QED BY <2>h, <3>1, <3>2, <3>3, <3>4, <3>8 DEF StrayInv, after
  <2>6. CASE FinalizeA02YYUWMeasurement
    <3>1. samples' = samples /\ sent' = sent /\ faults' = faults /\ sensor' = sensor /\ frame' = <<>>
      BY <2>6 DEF FinalizeA02YYUWMeasurement, window, line
    <3>2. Pending' = 0
      BY <3>1 DEF InStep, Pending
    <3>3. Hits(samples', Len(samples'), Outside(sent'.least, sent'.greatest)) = strays
      BY <3>1
    <3> HIDE DEF strays
    <3>4. strays + Pending' <= faults
      BY <2>h, <3>2
    <3> QED BY <3>1, <3>3, <3>4 DEF StrayInv
  <2>7. ASSUME UNCHANGED <<frame, window, line>> PROVE StrayInv'
    BY <2>7 DEF StrayInv, Pending, InStep, window, line
  <2>8. CASE PerformOtherCycleMeasurements
    BY <2>7, <2>8 DEF PerformOtherCycleMeasurements
  <2>9. ASSUME NEW new \in Heights, SetSensorHeight(new) PROVE StrayInv'
    BY <2>7, <2>9 DEF SetSensorHeight
  <2>10. CASE UNCHANGED vars
    BY <2>7, <2>10 DEF vars
  <2> QED BY <2>1, <2>2, <2>3, <2>4, <2>5, <2>6, <2>8, <2>9, <2>10 DEF Next
<1> QED BY <1>0, <1>1, SamplesInvariant, ParserInvariant, PTL DEF Spec

(***************************************************************************)
(* The parser invents no distance: strays are no more than faults.         *)
(***************************************************************************)
THEOREM StraysNeedFaultsAlways == Spec => []StraysNeedFaults
<1>1. SamplesInv /\ StrayInv => StraysNeedFaults
  <2> SUFFICES ASSUME SamplesInv, StrayInv PROVE Cardinality(Strays) <= faults
    BY DEF StraysNeedFaults
  <2>1. samples \in Seq(Int) /\ Len(samples) \in Nat
    BY DEF SamplesInv
  <2>2. Strays = {i \in 1 .. Len(samples) : samples[i] \in Outside(sent.least, sent.greatest)}
    BY <2>1 DEF Strays, Outside, InRange
  <2>3. Cardinality(Strays) = Hits(samples, Len(samples), Outside(sent.least, sent.greatest))
    BY <2>2 DEF Hits
  <2>4. Cardinality(Strays) \in Nat
    BY <2>1, <2>3, HitsFacts
  <2> QED BY <2>3, <2>4, PendingType DEF StrayInv
<1> QED BY <1>1, SamplesInvariant, StrayInvariant, PTL

-----------------------------------------------------------------------------
(***************************************************************************)
(* The cycle                                                               *)
(***************************************************************************)
\* The outliers are some of the samples, and the MAD, when there is one, is no less than 0.
LEMMA OutliersAndMad ==
    ASSUME NEW s \in Seq(Int), Ascending(s), \A i \in 1 .. Len(s) : s[i] \in Measurable,
           NEW errs, NEW b
    PROVE  LET r == Finalized(s, errs, b)
           IN  /\ r.outliers \in 0 .. Len(s)
               /\ Len(s) >= A02YYUW_MIN_VALID_SAMPLES => r.fourfoldMad # NaN
               /\ Len(s) < A02YYUW_MIN_VALID_SAMPLES => r.fourfoldMad = NaN
<1> DEFINE r == Finalized(s, errs, b)
           n == Len(s)
           k == Len(Inliers(s))
<1>1. /\ n < A02YYUW_MIN_VALID_SAMPLES => r = NoMeasurement
      /\ n >= A02YYUW_MIN_VALID_SAMPLES => r.fourfoldMad = FourfoldMad(s) /\ r.outliers = n - k
  BY FinalizedFacts
<1>2. k \in Nat /\ k <= n
  BY InliersAreSamples
<1>3. n \in Nat /\ A02YYUW_MIN_VALID_SAMPLES \in Nat \ {0}
  BY FilterAssumption
<1>4. n >= A02YYUW_MIN_VALID_SAMPLES => FourfoldMad(s) >= 0
  <2> SUFFICES ASSUME n >= A02YYUW_MIN_VALID_SAMPLES PROVE FourfoldMad(s) >= 0
    OBVIOUS
  <2>1. PICK lo \in Int, hi \in Int :
            lo <= hi /\ \A x \in Measurable : x \in Int /\ lo <= x /\ x <= hi
    <3>1. 30 \in Int /\ 4500 \in Int /\ 30 <= 4500
      OBVIOUS
    <3> QED BY <3>1, MeasurableIsNumber
  <2>2. n > 0 /\ \A i \in 1 .. n : s[i] \in Int /\ lo <= s[i] /\ s[i] <= hi
    BY <1>3, <2>1
  <2> QED BY <2>1, <2>2, MadIsNotNegative
<1>5. NoMeasurement.outliers = 0 /\ NoMeasurement.fourfoldMad = NaN
  BY DEF NoMeasurement
<1> HIDE DEF r, n, k
<1>6. CASE n < A02YYUW_MIN_VALID_SAMPLES
  <2>1. r.outliers = 0 /\ r.fourfoldMad = NaN /\ ~(n >= A02YYUW_MIN_VALID_SAMPLES)
    BY <1>1, <1>3, <1>5, <1>6
  <2>2. r.outliers \in 0 .. n
    BY <1>3, <2>1
  <2> QED BY <2>1, <2>2 DEF r, n
<1>7. CASE n >= A02YYUW_MIN_VALID_SAMPLES
  <2>1. r.outliers = n - k /\ r.fourfoldMad = FourfoldMad(s) /\ ~(n < A02YYUW_MIN_VALID_SAMPLES)
    BY <1>1, <1>3, <1>7
  <2>2. r.outliers \in 0 .. n
    BY <1>2, <1>3, <2>1
  <2>3. FourfoldMad(s) # NaN
    BY <1>4, <1>7 DEF NaN
  <2> QED BY <2>1, <2>2, <2>3 DEF r, n
<1> QED BY <1>3, <1>6, <1>7

\* The phase, the result and the record of a cycle.
CycleInv ==
    /\ phase \in {"idle", "warming", "collecting", "filtered", "recorded"}
    /\ sensor \in [position : 0 .. 3, distance : Distances \cup {0}]
    /\ height \in Heights
    /\ result = IF phase \in {"filtered", "recorded"}
                THEN Finalized(samples, errors.checksum + errors.range, full) ELSE NoMeasurement
    /\ phase = "recorded" =>
           /\ record.fourfoldMad = IF result.fourfoldMad = NaN THEN 0 ELSE result.fourfoldMad
           /\ record.counts = SetMeasurementSampleCounts(Len(samples), Len(samples) - result.outliers)
    /\ record.counts \in Counts

\* A position of the sensor is one.
LEMMA AtType ==
    ASSUME NEW q \in 0 .. 3, NEW d \in Distances \cup {0}
    PROVE  At(q, d) \in [position : 0 .. 3, distance : Distances \cup {0}]
  BY DEF At

\* Whatever is packed into a record makes bytes.
LEMMA CountsType ==
    ASSUME NEW acquired \in Int, NEW inliers \in Int
    PROVE  SetMeasurementSampleCounts(acquired, inliers) \in Counts
<1> DEFINE a == acquired % 256
           b == (acquired \div 256) % 16
           c == inliers % 16
           d == (inliers \div 16) % 256
<1>1. a \in 0 .. 255 /\ b \in 0 .. 15 /\ c \in 0 .. 15 /\ d \in 0 .. 255
  OBVIOUS
<1>2. SetMeasurementSampleCounts(acquired, inliers)
          = [schema |-> 2, acquiredByte |-> a, usedByte |-> b + (c * 16), outlierByte |-> d]
  BY DEF SetMeasurementSampleCounts
<1> HIDE DEF a, b, c, d
<1>3. b + (c * 16) \in 0 .. 255
  BY <1>1
<1> DEFINE e == b + (c * 16)
<1> HIDE DEF e
<1>4. a \in Byte /\ e \in Byte /\ d \in Byte
  BY <1>1, <1>3 DEF Byte, e
<1>5. SetMeasurementSampleCounts(acquired, inliers)
          = [schema |-> 2, acquiredByte |-> a, usedByte |-> e, outlierByte |-> d]
  BY <1>2 DEF e
<1> QED BY <1>4, <1>5 DEF Counts

\* What the result says holds from the filter to the next window, through V6.
THEOREM CycleInvariant == Spec => []CycleInv
<1>1. Init => CycleInv
  <2> SUFFICES ASSUME Init PROVE CycleInv
    OBVIOUS
  <2>1. /\ phase = "idle" /\ result = NoMeasurement /\ record = NoRecord /\ sensor = At(0, 0)
        /\ height \in Heights
    BY DEF Init
  <2>2. record.counts \in Counts
    BY <2>1, CountsType DEF NoRecord
  <2>3. At(0, 0) \in [position : 0 .. 3, distance : Distances \cup {0}]
    BY AtType
  <2> QED BY <2>1, <2>2, <2>3 DEF CycleInv
<1>2. SamplesInv /\ DatumInv /\ CycleInv /\ [Next]_vars => CycleInv'
  <2> SUFFICES ASSUME SamplesInv, DatumInv, CycleInv, [Next]_vars PROVE CycleInv'
    OBVIOUS
  <2>1. CASE StartNormalMeasurementCycle
    <3>1. /\ phase' = "warming" /\ result' = NoMeasurement /\ record' = NoRecord
          /\ sensor' = At(0, 0) /\ height' = height
      BY <2>1 DEF StartNormalMeasurementCycle
    <3>2. record'.counts \in Counts
      BY <3>1, CountsType DEF NoRecord
    <3>3. At(0, 0) \in [position : 0 .. 3, distance : Distances \cup {0}]
      BY AtType
    <3> QED BY <3>1, <3>2, <3>3 DEF CycleInv
  <2>2. ASSUME phase \in {"warming", "collecting"}, phase' = "collecting",
               UNCHANGED <<outcome, height>>,
               NEW q \in 0 .. 3, NEW d \in Distances, sensor' = At(q, d)
        PROVE  CycleInv'
    <3>1. At(q, d) \in [position : 0 .. 3, distance : Distances \cup {0}]
      BY AtType
    <3>2. result' = result /\ record' = record /\ height' = height
      BY <2>2 DEF outcome
    <3>3. result = NoMeasurement
      BY <2>2 DEF CycleInv
    <3> QED BY <2>2, <3>1, <3>2, <3>3 DEF CycleInv
  <2>3. ASSUME NEW d \in Distances, NEW q \in 0 .. 3, WarmUpEnds(d, q)
        PROVE  CycleInv'
    BY <2>2, <2>3 DEF WarmUpEnds
  <2>4. ASSUME NEW d \in Distances, NEW q \in 0 .. 3, Gap(d, q)
        PROVE  CycleInv'
    BY <2>2, <2>4 DEF Gap, Sampling
  <2>p. (sensor.position + 1) % 4 \in 0 .. 3
    <3>1. sensor.position \in 0 .. 3
      BY DEF CycleInv
    <3> QED BY <3>1
  <2>5. ASSUME NEW d \in Distances, ByteArrives(d)
        PROVE  CycleInv'
    BY <2>p, <2>2, <2>5 DEF ByteArrives, Emit, Sampling
  <2>6. ASSUME NEW d \in Distances, NEW x \in Noise, ByteIsGarbled(d, x)
        PROVE  CycleInv'
    BY <2>p, <2>2, <2>6 DEF ByteIsGarbled, Emit, Sampling
  <2>7. CASE FinalizeA02YYUWMeasurement
    <3>1. /\ phase' = "filtered" /\ samples' = samples /\ errors' = errors /\ full' = full
          /\ result' = Finalized(samples, errors.checksum + errors.range, full)
          /\ sensor' = sensor /\ height' = height /\ record' = record
      BY <2>7 DEF FinalizeA02YYUWMeasurement, window, line
    <3>2. phase' \in {"filtered", "recorded"} /\ phase' # "recorded"
      BY <3>1
    <3> QED BY <3>1, <3>2 DEF CycleInv
  <2>8. CASE PerformOtherCycleMeasurements
    <3>1. /\ phase = "filtered" /\ phase' = "recorded" /\ samples' = samples /\ errors' = errors
          /\ full' = full /\ result' = result /\ sensor' = sensor /\ height' = height
          /\ record' = CurrentMeasurementRecord
      BY <2>8 DEF PerformOtherCycleMeasurements, window, line
    <3>2. /\ record'.fourfoldMad = IF result.fourfoldMad = NaN THEN 0 ELSE result.fourfoldMad
          /\ record'.counts = SetMeasurementSampleCounts(Len(samples), Len(samples) - result.outliers)
      BY <3>1 DEF CurrentMeasurementRecord
    <3>3. result = Finalized(samples, errors.checksum + errors.range, full)
      BY <3>1 DEF CycleInv
    <3>4. result.outliers \in 0 .. Len(samples) /\ Len(samples) \in Nat
      BY <3>3, OutliersAndMad DEF SamplesInv
    <3>5. Len(samples) \in Int /\ Len(samples) - result.outliers \in Int
      BY <3>4
    <3>6. record'.counts \in Counts
      BY <3>2, <3>5, CountsType
    <3> QED BY <3>1, <3>2, <3>3, <3>6 DEF CycleInv
  <2>9. ASSUME NEW new \in Heights, SetSensorHeight(new)
        PROVE  CycleInv'
    <3>1. /\ phase' = phase /\ samples' = samples /\ errors' = errors /\ full' = full
          /\ result' = result /\ sensor' = sensor /\ height' = new
      BY <2>9 DEF SetSensorHeight, window, line
    <3>2. record'.fourfoldMad = record.fourfoldMad /\ record'.counts = record.counts
      <4>1. record' = record \/ record' = [record EXCEPT !.waterLevel = new - result.distance]
        BY <2>9 DEF SetSensorHeight, CorrectedRecord
      <4> QED BY <4>1 DEF DatumInv
    <3> QED BY <3>1, <3>2 DEF CycleInv
  <2>10. CASE UNCHANGED vars
    BY <2>10 DEF vars, window, line, outcome, CycleInv
  <2> QED BY <2>1, <2>3, <2>4, <2>5, <2>6, <2>7, <2>8, <2>9, <2>10 DEF Next
<1> QED BY <1>1, <1>2, SamplesInvariant, DatumInvariant, PTL DEF Spec

(***************************************************************************)
(* The types: a frame never holds four bytes, the window never more than   *)
(* its buffer, nor a sample out of range, a full buffer has no room left,  *)
(* and the quality is INVALID exactly when there is no distance.           *)
(***************************************************************************)
THEOREM TypeCorrect == Spec => []TypeOK
<1>1. SamplesInv /\ CycleInv => TypeOK
  <2> SUFFICES ASSUME SamplesInv, CycleInv PROVE TypeOK
    OBVIOUS
  <2>1. /\ Len(frame) < 4 /\ \A i \in DOMAIN frame : frame[i] \in Byte
    <3>1. frame \in Seq(Byte) /\ Len(frame) < 4
      BY DEF SamplesInv
    <3> QED BY <3>1
  <2>2. \A i \in DOMAIN samples : samples[i] \in 30 .. 4500
    <3>1. samples \in Seq(Int) /\ \A i \in 1 .. Len(samples) : samples[i] \in Measurable
      BY DEF SamplesInv
    <3>2. DOMAIN samples = 1 .. Len(samples)
      BY <3>1
    <3>3. \A i \in DOMAIN samples : samples[i] \in Measurable
      BY <3>1, <3>2
    <3> QED BY <3>3, Zenon DEF Measurable
  <2>3. result.valid <=> result.quality # "INVALID"
    <3>1. CASE phase \in {"filtered", "recorded"}
      <4>1. result = Finalized(samples, errors.checksum + errors.range, full) /\ samples \in Seq(Int)
        BY <3>1 DEF CycleInv, SamplesInv
      <4> QED BY <4>1, FinalizedFacts
    <3>2. CASE phase \notin {"filtered", "recorded"}
      BY <3>2 DEF CycleInv, NoMeasurement
    <3> QED BY <3>1, <3>2
  <2> QED BY <2>1, <2>2, <2>3 DEF TypeOK, SamplesInv, CycleInv
<1> QED BY <1>1, SamplesInvariant, CycleInvariant, PTL

\* The counts of a record, read back.
LEMMA CountsReadBack ==
    ASSUME NEW n \in 0 .. CountLimit - 1, NEW k \in 0 .. n
    PROVE  LET c == SetMeasurementSampleCounts(n, n - k)
           IN  /\ MeasurementAcquiredSamples(c) = n
               /\ MeasurementOutlierSamples(c) = k
               /\ MeasurementUsedSamples(c) = Trimmed(n - k)
<1>0. n \in Nat /\ n <= 4095 /\ k \in Nat /\ k <= n
  BY DEF CountLimit
<1> DEFINE m == n - k
<1>m. m \in Nat /\ m <= 4095 /\ n >= m /\ n - m = k
  BY <1>0
<1> DEFINE c == SetMeasurementSampleCounts(n, m)
<1> HIDE DEF m
<1>1. m \in 0 .. CountLimit - 1 /\ n >= m /\ n - m = k
  BY <1>m DEF CountLimit
<1>2. MeasurementAcquiredSamples(c) = n /\ MeasurementInlierSamples(c) = m
  BY <1>1, CountsSurvivePacking
<1>3. c.schema = 2
  BY DEF SetMeasurementSampleCounts
<1> HIDE DEF c
<1>4. MeasurementOutlierSamples(c) = k
  BY <1>1, <1>2 DEF MeasurementOutlierSamples
<1>5. MeasurementUsedSamples(c) = Trimmed(m)
  BY <1>2, <1>3 DEF MeasurementUsedSamples
<1> QED BY <1>2, <1>4, <1>5 DEF c, m

(***************************************************************************)
(* What is published of a cycle is what was measured in it, provided that  *)
(* the payload's threshold for the MAD is the filter's: both are 30.       *)
(***************************************************************************)
THEOREM AlwaysPublishedAsMeasured ==
    ASSUME MAD_MIN_SAMPLES = A02YYUW_MIN_VALID_SAMPLES
    PROVE  Spec => []PublishedAsMeasured
<1>1. SamplesInv /\ CycleInv => PublishedAsMeasured
  <2> DEFINE n == Len(samples)
             k == result.outliers
             fields == Published(record)
             pins == SentToBlynk(record)
  <2> SUFFICES ASSUME SamplesInv, CycleInv, phase = "recorded"
               PROVE  /\ {<<"V12", n>>, <<"V14", k>>} \subseteq pins
                      /\ result.valid => <<"V13", result.used>> \in pins
                      /\ <<"V15", IF result.fourfoldMad = NaN THEN 0 ELSE result.fourfoldMad>> \in pins
                      /\ <<"samples_acquired", n>> \in fields
                      /\ <<"mad_outliers", k>> \in fields
                      /\ result.valid => <<"samples_used", result.used>> \in fields
                      /\ \A mad \in {f[2] : f \in {g \in fields : g[1] = "distance_mad"}} :
                             mad = result.fourfoldMad
                      /\ result.fourfoldMad # NaN => <<"distance_mad", result.fourfoldMad>> \in fields
    BY DEF PublishedAsMeasured
  <2>1. /\ samples \in Seq(Int) /\ Ascending(samples) /\ n \in Nat /\ n <= A02YYUW_SAMPLE_CAPACITY
        /\ \A i \in 1 .. Len(samples) : samples[i] \in Measurable
    BY DEF SamplesInv
  <2>2. /\ result = Finalized(samples, errors.checksum + errors.range, full)
        /\ record.fourfoldMad = IF result.fourfoldMad = NaN THEN 0 ELSE result.fourfoldMad
        /\ record.counts = SetMeasurementSampleCounts(n, n - k)
    BY DEF CycleInv
  <2>3. /\ k \in 0 .. n
        /\ n >= A02YYUW_MIN_VALID_SAMPLES => result.fourfoldMad # NaN
        /\ n < A02YYUW_MIN_VALID_SAMPLES => result.fourfoldMad = NaN
    BY <2>1, <2>2, OutliersAndMad
  <2>4. /\ result.valid => result.used = Trimmed(n - k)
    <3>1. result.valid => /\ n >= A02YYUW_MIN_VALID_SAMPLES
                          /\ result.used = Trimmed(Len(Inliers(samples)))
      BY <2>1, <2>2, FinalizedFacts
    <3>2. n >= A02YYUW_MIN_VALID_SAMPLES => k = n - Len(Inliers(samples))
      BY <2>1, <2>2, FinalizedFacts
    <3>3. Len(Inliers(samples)) \in Nat
      BY <2>1, InliersAreSamples
    <3>4. k = n - Len(Inliers(samples)) => n - k = Len(Inliers(samples))
      BY <2>1, <3>3
    <3> QED BY <3>1, <3>2, <3>4
  <2> HIDE DEF n, k
  <2>5. n \in 0 .. CountLimit - 1
    BY <2>1, AcquisitionAssumption DEF CountLimit
  <2>6. /\ MeasurementAcquiredSamples(record.counts) = n
        /\ MeasurementOutlierSamples(record.counts) = k
        /\ MeasurementUsedSamples(record.counts) = Trimmed(n - k)
    BY <2>2, <2>3, <2>5, CountsReadBack
  <2>7. /\ <<"samples_acquired", n>> \in fields /\ <<"mad_outliers", k>> \in fields
        /\ <<"samples_used", Trimmed(n - k)>> \in fields
    BY <2>6 DEF Published
  <2>8. n \in Nat /\ A02YYUW_MIN_VALID_SAMPLES \in Nat
    BY <2>1, FilterAssumption
  <2>9. result.fourfoldMad # NaN <=> n >= MAD_MIN_SAMPLES
    BY <2>3, <2>8
  <2>10. ASSUME NEW f \in fields, f[1] = "distance_mad"
         PROVE  f[2] = record.fourfoldMad /\ n >= MAD_MIN_SAMPLES
    BY <2>6, <2>10 DEF Published
  <2>11. n >= MAD_MIN_SAMPLES => <<"distance_mad", record.fourfoldMad>> \in fields
    BY <2>6 DEF Published
  <2> HIDE DEF fields, pins
  <2>12. ASSUME NEW f \in fields, f[1] = "distance_mad" PROVE f[2] = result.fourfoldMad
    BY <2>2, <2>9, <2>10, <2>12
  <2>13. result.fourfoldMad # NaN => <<"distance_mad", result.fourfoldMad>> \in fields
    BY <2>2, <2>9, <2>11
  <2>14. /\ {<<"V12", n>>, <<"V14", k>>, <<"V13", Trimmed(n - k)>>} \subseteq pins
         /\ <<"V15", record.fourfoldMad>> \in pins
    BY <2>6 DEF SentToBlynk, pins
  <2>15. /\ {<<"V12", n>>, <<"V14", k>>} \subseteq pins
         /\ result.valid => <<"V13", result.used>> \in pins
         /\ <<"V15", IF result.fourfoldMad = NaN THEN 0 ELSE result.fourfoldMad>> \in pins
    BY <2>2, <2>4, <2>14
  <2> QED BY <2>4, <2>7, <2>12, <2>13, <2>15
<1> QED BY <1>1, SamplesInvariant, CycleInvariant, PTL

(***************************************************************************)
(* What finalizeA02YYUWMeasurement() is for: while twice the faults of the *)
(* line are fewer than the samples, the distance lies within the outlier   *)
(* limit of those that the sensor reported.                                *)
(***************************************************************************)
THEOREM DistanceWasAlwaysSent == Spec => []DistanceWasSent
<1>1. SamplesInv /\ StrayInv /\ CycleInv => DistanceWasSent
  <2> DEFINE n == Len(samples)
             lo == sent.least
             hi == sent.greatest
             strays == Hits(samples, n, Outside(lo, hi))
             d == result.distance
  <2> SUFFICES ASSUME SamplesInv, StrayInv, CycleInv, result.valid, 2 * faults < n
               PROVE  \/ InRange(d, lo - 20, hi + 20)
                      \/ /\ 10000 * (d - hi) <= 44478 * (hi - lo)
                         /\ 10000 * (lo - d) <= 44478 * (hi - lo)
    BY DEF DistanceWasSent, A02YYUW_MIN_OUTLIER_LIMIT_MM
  <2>1. samples \in Seq(Int) /\ Ascending(samples) /\ n \in Nat
    BY DEF SamplesInv
  <2>2. lo \in Int /\ hi \in Int /\ faults \in Nat /\ strays + Pending <= faults
    BY SensorIsNumber DEF StrayInv
  <2>3. strays \in Nat
    BY <2>1, HitsFacts
  <2>4. phase \in {"filtered", "recorded"}
    <3> SUFFICES ASSUME phase \notin {"filtered", "recorded"} PROVE FALSE
      OBVIOUS
    <3> QED BY DEF CycleInv, NoMeasurement
  <2>5. result = Finalized(samples, errors.checksum + errors.range, full)
    BY <2>4 DEF CycleInv
  <2> HIDE DEF lo, hi, strays, d, n
  <2>6. 2 * strays < n
    BY <2>1, <2>2, <2>3, PendingType
  <2>7. 2 * Hits(samples, Len(samples), Outside(lo, hi)) < Len(samples)
    BY <2>6 DEF strays, n
  <2>8. lo <= hi
    <3> DEFINE median == TwiceMedian(samples)
    <3>1. median \in 2 * lo .. 2 * hi
      BY <2>1, <2>2, <2>7, MedianIsInside
    <3> HIDE DEF median
    <3> QED BY <2>2, <3>1
  <2>9. /\ Finalized(samples, errors.checksum + errors.range, full).valid
        /\ d = Finalized(samples, errors.checksum + errors.range, full).distance
    BY <2>5 DEF d
  <2> QED BY <2>1, <2>2, <2>7, <2>8, <2>9, FinalizedDistance
<1> QED BY <1>1, SamplesInvariant, StrayInvariant, CycleInvariant, PTL
=============================================================================
