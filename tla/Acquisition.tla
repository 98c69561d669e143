------------------------------ MODULE Acquisition ------------------------------
(***************************************************************************)
(* src/main.cpp, from the bytes of the A02YYUW to the record of a cycle:   *)
(* the frame parser, the samples of the collection window, the filter, the *)
(* record and its payload, and the reference height of V6.                 *)
(*                                                                         *)
(* The sensor sends frames of four bytes, 0xFF, the high and the low byte  *)
(* of a distance in millimetres, and the sum of the three.  The UART does  *)
(* not know where a frame begins: reception starts anywhere, and a byte    *)
(* may be garbled or some may be lost, as when the receive buffer runs     *)
(* over while loop() is busy.                                              *)
(*                                                                         *)
(* A byte is served when it arrives: a call of the handler that reads      *)
(* several is so many steps.  The order of samples, which no step but the  *)
(* sort depends on, is left out: samples is sorted throughout.             *)
(***************************************************************************)
EXTENDS FiniteSets, MeasurementFilter, TelemetryPayload

CONSTANTS
    Distances,                \* what the sensor reports
    Noise,                    \* bytes that a garbled byte may turn into
    Heights,                  \* values of V6
    A02YYUW_DISCARD_SAMPLES,
    A02YYUW_SAMPLE_CAPACITY,
    MaxFrames,                \* bound: frames sent in a window
    MaxFaults                 \* bound: garbled bytes and gaps in a window

SensorRange == 0 .. 7500   \* what the sensor may report, in millimetres

ASSUME AcquisitionAssumption ==
    /\ Distances \subseteq SensorRange /\ Distances # {}
    /\ Noise \subseteq Byte
    /\ Heights \subseteq Nat /\ Heights # {}
    /\ A02YYUW_DISCARD_SAMPLES \in Nat
    /\ A02YYUW_SAMPLE_CAPACITY \in Nat /\ A02YYUW_SAMPLE_CAPACITY < CountLimit
    /\ MaxFrames \in Nat /\ MaxFaults \in Nat

VARIABLES
    phase,       \* "idle", "warming", "collecting", "filtered" or "recorded"
    sensor,      \* the frame being sent and the bytes of it that are out
    frame,       \* a02Frame, its first a02FrameIndex bytes
    discarded,   \* a02DiscardedSamples
    samples,     \* a02Samples
    full,        \* a02SampleBufferFull
    errors,      \* a02ChecksumErrors and a02RangeErrors
    result,      \* distanceValid, measurementQuality, latestDistanceMm, ...
    level,       \* latestWaterLevelMm
    record,      \* currentCycleRecord, when the phase is "recorded"
    height,      \* sensorHeightMm
    \* history of the window:
    frames, faults,
    sent,        \* the least and the greatest distance sent
    clean        \* the last frame is received whole and has 0xFF only as its header

window == <<discarded, samples, full, errors>>
line == <<sensor, frames, faults, sent, clean>>
outcome == <<result, level, record>>
vars == <<phase, frame, window, line, outcome, height>>

NoErrors == [checksum |-> 0, range |-> 0]
NoRecord == [distanceValid |-> FALSE, distance |-> 0, waterLevel |-> 0, fourfoldMad |-> 0,
             quality |-> "INVALID", counts |-> SetMeasurementSampleCounts(0, 0)]
Sampling == phase = "collecting"

-----------------------------------------------------------------------------
(***************************************************************************)
(* The frame parser                                                        *)
(***************************************************************************)
\* The bytes of the frame that reports a distance.
FrameByte(distance, position) ==
    CASE position = 0 -> 255
      [] position = 1 -> distance \div 256
      [] position = 2 -> distance % 256
      [] position = 3 -> (255 + (distance \div 256) + (distance % 256)) % 256

\* Mutant: any byte may begin a frame.
FedWithoutHeader(bytes, byte) == Append(bytes, byte)

\* readA02YYUWFrame(), one byte.
Fed(bytes, byte) == IF bytes = <<>> /\ byte # 255 THEN bytes ELSE Append(bytes, byte)

DistanceOf(bytes) == bytes[2] * 256 + bytes[3]

\* Mutant: the checksum is not compared.
VerdictWithoutChecksum(bytes) ==
    IF 30 <= DistanceOf(bytes) /\ DistanceOf(bytes) <= 4500 THEN "VALID" ELSE "RANGE_ERROR"

\* readA02YYUWFrame(), four bytes.
Verdict(bytes) ==
    IF (bytes[1] + bytes[2] + bytes[3]) % 256 # bytes[4] THEN "CHECKSUM_ERROR"
    ELSE IF 30 <= DistanceOf(bytes) /\ DistanceOf(bytes) <= 4500 THEN "VALID" ELSE "RANGE_ERROR"

-----------------------------------------------------------------------------
(***************************************************************************)
(* The window                                                              *)
(***************************************************************************)
IncrementSaturated(n) == IF n < 65535 THEN n + 1 ELSE n

Discard(verdict) ==
    /\ discarded < A02YYUW_DISCARD_SAMPLES
    /\ discarded' = IF verdict = "VALID" THEN discarded + 1 ELSE discarded
    /\ UNCHANGED <<samples, full, errors>>

\* Mutant: the last slot of the buffer is taken for two.
SampleBeyondCapacity(distance) ==
    /\ discarded >= A02YYUW_DISCARD_SAMPLES
    /\ IF Len(samples) <= A02YYUW_SAMPLE_CAPACITY
       THEN samples' = Inserted(samples, distance) /\ UNCHANGED full
       ELSE full' = TRUE /\ UNCHANGED samples
    /\ UNCHANGED <<discarded, errors>>

Sample(distance) ==
    /\ discarded >= A02YYUW_DISCARD_SAMPLES
    /\ IF Len(samples) < A02YYUW_SAMPLE_CAPACITY
       THEN samples' = Inserted(samples, distance) /\ UNCHANGED full
       ELSE full' = TRUE /\ UNCHANGED samples
    /\ UNCHANGED <<discarded, errors>>

CountError(verdict) ==
    /\ discarded >= A02YYUW_DISCARD_SAMPLES
    /\ errors' = IF verdict = "CHECKSUM_ERROR"
                 THEN [errors EXCEPT !.checksum = IncrementSaturated(@)]
                 ELSE [errors EXCEPT !.range = IncrementSaturated(@)]
    /\ UNCHANGED <<discarded, samples, full>>

\* serviceAutomaticA02YYUWMeasurement(), for the next byte.
Receive(byte) ==
    LET bytes == Fed(frame, byte)
    IN  IF Len(bytes) < 4 THEN frame' = bytes /\ UNCHANGED window
        ELSE /\ frame' = <<>>
             /\ LET verdict == Verdict(bytes)
                IN  \/ Discard(verdict)
                    \/ verdict = "VALID" /\ Sample(DistanceOf(bytes))
                    \/ verdict # "VALID" /\ CountError(verdict)

-----------------------------------------------------------------------------
(***************************************************************************)
(* The sensor and the line                                                 *)
(***************************************************************************)
At(position, distance) == [position |-> position,
                           distance |-> IF position = 0 THEN 0 ELSE distance]

Widened(distance) == [least |-> IF distance < sent.least THEN distance ELSE sent.least,
                      greatest |-> IF distance > sent.greatest THEN distance ELSE sent.greatest]

\* The next byte leaves the sensor, which measures anew for every frame.
Emit(distance) ==
    /\ Sampling
    /\ IF sensor.position = 0 THEN frames < MaxFrames /\ frames' = frames + 1
       ELSE distance = sensor.distance /\ UNCHANGED frames
    /\ sensor' = At((sensor.position + 1) % 4, distance)
    /\ sent' = Widened(distance)

ByteArrives(distance) ==
    LET byte == FrameByte(distance, sensor.position)
    IN  /\ Emit(distance)
        /\ Receive(byte)
        /\ clean' = (sensor.position = 0 \/ (clean /\ byte # 255))
        /\ UNCHANGED <<phase, faults, outcome, height>>

ByteIsGarbled(distance, byte) ==
    /\ faults < MaxFaults /\ byte # FrameByte(distance, sensor.position)
    /\ Emit(distance)
    /\ Receive(byte)
    /\ faults' = faults + 1 /\ clean' = FALSE
    /\ UNCHANGED <<phase, outcome, height>>

\* Bytes are lost, one or any number.
Gap(distance, position) ==
    /\ Sampling /\ faults < MaxFaults
    /\ sensor' = At(position, distance)
    /\ sent' = IF position = 0 THEN sent ELSE Widened(distance)
    /\ faults' = faults + 1 /\ clean' = FALSE
    /\ UNCHANGED <<phase, frame, window, frames, outcome, height>>

-----------------------------------------------------------------------------
(***************************************************************************)
(* The cycle                                                               *)
(***************************************************************************)
Init ==
    /\ phase = "idle" /\ sensor = At(0, 0)
    /\ frame = <<>> /\ discarded = 0 /\ samples = <<>> /\ full = FALSE /\ errors = NoErrors
    /\ result = NoMeasurement /\ level = 0 /\ record = NoRecord
    /\ height \in Heights
    /\ frames = 0 /\ faults = 0 /\ sent = [least |-> 0, greatest |-> 0] /\ clean = FALSE

\* startNormalMeasurementCycle(), the counters.
ClearWindow ==
    discarded' = 0 /\ full' = FALSE /\ errors' = NoErrors /\ samples' = <<>>

\* startNormalMeasurementCycle(), after a cycle or after a reset.  It resets distanceValid;
\* the other results are overwritten before they are read.
StartNormalMeasurementCycle ==
    /\ phase' = "warming"
    /\ ClearWindow
    /\ frame' = <<>> /\ record' = NoRecord
    /\ result' = NoMeasurement /\ level' = 0
    /\ sensor' = At(0, 0) /\ frames' = 0 /\ faults' = 0 /\ clean' = FALSE
    /\ sent' = [least |-> 0, greatest |-> 0]
    /\ UNCHANGED height

\* The handler drops what came during the warm-up: the sensor is anywhere in a frame.
WarmUpEnds(distance, position) ==
    /\ phase = "warming"
    /\ phase' = "collecting"
    /\ frame' = <<>>
    /\ sensor' = At(position, distance)
    /\ sent' = [least |-> distance, greatest |-> distance]
    /\ UNCHANGED <<window, frames, faults, clean, outcome, height>>

\* finalizeA02YYUWMeasurement()
FinalizeA02YYUWMeasurement ==
    /\ Sampling
    /\ phase' = "filtered"
    /\ result' = Finalized(samples, errors.checksum + errors.range, full)
    /\ level' = IF result'.valid THEN height - result'.distance ELSE level
    /\ frame' = <<>>
    /\ UNCHANGED <<window, line, record, height>>

\* buildCurrentMeasurementRecord()
CurrentMeasurementRecord ==
    [distanceValid |-> result.valid,
     distance |-> IF result.valid THEN result.distance ELSE 0,
     waterLevel |-> IF result.valid THEN level ELSE 0,
     fourfoldMad |-> IF result.fourfoldMad = NaN THEN 0 ELSE result.fourfoldMad,
     quality |-> result.quality,
     counts |-> SetMeasurementSampleCounts(Len(samples), Len(samples) - result.outliers)]

\* performOtherCycleMeasurements(), its call of persistCurrentMeasurement().
PerformOtherCycleMeasurements ==
    /\ phase = "filtered"
    /\ phase' = "recorded"
    /\ record' = CurrentMeasurementRecord
    /\ UNCHANGED <<frame, window, line, result, level, height>>

\* Mutant: the record is left as it was built.
LeavesRecord(new) == record

\* BLYNK_WRITE(V6), the record of the cycle.
CorrectedRecord(new) ==
    IF phase = "recorded" /\ record.distanceValid
    THEN [record EXCEPT !.waterLevel = new - result.distance] ELSE record

\* BLYNK_WRITE(V6), for the record in RAM.  The copy in the queue, which an upload reads if
\* the record is queued, is taken to follow it: that replaceNewest may fail and leave the
\* old or a torn copy is modelled in OfflineQueue (RewriteNewest) and UploadCycle
\* (BlynkWriteV6), where a record has no values.
SetSensorHeight(new) ==
    /\ height' = new
    /\ level' = IF result.valid THEN new - result.distance ELSE level
    /\ record' = IF result.valid THEN CorrectedRecord(new) ELSE record
    /\ UNCHANGED <<phase, frame, window, line, result>>

Next ==
    \/ StartNormalMeasurementCycle
    \/ \E distance \in Distances, position \in 0 .. 3 :
           WarmUpEnds(distance, position) \/ Gap(distance, position)
    \/ \E distance \in Distances : ByteArrives(distance)
    \/ \E distance \in Distances, byte \in Noise : ByteIsGarbled(distance, byte)
    \/ FinalizeA02YYUWMeasurement
    \/ PerformOtherCycleMeasurements
    \/ \E new \in Heights : SetSensorHeight(new)

Spec == Init /\ [][Next]_vars

-----------------------------------------------------------------------------
(***************************************************************************)
(* Properties                                                              *)
(***************************************************************************)
InRange(d, lo, hi) == lo <= d /\ d <= hi

\* The types; a window that is not full has room, and the quality says INVALID exactly
\* when there is no distance.
TypeOK ==
    /\ phase \in {"idle", "warming", "collecting", "filtered", "recorded"}
    /\ sensor \in [position : 0 .. 3, distance : Distances \cup {0}]
    /\ Len(frame) < 4 /\ \A i \in DOMAIN frame : frame[i] \in Byte
    /\ discarded \in 0 .. A02YYUW_DISCARD_SAMPLES
    /\ Len(samples) <= A02YYUW_SAMPLE_CAPACITY /\ \A i \in DOMAIN samples : samples[i] \in 30 .. 4500
    /\ full => Len(samples) = A02YYUW_SAMPLE_CAPACITY
    /\ result.valid <=> result.quality # "INVALID"
    /\ record.counts \in Counts
    /\ height \in Heights

\* The samples that lie outside of what the sensor has reported in this window.
Strays == {i \in DOMAIN samples : ~InRange(samples[i], sent.least, sent.greatest)}

\* The parser takes four bytes for a frame wherever it finds a header, a sum and a range that
\* fit, and a byte of a distance may be 0xFF.  However it is out of step, it invents no
\* distance beyond those that the sensor reports unless bytes are garbled or lost, and each
\* time that they are costs one sample at most.
StraysNeedFaults == Cardinality(Strays) <= faults

\* readA02YYUWFrame() finds its place again: after a frame that arrives whole and holds 0xFF
\* only as its header, the next header begins a frame of the parser.
FindsHeader == (Sampling /\ clean /\ sensor.position = 0) => frame = <<>>

\* What the filter of finalizeA02YYUWMeasurement() is for: as long as the samples outnumber
\* twice the faults of the line, the distance lies among those the sensor reported in this
\* window, or within the outlier limit that their spread allows.
DistanceWasSent ==
    result.valid /\ 2 * faults < Len(samples) =>
        LET spread == sent.greatest - sent.least
        IN  \/ InRange(result.distance, sent.least - A02YYUW_MIN_OUTLIER_LIMIT_MM,
                       sent.greatest + A02YYUW_MIN_OUTLIER_LIMIT_MM)
            \/ 10000 * (result.distance - sent.greatest) <= 44478 * spread
               /\ 10000 * (sent.least - result.distance) <= 44478 * spread

\* What is published of a cycle is what was measured in it: the counts survive their packing
\* into three bytes, the MAD goes to MQTT exactly when there is one and to Blynk as 0 when
\* there is none, and samples_used is the number of samples in the mean when there is a mean.
PublishedAsMeasured ==
    phase = "recorded" =>
        LET fields == Published(record)
            pins == SentToBlynk(record)
        IN  /\ {<<"V12", Len(samples)>>, <<"V14", result.outliers>>} \subseteq pins
            /\ result.valid => <<"V13", result.used>> \in pins
            /\ <<"V15", IF result.fourfoldMad = NaN THEN 0 ELSE result.fourfoldMad>> \in pins
            /\ <<"samples_acquired", Len(samples)>> \in fields
            /\ <<"mad_outliers", result.outliers>> \in fields
            /\ result.valid => <<"samples_used", result.used>> \in fields
            /\ \A mad \in {f[2] : f \in {g \in fields : g[1] = "distance_mad"}} : mad = result.fourfoldMad
            /\ result.fourfoldMad # NaN => <<"distance_mad", result.fourfoldMad>> \in fields

\* The water level of a record, and the sensor height that its payload derives from it, belong
\* to the reference height in force, whenever V6 arrives: between the filter and the record,
\* after the record, or during the next window.
DatumIsInForce ==
    phase = "recorded" /\ record.distanceValid =>
        /\ <<"water_level", height - record.distance>> \in Published(record)
        /\ <<"V2", height - record.distance>> \in SentToBlynk(record)
=============================================================================
