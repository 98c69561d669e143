---------------------------- MODULE TelemetryPayload ----------------------------
(***************************************************************************)
(* serializeTelemetryPayload() of src/TelemetryPayload.cpp and             *)
(* sendRecordToBlynk() of src/main.cpp: which of the fields about the      *)
(* distance a record publishes to each destination, and their values.  The *)
(* electrical and the climate fields follow a flag each in the same way    *)
(* and are left out, as are the text and its buffer.                       *)
(***************************************************************************)
EXTENDS Integers, MeasurementRecord

CONSTANT MAD_MIN_SAMPLES   \* the 30 below which no MAD is published

ASSUME PayloadAssumption == MAD_MIN_SAMPLES \in Nat

\* A record of the queue as an MQTT message: the fields that are present.
Published(r) ==
    {<<"samples_acquired", MeasurementAcquiredSamples(r.counts)>>,
     <<"samples_used", MeasurementUsedSamples(r.counts)>>,
     <<"mad_outliers", MeasurementOutlierSamples(r.counts)>>}
    \cup (IF r.distanceValid
          THEN {<<"water_level", r.waterLevel>>,
                <<"distance_to_water", r.distance>>,
                <<"sensor_height", r.waterLevel + r.distance>>}
          ELSE {})
    \cup (IF MeasurementAcquiredSamples(r.counts) >= MAD_MIN_SAMPLES
          THEN {<<"distance_mad", r.fourfoldMad>>}
          ELSE {})

\* The same record as the group of Blynk's virtual pins.
SentToBlynk(r) ==
    {<<"V12", MeasurementAcquiredSamples(r.counts)>>,
     <<"V13", MeasurementUsedSamples(r.counts)>>,
     <<"V14", MeasurementOutlierSamples(r.counts)>>,
     <<"V15", r.fourfoldMad>>}
    \cup (IF r.distanceValid THEN {<<"V1", r.distance>>, <<"V2", r.waterLevel>>} ELSE {})
=============================================================================
