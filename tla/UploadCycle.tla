----------------------------- MODULE UploadCycle ----------------------------
(***************************************************************************)
(* src/main.cpp, the upload of one measurement cycle: the record that the  *)
(* cycle persists, its delivery and the delivery of the backlog to Blynk   *)
(* and to MQTT, the terminal commands that interfere with them, the end of *)
(* the cycle and the deep sleep, reset or stay-awake slot that follows.    *)
(*                                                                         *)
(* One loop task runs every handler (Blynk's V21, V17 and V10 callbacks    *)
(* are called from it), so an action is a whole handler or one call of a   *)
(* service function of loop().  What is not the loop task interleaves with *)
(* it: Blynk's cloud behind a TCP connection, the broker and the MQTT      *)
(* client's task, and time, seen only as the timeouts that ran out.        *)
(*                                                                         *)
(* The queue is used at the level of its calls: OfflineQueue shows that a  *)
(* call is atomic and that sequences are contiguous, TelemetryDeliveryState*)
(* that wrapped sequences compare like positions.  So a sequence is a      *)
(* natural number, the queue is a sequence of records of known sequences,  *)
(* and a cursor is compared with <=.  The MQTT tracker is used as          *)
(* MqttTelemetry shows it to be: it hands out the sequence of a packet     *)
(* that the broker acknowledged.                                           *)
(*                                                                         *)
(* A record is the number of the cycle that measured it.  When a call may  *)
(* end in several ways, an operator gives the set of its outcomes.         *)
(***************************************************************************)
EXTENDS Integers, Sequences

CONSTANTS
    Capacity,                     \* OFFLINE_QUEUE_CAPACITY
    MAX_RECORD_UPLOADS_PER_CYCLE,
    Modes,                        \* telemetry modes that the device may be in
    Commands,                     \* of "mqtt", "offline clear", "stay awake": what users send
    Faults,                       \* of "mount", "enqueue", "acknowledge", "rewrite":
                                  \* the LittleFS calls that may fail
    MaxCycles,                    \* bound: measurement cycles of a behaviour
    MaxInFlight                   \* bound: unhandled Blynk messages when a replay pass starts

Destination == {"BLYNK", "MQTT"}
Cycle == 1 .. MaxCycles

ASSUME UploadAssumption ==
    /\ Capacity \in Nat \ {0}
    /\ MAX_RECORD_UPLOADS_PER_CYCLE \in Nat \ {0}
    /\ Modes \subseteq {"BLYNK_ONLY", "MQTT_ONLY", "BOTH"}
    /\ Commands \subseteq {"mqtt", "offline clear", "stay awake"}
    /\ Faults \subseteq {"mount", "enqueue", "acknowledge", "rewrite"}
    /\ MaxCycles \in Nat \ {0} /\ MaxInFlight \in Nat

VARIABLES
    phase, cycle, mode, stayAwake,
    store,         \* the OfflineQueue
    record,        \* currentCycleRecord: whether it is queued, and its sequence
    cycleUploaded, finished, acks,
    upload,        \* the Blynk upload: offlineUploadState and its companions
    timer,         \* the timeouts of this cycle
    blynkConnected, uplink, downlink, cloudSequence,
    mqtt,          \* the MqttTelemetry
    received       \* what each destination has received

cycleVars == <<record, cycleUploaded, finished, acks, upload, timer>>
cloudVars == <<blynkConnected, uplink, downlink, cloudSequence>>
vars == <<phase, cycle, mode, stayAwake, store, record, cycleUploaded, finished, acks,
          upload, timer, blynkConnected, uplink, downlink, cloudSequence, mqtt, received>>

-----------------------------------------------------------------------------
(***************************************************************************)
(* The telemetry mode and the parts of the state at the start of a cycle.  *)
(***************************************************************************)
RequiredMask(m) == CASE m = "BLYNK_ONLY" -> {"BLYNK"}
                     [] m = "MQTT_ONLY" -> {"MQTT"}
                     [] m = "BOTH" -> Destination

Uses(d) == d \in RequiredMask(mode)

NoRecord == [queued |-> FALSE, sequence |-> 0]
NoUpload == [state |-> "IDLE", sequence |-> 0, acknowledged |-> FALSE, synced |-> FALSE]
NoTimers == [t \in {"upload", "mqtt", "edgent"} |-> "off"]
NoMqtt == [initialized |-> FALSE, connected |-> FALSE, pending |-> FALSE, sequence |-> 0,
           cycle |-> 0, acknowledged |-> FALSE]
EmptyStore == [ready |-> TRUE, queue |-> <<>>, nextSequence |-> 1, dropped |-> 0,
               cursor |-> [d \in Destination |-> 0]]

Untracked(m) == [m EXCEPT !.pending = FALSE, !.sequence = 0, !.cycle = 0,
                          !.acknowledged = FALSE]

\* A V21 request in the uplink; every other message there is a record.
SyncV21 == [cycle |-> 0, sequence |-> 0]

-----------------------------------------------------------------------------
(***************************************************************************)
(* The calls of the OfflineQueue.                                          *)
(***************************************************************************)
Queued(s) == {s.queue[i].cycle : i \in DOMAIN s.queue}
SequenceAt(s, i) == s.nextSequence - Len(s.queue) + i - 1

HeadDropped(s) == [s EXCEPT !.queue = Tail(@), !.dropped = @ + 1]
WithRoom(s) == IF Len(s.queue) = Capacity THEN HeadDropped(s) ELSE s

\* Mutant: a full queue does not make room.
AddedBeyondCapacity(s) == [s EXCEPT
                !.queue = Append(@, [cycle |-> cycle, readable |-> TRUE]),
                !.nextSequence = @ + 1]

Added(s) == [WithRoom(s) EXCEPT
                !.queue = Append(@, [cycle |-> cycle, readable |-> TRUE]),
                !.nextSequence = @ + 1]

\* The record after a failed enqueue: it has a sequence once there is room.
EnqueueFailures(s) ==
    {[store |-> WithRoom(s), record |-> [queued |-> FALSE, sequence |-> s.nextSequence]]}
        \cup IF Len(s.queue) = Capacity THEN {[store |-> s, record |-> NoRecord]} ELSE {}

EnqueueOutcomes(s) ==
    {[store |-> Added(s), record |-> [queued |-> TRUE, sequence |-> s.nextSequence]]}
        \cup IF "enqueue" \in Faults THEN EnqueueFailures(s) ELSE {}

DeliveredTo(s, i, mask) == \A d \in mask : SequenceAt(s, i) <= s.cursor[d]

\* trimDeliveredRecords: how many records it removes; an unreadable head stops it.
Trimmable(s, mask) ==
    LET trims(n) == \A i \in 1 .. n : s.queue[i].readable /\ DeliveredTo(s, i, mask)
    IN  CHOOSE n \in 0 .. Len(s.queue) : trims(n) /\ (n = Len(s.queue) \/ ~trims(n + 1))

Shortened(s, n) == [s EXCEPT !.queue = SubSeq(@, n + 1, Len(@))]
Trimmed(s, mask) == Shortened(s, Trimmable(s, mask))

\* A failing write or read ends the trim early.
TrimFailures(s, mask) ==
    IF "acknowledge" \in Faults THEN {Shortened(s, n) : n \in 0 .. Trimmable(s, mask)} ELSE {}

HeadUnreadable(s) == s.queue # <<>> /\ ~s.queue[1].readable

ReconcileOutcomes(s, mask) ==
    IF s.ready THEN {Trimmed(s, mask)} \cup TrimFailures(s, mask) ELSE {s}

\* Mutant: the newest record, whatever d has.
NewestAt(s, d) == Len(s.queue)

\* peekPendingDelivery: the index of the oldest record that d does not have.
PendingAt(s, d) ==
    IF s.queue = <<>> \/ SequenceAt(s, 1) > s.cursor[d] THEN 1
    ELSE s.cursor[d] - SequenceAt(s, 1) + 2

HasPending(s, d) == PendingAt(s, d) <= Len(s.queue)

PeekFails(s, d) ==
    \/ HeadUnreadable(s)
    \/ /\ s.queue # <<>>
       /\ HasPending(s, d) /\ ~s.queue[PendingAt(s, d)].readable

PendingSequence(s, d) == SequenceAt(s, PendingAt(s, d))
PendingRecord(s, d) ==
    [cycle |-> s.queue[PendingAt(s, d)].cycle, sequence |-> PendingSequence(s, d)]

\* acknowledgeDelivery: refused, completed, or stopped by a failing write or by an
\* unreadable record behind the ones it removed.
AcknowledgeOutcomes(s, sequence, d) ==
    LET mask == RequiredMask(mode)
        moved == [s EXCEPT !.cursor[d] = sequence]
        trimmed == Trimmed(moved, mask)
    IN  IF ~HasPending(s, d) \/ PeekFails(s, d) \/ PendingSequence(s, d) # sequence
        THEN {[store |-> s, error |-> TRUE]}
        ELSE {[store |-> trimmed, error |-> HeadUnreadable(trimmed)]}
                \cup {[store |-> t, error |-> TRUE] : t \in TrimFailures(moved, mask)}
                \cup IF "acknowledge" \in Faults THEN {[store |-> s, error |-> TRUE]} ELSE {}

\* persistCurrentMeasurement, and retryPersistCurrentMeasurement, which enqueues
\* a copy: a failed retry leaves the record of the cycle as it was.
PersistOutcomes(s) ==
    IF s.ready THEN EnqueueOutcomes(s) ELSE {[store |-> s, record |-> NoRecord]}

RetryOutcomes(s, r) ==
    IF r.queued \/ ~s.ready THEN {[store |-> s, record |-> r]}
    ELSE {[store |-> o.store, record |-> IF o.record.queued THEN o.record ELSE r] :
              o \in EnqueueOutcomes(s)}

\* updateNewestTimestamp and replaceNewest: the newest record, if it is this one, is
\* rewritten in place; a torn write leaves it unreadable.
RewriteOutcomes(s, r) ==
    LET n == Len(s.queue)
    IN  {s} \cup IF /\ "rewrite" \in Faults /\ r.queued
                    /\ n > 0 /\ SequenceAt(s, n) = r.sequence
                 THEN {[s EXCEPT !.queue[n].readable = FALSE]} ELSE {}

\* What the two upload services do first.
Prepared ==
    UNION {{[store |-> s, record |-> o.record] : s \in RewriteOutcomes(o.store, o.record)} :
               o \in RetryOutcomes(store, record)}

-----------------------------------------------------------------------------
(***************************************************************************)
(* The start and the end of a cycle                                        *)
(***************************************************************************)
\* startNormalMeasurementCycle(), which leaves the MQTT tracker alone.
StartNormalMeasurementCycle ==
    /\ phase' = "measuring"
    /\ cycle' = cycle + 1
    /\ record' = NoRecord
    /\ cycleUploaded' = FALSE
    /\ finished' = [d \in Destination |-> ~Uses(d)]
    /\ acks' = [d \in Destination |-> 0]
    /\ upload' = [NoUpload EXCEPT !.synced = upload.synced]
    /\ timer' = NoTimers

\* setup(): the queue's begin() and reconcileDeliveries, then the first cycle.
WakeUp ==
    /\ phase = "asleep" /\ cycle < MaxCycles
    /\ \E ready \in {TRUE} \cup {"mount" \notin Faults} :
           store' \in ReconcileOutcomes([store EXCEPT !.ready = ready], RequiredMask(mode))
    /\ \E initialized \in {Uses("MQTT"), FALSE} :
           mqtt' = [NoMqtt EXCEPT !.initialized = initialized]
    /\ StartNormalMeasurementCycle
    /\ UNCHANGED <<mode, stayAwake, cloudVars, received>>

\* The next slot of a device that stays awake.
NextSlot ==
    /\ phase = "measured" /\ stayAwake /\ cycle < MaxCycles
    /\ StartNormalMeasurementCycle
    /\ UNCHANGED <<mode, stayAwake, store, cloudVars, mqtt, received>>

\* performOtherCycleMeasurements() ends with persistCurrentMeasurement().
PerformOtherCycleMeasurements ==
    /\ phase = "measuring"
    /\ phase' = "measured"
    /\ \E o \in PersistOutcomes(store) : store' = o.store /\ record' = o.record
    /\ UNCHANGED <<cycle, mode, stayAwake, cycleUploaded, finished, acks, upload, timer,
                   cloudVars, mqtt, received>>

\* finishDestinationUploadForCycle and finishUploadWorkForCycle.
Finish(d) ==
    /\ finished' = [finished EXCEPT ![d] = TRUE]
    /\ cycleUploaded' = (cycleUploaded \/ \A e \in Destination : finished'[e])

NotFinished == UNCHANGED <<finished, cycleUploaded>>

\* beginStayAwakeQueueDrainPass()
BeginStayAwakeQueueDrainPass ==
    /\ phase = "measured" /\ stayAwake /\ cycleUploaded
    /\ store.ready /\ store.queue # <<>>
    /\ Len(uplink) + Len(downlink) <= MaxInFlight
    /\ cycleUploaded' = FALSE
    /\ finished' = [d \in Destination |-> ~Uses(d)]
    /\ acks' = [d \in Destination |-> 0]
    /\ upload' = [NoUpload EXCEPT !.synced = upload.synced]
    /\ timer' = [timer EXCEPT !["mqtt"] = "off", !["upload"] = "off"]
    /\ UNCHANGED <<phase, cycle, mode, stayAwake, store, record, cloudVars, mqtt, received>>

\* RAM and connections after a sleep or a reset.
PoweredDown ==
    /\ phase' = "asleep"
    /\ record' = NoRecord /\ cycleUploaded' = FALSE
    /\ finished' = [d \in Destination |-> FALSE] /\ acks' = [d \in Destination |-> 0]
    /\ upload' = NoUpload /\ timer' = NoTimers
    /\ blynkConnected' = FALSE /\ uplink' = <<>> /\ downlink' = <<>>
    /\ mqtt' = NoMqtt
    /\ UNCHANGED <<cycle, mode, stayAwake, cloudSequence, received>>

\* enterTimedDeepSleep(): the work of the cycle is done, or the connection
\* deadline of the cycle has passed (abortEdgentConnectionForThisCycle).
EnterTimedDeepSleep ==
    /\ phase = "measured" /\ ~stayAwake
    /\ cycleUploaded \/ timer["edgent"] = "elapsed"
    /\ \E o \in RetryOutcomes(store, record) : store' = o.store
    /\ PoweredDown

PowerLoss ==
    /\ phase # "asleep"
    /\ PoweredDown
    /\ UNCHANGED store

\* Mutant: the limit of records per cycle is off by one.
OneMoreRecord == {MAX_RECORD_UPLOADS_PER_CYCLE + 1}

\* recordUploadLimitForCurrentCycle(): two records every other slot.
RecordUploadLimit == IF stayAwake THEN {1} ELSE {1, MAX_RECORD_UPLOADS_PER_CYCLE}

\* recordDurableDeliveryAcknowledgement()
RecordDurableDeliveryAcknowledgement(s, sequence, d) ==
    \E o \in AcknowledgeOutcomes(s, sequence, d), limit \in RecordUploadLimit :
        /\ store' = o.store
        /\ IF o.error THEN Finish(d) /\ UNCHANGED acks
           ELSE /\ acks' = [acks EXCEPT ![d] = @ + 1]
                /\ IF acks'[d] >= limit THEN Finish(d) ELSE NotFinished

-----------------------------------------------------------------------------
(***************************************************************************)
(* The upload to Blynk                                                     *)
(***************************************************************************)
SendRecordToBlynk(r) == uplink' = Append(uplink, r)

\* Without a queued record: the record in RAM, best effort.
SendRamRecord(p) ==
    /\ SendRecordToBlynk([cycle |-> cycle, sequence |-> p.record.sequence])
    /\ store' = p.store
    /\ Finish("BLYNK")
    /\ UNCHANGED <<acks, upload, timer>>

RequestAck(p) ==
    /\ upload.state = "WAITING_TO_REQUEST_ACK" /\ timer["upload"] = "elapsed"
    /\ upload' = [upload EXCEPT !.state = "WAITING_FOR_ACK", !.synced = FALSE]
    /\ uplink' = Append(uplink, SyncV21)
    /\ timer' = [timer EXCEPT !["upload"] = "running"]
    /\ store' = p.store
    /\ NotFinished /\ UNCHANGED acks

AckReceived == upload.acknowledged /\ upload.synced

ProcessAck(p) ==
    /\ upload.state = "WAITING_FOR_ACK" /\ AckReceived
    /\ upload' = [NoUpload EXCEPT !.synced = upload.synced]
    /\ timer' = [timer EXCEPT !["upload"] = "off"]
    /\ RecordDurableDeliveryAcknowledgement(p.store, upload.sequence, "BLYNK")
    /\ UNCHANGED uplink

AckTimeout(p) ==
    /\ upload.state = "WAITING_FOR_ACK" /\ ~AckReceived /\ timer["upload"] = "elapsed"
    /\ upload' = [NoUpload EXCEPT !.synced = upload.synced]
    /\ timer' = [timer EXCEPT !["upload"] = "off"]
    /\ store' = p.store
    /\ Finish("BLYNK")
    /\ UNCHANGED <<acks, uplink>>

BeginOfflineRecordUpload(p) ==
    /\ upload.state = "IDLE"
    /\ store' = p.store
    /\ UNCHANGED acks
    /\ \/ /\ \/ \E limit \in RecordUploadLimit : acks["BLYNK"] >= limit
             \/ PeekFails(p.store, "BLYNK")
             \/ ~HasPending(p.store, "BLYNK")
          /\ Finish("BLYNK")
          /\ UNCHANGED <<upload, timer, uplink>>
       \/ /\ \E limit \in RecordUploadLimit : acks["BLYNK"] < limit
          /\ ~PeekFails(p.store, "BLYNK") /\ HasPending(p.store, "BLYNK")
          /\ LET pending == PendingRecord(p.store, "BLYNK")
             IN  /\ SendRecordToBlynk(pending)
                 /\ upload' = [upload EXCEPT !.state = "WAITING_TO_REQUEST_ACK",
                                             !.sequence = pending.sequence,
                                             !.acknowledged = FALSE]
          /\ timer' = [timer EXCEPT !["upload"] = "running"]
          /\ NotFinished

\* loop() calls it while Blynk is used, connected and synchronised (or the wait
\* for V6 and V17 is over).
ServiceOfflineUpload ==
    /\ phase = "measured" /\ Uses("BLYNK") /\ blynkConnected
    /\ ~cycleUploaded /\ ~finished["BLYNK"]
    /\ \E p \in Prepared :
           /\ record' = p.record
           /\ IF ~p.store.ready \/ ~p.record.queued THEN SendRamRecord(p)
              ELSE RequestAck(p) \/ ProcessAck(p) \/ AckTimeout(p)
                      \/ BeginOfflineRecordUpload(p)
    /\ UNCHANGED <<phase, cycle, mode, stayAwake, blynkConnected, downlink, cloudSequence,
                   mqtt, received>>

\* BLYNK_CONNECTED, of which the request for V21 is modelled.  BlynkEdgent.run()
\* connects only when the loop reaches it, and the loop arms the deadline first.
BlynkConnects ==
    /\ phase = "measured" /\ ~blynkConnected
    /\ stayAwake \/ timer["edgent"] # "off"
    /\ blynkConnected' = TRUE
    /\ uplink' = <<SyncV21>>
    /\ upload' = [upload EXCEPT !.synced = FALSE]
    /\ UNCHANGED <<phase, cycle, mode, stayAwake, store, record, cycleUploaded, finished,
                   acks, timer, downlink, cloudSequence, mqtt, received>>

\* Mutant: any reply to the request is taken for the acknowledgement.
BlynkWriteV21Unchecked ==
    /\ downlink # <<>>
    /\ downlink' = Tail(downlink)
    /\ upload' = [upload EXCEPT !.synced = TRUE,
                                !.acknowledged = @ \/ upload.state = "WAITING_FOR_ACK"]
    /\ UNCHANGED <<phase, cycle, mode, stayAwake, store, record, cycleUploaded, finished,
                   acks, timer, blynkConnected, uplink, cloudSequence, mqtt, received>>

\* BLYNK_WRITE(V21)
BlynkWriteV21 ==
    /\ downlink # <<>>
    /\ downlink' = Tail(downlink)
    /\ upload' = [upload EXCEPT
                    !.synced = TRUE,
                    !.acknowledged = @ \/ (/\ upload.state = "WAITING_FOR_ACK"
                                           /\ upload.sequence = Head(downlink))]
    /\ UNCHANGED <<phase, cycle, mode, stayAwake, store, record, cycleUploaded, finished,
                   acks, timer, blynkConnected, uplink, cloudSequence, mqtt, received>>

\* BLYNK_WRITE(V6): a new sensor height rewrites the record of this cycle.
BlynkWriteV6 ==
    /\ phase = "measured" /\ blynkConnected /\ store.ready
    /\ store' \in RewriteOutcomes(store, record)
    /\ UNCHANGED <<phase, cycle, mode, stayAwake, cycleVars, cloudVars, mqtt, received>>

\* External: the TCP connection is in order and loses its tail when it drops;
\* the cloud stores a group with its V21 and answers a request for V21.
BlynkDrops ==
    /\ blynkConnected
    /\ blynkConnected' = FALSE /\ uplink' = <<>> /\ downlink' = <<>>
    /\ UNCHANGED <<phase, cycle, mode, stayAwake, store, cycleVars, cloudSequence, mqtt,
                   received>>

CloudHandles ==
    /\ uplink # <<>>
    /\ uplink' = Tail(uplink)
    /\ IF Head(uplink) = SyncV21
       THEN downlink' = Append(downlink, cloudSequence) /\ UNCHANGED <<cloudSequence, received>>
       ELSE /\ cloudSequence' = Head(uplink).sequence
            /\ received' = [received EXCEPT !["BLYNK"] = @ \cup {Head(uplink).cycle}]
            /\ UNCHANGED downlink
    /\ UNCHANGED <<phase, cycle, mode, stayAwake, store, cycleVars, blynkConnected, mqtt>>

-----------------------------------------------------------------------------
(***************************************************************************)
(* The upload to MQTT                                                      *)
(***************************************************************************)
\* MqttTelemetry::publish, which may refuse.
PublishMqttRecord(r) ==
    \/ mqtt' = [mqtt EXCEPT !.pending = TRUE, !.sequence = r.sequence, !.cycle = r.cycle]
    \/ UNCHANGED mqtt

\* A PUBACK taken while the record is only in RAM, or for a queued record.
TakeRamPuback(p) ==
    /\ store' = p.store
    /\ IF mqtt.sequence = p.record.sequence
       THEN acks' = [acks EXCEPT !["MQTT"] = @ + 1] /\ Finish("MQTT")
       ELSE NotFinished /\ UNCHANGED acks

TakeAcknowledgedSequence(p) ==
    /\ mqtt.pending /\ mqtt.acknowledged
    /\ mqtt' = Untracked(mqtt)
    /\ IF ~p.record.queued \/ ~p.store.ready THEN TakeRamPuback(p)
       ELSE RecordDurableDeliveryAcknowledgement(p.store, mqtt.sequence, "MQTT")

\* Mutant: the deadline is checked after the return for a missing connection.
MqttDeadlineIfConnected(p) ==
    /\ mqtt.connected /\ ~mqtt.pending /\ timer["mqtt"] = "elapsed"
    /\ store' = p.store
    /\ Finish("MQTT")
    /\ UNCHANGED <<acks, mqtt>>

MqttDeadline(p) ==
    /\ ~(mqtt.initialized /\ mqtt.acknowledged) /\ timer["mqtt"] = "elapsed"
    /\ store' = p.store
    /\ Finish("MQTT")
    /\ UNCHANGED <<acks, mqtt>>

\* The rest of the service: the client is connected and nothing is in flight.
PublishNext(p) ==
    LET ram == ~p.record.queued \/ ~p.store.ready
    IN  /\ mqtt.connected /\ ~mqtt.pending /\ timer["mqtt"] # "elapsed"
        /\ store' = p.store
        /\ UNCHANGED acks
        /\ \/ /\ \/ \E limit \in RecordUploadLimit : acks["MQTT"] >= limit
                 \/ ~ram /\ (PeekFails(p.store, "MQTT") \/ ~HasPending(p.store, "MQTT"))
              /\ Finish("MQTT") /\ UNCHANGED mqtt
           \/ /\ \E limit \in RecordUploadLimit : acks["MQTT"] < limit
              /\ NotFinished
              /\ IF ram
                 THEN /\ p.record.sequence # 0
                      /\ PublishMqttRecord([cycle |-> cycle, sequence |-> p.record.sequence])
                 ELSE /\ ~PeekFails(p.store, "MQTT") /\ HasPending(p.store, "MQTT")
                      /\ PublishMqttRecord(PendingRecord(p.store, "MQTT"))

\* Nothing to do yet; the first call arms the deadline.
MqttWaits(p) ==
    /\ ~mqtt.connected \/ mqtt.pending \/ p.record.sequence = 0
    /\ ~mqtt.acknowledged /\ timer["mqtt"] # "elapsed"
    /\ store' = p.store
    /\ NotFinished /\ UNCHANGED <<acks, mqtt>>

ServiceMqttOfflineUpload ==
    /\ phase = "measured" /\ Uses("MQTT") /\ ~cycleUploaded /\ ~finished["MQTT"]
    /\ timer' = IF timer["mqtt"] = "off" THEN [timer EXCEPT !["mqtt"] = "running"] ELSE timer
    /\ \E p \in Prepared :
           /\ record' = p.record
           /\ \/ TakeAcknowledgedSequence(p)
              \/ MqttDeadline(p)
              \/ PublishNext(p)
              \/ MqttWaits(p)
    /\ UNCHANGED <<phase, cycle, mode, stayAwake, upload, cloudVars, received>>

\* External: the connection to the broker, and the client's task.
MqttLink ==
    /\ mqtt.initialized /\ Uses("MQTT") /\ phase # "asleep"
    /\ mqtt' = [mqtt EXCEPT !.connected = ~@]
    /\ UNCHANGED <<phase, cycle, mode, stayAwake, store, cycleVars, cloudVars, received>>

BrokerReceives ==
    /\ mqtt.connected /\ mqtt.pending
    /\ received' = [received EXCEPT !["MQTT"] = @ \cup {mqtt.cycle}]
    /\ UNCHANGED <<phase, cycle, mode, stayAwake, store, cycleVars, cloudVars, mqtt>>

OnPublished ==
    /\ mqtt.connected /\ mqtt.pending /\ mqtt.cycle \in received["MQTT"]
    /\ mqtt' = [mqtt EXCEPT !.acknowledged = TRUE]
    /\ UNCHANGED <<phase, cycle, mode, stayAwake, store, cycleVars, cloudVars, received>>

-----------------------------------------------------------------------------
(***************************************************************************)
(* Commands of users: Blynk's V10 (the terminal) and V17                   *)
(***************************************************************************)
\* setMqttEnabledFromTerminal(true)
MqttOn ==
    /\ "mqtt" \in Commands /\ blynkConnected /\ mode # "BOTH"
    /\ mode' = "BOTH"
    /\ \E initialized \in {TRUE, mqtt.initialized} :
           mqtt' = [mqtt EXCEPT !.initialized = initialized]
    /\ IF cycleUploaded THEN UNCHANGED <<finished, timer>>
       ELSE /\ finished' = [finished EXCEPT !["MQTT"] = FALSE]
            /\ timer' = [timer EXCEPT !["mqtt"] = "off"]
    /\ UNCHANGED <<phase, cycle, stayAwake, store, record, cycleUploaded, acks, upload,
                   cloudVars, received>>

\* setMqttEnabledFromTerminal(false)
MqttOff ==
    /\ "mqtt" \in Commands /\ blynkConnected /\ mode # "BLYNK_ONLY"
    /\ mode' = "BLYNK_ONLY"
    /\ mqtt' = [Untracked(mqtt) EXCEPT !.connected = FALSE]
    /\ timer' = [timer EXCEPT !["mqtt"] = "off"]
    /\ store' \in ReconcileOutcomes(store, {"BLYNK"})
    /\ finished' = [finished EXCEPT !["MQTT"] = TRUE]
    /\ cycleUploaded' = (cycleUploaded \/ (phase = "measured" /\ finished["BLYNK"]))
    /\ UNCHANGED <<phase, cycle, stayAwake, record, acks, upload, cloudVars, received>>

\* Mutant: the upload in progress survives the records.
ClearKeepsUpload ==
    /\ "offline clear" \in Commands /\ blynkConnected /\ store.ready
    /\ store' = [store EXCEPT !.queue = <<>>]
    /\ timer' = [timer EXCEPT !["mqtt"] = "off"]
    /\ finished' = [d \in Destination |-> TRUE]
    /\ cycleUploaded' = (cycleUploaded \/ phase = "measured")
    /\ UNCHANGED <<phase, cycle, mode, stayAwake, record, acks, upload, cloudVars, mqtt, received>>

\* handleTerminalCommand("offline clear")
OfflineClear ==
    /\ "offline clear" \in Commands /\ blynkConnected /\ store.ready
    /\ store' = [store EXCEPT !.queue = <<>>]
    /\ upload' = [NoUpload EXCEPT !.synced = upload.synced]
    /\ timer' = [timer EXCEPT !["mqtt"] = "off", !["upload"] = "off"]
    /\ finished' = [d \in Destination |-> TRUE]
    /\ cycleUploaded' = (cycleUploaded \/ phase = "measured")
    /\ UNCHANGED <<phase, cycle, mode, stayAwake, record, acks, cloudVars, mqtt, received>>

\* BLYNK_WRITE(V17) and setDeepSleepDisabled
SetDeepSleepDisabled ==
    /\ "stay awake" \in Commands /\ blynkConnected
    /\ stayAwake' = ~stayAwake
    /\ timer' = IF stayAwake' THEN [timer EXCEPT !["edgent"] = "off"] ELSE timer
    /\ UNCHANGED <<phase, cycle, mode, store, record, cycleUploaded, finished, acks, upload,
                   cloudVars, mqtt, received>>

-----------------------------------------------------------------------------
(***************************************************************************)
(* Time                                                                    *)
(***************************************************************************)
ArmEdgentConnectTimeout ==
    /\ phase = "measured" /\ ~stayAwake /\ ~cycleUploaded /\ ~blynkConnected
    /\ timer["edgent"] = "off"
    /\ timer' = [timer EXCEPT !["edgent"] = "running"]
    /\ UNCHANGED <<phase, cycle, mode, stayAwake, store, record, cycleUploaded, finished,
                   acks, upload, cloudVars, mqtt, received>>

Elapses(t) ==
    /\ timer[t] = "running"
    /\ timer' = [timer EXCEPT ![t] = "elapsed"]
    /\ UNCHANGED <<phase, cycle, mode, stayAwake, store, record, cycleUploaded, finished,
                   acks, upload, cloudVars, mqtt, received>>

-----------------------------------------------------------------------------
\* The first start, right after provisioning with Blynk connected, or a wake.
Init ==
    /\ \/ phase = "asleep" /\ cycle = 0 /\ blynkConnected = FALSE
       \/ phase = "measuring" /\ cycle = 1 /\ blynkConnected = TRUE
    /\ mode \in Modes
    /\ stayAwake = FALSE
    /\ store = EmptyStore
    /\ record = NoRecord /\ cycleUploaded = FALSE
    /\ finished = [d \in Destination |-> ~Uses(d)]
    /\ acks = [d \in Destination |-> 0]
    /\ upload = NoUpload /\ timer = NoTimers
    /\ uplink = <<>> /\ downlink = <<>> /\ cloudSequence = 0
    /\ \E initialized \in {Uses("MQTT"), FALSE} :
           mqtt = [NoMqtt EXCEPT !.initialized = initialized /\ phase = "measuring"]
    /\ received = [d \in Destination |-> {}]

Cycles == WakeUp \/ NextSlot \/ PerformOtherCycleMeasurements
             \/ BeginStayAwakeQueueDrainPass \/ EnterTimedDeepSleep \/ PowerLoss
Blynk == ServiceOfflineUpload \/ BlynkConnects \/ BlynkWriteV21 \/ BlynkWriteV6 \/ BlynkDrops \/ CloudHandles
Mqtt == ServiceMqttOfflineUpload \/ MqttLink \/ BrokerReceives \/ OnPublished
Users == MqttOn \/ MqttOff \/ OfflineClear \/ SetDeepSleepDisabled
Time == ArmEdgentConnectTimeout \/ \E t \in DOMAIN timer : Elapses(t)

Next == Cycles \/ Blynk \/ Mqtt \/ Users \/ Time

Spec == Init /\ [][Next]_vars

\* The loop runs and time passes.  Nothing is assumed of the cloud, of the broker
\* or of the links.
Fairness ==
    /\ WF_vars(PerformOtherCycleMeasurements)
    /\ WF_vars(ServiceOfflineUpload) /\ WF_vars(ServiceMqttOfflineUpload)
    /\ WF_vars(ArmEdgentConnectTimeout) /\ \A t \in DOMAIN NoTimers : WF_vars(Elapses(t))
    /\ WF_vars(EnterTimedDeepSleep)

LiveSpec == Spec /\ Fairness

-----------------------------------------------------------------------------
(***************************************************************************)
(* Properties                                                              *)
(***************************************************************************)
Message == [cycle : Cycle \cup {0}, sequence : Nat]
Store == [ready : BOOLEAN, queue : Seq([cycle : Cycle, readable : BOOLEAN]),
          nextSequence : Nat \ {0}, dropped : Nat, cursor : [Destination -> Nat]]

\* The types of the globals of main.cpp, of the store and of the links.
TypeOK ==
    /\ phase \in {"asleep", "measuring", "measured"} /\ cycle \in 0 .. MaxCycles
    /\ mode \in {"BLYNK_ONLY", "MQTT_ONLY", "BOTH"} /\ stayAwake \in BOOLEAN
    /\ store \in Store /\ Len(store.queue) <= Capacity
    /\ Len(store.queue) < store.nextSequence
    /\ \A d \in Destination : store.cursor[d] < store.nextSequence
    /\ record \in [queued : BOOLEAN, sequence : 0 .. store.nextSequence]
    /\ cycleUploaded \in BOOLEAN /\ finished \in [Destination -> BOOLEAN]
    /\ acks \in [Destination -> Nat]
    /\ upload \in [state : {"IDLE", "WAITING_TO_REQUEST_ACK", "WAITING_FOR_ACK"},
                   sequence : Nat, acknowledged : BOOLEAN, synced : BOOLEAN]
    /\ timer \in [{"upload", "mqtt", "edgent"} -> {"off", "running", "elapsed"}]
    /\ blynkConnected \in BOOLEAN
    /\ uplink \in Seq(Message) /\ downlink \in Seq(Nat) /\ cloudSequence \in Nat
    /\ mqtt \in [initialized : BOOLEAN, connected : BOOLEAN, pending : BOOLEAN,
                 sequence : Nat, cycle : Cycle \cup {0}, acknowledged : BOOLEAN]
    /\ received \in [Destination -> SUBSET Cycle]

(***************************************************************************)
(* A record leaves the queue only because every destination that the mode  *)
(* requires has received that very record, because the queue was full, or  *)
(* by "offline clear": the acknowledgements of Blynk (V21 compared with    *)
(* pendingUploadSequence) and of MQTT never stand for another record, over *)
(* reconnections, timeouts, late replies, mode changes, sleeps and resets  *)
(* (README.md:404-409, 720; OfflineQueue.cpp:503-505).                     *)
(***************************************************************************)
MakesRoom == store'.dropped > store.dropped
DeliveredBeforeRemoved ==
    [][\A c \in Queued(store) \ Queued(store') :
          \/ MakesRoom /\ c = Head(store.queue).cycle
          \/ OfflineClear
          \/ \A d \in RequiredMask(mode') : c \in received[d]]_vars

(***************************************************************************)
(* Replay is oldest first at each destination: when it receives a queued   *)
(* record, it has already received every older record of the queue         *)
(* (README.md:726), also across sleeps, resends and mode changes.      *)
(***************************************************************************)
OldestFirst ==
    [][\A d \in Destination : \A c \in (received'[d] \ received[d]) \cap Queued(store) :
           \A e \in Queued(store) : e < c => e \in received[d]]_vars

(***************************************************************************)
(* A cycle acknowledges at most MAX_RECORD_UPLOADS_PER_CYCLE records per   *)
(* destination, although the limit changes with the slot and with V17 and  *)
(* acknowledgements of an earlier cycle may arrive late (README.md:411-413)*)
(***************************************************************************)
WithinUploadLimit == \A d \in Destination : acks[d] <= MAX_RECORD_UPLOADS_PER_CYCLE

(***************************************************************************)
(* While a Blynk upload waits for its V21, the record it waits for is the  *)
(* oldest one that Blynk does not have, so the acknowledgement will be     *)
(* accepted: no enqueue, drop-oldest, "offline clear", "mqtt off", trim or *)
(* new slot moves the queue under a pending upload (main.cpp:1209-1233,    *)
(* OfflineQueue.cpp:527-530).                                              *)
(***************************************************************************)
UploadTracksPending ==
    upload.state # "IDLE" =>
        /\ HasPending(store, "BLYNK")
        /\ PendingSequence(store, "BLYNK") = upload.sequence

(***************************************************************************)
(* A cycle that has measured ends: whatever the cloud, the broker and the  *)
(* links do, its uploads finish or its deadline puts the device to sleep,  *)
(* unless it is told to stay awake.  "Deep sleep ditahan selama menunggu   *)
(* PUBACK, lalu dilanjutkan setelah ACK atau deadline" (README.md:729).    *)
(***************************************************************************)
CycleEnds == phase = "measured" /\ ~stayAwake ~> cycleUploaded \/ stayAwake \/ phase # "measured"
=============================================================================
