--------------------------- MODULE MqttTelemetry ----------------------------
(***************************************************************************)
(* src/MqttTelemetry.cpp and src/TelemetryDelivery.h: one MQTT publish at  *)
(* a time, with the sequence it carries and the packet ID that the broker  *)
(* must acknowledge.                                                       *)
(*                                                                         *)
(* Two tasks share the object.  The loop task calls service, publish,      *)
(* takeAcknowledgedSequence, disable and disconnectForSleep; the task of   *)
(* the MQTT client calls onConnected, onDisconnected and onPublished.  An  *)
(* action is one critical section, or one stretch of the loop task between *)
(* calls into the client that the other task can interleave with; `loop`   *)
(* says where the loop task is.                                            *)
(*                                                                         *)
(* The client (espMqttClient) is external: it numbers the packets, keeps   *)
(* the ones that are not acknowledged in its outbox, may keep or drop them *)
(* when the connection ends, and calls onPublish for a PUBACK of a packet  *)
(* of its outbox.  Time is millis(), a wrapping counter of ticks.          *)
(***************************************************************************)
EXTENDS Integers, Sequences

CONSTANTS
    TimeHalfRange,  \* 2^31 milliseconds
    INITIAL_RECONNECT_BACKOFF, MAX_RECONNECT_BACKOFF,
    RecordSequences, \* the sequences of the records that are published
    MaxPackets,     \* bound: packets of one power cycle (packet IDs do not wrap)
    MaxDisables,    \* bound: "mqtt off" commands of one power cycle
    MaxUptime       \* bound: the last value of millis(); at least 2^32 - 1: no bound

Time == INSTANCE TelemetryDeliveryState WITH HalfRange <- TimeHalfRange

ASSUME MqttAssumption ==
    /\ TimeHalfRange \in Nat /\ TimeHalfRange >= 2
    /\ INITIAL_RECONNECT_BACKOFF \in Nat /\ MAX_RECONNECT_BACKOFF \in Nat
    /\ 0 < INITIAL_RECONNECT_BACKOFF
    /\ INITIAL_RECONNECT_BACKOFF <= MAX_RECONNECT_BACKOFF
    /\ MAX_RECONNECT_BACKOFF < TimeHalfRange
    /\ RecordSequences \subseteq Nat \ {0}
    /\ MaxPackets \in Nat /\ MaxDisables \in Nat /\ MaxUptime \in Nat

VARIABLES
    enabled,       \* main.cpp: telemetryUsesMqtt(), for which the loop serves MQTT
    wifi,          \* WiFi.status() == WL_CONNECTED
    wifiConnected, \* wifiConnected_
    client,        \* the client's connection
    now, nextConnectAttemptAt, reconnectBackoff,
    delivery,      \* the TelemetryDeliveryTracker
    earlyPuback,   \* earlyPubackPacketId_
    loop,          \* where the loop task is, and the locals it keeps
    payload,       \* payload[id] is the sequence that packet id carries
    outbox,        \* packets that the client holds until their PUBACK
    pubacked,      \* packets whose PUBACK was delivered to onPublished
    disables

connection == <<enabled, wifi, wifiConnected, client>>
backoff == <<nextConnectAttemptAt, reconnectBackoff>>
tracking == <<delivery, earlyPuback>>
packets == <<payload, outbox, pubacked>>
vars == <<enabled, wifi, wifiConnected, client, now, nextConnectAttemptAt,
          reconnectBackoff, delivery, earlyPuback, loop, payload, outbox, pubacked,
          disables>>

At(place) == loop.at = place
Idle == [at |-> "idle", sequence |-> 0, packetId |-> 0, since |-> 0]

-----------------------------------------------------------------------------
(***************************************************************************)
(* TelemetryDeliveryTracker                                                *)
(***************************************************************************)
Cleared == [pending |-> FALSE, sequence |-> 0, packetId |-> 0, acknowledged |-> FALSE]

Begun(sequence, packetId) ==
    [pending |-> TRUE, sequence |-> sequence, packetId |-> packetId, acknowledged |-> FALSE]

\* Mutant: any PUBACK acknowledges the pending record.
AcknowledgedByAny(tracker, packetId) ==
    [tracker EXCEPT !.acknowledged = tracker.pending]

Acknowledged(tracker, packetId) ==
    [tracker EXCEPT !.acknowledged =
        @ \/ (tracker.pending /\ packetId = tracker.packetId)]

-----------------------------------------------------------------------------
Init ==
    /\ enabled \in BOOLEAN
    /\ wifi \in BOOLEAN /\ wifiConnected = FALSE
    /\ client = "disconnected"
    /\ now = 0 /\ nextConnectAttemptAt = 0
    /\ reconnectBackoff = INITIAL_RECONNECT_BACKOFF
    /\ delivery = Cleared /\ earlyPuback = 0
    /\ loop = Idle
    /\ payload = <<>> /\ outbox = {} /\ pubacked = {}
    /\ disables = 0

-----------------------------------------------------------------------------
(***************************************************************************)
(* Connecting: service, onConnected, onDisconnected                        *)
(***************************************************************************)
TimeAfter(t, delay) == (t + delay) % Time!Modulus

\* Mutant: an exponential backoff without its limit.
DoubledForever == 2 * reconnectBackoff
Doubled == IF 2 * reconnectBackoff < MAX_RECONNECT_BACKOFF
           THEN 2 * reconnectBackoff ELSE MAX_RECONNECT_BACKOFF

\* static_cast<int32_t>(now - next) >= 0
ReconnectIsDue == Time!Minus(now, nextConnectAttemptAt) < TimeHalfRange

\* service() without Wi-Fi. The client reports the end of the connection later.
ServiceOffline ==
    /\ At("idle") /\ enabled /\ ~wifi
    /\ wifiConnected' = FALSE
    /\ client' = IF client = "disconnected" THEN client ELSE "disconnecting"
    /\ UNCHANGED <<enabled, wifi, now, backoff, tracking, loop, packets, disables>>

\* Mutant: every call that does not attempt a connection restarts the wait.
ServiceRestartsWait ==
    /\ At("idle") /\ enabled /\ wifi
    /\ ~(client = "disconnected" /\ ReconnectIsDue)
    /\ wifiConnected' = TRUE
    /\ nextConnectAttemptAt' = TimeAfter(now, reconnectBackoff)
    /\ UNCHANGED <<enabled, wifi, client, now, reconnectBackoff, tracking, loop,
                   packets, disables>>

ServiceWaits ==
    /\ At("idle") /\ enabled /\ wifi
    /\ ~(client = "disconnected" /\ ReconnectIsDue)
    /\ wifiConnected' = TRUE
    /\ UNCHANGED <<enabled, wifi, client, now, backoff, tracking, loop, packets, disables>>

ServiceConnectRefused ==
    /\ At("idle") /\ enabled /\ wifi
    /\ client = "disconnected" /\ ReconnectIsDue
    /\ wifiConnected' = TRUE
    /\ nextConnectAttemptAt' = TimeAfter(now, reconnectBackoff)
    /\ reconnectBackoff' = Doubled
    /\ UNCHANGED <<enabled, wifi, client, now, tracking, loop, packets, disables>>

\* connect() starts the client's task, which may call back before the next line.
ServiceConnect ==
    /\ At("idle") /\ enabled /\ wifi
    /\ client = "disconnected" /\ ReconnectIsDue
    /\ wifiConnected' = TRUE
    /\ client' = "connecting"
    /\ loop' = [Idle EXCEPT !.at = "arm", !.since = now]
    /\ UNCHANGED <<enabled, wifi, now, backoff, tracking, packets, disables>>

ServiceArms ==
    /\ At("arm")
    /\ nextConnectAttemptAt' = TimeAfter(loop.since, reconnectBackoff)
    /\ loop' = Idle
    /\ UNCHANGED <<connection, now, reconnectBackoff, tracking, packets, disables>>

OnConnected ==
    /\ client = "connecting" /\ wifi
    /\ client' = "connected"
    /\ reconnectBackoff' = INITIAL_RECONNECT_BACKOFF
    /\ nextConnectAttemptAt' = 0
    /\ UNCHANGED <<enabled, wifi, wifiConnected, now, tracking, loop, packets, disables>>

\* A clean session lets the client keep or drop the packets of its outbox.
OnDisconnected ==
    /\ client # "disconnected"
    /\ client' = "disconnected"
    /\ IF wifiConnected
       THEN /\ nextConnectAttemptAt' = TimeAfter(now, reconnectBackoff)
            /\ reconnectBackoff' = Doubled
       ELSE UNCHANGED backoff
    /\ outbox' \in SUBSET outbox
    /\ UNCHANGED <<enabled, wifi, wifiConnected, now, tracking, loop, payload, pubacked,
                   disables>>

-----------------------------------------------------------------------------
(***************************************************************************)
(* Publishing: publish, onPublished, takeAcknowledgedSequence              *)
(***************************************************************************)
\* Mutant: a pending record does not stop the next publish.
PublishWhilePending(sequence) ==
    /\ At("idle") /\ enabled
    /\ client = "connected"
    /\ loop' = [Idle EXCEPT !.at = "send", !.sequence = sequence]
    /\ UNCHANGED <<connection, now, backoff, tracking, packets, disables>>

\* The checks of publish(), up to the end of its first critical section.
PublishChecks(sequence) ==
    /\ At("idle") /\ enabled
    /\ client = "connected" /\ ~delivery.pending
    /\ loop' = [Idle EXCEPT !.at = "send", !.sequence = sequence]
    /\ UNCHANGED <<connection, now, backoff, tracking, packets, disables>>

\* client_.publish() queues the packet, or returns 0.
ClientPublish ==
    /\ At("send")
    /\ \/ /\ Len(payload) < MaxPackets
          /\ payload' = Append(payload, loop.sequence)
          /\ outbox' = outbox \cup {Len(payload')}
          /\ loop' = [loop EXCEPT !.at = "begin", !.packetId = Len(payload')]
       \/ UNCHANGED <<payload, outbox>> /\ loop' = Idle
    /\ UNCHANGED <<connection, now, backoff, tracking, pubacked, disables>>

\* Mutant: the PUBACK that overtook the second critical section is forgotten.
PublishForgetsEarlyPuback ==
    /\ At("begin")
    /\ loop' = Idle
    /\ ~delivery.pending /\ delivery' = Begun(loop.sequence, loop.packetId)
    /\ earlyPuback' = 0
    /\ UNCHANGED <<connection, now, backoff, packets, disables>>

\* The second critical section.  The tracker refuses while a record is pending.
PublishBegins ==
    /\ At("begin")
    /\ loop' = Idle
    /\ LET begun == Begun(loop.sequence, loop.packetId)
       IN  IF delivery.pending THEN UNCHANGED tracking
           ELSE /\ delivery' = IF earlyPuback = loop.packetId
                               THEN Acknowledged(begun, earlyPuback) ELSE begun
                /\ earlyPuback' = 0
    /\ UNCHANGED <<connection, now, backoff, packets, disables>>

OnPublished(packetId) ==
    /\ client = "connected" /\ packetId \in outbox
    /\ outbox' = outbox \ {packetId}
    /\ pubacked' = pubacked \cup {packetId}
    /\ IF delivery.pending
       THEN delivery' = Acknowledged(delivery, packetId) /\ UNCHANGED earlyPuback
       ELSE earlyPuback' = packetId /\ UNCHANGED delivery
    /\ UNCHANGED <<connection, now, backoff, loop, payload, disables>>

TakeAcknowledged ==
    /\ At("idle") /\ enabled
    /\ delivery.pending /\ delivery.acknowledged
    /\ delivery' = Cleared
    /\ UNCHANGED <<connection, now, backoff, earlyPuback, loop, packets, disables>>

-----------------------------------------------------------------------------
(***************************************************************************)
(* The terminal's "mqtt off" and "mqtt on", sleep, Wi-Fi and time          *)
(***************************************************************************)
Disable ==
    /\ At("idle") /\ enabled /\ disables < MaxDisables
    /\ enabled' = FALSE /\ wifiConnected' = FALSE
    /\ client' = IF client = "disconnected" THEN client ELSE "disconnecting"
    /\ delivery' = Cleared /\ earlyPuback' = 0
    /\ nextConnectAttemptAt' = 0 /\ reconnectBackoff' = INITIAL_RECONNECT_BACKOFF
    /\ disables' = disables + 1
    /\ UNCHANGED <<wifi, now, loop, packets>>

Enable ==
    /\ At("idle") /\ ~enabled
    /\ enabled' = TRUE
    /\ UNCHANGED <<wifi, wifiConnected, client, now, backoff, tracking, loop, packets, disables>>

\* The last call of a power cycle; only the client's task and time go on.
DisconnectForSleep ==
    /\ At("idle") /\ enabled
    /\ client' = IF client = "disconnected" THEN client ELSE "disconnecting"
    /\ loop' = [Idle EXCEPT !.at = "asleep"]
    /\ UNCHANGED <<enabled, wifi, wifiConnected, now, backoff, tracking, packets, disables>>

WifiChanges ==
    /\ wifi' = ~wifi
    /\ UNCHANGED <<enabled, wifiConnected, client, now, backoff, tracking, loop, packets, disables>>

\* A tick is longer than a round of the loop: a step of service() that is due
\* happens before it.
Serviced ==
    At("idle") /\ enabled => /\ wifiConnected = wifi
                             /\ ~(wifi /\ client = "disconnected" /\ ReconnectIsDue)

Tick ==
    /\ now < MaxUptime
    /\ ~At("arm") /\ Serviced
    /\ now' = TimeAfter(now, 1)
    /\ UNCHANGED <<connection, backoff, tracking, loop, packets, disables>>

Callback == OnConnected \/ OnDisconnected \/ \E id \in outbox : OnPublished(id)
Service == ServiceOffline \/ ServiceWaits \/ ServiceConnectRefused \/ ServiceConnect
              \/ ServiceArms
Publish == (\E s \in RecordSequences : PublishChecks(s)) \/ ClientPublish \/ PublishBegins
              \/ TakeAcknowledged
Environment == Disable \/ Enable \/ DisconnectForSleep \/ WifiChanges \/ Tick

Next == Callback \/ Service \/ Publish \/ Environment

Spec == Init /\ [][Next]_vars

\* loop() calls service() in every round, the client's task ends what it starts,
\* time passes, and a broker that is asked often enough answers.
Fairness ==
    /\ WF_vars(ServiceOffline) /\ WF_vars(ServiceArms)
    /\ WF_vars(ServiceWaits) /\ SF_vars(ServiceConnect)
    /\ SF_vars(OnConnected) /\ WF_vars(client = "disconnecting" /\ OnDisconnected)
    /\ WF_vars(ClientPublish) /\ WF_vars(PublishBegins) /\ WF_vars(Tick)

LiveSpec == Spec /\ Fairness

-----------------------------------------------------------------------------
(***************************************************************************)
(* Properties                                                              *)
(***************************************************************************)
LoopTask == [at : {"idle", "arm", "send", "begin", "asleep"},
             sequence : RecordSequences \cup {0}, packetId : Nat, since : Time!Word]
Tracker == [pending : BOOLEAN, sequence : Nat, packetId : Nat, acknowledged : BOOLEAN]

\* The types of the members of MqttTelemetry, of its client and of the loop;
\* the backoff stays within its two limits.
TypeOK ==
    /\ enabled \in BOOLEAN /\ wifi \in BOOLEAN /\ wifiConnected \in BOOLEAN
    /\ client \in {"disconnected", "connecting", "connected", "disconnecting"}
    /\ now \in Time!Word /\ nextConnectAttemptAt \in Time!Word
    /\ reconnectBackoff \in INITIAL_RECONNECT_BACKOFF .. MAX_RECONNECT_BACKOFF
    /\ delivery \in Tracker /\ earlyPuback \in 0 .. Len(payload)
    /\ loop \in LoopTask /\ loop.packetId <= Len(payload)
    /\ payload \in Seq(RecordSequences) /\ Len(payload) <= MaxPackets
    /\ outbox \subseteq 1 .. Len(payload) /\ pubacked \subseteq 1 .. Len(payload)
    /\ disables \in 0 .. MaxDisables

(***************************************************************************)
(* takeAcknowledgedSequence hands out a sequence only if the broker sent a *)
(* PUBACK for the packet that carried that very record: "record baru       *)
(* dihapus setelah packet ID PUBACK yang sama diterima" (README.md:720),   *)
(* whatever the two tasks, disconnections and "mqtt off" do in between.    *)
(***************************************************************************)
AcknowledgedMeansPuback ==
    delivery.acknowledged => /\ delivery.packetId \in pubacked
                             /\ payload[delivery.packetId] = delivery.sequence

(***************************************************************************)
(* A PUBACK is not lost between client_.publish() and the critical section *)
(* that starts the tracking (earlyPubackPacketId_, MqttTelemetry.cpp:97,   *)
(* 177): a pending record whose packet was acknowledged is acknowledged.   *)
(* After an "mqtt off" the PUBACK of an older packet may take its place,   *)
(* and the record stays pending until its deadline.                        *)
(***************************************************************************)
NoLostPuback ==
    disables = 0 /\ delivery.pending /\ delivery.packetId \in pubacked => delivery.acknowledged

(***************************************************************************)
(* One packet at a time: every packet that the client may still send is    *)
(* the tracked one or the one that publish() is about to track, so a       *)
(* record is not in flight twice (MqttTelemetry.cpp:80-83).  An "mqtt off" *)
(* forgets the tracked packet, which the client may still hold.            *)
(***************************************************************************)
NothingUntracked ==
    disables = 0 => \A id \in outbox :
        \/ delivery.pending /\ delivery.packetId = id
        \/ At("begin") /\ loop.packetId = id

(***************************************************************************)
(* Liveness of service(): if Wi-Fi stays up and MQTT stays in use, the     *)
(* client gets connected again and again, however often it disconnects.    *)
(***************************************************************************)
ReconnectsEventually ==
    <>[](wifi /\ enabled /\ ~At("asleep")) => []<>(client = "connected")
=============================================================================
