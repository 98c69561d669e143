------------------------ MODULE MqttTelemetryProofs -------------------------
(***************************************************************************)
(* The MQTT tracker never hands out a sequence that the broker did not     *)
(* acknowledge, for every set of sequences and every number of packets,    *)
(* "mqtt off" commands, ticks and disconnections.                          *)
(***************************************************************************)
EXTENDS MqttTelemetry, TLAPS

\* What a packet ID stands for, wherever the loop task or the tracker keeps one.
Matches ==
    /\ At("send") => loop.sequence \in RecordSequences
    /\ At("begin") => /\ loop.packetId \in 1 .. Len(payload)
                      /\ payload[loop.packetId] = loop.sequence
    /\ delivery.pending => /\ delivery.packetId \in 1 .. Len(payload)
                           /\ payload[delivery.packetId] = delivery.sequence
    /\ delivery.acknowledged => delivery.pending /\ delivery.packetId \in pubacked
    /\ earlyPuback \in pubacked \cup {0}

IInv == TypeOK /\ Matches

LEMMA Remainder ==
    ASSUME NEW m \in Nat \ {0}, NEW n \in Nat
    PROVE  n % m \in 0 .. m - 1
BY SMT

LEMMA TimeType ==
    /\ Time!Modulus \in Nat \ {0}
    /\ 0 \in Time!Word
    /\ \A t \in Time!Word, d \in Nat : TimeAfter(t, d) \in Time!Word
<1>1. Time!Modulus \in Nat \ {0}
  BY MqttAssumption DEF Time!Modulus
<1>2. 0 \in Time!Word /\ \A t \in Time!Word : t \in Nat
  BY <1>1 DEF Time!Word
<1>3. ASSUME NEW t \in Time!Word, NEW d \in Nat
      PROVE  TimeAfter(t, d) \in Time!Word
  <2>1. t + d \in Nat
    BY <1>2, <1>3
  <2> QED
    BY <1>1, <2>1, Remainder DEF TimeAfter, Time!Word
<1> QED
  BY <1>1, <1>2, <1>3

LEMMA BackoffType ==
    ASSUME TypeOK
    PROVE  /\ Doubled \in INITIAL_RECONNECT_BACKOFF .. MAX_RECONNECT_BACKOFF
           /\ reconnectBackoff \in Nat
           /\ INITIAL_RECONNECT_BACKOFF \in INITIAL_RECONNECT_BACKOFF .. MAX_RECONNECT_BACKOFF
           /\ Idle \in LoopTask
           /\ Cleared \in Tracker
BY MqttAssumption, TimeType DEF TypeOK, Doubled, Idle, LoopTask, Cleared, Tracker

\* The record that the loop task keeps, with a new place and packet.
LEMMA LoopType ==
    ASSUME loop \in LoopTask, NEW id \in Nat
    PROVE  /\ loop.sequence \in Nat /\ loop.packetId \in Nat
           /\ loop.sequence \in RecordSequences \cup {0}
           /\ [loop EXCEPT !.at = "begin", !.packetId = id] \in LoopTask
           /\ [loop EXCEPT !.at = "begin", !.packetId = id].at = "begin"
           /\ [loop EXCEPT !.at = "begin", !.packetId = id].sequence = loop.sequence
           /\ [loop EXCEPT !.at = "begin", !.packetId = id].packetId = id
<1>1. RecordSequences \subseteq Nat
  BY MqttAssumption
<1>2. loop.sequence \in RecordSequences \cup {0} /\ loop.packetId \in Nat
  BY DEF LoopTask
<1>3. [loop EXCEPT !.at = "begin", !.packetId = id] \in LoopTask
  BY DEF LoopTask
<1>4. /\ [loop EXCEPT !.at = "begin", !.packetId = id].at = "begin"
      /\ [loop EXCEPT !.at = "begin", !.packetId = id].sequence = loop.sequence
      /\ [loop EXCEPT !.at = "begin", !.packetId = id].packetId = id
  BY DEF LoopTask
<1> QED
  BY <1>1, <1>2, <1>3, <1>4

\* What a PUBACK makes of a tracker.
LEMMA AcknowledgedType ==
    ASSUME NEW tracker \in Tracker, NEW id \in Nat
    PROVE  /\ Acknowledged(tracker, id) \in Tracker
           /\ Acknowledged(tracker, id).pending = tracker.pending
           /\ Acknowledged(tracker, id).sequence = tracker.sequence
           /\ Acknowledged(tracker, id).packetId = tracker.packetId
BY DEF Acknowledged, Tracker

\* The tracker of a record that was just published.
LEMMA BegunType ==
    ASSUME NEW sequence \in Nat, NEW id \in Nat
    PROVE  /\ Begun(sequence, id) \in Tracker
           /\ Begun(sequence, id).pending
           /\ Begun(sequence, id).sequence = sequence
           /\ Begun(sequence, id).packetId = id
           /\ ~Begun(sequence, id).acknowledged
BY DEF Begun, Tracker

LEMMA InitEstablishes == Init => IInv
<1> SUFFICES ASSUME Init PROVE IInv
  OBVIOUS
<1>1. Idle \in LoopTask /\ Idle.packetId = 0 /\ Cleared \in Tracker
  BY TimeType DEF Idle, LoopTask, Cleared, Tracker
<1>2. /\ payload \in Seq(RecordSequences) /\ Len(payload) = 0
      /\ outbox = {} /\ pubacked = {}
  BY DEF Init
<1>3. /\ reconnectBackoff \in INITIAL_RECONNECT_BACKOFF .. MAX_RECONNECT_BACKOFF
      /\ 0 <= MaxPackets /\ 0 \in 0 .. MaxDisables
  BY MqttAssumption DEF Init
<1>4. TypeOK
  <2>1. /\ enabled \in BOOLEAN /\ wifi \in BOOLEAN /\ wifiConnected \in BOOLEAN
        /\ client \in {"disconnected", "connecting", "connected", "disconnecting"}
        /\ now \in Time!Word /\ nextConnectAttemptAt \in Time!Word
    BY TimeType DEF Init
  <2>2. /\ delivery \in Tracker /\ loop \in LoopTask /\ loop.packetId = 0
        /\ earlyPuback = 0 /\ disables = 0
    BY <1>1 DEF Init
  <2> QED
    BY <1>2, <1>3, <2>1, <2>2 DEF TypeOK
<1>5. Matches
  BY DEF Init, Matches, At, Idle, Cleared
<1> QED
  BY <1>4, <1>5 DEF IInv

-----------------------------------------------------------------------------
\* The steps that touch neither packets nor tracking: connections and time.
LEMMA ServicePreserves == IInv /\ Service => IInv'
<1> SUFFICES ASSUME IInv, Service PROVE IInv'
  OBVIOUS
<1> USE DEF IInv, TypeOK, Matches, At, backoff, tracking, packets, connection
<1>1. CASE ServiceOffline
  BY <1>1 DEF ServiceOffline
<1>2. CASE ServiceWaits
  BY <1>2 DEF ServiceWaits
<1>3. CASE ServiceConnectRefused
  BY <1>3, TimeType, BackoffType DEF ServiceConnectRefused
<1>4. CASE ServiceConnect
  <2>1. loop' \in LoopTask /\ loop'.at = "arm" /\ loop'.packetId = 0
    BY <1>4, BackoffType DEF ServiceConnect, LoopTask, Idle
  <2> QED
    BY <1>4, <2>1 DEF ServiceConnect
<1>5. CASE ServiceArms
  <2>1. loop.since \in Time!Word
    BY DEF LoopTask
  <2>2. nextConnectAttemptAt' \in Time!Word
    BY <1>5, <2>1, TimeType, BackoffType DEF ServiceArms
  <2>3. loop' \in LoopTask /\ loop'.at = "idle" /\ loop'.packetId = 0
    BY <1>5, BackoffType DEF ServiceArms, Idle
  <2> QED
    BY <1>5, <2>2, <2>3 DEF ServiceArms
<1> QED
  BY <1>1, <1>2, <1>3, <1>4, <1>5 DEF Service

LEMMA CallbackPreserves == IInv /\ Callback => IInv'
<1> SUFFICES ASSUME IInv, Callback PROVE IInv'
  OBVIOUS
<1> USE DEF IInv, TypeOK, Matches, At, backoff, tracking, packets, connection
<1>1. CASE OnConnected
  BY <1>1, TimeType, BackoffType DEF OnConnected
<1>2. CASE OnDisconnected
  <2>1. /\ nextConnectAttemptAt' \in Time!Word
        /\ reconnectBackoff' \in INITIAL_RECONNECT_BACKOFF .. MAX_RECONNECT_BACKOFF
    BY <1>2, TimeType, BackoffType DEF OnDisconnected
  <2>2. outbox' \subseteq outbox
    BY <1>2 DEF OnDisconnected
  <2> QED
    BY <1>2, <2>1, <2>2 DEF OnDisconnected
<1>3. ASSUME NEW id \in outbox, OnPublished(id)
      PROVE  IInv'
  <2>1. id \in 1 .. Len(payload) /\ Len(payload) \in Nat
    OBVIOUS
  <2>2. CASE delivery.pending
    <3>1. /\ delivery' \in Tracker
          /\ delivery'.pending = delivery.pending
          /\ delivery'.packetId = delivery.packetId
          /\ delivery'.sequence = delivery.sequence
          /\ delivery'.acknowledged => delivery.acknowledged \/ id = delivery.packetId
      BY <1>3, <2>2 DEF OnPublished, Acknowledged, Tracker
    <3> QED
      BY <1>3, <2>1, <2>2, <3>1 DEF OnPublished
  <2>3. CASE ~delivery.pending
    BY <1>3, <2>1, <2>3 DEF OnPublished
  <2> QED
    BY <2>2, <2>3
<1> QED
  BY <1>1, <1>2, <1>3 DEF Callback

LEMMA PublishPreserves == IInv /\ Publish => IInv'
<1> SUFFICES ASSUME IInv, Publish PROVE IInv'
  OBVIOUS
<1> USE DEF IInv, TypeOK, Matches, At, backoff, tracking, packets, connection
<1>0. Len(payload) \in Nat
  OBVIOUS
<1>1. ASSUME NEW s \in RecordSequences, PublishChecks(s)
      PROVE  IInv'
  <2>1. /\ loop' \in LoopTask /\ loop'.at = "send"
        /\ loop'.sequence = s /\ loop'.packetId = 0
    BY <1>1, BackoffType DEF PublishChecks, Idle, LoopTask
  <2> QED
    BY <1>0, <1>1, <2>1 DEF PublishChecks
<1>2. CASE ClientPublish
  <2>1. CASE payload' = payload
    <3>1. outbox' = outbox /\ loop' = Idle
      BY <1>2, <2>1 DEF ClientPublish
    <3> QED
      BY <1>0, <1>2, <2>1, <3>1, BackoffType DEF ClientPublish, Idle
  <2>2. CASE payload' # payload
    <3>1. /\ Len(payload) < MaxPackets
          /\ payload' = Append(payload, loop.sequence)
          /\ outbox' = outbox \cup {Len(payload')}
          /\ loop' = [loop EXCEPT !.at = "begin", !.packetId = Len(payload')]
      BY <1>2, <2>2 DEF ClientPublish
    <3>2. loop.sequence \in RecordSequences
      BY <1>2 DEF ClientPublish
    <3>3. /\ payload' \in Seq(RecordSequences)
          /\ Len(payload') = Len(payload) + 1
          /\ payload'[Len(payload) + 1] = loop.sequence
          /\ \A i \in 1 .. Len(payload) : payload'[i] = payload[i]
      BY <1>0, <3>1, <3>2
    <3>4. /\ loop' \in LoopTask /\ loop'.at = "begin"
          /\ loop'.sequence = loop.sequence /\ loop'.packetId = Len(payload) + 1
      <4>1. loop \in LoopTask
        OBVIOUS
      <4>2. Len(payload') \in Nat /\ Len(payload') = Len(payload) + 1
        BY <1>0, <3>3
      <4> HIDE DEF IInv, TypeOK, Matches
      <4> QED
        BY <3>1, <4>1, <4>2, LoopType
    <3>5. TypeOK'
      BY <1>0, <1>2, <3>1, <3>3, <3>4, MqttAssumption DEF ClientPublish
    <3>6. delivery' = delivery /\ earlyPuback' = earlyPuback /\ pubacked' = pubacked
      BY <1>2 DEF ClientPublish
    <3>7. Matches'
      BY <1>0, <3>3, <3>4, <3>6
    <3> QED
      BY <3>5, <3>7
  <2> QED
    BY <2>1, <2>2
<1>3. CASE PublishBegins
  <2> DEFINE begun == Begun(loop.sequence, loop.packetId)
  <2>1. /\ loop.packetId \in 1 .. Len(payload)
        /\ payload[loop.packetId] = loop.sequence
    BY <1>3 DEF PublishBegins
  <2>2. loop.sequence \in Nat /\ loop.packetId \in Nat
    BY LoopType
  <2>3. loop' \in LoopTask /\ loop'.at = "idle" /\ loop'.packetId = 0
    BY <1>3, BackoffType DEF PublishBegins, Idle
  <2>4. CASE delivery.pending
    BY <1>0, <1>3, <2>3, <2>4 DEF PublishBegins
  <2>5. CASE ~delivery.pending
    <3>1. /\ delivery' \in Tracker
          /\ delivery'.sequence = loop.sequence /\ delivery'.packetId = loop.packetId
          /\ delivery'.pending
          /\ delivery'.acknowledged => earlyPuback = loop.packetId
      <4> HIDE DEF IInv, TypeOK, Matches
      <4>1. CASE earlyPuback = loop.packetId
        <5>1. delivery' = Acknowledged(Begun(loop.sequence, loop.packetId), loop.packetId)
          BY <1>3, <2>5, <4>1 DEF PublishBegins
        <5>2. /\ begun \in Tracker /\ begun.pending
              /\ begun.sequence = loop.sequence /\ begun.packetId = loop.packetId
          BY <2>2, BegunType
        <5>3. delivery' = Acknowledged(begun, loop.packetId)
          BY <5>1
        <5> HIDE DEF begun
        <5>4. /\ delivery' \in Tracker /\ delivery'.pending = begun.pending
              /\ delivery'.sequence = begun.sequence
              /\ delivery'.packetId = begun.packetId
          BY <2>2, <5>2, <5>3, AcknowledgedType
        <5> QED
          BY <4>1, <5>2, <5>4
      <4>2. CASE earlyPuback # loop.packetId
        <5>1. delivery' = Begun(loop.sequence, loop.packetId)
          BY <1>3, <2>5, <4>2 DEF PublishBegins
        <5> QED
          BY <2>2, <5>1, BegunType
      <4> QED
        BY <4>1, <4>2
    <3>2. earlyPuback' = 0
      BY <1>3, <2>5 DEF PublishBegins
    <3>3. TypeOK'
      BY <1>0, <1>3, <2>3, <3>1, <3>2 DEF PublishBegins
    <3>4. earlyPuback = loop.packetId => loop.packetId \in pubacked
      BY <2>1
    <3>5. payload' = payload /\ pubacked' = pubacked
      BY <1>3 DEF PublishBegins
    <3>6. Matches'
      BY <2>1, <2>3, <3>1, <3>2, <3>4, <3>5
    <3> QED
      BY <3>3, <3>6
  <2> QED
    BY <2>4, <2>5
<1>4. CASE TakeAcknowledged
  BY <1>4, BackoffType DEF TakeAcknowledged, Cleared
<1> QED
  BY <1>1, <1>2, <1>3, <1>4 DEF Publish

LEMMA EnvironmentPreserves == IInv /\ Environment => IInv'
<1> SUFFICES ASSUME IInv, Environment PROVE IInv'
  OBVIOUS
<1> USE DEF IInv, TypeOK, Matches, At, backoff, tracking, packets, connection
<1>0. Len(payload) \in Nat
  OBVIOUS
<1>1. CASE Disable
  <2>1. /\ delivery' = Cleared /\ earlyPuback' = 0 /\ loop' = loop
        /\ disables' \in 0 .. MaxDisables
    BY <1>1, MqttAssumption DEF Disable
  <2>2. TypeOK'
    <3>1. /\ wifiConnected' = FALSE /\ enabled' = FALSE
          /\ client' \in {"disconnected", "connecting", "connected", "disconnecting"}
          /\ nextConnectAttemptAt' = 0 /\ reconnectBackoff' = INITIAL_RECONNECT_BACKOFF
          /\ UNCHANGED <<wifi, now, payload, outbox, pubacked>>
      BY <1>1 DEF Disable
    <3>2. /\ INITIAL_RECONNECT_BACKOFF \in INITIAL_RECONNECT_BACKOFF .. MAX_RECONNECT_BACKOFF
          /\ Cleared \in Tracker /\ 0 \in Time!Word
      BY BackoffType, TimeType
    <3>3. /\ now' \in Time!Word /\ wifi' \in BOOLEAN
          /\ loop' \in LoopTask /\ loop'.packetId <= Len(payload')
          /\ payload' \in Seq(RecordSequences) /\ Len(payload') <= MaxPackets
          /\ outbox' \subseteq 1 .. Len(payload') /\ pubacked' \subseteq 1 .. Len(payload')
      BY <2>1, <3>1
    <3>4. delivery' \in Tracker /\ earlyPuback' \in 0 .. Len(payload')
      BY <1>0, <2>1, <3>1, <3>2
    <3> QED
      BY <2>1, <3>1, <3>2, <3>3, <3>4
  <2>3. Matches'
    BY <1>1, <2>1 DEF Disable, Cleared
  <2> QED
    BY <2>2, <2>3
<1>2. CASE Enable
  BY <1>2 DEF Enable
<1>3. CASE DisconnectForSleep
  <2>1. loop' \in LoopTask /\ loop'.at = "asleep" /\ loop'.packetId = 0
    BY <1>3, BackoffType DEF DisconnectForSleep, LoopTask, Idle
  <2> QED
    BY <1>3, <2>1 DEF DisconnectForSleep
<1>4. CASE WifiChanges
  BY <1>4 DEF WifiChanges
<1>5. CASE Tick
  BY <1>5, TimeType DEF Tick
<1> QED
  BY <1>1, <1>2, <1>3, <1>4, <1>5 DEF Environment

LEMMA StepPreserves == IInv /\ [Next]_vars => IInv'
<1> SUFFICES ASSUME IInv, [Next]_vars PROVE IInv'
  OBVIOUS
<1>1. CASE UNCHANGED vars
  BY <1>1 DEF vars, IInv, TypeOK, Matches, At
<1> QED
  BY <1>1, ServicePreserves, CallbackPreserves, PublishPreserves, EnvironmentPreserves DEF Next

LEMMA InvariantHolds == Spec => []IInv
<1> QED
  BY InitEstablishes, StepPreserves, PTL DEF Spec

-----------------------------------------------------------------------------
\* Type correctness: in particular the reconnect backoff of MqttTelemetry.cpp
\* (service, onDisconnected) stays between its two limits.
THEOREM TypeCorrect == Spec => []TypeOK
<1>1. IInv => TypeOK
  BY DEF IInv
<1> QED
  BY <1>1, InvariantHolds, PTL

\* takeAcknowledgedSequence (MqttTelemetry.cpp:111) hands out a sequence only after
\* the PUBACK of the packet that carried it, in every interleaving of the two tasks.
THEOREM AcknowledgedOnlyByPuback == Spec => []AcknowledgedMeansPuback
<1>1. IInv => AcknowledgedMeansPuback
  BY DEF IInv, Matches, AcknowledgedMeansPuback
<1> QED
  BY <1>1, InvariantHolds, PTL

-----------------------------------------------------------------------------
(***************************************************************************)
(* One packet at a time.  Until an "mqtt off" the client holds at most the *)
(* packet that publish() is about to track or the tracked one, and none    *)
(* whose PUBACK it has delivered; one that overtakes the second critical   *)
(* section of publish() is remembered until then.                          *)
(***************************************************************************)
Tracked ==
    disables = 0 =>
        /\ At("send") \/ At("begin") => ~delivery.pending
        /\ \A id \in outbox : \/ delivery.pending /\ delivery.packetId = id
                              \/ At("begin") /\ loop.packetId = id
        /\ outbox \cap pubacked = {}
        /\ At("begin") /\ loop.packetId \in pubacked => earlyPuback = loop.packetId
        /\ delivery.pending /\ delivery.packetId \in pubacked => delivery.acknowledged

\* Every step keeps to one packet at a time.
LEMMA StepTracks == IInv /\ Tracked /\ [Next]_vars => Tracked'
<1> SUFFICES ASSUME IInv, Tracked, [Next]_vars PROVE Tracked'
  OBVIOUS
<1> USE DEF Tracked, At, backoff, tracking, packets, connection
<1>1. CASE Service
  <2>1. UNCHANGED <<delivery, earlyPuback, outbox, pubacked, disables>>
    BY <1>1 DEF Service, ServiceOffline, ServiceWaits, ServiceConnectRefused,
                ServiceConnect, ServiceArms
  <2>2. loop' = loop \/ loop'.at \in {"arm", "idle"}
    <3>1. ServiceConnect => loop'.at = "arm"
      BY DEF ServiceConnect, Idle
    <3>2. ServiceArms => loop'.at = "idle"
      BY DEF ServiceArms, Idle
    <3> QED BY <1>1, <3>1, <3>2 DEF Service, ServiceOffline, ServiceWaits, ServiceConnectRefused
  <2>3. CASE At("idle")
    BY <2>1, <2>2, <2>3
  <2>4. CASE At("arm")
    BY <2>1, <2>2, <2>4
  <2> QED
    BY <1>1, <2>3, <2>4 DEF Service, ServiceOffline, ServiceWaits, ServiceConnectRefused,
                            ServiceConnect, ServiceArms
<1>2. CASE OnConnected
  BY <1>2 DEF OnConnected
<1>3. CASE OnDisconnected
  BY <1>3 DEF OnDisconnected
<1>4. ASSUME NEW id \in outbox, OnPublished(id) PROVE Tracked'
  <2>1. delivery \in Tracker /\ id \in Nat
    BY DEF IInv, TypeOK
  <2>2. CASE delivery.pending
    <3>1. /\ delivery'.pending /\ delivery'.packetId = delivery.packetId
          /\ id = delivery.packetId => delivery'.acknowledged
          /\ delivery.acknowledged => delivery'.acknowledged
      BY <1>4, <2>1, <2>2 DEF OnPublished, Acknowledged, Tracker
    <3> QED BY <1>4, <2>2, <3>1 DEF OnPublished
  <2>3. CASE ~delivery.pending
    BY <1>4, <2>3 DEF OnPublished
  <2> QED BY <2>2, <2>3
<1>5. ASSUME NEW s \in RecordSequences, PublishChecks(s) PROVE Tracked'
  BY <1>5 DEF PublishChecks, Idle
<1>6. CASE ClientPublish
  <2>1. CASE loop' = Idle /\ UNCHANGED <<payload, outbox>>
    BY <1>6, <2>1 DEF ClientPublish, Idle
  <2>2. CASE Len(payload) < MaxPackets /\ payload' = Append(payload, loop.sequence)
    <3>1. loop \in LoopTask /\ payload \in Seq(RecordSequences) /\ Len(payload) \in Nat
      BY DEF IInv, TypeOK
    <3>2. loop.sequence \in RecordSequences /\ pubacked \subseteq 1 .. Len(payload)
      BY <1>6 DEF IInv, TypeOK, Matches, ClientPublish
    <3>3. Len(payload') = Len(payload) + 1
      BY <2>2, <3>1, <3>2
    <3>4. \/ loop' = [loop EXCEPT !.at = "begin", !.packetId = Len(payload')]
             /\ outbox' = outbox \cup {Len(payload')}
          \/ loop' = Idle /\ UNCHANGED outbox
      BY <1>6 DEF ClientPublish
    <3>5. CASE loop' = Idle /\ UNCHANGED outbox
      BY <1>6, <3>5 DEF ClientPublish, Idle
    <3>6. CASE /\ loop' = [loop EXCEPT !.at = "begin", !.packetId = Len(payload')]
               /\ outbox' = outbox \cup {Len(payload')}
      <4>1. loop'.at = "begin" /\ loop'.packetId = Len(payload) + 1
        BY <3>1, <3>3, <3>6 DEF LoopTask
      <4>2. Len(payload) + 1 \notin pubacked
        BY <3>1, <3>2
      <4> QED BY <1>6, <3>3, <3>6, <4>1, <4>2 DEF ClientPublish
    <3> QED BY <3>4, <3>5, <3>6
  <2> QED BY <1>6, <2>1, <2>2 DEF ClientPublish
<1>7. CASE PublishBegins
  <2>1. (delivery'.pending /\ delivery'.packetId = loop.packetId) \/ disables # 0
    BY <1>7 DEF PublishBegins, Begun, Acknowledged
  <2>2. earlyPuback = loop.packetId => delivery'.acknowledged \/ disables # 0
    BY <1>7 DEF PublishBegins, Begun, Acknowledged
  <2> QED BY <1>7, <2>1, <2>2 DEF PublishBegins, Idle
<1>8. CASE TakeAcknowledged
  BY <1>8 DEF TakeAcknowledged, Cleared, IInv, Matches
<1>9. CASE Disable
  BY <1>9 DEF Disable, IInv, TypeOK
<1>10. CASE Enable \/ WifiChanges \/ Tick
  BY <1>10 DEF Enable, WifiChanges, Tick
<1>11. CASE DisconnectForSleep
  BY <1>11 DEF DisconnectForSleep, Idle
<1>12. CASE UNCHANGED vars
  BY <1>12 DEF vars
<1> QED
  BY <1>1, <1>2, <1>3, <1>4, <1>5, <1>6, <1>7, <1>8, <1>9, <1>10, <1>11, <1>12
  DEF Next, Callback, Publish, Environment

\* The tracking holds from the start of a power cycle on.
LEMMA TrackedHolds == Spec => []Tracked
<1>1. Init => Tracked
  BY DEF Init, Tracked, At, Idle, Cleared
<1> QED
  BY <1>1, StepTracks, InvariantHolds, PTL DEF Spec

\* publish() (MqttTelemetry.cpp:80-83) never has two records in flight: what the client may
\* still send is tracked, in every interleaving of the two tasks.
THEOREM OnePacketInFlight == Spec => []NothingUntracked
<1>1. Tracked => NothingUntracked
  BY DEF Tracked, NothingUntracked
<1> QED
  BY <1>1, TrackedHolds, PTL

\* A PUBACK that overtakes the second critical section of publish() is not lost.
THEOREM EarlyPubackCounts == Spec => []NoLostPuback
<1>1. Tracked => NoLostPuback
  BY DEF Tracked, NoLostPuback
<1> QED
  BY <1>1, TrackedHolds, PTL
=============================================================================
