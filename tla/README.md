# Verification of tide-logger

TLA+ models of the firmware in this repository (an ESP32 tide station that
measures every few minutes, stores each record on LittleFS and delivers it to
Blynk, to an MQTT broker, or to both), model-checked with TLC, and theorems
about them checked with TLAPS. Line numbers refer to the sources under `src/src`.

## The system

| Component | State | Operations |
|---|---|---|
| Store-and-forward queue, `OfflineQueue.*` | two copies of a queue header and a ring of records in `/measurements.bin`; two copies of the delivery cursors in `/delivery.bin`; the current header and cursors in RAM | `begin`, `enqueue`, `peekPendingDelivery`, `acknowledgeDelivery`, `reconcileDeliveries`, `pop`, `clear`, `discardCorruptHead`, `updateNewestTimestamp`, `replaceNewest` |
| Delivery arithmetic, `TelemetryDeliveryState.h` | none | sequence after a cursor, delivered, offset of the next record |
| MQTT telemetry, `MqttTelemetry.*`, `TelemetryDelivery.h` | connection, backoff, the tracked packet, an early PUBACK | `service`, `publish`, `takeAcknowledgedSequence`, `disable`, `disconnectForSleep`, three callbacks of the client's task |
| Upload orchestration, `main.cpp` 208-261, 907-1418, 2986-3209 | the record of the cycle, the Blynk upload, deadlines, acknowledgement counts, the telemetry mode | the two upload services, callbacks for V21, V17, V6, V10, the drain pass, sleep |
| Acquisition and filter, `main.cpp` 1607-1929, `MeasurementRecord.h` | bytes of a frame, sample buffer, error counts, the result, the record | frame parser, warm-up and discard, collection, median/MAD/trim, record, V6 |
| Schedule, NTP, sleep, `main.cpp` 294-404, 598-661, 1804-1852, 2411-2431, 2557-2645, 2986-3209 | the slot and start of the cycle, clock validity, V17, the deadline of the connection | due test, start, timestamp, sleep duration, realignment, resynchronisation |
| Wi-Fi outage tracker, `main.cpp` 2088-2224, 2604-2619, 2791-2812 | elapsed outage in RAM and in four NVS keys | begin, checkpoint, threshold, planned sleep, wake, reset |
| Provisioning fallback, `main.cpp` 2011-2086, 2236-2409, 2433-2519, 2648-2663, 2862-2917, 3067-3138 | Edgent's configuration, backup, recovery marker, mode, recovery attempt | open the portal, restore, retry, promote, explicit reset, start |
| Payload and identifiers, `TelemetryPayload.*` | none | which fields a record publishes |
| Terminal, settings, host validation, sensors | settings in NVS | commands, reads |

The loop task runs everything except the MQTT client, whose task calls back
into `MqttTelemetry` under a spin lock. Blynk's handlers are called by the loop
task from inside `BlynkEdgent.run()`. The upload calls the queue and
`MqttTelemetry`; the queue calls LittleFS. A deep sleep is a reset: only
LittleFS, NVS and the RTC survive it. Its timers, the schedule, the saved-Wi-Fi
recovery and the outage check, run inside `BlynkEdgent.run()`, in the middle of
a pass of `loop()`. Edgent's state machine and the outage tracker decide together
when the portal opens; the schedule and the upload decide together when the
device sleeps, which ends whatever the others do.

What makes this code hard:

* power can be lost between any two flash writes, and a write can be torn;
* one record is delivered twice over, by two independent acknowledgement
  protocols, in a mode that users change at run time;
* a V21 reply or a PUBACK can arrive in a later upload, a later cycle, or
  after the queue moved (drop-oldest, `offline clear`, `mqtt off`);
* sequences, generations and `millis()` wrap, and zero has a meaning of its own
  in each of them;
* deadlines must end a cycle although every peer is silent;
* one handler makes up to eight NVS writes one by one, each of which may fail, and
  a setting in RAM, its key and Edgent's own configuration can disagree after any;
* the wall clock is set, corrected and lost, and the timer of the deep sleep
  drifts, while slots, timestamps and the four hours are computed from them;
* the A02YYUW sends bytes without saying where a frame begins, and the header is a
  value that other bytes have too.

What each component owes the others: the queue forgets nothing that was
committed and invents nothing; a cursor is only what its destination
acknowledged; the tracker reports only a packet the broker acknowledged; the
upload removes only what every required destination has; a cycle ends; a
disconnected client retries; the schedule measures every slot once and finishes
what it began; the portal opens after four hours of outage and not before, never
costs the configuration that worked, and closes again; a published distance was
measured. `PROJECT.json` lists the hazards line by line with
the properties that cover them.

## Modules

```
TelemetryDeliveryState   words, cursors and sequences; ring positions as reference
  DurableQueue           what the queue promises (no files)
  OfflineQueue           the queue at the granularity of its flash writes
  MqttTelemetry          two tasks, packets, reconnecting (instance for time)
UploadCycle              the cycle, both destinations, commands, sleep and reset
MeasurementCycle         slots, clock, acquisition and sleep in the passes of loop()
Preferences              NVS: the keys, and the writes of a handler cut short
  WifiOutage             the outage tracker: its variables and its writes
  Provisioning           the fallback and the recovery: variables and writes
    WifiFallback         both, with Edgent, the user, sleep, resets, failing writes
MeasurementRecord        the packed counts
  MeasurementFilter      the sort of the samples, and from them to a distance
  TelemetryPayload       from a record to its fields
    Acquisition          the bytes, the parser, the window, the record, V6
MC*                      instances for TLC;  *Proofs: theorems for TLAPS
```

**TelemetryDeliveryState.** `uint32_t` is `0 .. 2 * HalfRange - 1` with wrapping
subtraction and increment, so that the code's casts to `int32_t` are a
comparison with `HalfRange`. `Nth` is the reference: sequences are the points of
a ring without zero. `OfflineQueue` instantiates it again for generations and
`MqttTelemetry` for `millis()`.

**OfflineQueue.** One action is at most one write of the code; `pc` says where
the loop task is in a call, named for the write that is next. A write completes
or fails, and a failed one leaves the old content or a bad checksum, so a power
loss during a write is a failed or completed write and a `PowerLoss`. A record is
its sequence; a slot that `isRecordValid` rejects is `Blank`; a header copy with
a bad checksum is `Torn`. RAM variables carry the member names of the code.
`issued`, `acked` and `spoiled` are history for the properties and are never read
by an action except for the bound on `issued`.
It starts with a blank file system, with the files of a queue that was in use, or with
the cursors of such a queue beside a queue file that is absent or does not load.
`CreationInterrupted` is a `begin()` that is cut off, by a power loss or a failing write,
when the new queue file is there and the old cursors are too: `Spec` has it, and loses
records by it (finding 3); `UninterruptedSpec` is `Spec` without these steps.
`DiscardCorruptHead` and `Pop` (as a call of its own) are part of `ApiSpec` and
`UninterruptedApiSpec` only, since the firmware never calls them. The theorems about the
invariants include them; TLC runs their abstract forms in `MCDurableQueue`.

**DurableQueue.** The promise: a bounded queue, a set of deliveries per
destination, atomic operations. A power loss is not an action of it. The
refinement mapping takes the header that a reboot would load (`Durable`), so it
holds at every step, not only between calls; `requiredMask` is the one variable
both have, since a call that loses power simply ends.

**MqttTelemetry.** An action is one critical section or one stretch of the loop
task between two calls into the client. `publish` is therefore three actions
(`PublishChecks`, `ClientPublish`, `PublishBegins`) and `service` two when it
connects (`ServiceConnect`, `ServiceArms`), with the callbacks in between. The
client keeps an outbox; at the end of a connection it may keep or drop any of it.

**UploadCycle.** One action is one handler, or one call of a service function.
The retry of a failed enqueue and the rewrite of the record's timestamp are the
first lines of both upload services and hence part of their actions (`Prepared`).
The queue appears with its calls, justified by the refinement; sequences are
natural numbers, justified by the arithmetic; the tracker appears as proved.
A call that can end in several ways is the set of its outcomes. The TCP
connection to Blynk is two FIFO channels that lose their content when it drops;
the cloud keeps the last V21. Time is seen as three timers that are off,
running, or elapsed. The phases are `asleep`, `measuring` (acquisition) and
`measured`; OTA is left to `MeasurementCycle`, `MODE_ERROR` and the portal to
`WifiFallback`.
The parity of the slot, which decides whether one or two records are sent, is a
free choice at each use: the code recomputes it, and a V17 change or a new slot
can change it in between.

**MeasurementCycle.** A pass of `loop()` is `ServiceNetworkTime` and one of the
actions `Loop*`; those that call `BlynkEdgent.run()` leave `pc` at what `loop()`
does when that returns. The callbacks and `ServiceContinuousMeasurements` run
in between (`Inside`), so a cycle that the timer starts meets the rest of a pass that
was decided for the one before. `Captured`, `Due`, `AbsoluteSleep` and
`CurrentCycleTimestamp` are the arithmetic, with one tick for a second (and for
the 100 ms guard, the minimum sleep and the drift, whose order of size is kept).
`real` is the true time and `error` the difference of the wall clock. `Tick`
waits while the loop or the 10 ms timer has something to do (`ScheduleBusy`). The
outcome of the upload, the connection and the fallback are free choices.

**WifiOutage, Provisioning, Preferences.** Each function of the code is two
operators: what it does to the variables in RAM and the sequence of NVS writes it
makes. `Preferences` says what is left when power is lost after a part of the
sequence (`CutShort`) or one call fails (`OneFailed`). A configuration is a network and
`CONFIG_FLAG_VALID`; the SSID, password and token stand or fall together.

**WifiFallback.** One action is one handler with all its writes, in one of the three ways.
`Unfailing` are the writes whose failure is not modelled: Edgent's own, and the
marker. `seenAt` and `verified` are history: when the Wi-Fi was last seen, and which
networks have worked since the last explicit reset, counted from the moment that the
last-known-good backup is one of them (`Counted`): before, `setup()` may have filled
the backup with a configuration that never worked. Edgent's modes are
external; the user submits any network, may have it saved unproven, and attaches
clients to the portal, but not in the second between the refusal of a candidate and the
timer that restores the saved one (`PortalServes`).
Of the upload only the end is kept (`UploadFinishes`).

**MeasurementRecord, MeasurementFilter, TelemetryPayload.** Pure operators. Medians
are doubled and the MAD is fourfold, so that every comparison of floats is one of
integers. A window keeps its samples sorted: each is inserted as a round of the sort does.

`Published` is the MQTT message, `SentToBlynk` the group of virtual pins.

**Acquisition.** One action is one byte: it leaves the sensor, whole or garbled, or
is lost with any number of others (`Gap`), and goes through the parser. The
window ends after any byte. `sent`, `clean`, `frames` and `faults` are history.

## Runs

| Run | Shows | Bounds |
|---|---|---|
| `MCDurableQueue` | `TypeOK`, `Contiguous`, `DeliveredInOrder`, `CursorFindsPending` | capacity 4, 15 sequences (the range wraps several times), 2 drops |
| `MCOfflineQueue` | `TypeOK`, `HeaderRecoverable`, `CursorsRecoverable`, `LiveRangeIntact`, `NoInheritedCursor`, `ImplementsDurableQueue` | capacity 2, 3 new sequences, 4 generations, from a blank, an aged and a lost queue file, `UninterruptedSpec` |
| `MCOfflineQueueInherit` | finding 3 | the same, `Spec` |
| `MCMqttTelemetry` | `TypeOK`, `AcknowledgedMeansPuback`, `NoLostPuback`, `NothingUntracked`, `ReconnectsEventually` | 2 packets, 2 sequences, 1 `mqtt off`, a clock of 8 values that wraps for ever, backoff 1, 2 |
| `MCUploadCycle` | `TypeOK`, `UploadTracksPending`, `WithinUploadLimit`, `OldestFirst`, `DeliveredBeforeRemoved` | Blynk, 4 cycles, capacity 3, failing mount, acknowledge and rewrite |
| `MCUploadCycleBoth` | `DeliveredBeforeRemoved` | all modes and their changes, 2 cycles, capacity 2 |
| `MCUploadCycleLive` | `CycleEnds` | 1 cycle, `mqtt on/off`, V17 |
| `MCUploadCycleReuse` | finding 1 | the smallest instance with the fault |
| `MCWifiFallback` | `TypeOK`, `BootFindsVerified`, `NeverEarly`, `FallbackEnds` | networks `old`, `new` and `wrong`, threshold 2 ticks, sleeps 1, 2, `MaxTime` 3, one fault (a power loss or failing write in any handler), one submission, one reset |
| `MCWifiFallbackSleep` | finding 2 | no fault, one submission, one reset |
| `MCMeasurementCycle` | `TypeOK`, `AwakeMeasuresAgain`, `NoSlotTwice`, `AcquisitionCompletes`, `NoUploadWhileAcquiring`, `DatedWhenMeasured`, `WakesAtNextSlot` | intervals 4, 6, acquisition and guard 2, drift −1 .. 1, NTP error −1, 0, `MaxTime` 25, 2 disturbances |
| `MCAcquisition` | `TypeOK`, `StraysNeedFaults`, `FindsHeader`, `DistanceWasSent`, `PublishedAsMeasured`, `DatumIsInForce` | four distances, two noise bytes, datums 3000, 4000, 6 frames, 2 faults, at least 3 samples, buffer of 4, 1 discarded, trim of a quarter |

Why the bounds are enough.

* *Queue.* An aged queue starts one sequence before the wrap, so three new
  records cross it and the skipped zero; four generations wrap in every
  longer behaviour. Capacity 2 with 3 records makes the ring wrap, overflow and
  be emptied; the index arithmetic has no other case, and the abstract queue is
  checked with 4.
* *MQTT.* Two packets are one that is tracked and one left over from before; the
  theorems say the same of any number. The clock is not bounded: its 8 values wrap
  for ever. A backoff that doubles once has reached its maximum.
* *Upload.* Two cycles are enough for an acknowledgement of one cycle to
  arrive in the next, four for the queue to overflow while an older record waits.
  Hence `DeliveredBeforeRemoved` is in two runs: with MQTT and every mode over two cycles,
  which never drop the oldest record, and with Blynk over four, which do. A late PUBACK
  after drop-oldest is left to the theorem `DeliveryPrecedesRemoval`.
  `MaxInFlight` bounds the Blynk messages that are unhandled when a drain pass
  starts: without it an unanswered cloud would collect messages for ever.
* *Fallback.* A threshold of two ticks with sleeps of one and two is reached in one
  sleep, in two, across a reset, and awake. The three networks are the saved one,
  another that works, and one that never does. One fault in one of about twenty
  handlers at each of its writes is every single point of failure; what two can
  do is under *Findings*.
* *Schedule.* 25 ticks are four to six slots. Two intervals that do not divide each
  other make a V17 change move every boundary, and a guard of 2 beside a drift
  of 1 makes both sides of the comparison happen.
* *Acquisition.* 259 has low byte 3 and high byte 1, and 1279 = `04FF` holds a
  byte that looks like a header, so the parser can lock on to the wrong place; 200 is
  below the range of the sensor and 5000 above it; a buffer of 4 fills in 6 frames.

All bounds on counters (`MaxIssued`, `MaxPackets`, `MaxDisables`, `MaxCycles`,
`MaxDropped`, `MaxFaults`, `MaxSubmissions`, `MaxResets`, `MaxDisturbances`,
`MaxFrames`) stop new work only; what was begun can always finish. `MaxTime` stops the
clock: in `WifiFallback` an outage has passed its threshold by then, and what a longer
one could do it has done; in `MeasurementCycle` it ends the behaviour.

`CHECK_DEADLOCK FALSE` is set in the runs of `UploadCycle`, in which the device
sleeps after `MaxCycles` cycles and no wake follows, and in `MCMeasurementCycle`,
in which it sleeps at `MaxTime`.

Every property of a passing run has a mutant: a definition changed as a
plausible bug would (marked `Mutant:` in the modules), which violates it.

### Fairness

* `UploadCycle` (`CycleEnds`): weak fairness of the end of the measurement, of the
  two upload services, of arming and of running out of the timers, and of the
  sleep. `loop()` calls all of them in every round and time passes. Nothing is
  assumed of the cloud, the broker or the links, so the deadlines alone must
  carry the property.
* `MqttTelemetry` (`ReconnectsEventually`): `service()` is called in every round
  (weak fairness), its connect branch is not missed for ever by coinciding with
  other branches (strong, since callbacks switch it on and off), the client's
  task ends a disconnect, the clock ticks, and a broker that is asked again and
  again answers once (strong fairness of `OnConnected`). A tick is longer than a
  round of the loop (`Serviced`), as a millisecond backoff of 1000 or more is.
* `WifiFallback` (`FallbackEnds`): weak fairness of `setup()` after a start and of
  what `loop()`, the timers and Edgent's state machine do by themselves
  (`SavedWifiRestores`, `ModeError`, `ModeResetConfig`, `FirstCycle`, `EdgentSwitches`,
  `EdgentJoinsNetwork`, `EdgentGivesUp`). Strong fairness of the 10 minute timer that
  begins an attempt on the saved Wi-Fi, of that attempt finding it, and of the cloud
  accepting the device: the saved network comes back and stays long enough, once, if
  it is tried again and again. Without it nothing could end a fallback but the user,
  of whom nothing is assumed.

## Theorems

`TelemetryDeliveryStateProofs`: `NextSequenceIsOneStep`, `AfterAgreesWithPosition`,
`OffsetAgreesWithPosition`. For every word size the code's comparisons agree with
positions on the ring as long as a window stays within half the range. The
capacity of the queue (8064 records) is far below 2^31.

`DurableQueueProofs`: `TypeCorrect`, `AlwaysContiguous`, `AlwaysInOrder`,
`AlwaysFindsPending`, for every capacity below half the range and any set of modes.
The first three are proved together: deliveries stay a prefix only because sequences are distinct
(`RecordsDistinct`), which follows from contiguity and the capacity being below
half the range. The fourth follows from them and the arithmetic: in every
reachable queue one wrapping cursor tells what a destination lacks.

`OfflineQueueProofs`: `TypeCorrect`, `HeaderAlwaysRecoverable`,
`CursorsAlwaysRecoverable`. The inductive invariant adds to the types that,
outside of `begin()`, the copy that RAM came from is intact and equal to RAM, and
that the other copy is torn or carries the previous generation (`Held`). The
recoverability properties alone are not inductive: they do not exclude an
inactive copy two generations ahead, which the next write would make look older
after the wrap. The lemmas are stated over the words of the generations,
`HeldAfterWrite` and `HeldAfterFailure`, and used for both files.

Of the contents, also in `OfflineQueueProofs`: `LiveRangeAlwaysIntact`,
`CursorNeverInherited`. The first
rests on `Contents`: the durable header's records are in their slots, the record that
is about to be committed is in the first free slot, and a slot is only cleared while
the queue is not full, so that the slot behind the head is a free one. The second
rests on `Cursors`: every readable copy of the cursors is sound, also the inactive
one that a failed write may leave as the only copy, but for those beside a queue file that
is absent or being created (`BeingCreated`), which the end of the creation overwrites. `CursorNeverInherited` therefore is about
`UninterruptedApiSpec`, from every start and also beside the cursors of a lost file; the
others are about `ApiSpec`, with every interruption.

And in `OfflineQueueProofs` again: `QueueIsDurable`, the queue in flash implements
`DurableQueue`, so what is proved of the atomic queue holds of the one the
firmware has. The steps of a call are matched at its commit, the one write that changes
`Durable`; an enqueue of a full queue removes the head and adds a record in two such
steps. What has to be known besides the two invariants above is `History`: the file has
assigned the last `n` sequences, and a destination has everything that is queued up to its
stored cursor and nothing behind it. The theorem assumes `FewIssued`, fewer than half the
range of sequences per queue file: the cursor of a destination that is not used for 2^31
records would be read as ahead of the queue. At one record per minute that takes 4000 years.
And it is about `UninterruptedSpec`: inherited cursors make the queue forget records.

`UploadCycleProofs`: `TypeCorrect`, `UploadsAreLimited`, `UploadStaysPending`,
`DeliveryPrecedesRemoval` and `ReplayIsOldestFirst`, for every capacity, upload limit, set of
modes and commands, and any number of packets in flight. Two inductive invariants carry
them. `IInv` holds with every fault: besides the types, a destination that is being served
is below its limit (`Limits`), a Blynk upload that waits means a measured cycle, a queued
record and a mode with Blynk (`Uploading`), it names the oldest record that Blynk lacks
(`UploadTracksPending`, which every handler that touches the queue must respect), and what
is in flight is a record (`Messages`).
`Sound` relates what is on the way to what is in the queue: the queue is in the order of its
cycles (`Orders`), a cursor passes only what its destination has received (`CursorsKnown`),
a packet is the record whose sequence it carries and the older ones have been received
(`Flight`, `Publishes`), and an acknowledgement, in the downlink, at the cloud or in RAM,
names a record that was received or is gone (`Replies`).
`Sound` and the last two theorems assume
`"enqueue" \notin Faults`, and have to: an `enqueue` that makes room and then fails leaves
a record in RAM with the sequence of the next one, which is finding 1 and the
counterexample of `MCUploadCycleReuse`. The first three theorems have no such hypothesis.

`MqttTelemetryProofs`: `TypeCorrect`, `AcknowledgedOnlyByPuback`,
`OnePacketInFlight`, `EarlyPubackCounts`. The invariant
(`Matches`) says what a packet ID stands for wherever it is kept, in the local
variable of `publish`, in the tracker and in `earlyPubackPacketId_`, which is only
ever an ID the broker acknowledged. The last two hold as long as `mqtt off` has not
been used, as the properties say, and need a second invariant (`Tracked`): while a
publish is being made or waited for, its packet is the only one the client still holds,
and its PUBACK is in the tracker or in the early ID. Packet IDs do not wrap in the model; in the
firmware they do after 65535 packets of one power cycle, when
`earlyPubackPacketId_` would have to survive all of them.

`MeasurementCycleProofs`: `TypeCorrect`, `AcquisitionIsCompleted`,
`NothingUploadedWhileAcquiring`, `AlwaysWakesAtNextSlot`, `AlwaysLaterSlot`,
`MeasuresAgainWhileAwake` and `AlwaysDatedWhenMeasured`, for all intervals, guards, clocks and drifts. The invariant of the first two properties
(`CycleInv`) says
that a device without power has no cycle, that the sensor of an acquisition is on
unless an update has begun, and that the deadline of the connection is armed only
in a recorded cycle. None of the actions that sleep, upload or expire
looks at all of these; the invariant ties what each of them looks at to the phase, also
after `BlynkEdgent.run()`, inside of which a cycle may begin. `AlwaysLaterSlot` rests on
`SlotInv`: the slot of the last cycle is never ahead of the wall clock, a sleep ends in a
later one (by the lemma `SleepEndsAtBoundary` about `calculateAbsoluteSleep`), and the
slot a cycle has captured is the last one. `NoSlotTwice` alone is not inductive: it says
nothing of the time at which a sleep ends. `MeasuresAgainWhileAwake` rests on `AwakeInv`: the
schedule was aligned after the cycle began, in a slot that had begun by then (`SlotReached`,
which a clock that is set back keeps only through `shifted`), and an acquisition with
a sensor is no older than its length (`WithinAcquisition`), so that a record comes before
the next slot. `AlwaysDatedWhenMeasured` rests on `DateInv`: the slot of a
cycle that began with a clock is near its start (`NearStart`) as long as it acquires, whatever
NTP and `measure interval` do in between, and such a cycle is dated with its record, so
that a record that still waits for a date is dated by the start of the cycle (`Stamped`). For
that no slot may have the timestamp 0 of an unknown time (`ClockInv`). Two assumptions on
the constants carry this: an acquisition is shorter than the interval, which
`measurementTimingIsValid` checks (`main.cpp:566-575`), and a clock that counts as valid is past
its first slot, since `MIN_VALID_UTC_EPOCH` is in 2024 (`main.cpp:87, 277-281`).

`AcquisitionProofs`: `GarbledByteIsDetected` (one changed byte never gives another
distance with a right checksum), `AcceptedIsBetween` (four bytes that a parser out of
step accepts report a distance between those of the two frames they are taken from), `CountsSurvivePacking` (both counts come back from the
three bytes, for all values up to 4095), `ParserFindsHeader` (for every
distance and every fault: after a whole frame without a second `0xFF` the parser is in
step again; until then it holds at least the part of the frame that is out, or waits
for a header, `ParserInv`),
`DatumStaysInForce` (after V6 and after a measurement the record in RAM has the
datum in force, `DatumInv`), `TypeCorrect`, `StraysNeedFaultsAlways`,
`AlwaysPublishedAsMeasured` and `DistanceWasAlwaysSent`, for every set of distances, noise
and datums, every buffer and every number of faults.
The last is what the filter is for: while fewer than half of the samples can be strays, the
published distance lies within the outlier limit of the range of what the sensor sent. It takes
three invariants. `SamplesInv`: the window is sorted, in range, and within the
buffer. `StrayInv`: the samples outside of what was sent are no more than the faults of the
line, where a fault that has put the parser out of step and has not yet given a sample
(`Pending`) is counted already; that a fault cannot be counted twice needs `Streamed`, that what
the parser holds are the last bytes of the line. `CycleInv`: the result is that of the filter on
the samples of the window, and the record is made of the result. The rest is about the
filter alone, for samples of any number and any values: inserting keeps counts and order
(`InsertedKeeps`, `SortedKeeps`), a median lies between the samples that are not
strays if those are the majority (`MedianIsInside`), the MAD is then no larger than their
spread (`MadWithinSpread`), inliers are samples (`InliersAreSamples`), and a trimmed
mean lies between the least and the greatest of what it averages (`TrimmedMeanBetween`).
The functions of the filter are recursive functions, and the lemmas go by
induction over naturals as sets: the least number of those that lack the property
(`LeastNumber`, from `WFMin`) has a predecessor that has it.
`AlwaysPublishedAsMeasured` assumes that the payload's threshold for the MAD is the
filter's minimum of samples; both are 30 (`main.cpp:52`, `TelemetryPayload.cpp:207`).

`WifiFallbackProofs`: `TypeCorrect` and `BootAlwaysFindsVerified`, for every set of
networks and every number of faults, submissions and resets; the run has one of each.
`BootFindsVerified` alone says nothing of how `setup()` chooses. `Saves` does:
once a network that works is the backup, the backup stays such a network, and Blynk's
configuration is one too unless the marker sets it aside. To keep that over the portal,
where Blynk's configuration is overwritten before anything is proven, it takes what RAM
knows: no candidate is tried for a device that has worked unless the fallback is active and
its marker written (`Trusted`), and a configuration in RAM that is valid is the stored one
(`Sensible`). A handler is not one step for NVS: the lemmas say of each group of calls
which keys it writes and with which values, so that a prefix of them, or all but one, leaves
each key with its old value or one of these (`May`), and that a handler that goes on has
written the marker and Blynk's configuration (`Must`).
What the proof rests on beside the code is `Unfailing` and `PortalServes` above.

`NotEarlyAfterOneFault`, also there: `NeverEarly` for every threshold, every sleep and any
length of a behaviour. It assumes `MaxFaults <= 1`, and has to: two lost writes break the
property (see *Findings*). Its invariant (`EarlyInv`) relates each outage that is known to
when the Wi-Fi was last seen: the start that is stored or in RAM is not before that, and
the time that has been counted, with the planned sleep at its end, fits in between
(`StoredOutage`, `KnownOutage`). A lost write leaves keys of an older outage behind, so
these two are not inductive; `OneFault` says what is left. Before the fault the stored keys
are zero without an outage, and no planned sleep is stored while the device is on. After it
a stored outage that RAM does not know has no time in it: the reset has lost the write of
`active` alone (`resetWifiOutageTracking`, `main.cpp:2088-2105`). A start that takes up such a
remainder therefore counts from then. `DurationBounded` turns the invariant into
the property at the one place where the threshold is compared.

The assumptions are the named `ASSUME`s of the modules, which TLC evaluates.

Every invariant and action property of the passing runs is proved, under the hypotheses
above. Liveness under fairness is out of the prover's reach and left to TLC (`CycleEnds`,
`ReconnectsEventually`, `FallbackEnds`), as is `ENABLED`.

## Findings

1. `MCUploadCycleReuse`: a failed `enqueue` leaves a sequence in the record in RAM,
   which is uploaded with it; the next record gets the same sequence, and a
   stale V21 acknowledges it unsent (`OfflineQueue.cpp:348`, `main.cpp:925`).
2. `MCWifiFallbackSleep`: after a reset with the BOOT button the device may fall
   asleep while the new configuration is being tried. The guard of
   `enterTimedDeepSleep` (`main.cpp:2563-2570`) and that of the deadline
   (`main.cpp:3150-3160`) leave out `MODE_CONNECTING_NET` and
   `MODE_CONNECTING_CLOUD`; `README.md:225-226` says that a manual reset holds the
   device in the portal until the configuration is complete.
3. `MCOfflineQueueInherit`: a power loss in `begin()` between the new queue file and the
   removal of the old cursors (`OfflineQueue.cpp:322`), or a second header copy that
   cannot be written, makes the new queue inherit them; the records up to an old cursor
   count as delivered and are removed unsent. `OfflineQueue.cpp:319-320`: "A newly created
   queue must never inherit cursors from an older queue file."

Seen while modelling and not stated as a run:

* V6 corrects a queued record in place; when that write fails, the code warns
  (`main.cpp:2758`) and the upload reads the old or a torn copy.
* `nextConnectAttemptAt_ = 0` is meant as "now" and compares as "in the future"
  when the uptime is 2^31 ms or more, for up to 24.8 days (`MqttTelemetry.cpp:42, 137, 152`).
* `offline clear` during the first acquisition leaves the cycle unfinished
  (`main.cpp:749-756`).
* Nobody calls `discardCorruptHead`: a record with a bad checksum stops the upload
  of every cycle (`main.cpp:1259`) until drop-oldest reaches it, and V20 does
  not count it as `README.md:572` says.
* The parser can stay out of step for ever while the distance is constant and its
  low byte or checksum is `0xFF` (511, 766, 1021 mm), a lost byte
  can shift a distance by up to 15 mm, and two lost bytes make 1023 mm of 259.
* V13 and V15 are published nonzero with an invalid result, unlike
  `README.md:307-311`.
* Two faults together: a second lost write leaves a stale outage state and the portal
  opens early. A marker that was not written and a configuration
  saved unproven start the device with the latter. A saved configuration whose
  network works and whose token is refused is adopted; `setup()` stores an unproven saved
  configuration as the last-known-good one; a refused candidate stays when a client is
  attached before the 1 s timer; a power loss in `BLYNK_CONNECTED()` leaves a
  stale backup (`main.cpp:2658`); the deadline of the upload may override
  `MODE_RESET_CONFIG`.
* When the RTC runs ahead and NTP sets it back, a slot is measured twice (`NoSlotTwice`
  excludes a clock that was set back). An interval changed during an acquisition
  changes the stamp of that record.

The passing runs exclude exactly the conditions of these: no `begin()` cut off beside old
cursors (`MCOfflineQueue`), no failing `enqueue` (the upload runs), no `offline clear`
where `CycleEnds` is checked, one fault per behaviour in `WifiFallback` (for `NeverEarly`;
`BootFindsVerified` is proved for any number), where the writes of the
marker and of Edgent may be cut short by a power loss but do not merely fail.

## What is not modelled

* flush errors that LittleFS hides, and a sound file that fails to open once;
* the queue together with OTA, the portal or a cycle started inside of `loop()`:
  `MeasurementCycle` and `WifiFallback` have the upload as a free choice of its end;
* the water level in flash when `replaceNewest` fails (`SetSensorHeight` takes it to succeed;
  that the write may fail or tear the record is in `OfflineQueue` and `UploadCycle`);
* the values of current, voltage, temperature and humidity, and the text of the payload;
* V21 as a signed 32-bit value (sequences from 2^31 would never match);
* the manual sensor test, the collection-window command, the commands that print or
  store a host, the sanitising of identifiers, the validation of a host;
* drivers of the sensors and the libraries, beyond what the code sees of them.

## What is left

* Liveness of the drain: a backlog is empty in the end if the cloud answers and
  records arrive more slowly than passes run.
* `UploadCycle` composed with `MeasurementCycle`, at the coarse grain of the second.
* The append of the payload into its buffer, identifiers and IPv4 validation as operators.
