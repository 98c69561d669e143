--------------------------- MODULE MeasurementCycle ---------------------------
(***************************************************************************)
(* src/main.cpp, when the device measures: the slots of the wall clock,    *)
(* the relative schedule without it, the acquisition of a cycle, and the   *)
(* deep sleep to the next one.                                             *)
(*                                                                         *)
(* A pass of loop() is one of the actions Loop*; most of them end in       *)
(* BlynkEdgent.run(), inside of which Blynk's callbacks and the timers run *)
(* before loop() returns or goes on to the upload, as pc says.  One of the *)
(* timers, serviceContinuousMeasurements, finishes an acquisition and      *)
(* starts the next cycle inside that call: loop() then goes on with what   *)
(* it decided for the cycle before.                                        *)
(*                                                                         *)
(* real is the true time and real + error the wall clock, in ticks; an     *)
(* acquisition (warm-up and window) lasts Acquisition ticks of a powered   *)
(* sensor.  What the upload and the portal do is left to UploadCycle and   *)
(* WifiFallback: here only when they let the device sleep or hold it.      *)
(***************************************************************************)
EXTENDS Integers

CONSTANTS
    Intervals,       \* values of measurementIntervalSeconds
    Acquisition,     \* length of the warm-up and of the collection window
    GUARD,           \* the 100 ms below which a sleep is lengthened
    MINIMUM_SLEEP,   \* MINIMUM_SLEEP_MS
    Drifts,          \* how much longer than planned a deep sleep may last
    Errors,          \* errors that the wall clock has after NTP
    Epochs,          \* times at which the device is switched on
    MaxTime,         \* bound: length of a behaviour
    MaxDisturbances  \* bound: commands, NTP corrections, resets and OTA updates

\* measurementTimingIsValid() leaves 30 s of an interval beside the collection window.
ASSUME CycleAssumption ==
    /\ Intervals \subseteq Nat \ {0} /\ Intervals # {}
    /\ Acquisition \in Nat /\ GUARD \in Nat \ {0} /\ MINIMUM_SLEEP \in Nat \ {0}
    /\ \A i \in Intervals : GUARD < i /\ Acquisition < i
    /\ Drifts \subseteq Int /\ \A drift \in Drifts : -drift < GUARD /\ -drift < MINIMUM_SLEEP
    /\ Errors \subseteq Int
    /\ Epochs \subseteq Nat
    /\ MaxTime \in Nat /\ MaxDisturbances \in Nat

\* MIN_VALID_UTC_EPOCH: a clock that is valid is years past its first slot.
ASSUME ClockAssumption ==
    \A t \in Epochs, e \in Errors \cup {0}, i \in Intervals : t + e >= i

VARIABLES
    power,           \* "on", "asleep" or "off"
    pc,              \* "loop", or what loop() does after run(): "return" or "upload"
    real, error, clockValid,
    wakeAt,          \* when the timer ends the sleep
    interval,        \* measurementIntervalSeconds, kept in NVS
    cycle,           \* cycleStartedAt, cycleAbsoluteSlot and their companions
    phase,           \* "none", "acquiring" or "recorded"
    sensor,          \* a02yyuwPowerEnabled
    stamp,           \* the timestamp of the record, 0 for an unknown one
    uploaded,        \* cycleUploaded
    deadline,        \* of the connection: "off", "armed" or "passed"
    stayAwake, fallback, connected, ota,
    lastSlot,        \* history: the slot of the last cycle, None after a disturbance
    waitingSince,    \* history: when the schedule was last aligned
    shifted,         \* history: by how much NTP has moved the clock during this cycle
    disturbances

time == <<real, error, clockValid>>
schedule == <<interval, cycle, lastSlot, waitingSince, shifted>>
upload == <<uploaded, deadline>>
world == <<stayAwake, fallback, connected, ota>>
vars == <<power, pc, time, wakeAt, schedule, phase, sensor, stamp, upload, world, disturbances>>

None == -1
NoCycle == [startedAt |-> 0, slotValid |-> FALSE, slot |-> 0, startedWithTime |-> FALSE]
Distance(a, b) == IF a < b THEN b - a ELSE a - b

Wall == real + error
Slot(wall, i) == wall \div i
On == power = "on"
Held == stayAwake \/ fallback

-----------------------------------------------------------------------------
(***************************************************************************)
(* The arithmetic of the schedule                                          *)
(***************************************************************************)
\* captureCurrentAbsoluteSlot(), for the interval i
Captured(c, i) == [c EXCEPT !.slotValid = clockValid,
                            !.slot = IF clockValid THEN Slot(Wall, i) ELSE @]

\* Mutant: the boundary itself does not count.
DueOneSlotLate ==
    IF clockValid THEN cycle.slotValid /\ Slot(Wall, interval) > cycle.slot + 1
    ELSE real - cycle.startedAt >= interval

\* Mutant: the slot of the cycle is due again.
DueInSameSlot ==
    IF clockValid THEN cycle.slotValid /\ Slot(Wall, interval) >= cycle.slot
    ELSE real - cycle.startedAt >= interval

\* stayAwakeCycleIsDue(); the slot that it captures itself is CaptureSlot.
Due == IF clockValid THEN cycle.slotValid /\ Slot(Wall, interval) > cycle.slot
       ELSE real - cycle.startedAt >= interval

\* Mutant: the end of a cycle close to the boundary is not provided for.
SleepToBoundary(wall, i) == i - (wall % i)

\* calculateAbsoluteSleep()
AbsoluteSleep(wall, i) ==
    LET toBoundary == i - (wall % i)
    IN  IF toBoundary < GUARD THEN toBoundary + i ELSE toBoundary

\* Mutant: a cycle that is longer than the interval is not provided for.
RestOfInterval(active, i) == i - active

RelativeSleep(active, i) == IF active < i THEN i - active ELSE MINIMUM_SLEEP

SleepDuration ==
    IF clockValid THEN AbsoluteSleep(Wall, interval)
    ELSE RelativeSleep(real - cycle.startedAt, interval)

\* Mutant: an unsynchronised cycle is stamped with the time of the stamp.
TimestampOfNow ==
    IF cycle.startedWithTime /\ cycle.slotValid THEN cycle.slot * interval
    ELSE IF clockValid THEN Wall ELSE 0

\* estimateCurrentCycleTimestampMs()
CurrentCycleTimestamp ==
    IF cycle.startedWithTime /\ cycle.slotValid THEN cycle.slot * interval
    ELSE IF clockValid THEN Wall - (real - cycle.startedAt) ELSE 0

-----------------------------------------------------------------------------
(***************************************************************************)
(* The parts of the handlers                                               *)
(***************************************************************************)
\* startNormalMeasurementCycle()
StartNormalMeasurementCycle ==
    LET started == Captured([cycle EXCEPT !.startedAt = real], interval)
    IN  /\ cycle' = [started EXCEPT !.startedWithTime = started.slotValid]
        /\ phase' = "acquiring" /\ sensor' = TRUE /\ stamp' = 0
        /\ uploaded' = FALSE /\ deadline' = "off"
        /\ lastSlot' = IF started.slotValid THEN started.slot ELSE None
        /\ waitingSince' = real /\ shifted' = 0

AcquisitionEnds == phase = "acquiring" /\ sensor /\ real - cycle.startedAt >= Acquisition

\* finalizeA02YYUWMeasurement(), then performOtherCycleMeasurements().
FinishMeasurement ==
    /\ phase' = "recorded" /\ sensor' = FALSE
    /\ stamp' = CurrentCycleTimestamp
    /\ UNCHANGED <<schedule, upload>>

\* serviceNetworkTime(), or stayAwakeCycleIsDue(), when the clock has become valid.
CaptureSlot ==
    /\ cycle' = Captured(cycle, interval)
    /\ lastSlot' = cycle'.slot
    /\ waitingSince' = real
    /\ UNCHANGED <<interval, shifted>>

NeedsSlot == phase # "none" /\ clockValid /\ ~cycle.slotValid

Dies ==
    /\ power' = "off" /\ pc' = "loop" /\ wakeAt' = 0
    /\ phase' = "none" /\ sensor' = FALSE /\ stamp' = 0
    /\ uploaded' = FALSE /\ deadline' = "off"
    /\ connected' = FALSE /\ ota' = FALSE
    /\ cycle' = NoCycle /\ waitingSince' = real /\ shifted' = 0
    /\ UNCHANGED <<interval, stayAwake, fallback>>

\* enterTimedDeepSleep(); the clock runs on with the error of the timer, which no sleep is
\* too short for.
EnterTimedDeepSleep ==
    /\ ~stayAwake /\ ~ota
    /\ power' = "asleep" /\ pc' = "loop"
    /\ \E drift \in Drifts : /\ drift < 0 => -drift <= SleepDuration
                             /\ wakeAt' = real + SleepDuration + drift
                             /\ error' = error - drift
    /\ phase' = "none" /\ sensor' = FALSE /\ stamp' = 0
    /\ uploaded' = FALSE /\ deadline' = "off" /\ connected' = FALSE
    /\ cycle' = NoCycle /\ waitingSince' = real /\ shifted' = 0
    /\ UNCHANGED <<real, clockValid, interval, lastSlot, stayAwake, fallback, ota,
                   disturbances>>

-----------------------------------------------------------------------------
(***************************************************************************)
(* loop()                                                                  *)
(***************************************************************************)
Steps == /\ On
         /\ UNCHANGED <<power, time, wakeAt, world, disturbances>>

LoopAt(label) == Steps /\ pc = label

ServiceNetworkTime ==
    /\ LoopAt("loop") /\ NeedsSlot
    /\ CaptureSlot
    /\ UNCHANGED <<pc, phase, sensor, stamp, upload>>

\* An update holds the device, without a sensor, until it restarts.
LoopHoldsForOta ==
    /\ LoopAt("loop") /\ ota /\ ~NeedsSlot
    /\ sensor' = FALSE /\ pc' = "return"
    /\ UNCHANGED <<schedule, phase, stamp, upload>>

\* With an acquisition running, run() is called for an existing connection only.
LoopMeasures ==
    /\ LoopAt("loop") /\ ~ota /\ ~NeedsSlot
    /\ \/ AcquisitionEnds /\ FinishMeasurement /\ UNCHANGED pc
       \/ /\ phase = "acquiring" /\ ~AcquisitionEnds /\ connected
          /\ pc' = "return"
          /\ UNCHANGED <<schedule, phase, sensor, stamp, upload>>
       \/ /\ phase = "recorded" /\ Held /\ Due
          /\ StartNormalMeasurementCycle
          /\ UNCHANGED <<pc, interval>>

\* The upload to MQTT may finish the work; the rest depends on the connection.
LoopConnects ==
    /\ LoopAt("loop") /\ ~ota /\ ~NeedsSlot
    /\ phase = "recorded" /\ ~(Held /\ Due) /\ deadline # "passed"
    /\ uploaded' \in {uploaded, TRUE}
    /\ pc' \in IF uploaded' THEN {"return"} ELSE {"return", "upload"}
    /\ deadline' = IF stayAwake THEN "off"
                   ELSE IF pc' = "upload" /\ ~connected THEN "armed" ELSE deadline
    /\ UNCHANGED <<schedule, phase, sensor, stamp>>

Sleeps(label) ==
    /\ On /\ pc = label
    /\ EnterTimedDeepSleep

\* The work is done, the deadline has passed, or Edgent is in MODE_ERROR.
LoopSleeps ==
    /\ phase = "recorded" /\ ~NeedsSlot
    /\ ~(Held /\ Due)
    /\ uploaded \/ deadline = "passed" \/ ~connected
    /\ Sleeps("loop")

\* Mutant: the upload does not look whether the cycle has a record.
UploadsWithoutRecord ==
    /\ LoopAt("upload") /\ (deadline # "passed" \/ ota)
    /\ pc' = "loop"
    /\ uploaded' \in IF connected THEN {uploaded, TRUE} ELSE {uploaded}
    /\ UNCHANGED <<schedule, phase, sensor, stamp, deadline>>

\* The end of loop(): serviceOfflineUpload(), which may now know the time, and
\* does nothing for a cycle without a record.  An update that was requested
\* inside of run() comes before the deadline.
LoopUploads ==
    /\ LoopAt("upload") /\ (deadline # "passed" \/ ota)
    /\ pc' = "loop"
    /\ IF connected /\ phase = "recorded" /\ ~uploaded /\ ~ota
       THEN /\ uploaded' \in BOOLEAN
            /\ stamp' = IF stamp = 0 THEN CurrentCycleTimestamp ELSE stamp
       ELSE UNCHANGED <<uploaded, stamp>>
    /\ UNCHANGED <<schedule, phase, sensor, deadline>>

LoopReturns ==
    /\ LoopAt("return")
    /\ pc' = "loop"
    /\ UNCHANGED <<schedule, phase, sensor, stamp, upload>>

LoopTimesOut == deadline = "passed" /\ Sleeps("upload")

-----------------------------------------------------------------------------
(***************************************************************************)
(* Inside BlynkEdgent.run()                                                *)
(***************************************************************************)
Inside == Steps /\ pc \in {"return", "upload"} /\ UNCHANGED pc

\* Mutant: a cycle that is due starts although the one before is not finished.
StartsWhenDue ==
    /\ Inside /\ Held /\ phase # "none"
    /\ ~AcquisitionEnds /\ Due
    /\ StartNormalMeasurementCycle /\ UNCHANGED interval

\* serviceContinuousMeasurements()
ServiceContinuousMeasurements ==
    /\ Inside /\ Held /\ phase # "none"
    /\ \/ AcquisitionEnds /\ FinishMeasurement
       \/ phase = "recorded" /\ NeedsSlot /\ CaptureSlot
          /\ UNCHANGED <<phase, sensor, stamp, upload>>
       \/ phase = "recorded" /\ Due /\ StartNormalMeasurementCycle /\ UNCHANGED interval

\* abortEdgentConnectionForThisCycle(), called by the timer of the deadline.
DeadlinePasses ==
    /\ Inside /\ deadline = "armed" /\ ~stayAwake /\ ~fallback /\ ~uploaded /\ ~ota
    /\ deadline' = "passed"
    /\ UNCHANGED <<schedule, phase, sensor, stamp, uploaded>>

\* BLYNK_WRITE(V9): the switch of the sensor
SwitchSensor ==
    /\ Inside /\ connected /\ phase = "recorded"
    /\ sensor' = ~sensor
    /\ UNCHANGED <<schedule, phase, stamp, upload>>

Command ==
    /\ On /\ pc \in {"return", "upload"} /\ connected
    /\ disturbances < MaxDisturbances /\ disturbances' = disturbances + 1
    /\ UNCHANGED <<power, pc, time, wakeAt, phase, sensor, stamp, fallback, connected>>

\* "measure interval", which ends with realignMeasurementSchedule().
MeasureInterval ==
    /\ Command
    /\ \E i \in Intervals \ {interval} : interval' = i /\ cycle' = Captured(cycle, i)
    /\ lastSlot' = IF cycle'.slotValid THEN cycle'.slot ELSE None
    /\ waitingSince' = real
    /\ UNCHANGED <<shifted, upload, stayAwake, ota>>

\* BLYNK_WRITE(V17)
SetDeepSleepDisabled ==
    /\ Command
    /\ stayAwake' = ~stayAwake
    /\ deadline' = IF stayAwake' THEN "off" ELSE deadline
    /\ waitingSince' = IF Held THEN waitingSince ELSE real
    /\ UNCHANGED <<interval, cycle, lastSlot, shifted, uploaded, ota>>

\* Edgent receives the URL of an update.
OtaRequested ==
    /\ Command /\ ota' = TRUE
    /\ UNCHANGED <<schedule, upload, stayAwake>>

-----------------------------------------------------------------------------
(***************************************************************************)
(* Around the loop task                                                    *)
(***************************************************************************)
\* What the 10 ms timer, or the loop itself, does before time passes.
ScheduleBusy ==
    /\ On
    /\ \/ AcquisitionEnds
       \/ ~ota /\ phase = "recorded" /\ Held /\ (Due \/ NeedsSlot)

Tick ==
    /\ real < MaxTime
    /\ power = "asleep" => real < wakeAt
    /\ ~ScheduleBusy
    /\ real' = real + 1
    /\ UNCHANGED <<power, pc, error, clockValid, wakeAt, schedule, phase, sensor, stamp, upload,
                   world, disturbances>>

\* SNTP sets the clock for the first time, or corrects it.
NtpSync ==
    /\ On
    /\ \E e \in Errors :
           /\ error' = e
           /\ IF clockValid
              THEN /\ e # error
                   /\ disturbances < MaxDisturbances /\ disturbances' = disturbances + 1
                   /\ shifted' = shifted + Distance(e, error)
                   /\ lastSlot' = IF e < error THEN None ELSE lastSlot
              ELSE UNCHANGED <<disturbances, shifted, lastSlot>>
    /\ clockValid' = TRUE
    /\ UNCHANGED <<power, pc, real, wakeAt, interval, cycle, waitingSince, phase, sensor, stamp,
                   upload, world>>

ConnectionChanges ==
    /\ On /\ pc # "loop"
    /\ connected' = ~connected
    /\ UNCHANGED <<power, pc, time, wakeAt, schedule, phase, sensor, stamp, upload, stayAwake,
                   fallback, ota, disturbances>>

\* The provisioning fallback opens, which ends the deadline, or ends.
FallbackChanges ==
    /\ On /\ pc # "loop" /\ ~connected /\ disturbances < MaxDisturbances
    /\ fallback' = ~fallback
    /\ deadline' = "off"
    /\ waitingSince' = IF Held THEN waitingSince ELSE real
    /\ disturbances' = disturbances + 1
    /\ UNCHANGED <<power, pc, time, wakeAt, interval, cycle, lastSlot, shifted, phase, sensor,
                   stamp, uploaded, stayAwake, connected, ota>>

\* A restart by an update keeps the clock; a power loss does not.
Restarts ==
    /\ On
    /\ \/ ota /\ pc # "loop" /\ UNCHANGED disturbances
       \/ disturbances < MaxDisturbances /\ disturbances' = disturbances + 1
    /\ clockValid' \in {clockValid, FALSE}
    /\ lastSlot' = None
    /\ Dies
    /\ UNCHANGED <<real, error>>

\* setup() of a device that has a configuration
Setup ==
    /\ power = "off" \/ (power = "asleep" /\ real = wakeAt)
    /\ power' = "on" /\ wakeAt' = 0
    /\ StartNormalMeasurementCycle
    /\ UNCHANGED <<pc, time, interval, world, disturbances>>

Init ==
    /\ power = "off" /\ pc = "loop" /\ wakeAt = 0
    /\ real \in Epochs /\ error = 0 /\ clockValid \in BOOLEAN
    /\ interval \in Intervals
    /\ cycle = NoCycle
    /\ phase = "none" /\ sensor = FALSE /\ stamp = 0
    /\ uploaded = FALSE /\ deadline = "off"
    /\ stayAwake \in BOOLEAN /\ fallback = FALSE /\ connected = FALSE /\ ota = FALSE
    /\ lastSlot = None /\ waitingSince = 0 /\ shifted = 0 /\ disturbances = 0

Next ==
    \/ ServiceNetworkTime \/ LoopHoldsForOta \/ LoopMeasures \/ LoopConnects
    \/ LoopSleeps \/ LoopUploads \/ LoopReturns \/ LoopTimesOut
    \/ ServiceContinuousMeasurements \/ DeadlinePasses \/ SwitchSensor
    \/ MeasureInterval \/ SetDeepSleepDisabled \/ OtaRequested
    \/ Tick \/ NtpSync \/ ConnectionChanges \/ FallbackChanges \/ Restarts \/ Setup

Spec == Init /\ [][Next]_vars

-----------------------------------------------------------------------------
TypeOK ==
    /\ power \in {"on", "asleep", "off"} /\ pc \in {"loop", "return", "upload"}
    /\ real \in Nat /\ error \in Int /\ clockValid \in BOOLEAN /\ wakeAt \in Nat
    /\ power = "asleep" => wakeAt >= real
    /\ interval \in Intervals
    /\ cycle \in [startedAt : Nat, slotValid : BOOLEAN, slot : Int, startedWithTime : BOOLEAN]
    /\ phase \in {"none", "acquiring", "recorded"} /\ sensor \in BOOLEAN /\ stamp \in Int
    /\ uploaded \in BOOLEAN /\ deadline \in {"off", "armed", "passed"}
    /\ stayAwake \in BOOLEAN /\ fallback \in BOOLEAN /\ connected \in BOOLEAN /\ ota \in BOOLEAN
    /\ lastSlot \in Int /\ waitingSince \in Nat /\ shifted \in Nat
    /\ disturbances \in 0 .. MaxDisturbances

\* Whatever starts the cycles (the timer's wake-up, the loop, the timer inside run()),
\* no slot is measured twice, unless the device was restarted or the clock set back in
\* between; a new interval begins with its next slot.
NoSlotTwice ==
    [][phase # "acquiring" /\ phase' = "acquiring" /\ lastSlot # None /\ lastSlot' # None
         => lastSlot' > lastSlot]_vars

\* A device that is held awake measures again within an interval: the schedule is
\* never aligned past the next slot, and a clock that is set back only delays it by
\* as much as it was set back.
AwakeMeasuresAgain ==
    On /\ Held /\ ~ota /\ phase = "recorded" => real - waitingSince <= interval + shifted

\* No sleep, no new cycle and no switch cuts an acquisition short: it ends with a
\* record or a restart, and its sensor is powered unless an update takes over.
AcquisitionCompletes ==
    [][phase = "acquiring" /\ power' # "off"
         => \/ /\ phase' = "acquiring" /\ cycle'.startedAt = cycle.startedAt
               /\ sensor' \/ ota
            \/ phase' = "recorded"]_vars

\* No record is published while a cycle acquires, also not by the end of a pass of
\* loop() in which the timer has started that cycle.
NoUploadWhileAcquiring == [][~uploaded /\ uploaded' => phase = "recorded"]_vars

\* A record that has a time, given at once or when the clock is synchronised later,
\* is dated to its acquisition or to the slot in which it began.
DatedWhenMeasured ==
    [][LET start == cycle.startedAt + error
       IN  stamp = 0 /\ stamp' # 0 => stamp' \in start - interval - shifted + 1
                                              .. start + Acquisition + shifted]_vars

\* By its own clock the device wakes at the first boundary of a slot that is not less
\* than GUARD away; without a clock, one interval after the start of its cycle.
WakesAtNextSlot ==
    [][power = "on" /\ power' = "asleep"
         => LET wall == wakeAt' + error'
            IN  IF clockValid
                THEN /\ wall % interval = 0 /\ wall - Wall >= GUARD
                     /\ wall - Wall < interval + GUARD
                ELSE wall \in {cycle.startedAt + error + interval, Wall + MINIMUM_SLEEP}]_vars
=============================================================================
