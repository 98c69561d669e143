------------------------- MODULE MeasurementCycleProofs -------------------------
(***************************************************************************)
(* What holds of the schedule for all intervals, clocks and drifts: an     *)
(* acquisition that has begun is not cut short, and nothing is published   *)
(* while it lasts; the device wakes at the next slot, measures no slot     *)
(* twice, measures again while it is held awake, and dates its records.    *)
(*                                                                         *)
(* Sleeps, switches and uploads look at other variables (the deadline of   *)
(* the connection, the mode, the label of loop()); CycleInv is what ties   *)
(* these to the phase of the cycle.  The other invariants relate the       *)
(* schedule to the clock: SlotInv, AwakeInv, ClockInv and DateInv.         *)
(***************************************************************************)
EXTENDS MeasurementCycle, TLAPS

CycleInv ==
    /\ cycle = [startedAt |-> cycle.startedAt, slotValid |-> cycle.slotValid,
                slot |-> cycle.slot, startedWithTime |-> cycle.startedWithTime]
    /\ power # "on" => phase = "none"
    /\ phase = "acquiring" => sensor \/ ota
    /\ deadline # "off" => phase = "recorded"

\* The record c has the fields of a cycle.
Started(c) == [startedAt |-> c.startedAt, slotValid |-> c.slotValid, slot |-> c.slot,
               startedWithTime |-> c.startedWithTime]

\* Capturing a slot leaves the start of the cycle.
LEMMA CapturedKeepsStart ==
    ASSUME NEW c, c = Started(c), NEW i
    PROVE  Captured(c, i) = Started(Captured(c, i)) /\ Captured(c, i).startedAt = c.startedAt
<1> DEFINE slot == IF clockValid THEN Slot(Wall, i) ELSE c.slot
           valid == clockValid
<1>1. Captured(c, i) = [[c EXCEPT !.slotValid = valid] EXCEPT !.slot = slot]
  BY DEF Captured
<1> HIDE DEF slot, valid
<1>2. PICK e : e = [c EXCEPT !.slotValid = valid]
  OBVIOUS
<1>3. PICK d : d = [e EXCEPT !.slot = slot]
  OBVIOUS
<1>4. e = Started(e) /\ e.startedAt = c.startedAt
  BY <1>2 DEF Started
<1>5. d = Started(d) /\ d.startedAt = c.startedAt
  BY <1>3, <1>4 DEF Started
<1>6. Captured(c, i) = d
  BY <1>1, <1>2, <1>3
<1> QED BY <1>5, <1>6

\* The record of a cycle keeps its fields when the cycle starts.
LEMMA StartKeepsShape ==
    ASSUME cycle = Started(cycle), StartNormalMeasurementCycle
    PROVE  cycle' = Started(cycle')
<1>1. [cycle EXCEPT !.startedAt = real] = Started([cycle EXCEPT !.startedAt = real])
  BY DEF Started
<1>2. PICK c : c = Captured([cycle EXCEPT !.startedAt = real], interval) /\ c = Started(c)
  BY <1>1, CapturedKeepsStart
<1>3. cycle' = [c EXCEPT !.startedWithTime = c.slotValid]
  BY <1>2 DEF StartNormalMeasurementCycle
<1> QED BY <1>2, <1>3 DEF Started

-----------------------------------------------------------------------------
(***************************************************************************)
(* A device that is not on has no cycle, one that acquires has a powered   *)
(* sensor unless an update runs, and only a cycle with a record waits for  *)
(* the deadline of the connection.                                         *)
(***************************************************************************)
THEOREM CycleInvariant == Spec => []CycleInv
<1>1. Init => CycleInv
  BY DEF Init, CycleInv, NoCycle
<1>2. CycleInv /\ [Next]_vars => CycleInv'
  <2> SUFFICES ASSUME CycleInv, [Next]_vars PROVE CycleInv'
    OBVIOUS
  <2>0. cycle = Started(cycle)
    BY DEF CycleInv, Started
  <2> USE DEF LoopAt, Steps, On, upload, world, schedule
  <2>1. CASE ServiceNetworkTime
    <3>1. cycle' = Started(cycle')
      BY <2>0, <2>1, CapturedKeepsStart DEF ServiceNetworkTime, CaptureSlot
    <3> QED BY <2>1, <3>1 DEF ServiceNetworkTime, CycleInv, Started
  <2>2. CASE LoopHoldsForOta
    BY <2>2 DEF LoopHoldsForOta, CycleInv
  <2>3. CASE LoopMeasures
    <3>1. CASE AcquisitionEnds /\ FinishMeasurement
      BY <2>3, <3>1 DEF LoopMeasures, FinishMeasurement, CycleInv
    <3>2. CASE pc' = "return" /\ UNCHANGED <<schedule, phase, sensor, stamp, upload>>
      BY <2>3, <3>2 DEF LoopMeasures, CycleInv
    <3>3. CASE StartNormalMeasurementCycle
      <4>1. cycle' = Started(cycle')
        BY <2>0, <3>3, StartKeepsShape
      <4> QED BY <2>3, <3>3, <4>1 DEF LoopMeasures, StartNormalMeasurementCycle, CycleInv, Started
    <3> QED BY <2>3, <3>1, <3>2, <3>3 DEF LoopMeasures
  <2>4. CASE LoopConnects
    BY <2>4 DEF LoopConnects, CycleInv
  <2>5. CASE LoopSleeps \/ LoopTimesOut
    <3>1. EnterTimedDeepSleep
      BY <2>5 DEF LoopSleeps, LoopTimesOut, Sleeps
    <3> QED BY <3>1 DEF EnterTimedDeepSleep, CycleInv, NoCycle
  <2>6. CASE LoopUploads
    BY <2>6 DEF LoopUploads, CycleInv
  <2>7. CASE LoopReturns
    BY <2>7 DEF LoopReturns, CycleInv
  <2>8. CASE ServiceContinuousMeasurements
    <3>1. CASE AcquisitionEnds /\ FinishMeasurement
      BY <2>8, <3>1 DEF ServiceContinuousMeasurements, Inside, FinishMeasurement, CycleInv
    <3>2. CASE CaptureSlot /\ UNCHANGED <<phase, sensor, stamp, upload>>
      <4>1. cycle' = Started(cycle')
        BY <2>0, <3>2, CapturedKeepsStart DEF CaptureSlot
      <4> QED BY <2>8, <3>2, <4>1 DEF ServiceContinuousMeasurements, Inside, CycleInv, Started
    <3>3. CASE StartNormalMeasurementCycle
      <4>1. cycle' = Started(cycle')
        BY <2>0, <3>3, StartKeepsShape
      <4> QED BY <2>8, <3>3, <4>1
              DEF ServiceContinuousMeasurements, Inside, StartNormalMeasurementCycle, CycleInv,
                  Started
    <3> QED BY <2>8, <3>1, <3>2, <3>3 DEF ServiceContinuousMeasurements
  <2>9. CASE DeadlinePasses
    BY <2>9 DEF DeadlinePasses, Inside, CycleInv
  <2>10. CASE SwitchSensor
    BY <2>10 DEF SwitchSensor, Inside, CycleInv
  <2>11. CASE MeasureInterval
    <3>1. cycle' = Started(cycle')
      BY <2>0, <2>11, CapturedKeepsStart DEF MeasureInterval
    <3> QED BY <2>11, <3>1 DEF MeasureInterval, Command, CycleInv, Started
  <2>12. CASE SetDeepSleepDisabled
    BY <2>12 DEF SetDeepSleepDisabled, Command, CycleInv
  <2>13. CASE OtaRequested
    BY <2>13 DEF OtaRequested, Command, CycleInv
  <2>14. CASE Tick
    BY <2>14 DEF Tick, CycleInv
  <2>15. CASE NtpSync
    BY <2>15 DEF NtpSync, CycleInv
  <2>16. CASE ConnectionChanges
    BY <2>16 DEF ConnectionChanges, CycleInv
  <2>17. CASE FallbackChanges
    BY <2>17 DEF FallbackChanges, CycleInv
  <2>18. CASE Restarts
    BY <2>18 DEF Restarts, Dies, CycleInv, NoCycle
  <2>19. CASE Setup
    <3>1. cycle' = Started(cycle')
      BY <2>0, <2>19, StartKeepsShape DEF Setup
    <3> QED BY <2>19, <3>1 DEF Setup, StartNormalMeasurementCycle, CycleInv, Started
  <2>20. CASE UNCHANGED vars
    BY <2>20 DEF vars, CycleInv
  <2> QED BY <2>1, <2>2, <2>3, <2>4, <2>5, <2>6, <2>7, <2>8, <2>9, <2>10, <2>11, <2>12, <2>13,
             <2>14, <2>15, <2>16, <2>17, <2>18, <2>19, <2>20 DEF Next
<1> QED BY <1>1, <1>2, PTL DEF Spec

-----------------------------------------------------------------------------
(***************************************************************************)
(* No sleep, no new cycle and no switch cuts an acquisition short.         *)
(***************************************************************************)
THEOREM AcquisitionIsCompleted == Spec => AcquisitionCompletes
<1>1. CycleInv /\ [Next]_vars
        => [phase = "acquiring" /\ power' # "off"
              => \/ /\ phase' = "acquiring" /\ cycle'.startedAt = cycle.startedAt
                    /\ sensor' \/ ota
                 \/ phase' = "recorded"]_vars
  <2> SUFFICES ASSUME CycleInv, [Next]_vars, phase = "acquiring", power' # "off"
               PROVE  \/ /\ phase' = "acquiring" /\ cycle'.startedAt = cycle.startedAt
                         /\ sensor' \/ ota
                      \/ phase' = "recorded"
    OBVIOUS
  <2>0. cycle = Started(cycle) /\ power = "on" /\ (sensor \/ ota) /\ deadline = "off"
    BY DEF CycleInv, Started
  <2> USE DEF LoopAt, Steps, On, upload, world, schedule
  <2>1. CASE ServiceNetworkTime
    <3>1. cycle'.startedAt = cycle.startedAt
      BY <2>0, <2>1, CapturedKeepsStart DEF ServiceNetworkTime, CaptureSlot
    <3> QED BY <2>0, <2>1, <3>1 DEF ServiceNetworkTime
  <2>2. CASE LoopHoldsForOta
    BY <2>0, <2>2 DEF LoopHoldsForOta
  <2>3. CASE LoopMeasures
    BY <2>0, <2>3 DEF LoopMeasures, FinishMeasurement
  <2>4. CASE LoopConnects \/ LoopSleeps \/ LoopTimesOut
    BY <2>0, <2>4 DEF LoopConnects, LoopSleeps, LoopTimesOut
  <2>5. CASE LoopUploads \/ LoopReturns
    BY <2>0, <2>5 DEF LoopUploads, LoopReturns
  <2>6. CASE ServiceContinuousMeasurements
    BY <2>0, <2>6 DEF ServiceContinuousMeasurements, Inside, FinishMeasurement
  <2>7. CASE DeadlinePasses \/ SwitchSensor
    BY <2>0, <2>7 DEF DeadlinePasses, SwitchSensor, Inside
  <2>8. CASE MeasureInterval
    <3>1. cycle'.startedAt = cycle.startedAt
      BY <2>0, <2>8, CapturedKeepsStart DEF MeasureInterval
    <3> QED BY <2>0, <2>8, <3>1 DEF MeasureInterval, Command
  <2>9. CASE SetDeepSleepDisabled \/ OtaRequested
    BY <2>0, <2>9 DEF SetDeepSleepDisabled, OtaRequested, Command
  <2>10. CASE Tick \/ NtpSync \/ ConnectionChanges \/ FallbackChanges
    BY <2>0, <2>10 DEF Tick, NtpSync, ConnectionChanges, FallbackChanges
  <2>11. CASE Restarts
    BY <2>11 DEF Restarts, Dies
  <2>12. CASE Setup
    BY <2>0, <2>12 DEF Setup
  <2>13. CASE UNCHANGED vars
    BY <2>0, <2>13 DEF vars
  <2> QED BY <2>1, <2>2, <2>3, <2>4, <2>5, <2>6, <2>7, <2>8, <2>9, <2>10, <2>11, <2>12, <2>13
          DEF Next
<1> QED BY <1>1, CycleInvariant, PTL DEF Spec, AcquisitionCompletes

(***************************************************************************)
(* No record is published while a cycle acquires.                          *)
(***************************************************************************)
THEOREM NothingUploadedWhileAcquiring == Spec => NoUploadWhileAcquiring
<1>1. [Next]_vars => [~uploaded /\ uploaded' => phase = "recorded"]_vars
  <2> SUFFICES ASSUME [Next]_vars, ~uploaded, uploaded' PROVE phase = "recorded"
    OBVIOUS
  <2> USE DEF LoopAt, Steps, upload
  <2>1. CASE ServiceNetworkTime \/ LoopHoldsForOta \/ LoopReturns
    BY <2>1 DEF ServiceNetworkTime, LoopHoldsForOta, LoopReturns
  <2>2. CASE LoopMeasures
    BY <2>2 DEF LoopMeasures, FinishMeasurement, StartNormalMeasurementCycle
  <2>3. CASE LoopConnects
    BY <2>3 DEF LoopConnects
  <2>4. CASE LoopSleeps \/ LoopTimesOut
    BY <2>4 DEF LoopSleeps, LoopTimesOut, Sleeps, EnterTimedDeepSleep
  <2>5. CASE LoopUploads
    BY <2>5 DEF LoopUploads
  <2>6. CASE ServiceContinuousMeasurements
    BY <2>6 DEF ServiceContinuousMeasurements, FinishMeasurement, StartNormalMeasurementCycle
  <2>7. CASE DeadlinePasses \/ SwitchSensor
    BY <2>7 DEF DeadlinePasses, SwitchSensor
  <2>8. CASE MeasureInterval \/ SetDeepSleepDisabled \/ OtaRequested
    BY <2>8 DEF MeasureInterval, SetDeepSleepDisabled, OtaRequested
  <2>9. CASE Tick \/ NtpSync \/ ConnectionChanges \/ FallbackChanges
    BY <2>9 DEF Tick, NtpSync, ConnectionChanges, FallbackChanges
  <2>10. CASE Restarts \/ Setup
    BY <2>10 DEF Restarts, Dies, Setup, StartNormalMeasurementCycle
  <2>11. CASE UNCHANGED vars
    BY <2>11 DEF vars
  <2> QED BY <2>1, <2>2, <2>3, <2>4, <2>5, <2>6, <2>7, <2>8, <2>9, <2>10, <2>11 DEF Next
<1> QED BY <1>1, PTL DEF Spec, NoUploadWhileAcquiring

-----------------------------------------------------------------------------
(***************************************************************************)
(* Slots of the wall clock                                                 *)
(***************************************************************************)
\* A time is the start of its slot and what has passed of it.
LEMMA SlotOfTime ==
    ASSUME NEW i \in Nat \ {0}, NEW w \in Int
    PROVE  w \div i \in Int /\ w % i \in 0 .. i - 1 /\ w = i * (w \div i) + (w % i)
  OBVIOUS

\* The start of a slot is in that slot, with nothing passed of it.
LEMMA SlotOfBoundary ==
    ASSUME NEW i \in Nat \ {0}, NEW k \in Int
    PROVE  (i * k) % i = 0 /\ (i * k) \div i = k
  OBVIOUS

\* Slots do not run backwards.
LEMMA LaterTimeLaterSlot ==
    ASSUME NEW i \in Nat \ {0}, NEW v \in Int, NEW w \in Int, v <= w
    PROVE  v \div i <= w \div i
  OBVIOUS

\* calculateAbsoluteSleep() leads to the start of a later slot, GUARD away or more.
LEMMA SleepEndsAtBoundary ==
    ASSUME NEW i \in Nat \ {0}, NEW w \in Int, GUARD < i
    PROVE  /\ AbsoluteSleep(w, i) \in Nat
           /\ (w + AbsoluteSleep(w, i)) % i = 0
           /\ (w + AbsoluteSleep(w, i)) \div i > w \div i
           /\ AbsoluteSleep(w, i) >= GUARD /\ AbsoluteSleep(w, i) < i + GUARD
<1> GUARD \in Nat \ {0}
  BY CycleAssumption
<1>1. PICK q \in Int, r \in 0 .. i - 1 : q = w \div i /\ r = w % i /\ w = i * q + r
  BY SlotOfTime
<1>2. CASE i - r < GUARD
  <2>1. AbsoluteSleep(w, i) = i - r + i
    BY <1>1, <1>2 DEF AbsoluteSleep
  <2>2. w + AbsoluteSleep(w, i) = i * (q + 2)
    BY <1>1, <2>1
  <2>3. (i * (q + 2)) % i = 0 /\ (i * (q + 2)) \div i = q + 2
    BY SlotOfBoundary
  <2>4. AbsoluteSleep(w, i) \in Nat /\ AbsoluteSleep(w, i) >= GUARD
            /\ AbsoluteSleep(w, i) < i + GUARD
    BY <1>1, <1>2, <2>1
  <2> QED BY <1>1, <2>2, <2>3, <2>4
<1>3. CASE ~(i - r < GUARD)
  <2>1. AbsoluteSleep(w, i) = i - r
    BY <1>1, <1>3 DEF AbsoluteSleep
  <2>2. w + AbsoluteSleep(w, i) = i * (q + 1)
    BY <1>1, <2>1
  <2>3. (i * (q + 1)) % i = 0 /\ (i * (q + 1)) \div i = q + 1
    BY SlotOfBoundary
  <2>4. AbsoluteSleep(w, i) \in Nat /\ AbsoluteSleep(w, i) >= GUARD
            /\ AbsoluteSleep(w, i) < i + GUARD
    BY <1>1, <1>3, <2>1
  <2> QED BY <1>1, <2>2, <2>3, <2>4
<1> QED BY <1>2, <1>3

-----------------------------------------------------------------------------
(***************************************************************************)
(* Types                                                                   *)
(***************************************************************************)
CycleRecord == [startedAt : Nat, slotValid : BOOLEAN, slot : Int, startedWithTime : BOOLEAN]

Switches == /\ clockValid \in BOOLEAN /\ sensor \in BOOLEAN /\ uploaded \in BOOLEAN
            /\ stayAwake \in BOOLEAN /\ fallback \in BOOLEAN /\ connected \in BOOLEAN
            /\ ota \in BOOLEAN

\* The slot of a cycle, captured for the interval i, is that of the clock if it is valid.
LEMMA CapturedSlot ==
    ASSUME TypeOK, NEW c \in CycleRecord, NEW i \in Nat \ {0}
    PROVE  /\ Captured(c, i) \in CycleRecord
           /\ Captured(c, i).slotValid = clockValid
           /\ clockValid => Captured(c, i).slot = Slot(Wall, i)
           /\ Captured(c, i).startedAt = c.startedAt
           /\ Captured(c, i).startedWithTime = c.startedWithTime
<1> DEFINE slot == IF clockValid THEN Slot(Wall, i) ELSE c.slot
           valid == clockValid
<1>1. Captured(c, i) = [[c EXCEPT !.slotValid = valid] EXCEPT !.slot = slot]
  BY DEF Captured
<1>2. slot \in Int /\ valid \in BOOLEAN
  <2>1. Wall \in Int
    BY DEF TypeOK, Wall
  <2>2. Slot(Wall, i) \in Int
    BY <2>1, SlotOfTime DEF Slot
  <2> QED BY <2>2 DEF TypeOK, CycleRecord
<1> HIDE DEF slot, valid
<1>3. /\ Captured(c, i) \in CycleRecord
      /\ Captured(c, i).slotValid = valid /\ Captured(c, i).slot = slot
      /\ Captured(c, i).startedAt = c.startedAt
      /\ Captured(c, i).startedWithTime = c.startedWithTime
  BY <1>1, <1>2 DEF CycleRecord
<1> QED BY <1>3 DEF slot, valid

\* What a cycle is when it has just started.
LEMMA StartedCycle ==
    ASSUME TypeOK, StartNormalMeasurementCycle
    PROVE  /\ cycle' \in CycleRecord
           /\ cycle'.startedAt = real
           /\ cycle'.slotValid = clockValid /\ cycle'.startedWithTime = clockValid
           /\ clockValid => cycle'.slot = Slot(Wall, interval) /\ lastSlot' = Slot(Wall, interval)
           /\ ~clockValid => lastSlot' = None
           /\ lastSlot' \in Int
<1> DEFINE begun == [cycle EXCEPT !.startedAt = real]
<1>1. begun \in CycleRecord /\ begun.startedAt = real
  BY DEF TypeOK, CycleRecord
<1>2. interval \in Nat \ {0}
  BY CycleAssumption DEF TypeOK
<1> HIDE DEF begun
<1>3. PICK c \in CycleRecord : /\ c = Captured(begun, interval)
                               /\ c.startedAt = real /\ c.slotValid = clockValid
                               /\ clockValid => c.slot = Slot(Wall, interval)
  BY <1>1, <1>2, CapturedSlot
<1>4. /\ cycle' = [c EXCEPT !.startedWithTime = c.slotValid]
      /\ lastSlot' = IF c.slotValid THEN c.slot ELSE None
  BY <1>3 DEF StartNormalMeasurementCycle, begun
<1>5. /\ cycle' \in CycleRecord
      /\ cycle'.startedAt = c.startedAt /\ cycle'.startedWithTime = c.slotValid
      /\ cycle'.slotValid = c.slotValid /\ cycle'.slot = c.slot
  BY <1>3, <1>4 DEF CycleRecord
<1>6. c.slot \in Int /\ clockValid \in BOOLEAN
  BY DEF CycleRecord, TypeOK
<1> QED BY <1>3, <1>4, <1>5, <1>6 DEF None

\* The types after a cycle has started, for the variables that the start assigns.
LEMMA StartKeepsTypes ==
    ASSUME TypeOK, StartNormalMeasurementCycle, interval' = interval
    PROVE  /\ interval' \in Intervals /\ cycle' \in CycleRecord
           /\ phase' = "acquiring" /\ sensor' \in BOOLEAN /\ stamp' \in Int
           /\ uploaded' \in BOOLEAN /\ deadline' = "off"
           /\ lastSlot' \in Int /\ waitingSince' \in Nat /\ shifted' \in Nat
<1>1. cycle' \in CycleRecord /\ lastSlot' \in Int
  BY StartedCycle
<1>2. real \in Nat /\ interval \in Intervals
  BY DEF TypeOK
<1>3. /\ phase' = "acquiring" /\ sensor' = TRUE /\ stamp' = 0
      /\ uploaded' = FALSE /\ deadline' = "off" /\ waitingSince' = real /\ shifted' = 0
  BY DEF StartNormalMeasurementCycle
<1>4. sensor' \in BOOLEAN /\ uploaded' \in BOOLEAN
  BY <1>3
<1> QED BY <1>1, <1>2, <1>3, <1>4

\* A record is stamped with an integer.
LEMMA StampType == TypeOK => CurrentCycleTimestamp \in Int
<1> SUFFICES ASSUME TypeOK PROVE CurrentCycleTimestamp \in Int
  OBVIOUS
<1>1. interval \in Nat /\ cycle.slot \in Int /\ cycle.startedAt \in Nat /\ Wall \in Int
      /\ real \in Nat
  BY CycleAssumption DEF TypeOK, Wall
<1>2. cycle.slot * interval \in Int /\ Wall - (real - cycle.startedAt) \in Int
  BY <1>1
<1> QED BY <1>2 DEF CurrentCycleTimestamp

\* A sleep has a length.
LEMMA SleepType == TypeOK => SleepDuration \in Nat
<1> SUFFICES ASSUME TypeOK PROVE SleepDuration \in Nat
  OBVIOUS
<1>1. interval \in Nat \ {0} /\ GUARD < interval /\ cycle.startedAt \in Nat /\ Wall \in Int
      /\ real \in Nat /\ MINIMUM_SLEEP \in Nat
  BY CycleAssumption DEF TypeOK, Wall
<1>2. AbsoluteSleep(Wall, interval) \in Nat
  BY <1>1, SleepEndsAtBoundary
<1>3. RelativeSleep(real - cycle.startedAt, interval) \in Nat
  <2>1. PICK a \in Int : a = real - cycle.startedAt
    BY <1>1
  <2>2. RelativeSleep(a, interval) \in Nat
    BY <1>1 DEF RelativeSleep
  <2> QED BY <2>1, <2>2
<1> QED BY <1>2, <1>3 DEF SleepDuration

(***************************************************************************)
(* The variables have their types; in particular a sleep never ends before *)
(* it begins, whatever its timer drifts.                                   *)
(***************************************************************************)
THEOREM TypeCorrect == Spec => []TypeOK
<1>1. Init => TypeOK
  <2> SUFFICES ASSUME Init PROVE TypeOK
    OBVIOUS
  <2>1. Switches
    BY DEF Init, Switches
  <2>2. NoCycle \in CycleRecord /\ cycle = NoCycle
    BY DEF Init, NoCycle, CycleRecord
  <2>3. /\ power \in {"on", "asleep", "off"} /\ pc \in {"loop", "return", "upload"}
        /\ real \in Nat /\ error \in Int /\ wakeAt \in Nat /\ power # "asleep"
        /\ interval \in Intervals /\ phase \in {"none", "acquiring", "recorded"}
        /\ stamp \in Int /\ deadline \in {"off", "armed", "passed"}
        /\ lastSlot \in Int /\ waitingSince \in Nat /\ shifted \in Nat
        /\ disturbances \in 0 .. MaxDisturbances
    BY CycleAssumption DEF Init, None
  <2> QED BY <2>1, <2>2, <2>3 DEF TypeOK, Switches, CycleRecord
<1>2. TypeOK /\ [Next]_vars => TypeOK'
  <2> SUFFICES ASSUME TypeOK, [Next]_vars PROVE TypeOK'
    OBVIOUS
  <2>0. interval \in Nat \ {0} /\ cycle \in CycleRecord
    BY CycleAssumption DEF TypeOK, CycleRecord
  <2> USE DEF LoopAt, Steps, On, upload, world, schedule, time
  <2>1. CASE ServiceNetworkTime
    <3>1. cycle' \in CycleRecord /\ lastSlot' \in Int
      BY <2>0, <2>1, CapturedSlot DEF ServiceNetworkTime, CaptureSlot, CycleRecord
    <3> QED BY <2>1, <3>1 DEF ServiceNetworkTime, CaptureSlot, TypeOK, CycleRecord
  <2>2. CASE LoopHoldsForOta
    BY <2>2 DEF LoopHoldsForOta, TypeOK
  <2>3. CASE LoopMeasures
    <3>1. CASE AcquisitionEnds /\ FinishMeasurement
      BY <2>3, <3>1, StampType DEF LoopMeasures, FinishMeasurement, TypeOK
    <3>2. CASE pc' = "return" /\ UNCHANGED <<schedule, phase, sensor, stamp, upload>>
      BY <2>3, <3>2 DEF LoopMeasures, TypeOK
    <3>3. CASE StartNormalMeasurementCycle /\ UNCHANGED <<pc, interval>>
      BY <2>3, <3>3, StartKeepsTypes DEF LoopMeasures, TypeOK, CycleRecord
    <3> QED BY <2>3, <3>1, <3>2, <3>3 DEF LoopMeasures
  <2>4. CASE LoopConnects
    BY <2>4 DEF LoopConnects, TypeOK
  <2>5. CASE LoopSleeps \/ LoopTimesOut
    <3>1. EnterTimedDeepSleep
      BY <2>5 DEF LoopSleeps, LoopTimesOut, Sleeps
    <3>2. PICK drift \in Drifts : /\ drift < 0 => -drift <= SleepDuration
                                  /\ wakeAt' = real + SleepDuration + drift
                                  /\ error' = error - drift
      BY <3>1 DEF EnterTimedDeepSleep
    <3>3. SleepDuration \in Nat /\ drift \in Int /\ real \in Nat /\ error \in Int
      BY SleepType, CycleAssumption DEF TypeOK
    <3>4. wakeAt' \in Nat /\ wakeAt' >= real /\ error' \in Int
      BY <3>2, <3>3
    <3>5. NoCycle \in CycleRecord
      BY DEF NoCycle, CycleRecord
    <3>6. Switches' /\ interval' \in Intervals /\ lastSlot' \in Int
          /\ disturbances' \in 0 .. MaxDisturbances
      BY <3>1 DEF EnterTimedDeepSleep, TypeOK, Switches
    <3> QED BY <3>1, <3>3, <3>4, <3>5, <3>6 DEF EnterTimedDeepSleep, TypeOK, CycleRecord, Switches
  <2>6. CASE LoopUploads
    BY <2>6, StampType DEF LoopUploads, TypeOK
  <2>7. CASE LoopReturns
    BY <2>7 DEF LoopReturns, TypeOK
  <2>8. CASE ServiceContinuousMeasurements
    <3> USE DEF Inside
    <3>1. CASE AcquisitionEnds /\ FinishMeasurement
      BY <2>8, <3>1, StampType DEF ServiceContinuousMeasurements, FinishMeasurement, TypeOK
    <3>2. CASE CaptureSlot /\ UNCHANGED <<phase, sensor, stamp, upload>>
      <4>1. cycle' \in CycleRecord /\ lastSlot' \in Int
        BY <2>0, <3>2, CapturedSlot DEF CaptureSlot, CycleRecord
      <4> QED BY <2>8, <3>2, <4>1
              DEF ServiceContinuousMeasurements, CaptureSlot, TypeOK, CycleRecord
    <3>3. CASE StartNormalMeasurementCycle /\ UNCHANGED interval
      BY <2>8, <3>3, StartKeepsTypes DEF ServiceContinuousMeasurements, TypeOK, CycleRecord
    <3> QED BY <2>8, <3>1, <3>2, <3>3 DEF ServiceContinuousMeasurements
  <2>9. CASE DeadlinePasses
    BY <2>9 DEF DeadlinePasses, Inside, TypeOK
  <2>10. CASE SwitchSensor
    BY <2>10 DEF SwitchSensor, Inside, TypeOK
  <2>11. CASE MeasureInterval
    <3>1. PICK i \in Intervals : interval' = i /\ cycle' = Captured(cycle, i)
      BY <2>11 DEF MeasureInterval
    <3>2. cycle' \in CycleRecord /\ lastSlot' \in Int
      BY <2>0, <2>11, <3>1, CapturedSlot, CycleAssumption DEF MeasureInterval, CycleRecord, None
    <3> QED BY <2>11, <3>1, <3>2, CycleAssumption
            DEF MeasureInterval, Command, TypeOK, CycleRecord
  <2>12. CASE SetDeepSleepDisabled
    BY <2>12, CycleAssumption DEF SetDeepSleepDisabled, Command, TypeOK
  <2>13. CASE OtaRequested
    BY <2>13, CycleAssumption DEF OtaRequested, Command, TypeOK
  <2>14. CASE Tick
    BY <2>14 DEF Tick, TypeOK
  <2>15. CASE NtpSync
    BY <2>15, CycleAssumption DEF NtpSync, TypeOK, Distance, None
  <2>16. CASE ConnectionChanges
    BY <2>16 DEF ConnectionChanges, TypeOK
  <2>17. CASE FallbackChanges
    BY <2>17, CycleAssumption DEF FallbackChanges, TypeOK
  <2>18. CASE Restarts
    <3>1. NoCycle \in CycleRecord /\ None \in Int
      BY DEF NoCycle, CycleRecord, None
    <3>2. Switches'
      BY <2>18 DEF Restarts, Dies, TypeOK, Switches
    <3>3. disturbances' \in 0 .. MaxDisturbances
      BY <2>18, CycleAssumption DEF Restarts, TypeOK
    <3> QED BY <2>18, <3>1, <3>2, <3>3 DEF Restarts, Dies, TypeOK, CycleRecord, Switches
  <2>19. CASE Setup
    <3>1. UNCHANGED <<pc, time, interval, world, disturbances>>
      BY <2>19 DEF Setup
    <3>2. StartNormalMeasurementCycle /\ power' = "on" /\ wakeAt' = 0
      BY <2>19 DEF Setup
    <3> QED BY <3>1, <3>2, StartKeepsTypes DEF TypeOK, CycleRecord
  <2>20. CASE UNCHANGED vars
    BY <2>20 DEF vars, TypeOK
  <2> QED BY <2>1, <2>2, <2>3, <2>4, <2>5, <2>6, <2>7, <2>8, <2>9, <2>10, <2>11, <2>12, <2>13,
             <2>14, <2>15, <2>16, <2>17, <2>18, <2>19, <2>20 DEF Next
<1> QED BY <1>1, <1>2, PTL DEF Spec

-----------------------------------------------------------------------------
(***************************************************************************)
(* By its own clock the device wakes at the first boundary of a slot that  *)
(* is at least GUARD away, whatever the interval, the time and the drift.  *)
(***************************************************************************)
THEOREM AlwaysWakesAtNextSlot == Spec => WakesAtNextSlot
<1> DEFINE Wakes == LET wall == wakeAt' + error'
                    IN  IF clockValid
                        THEN /\ wall % interval = 0 /\ wall - Wall >= GUARD
                             /\ wall - Wall < interval + GUARD
                        ELSE wall \in {cycle.startedAt + error + interval,
                                       Wall + MINIMUM_SLEEP}
<1>1. ASSUME TypeOK, EnterTimedDeepSleep PROVE Wakes
  <2>1. PICK drift \in Drifts : /\ wakeAt' = real + SleepDuration + drift
                                /\ error' = error - drift
    BY <1>1 DEF EnterTimedDeepSleep
  <2>2. /\ drift \in Int /\ real \in Nat /\ error \in Int /\ SleepDuration \in Nat
        /\ interval \in Nat \ {0} /\ GUARD < interval /\ GUARD \in Nat
        /\ cycle.startedAt \in Nat /\ MINIMUM_SLEEP \in Nat
    BY <1>1, SleepType, CycleAssumption DEF TypeOK
  <2>3. wakeAt' + error' = Wall + SleepDuration /\ Wall \in Int
    BY <2>1, <2>2 DEF Wall
  <2>4. CASE clockValid
    <3>1. SleepDuration = AbsoluteSleep(Wall, interval)
      BY <2>4 DEF SleepDuration
    <3>2. /\ (Wall + SleepDuration) % interval = 0
          /\ SleepDuration >= GUARD /\ SleepDuration < interval + GUARD
      BY <2>2, <2>3, <3>1, SleepEndsAtBoundary
    <3> QED BY <2>2, <2>3, <2>4, <3>2
  <2>5. CASE ~clockValid
    <3>1. SleepDuration = RelativeSleep(real - cycle.startedAt, interval)
      BY <2>5 DEF SleepDuration
    <3>2. \/ SleepDuration = interval - (real - cycle.startedAt)
          \/ SleepDuration = MINIMUM_SLEEP
      BY <3>1 DEF RelativeSleep
    <3>3. wakeAt' + error' \in {cycle.startedAt + error + interval, Wall + MINIMUM_SLEEP}
      BY <2>2, <2>3, <3>2 DEF Wall
    <3> QED BY <2>5, <3>3
  <2> QED BY <2>4, <2>5
<1>2. [Next]_vars /\ power = "on" /\ power' = "asleep" => EnterTimedDeepSleep
  <2> SUFFICES ASSUME [Next]_vars, power = "on", power' = "asleep" PROVE EnterTimedDeepSleep
    OBVIOUS
  <2> USE DEF LoopAt, Steps, Inside, Command
  <2>1. CASE LoopSleeps \/ LoopTimesOut
    BY <2>1 DEF LoopSleeps, LoopTimesOut, Sleeps
  <2>2. CASE UNCHANGED vars
    BY <2>2 DEF vars
  <2> QED BY <2>1, <2>2
          DEF Next, ServiceNetworkTime, LoopHoldsForOta, LoopMeasures, LoopConnects, LoopUploads,
              LoopReturns, ServiceContinuousMeasurements, DeadlinePasses, SwitchSensor,
              MeasureInterval, SetDeepSleepDisabled, OtaRequested, Tick, NtpSync,
              ConnectionChanges, FallbackChanges, Restarts, Dies, Setup
<1>3. TypeOK /\ [Next]_vars => [power = "on" /\ power' = "asleep" => Wakes]_vars
  BY <1>1, <1>2
<1> QED BY <1>3, TypeCorrect, PTL DEF Spec, WakesAtNextSlot

-----------------------------------------------------------------------------
(***************************************************************************)
(* No slot is measured twice.  The slot of the last cycle is never ahead   *)
(* of the clock, a sleep ends in a later one, and the slot that a cycle    *)
(* has captured is the last one; without a clock there is no last slot.    *)
(***************************************************************************)
SlotInv ==
    lastSlot # None =>
        /\ clockValid /\ power # "off"
        /\ power = "on" => lastSlot <= Slot(Wall, interval)
        /\ power = "asleep" => lastSlot < Slot(wakeAt + error, interval)
        /\ phase # "none" /\ cycle.slotValid => cycle.slot = lastSlot

\* A step that leaves the schedule alone, and does not set the clock back, keeps SlotInv.
LEMMA SlotKept ==
    ASSUME TypeOK, TypeOK', SlotInv,
           power = "on", power' = "on", clockValid => clockValid', Wall <= Wall',
           UNCHANGED interval,
           lastSlot' = None \/ (lastSlot' = lastSlot /\ cycle' = cycle),
           phase = "none" => phase' = "none"
    PROVE  SlotInv'
<1>1. interval \in Nat \ {0} /\ Wall \in Int /\ Wall' \in Int
  BY CycleAssumption DEF TypeOK, Wall
<1>2. Slot(Wall, interval) <= Slot(Wall, interval)'
  BY <1>1, LaterTimeLaterSlot DEF Slot
<1>3. lastSlot \in Int /\ Slot(Wall, interval) \in Int /\ Slot(Wall, interval)' \in Int
  BY <1>1, SlotOfTime DEF TypeOK, Slot
<1>4. lastSlot' = lastSlot /\ lastSlot # None => lastSlot' <= Slot(Wall, interval)'
  BY <1>2, <1>3 DEF SlotInv
<1> QED BY <1>4 DEF SlotInv

\* A cycle that has just captured the slot of the clock is in it.
LEMMA SlotTaken ==
    ASSUME TypeOK', power' = "on",
           lastSlot' # None => clockValid' /\ lastSlot' = Slot(Wall, interval)'
                               /\ cycle'.slot = lastSlot'
    PROVE  SlotInv'
<1>1. interval' \in Nat \ {0} /\ Wall' \in Int
  BY CycleAssumption DEF TypeOK, Wall
<1>2. Slot(Wall, interval)' \in Int
  BY <1>1, SlotOfTime DEF Slot
<1> QED BY <1>2 DEF SlotInv

\* SlotInv holds in every reachable state, awake and asleep.
THEOREM SlotInvariant == Spec => []SlotInv
<1>1. Init => SlotInv
  BY DEF Init, SlotInv
<1>2. TypeOK /\ TypeOK' /\ SlotInv /\ [Next]_vars => SlotInv'
  <2> SUFFICES ASSUME TypeOK, TypeOK', SlotInv, [Next]_vars PROVE SlotInv'
    OBVIOUS
  <2>0. /\ interval \in Nat \ {0} /\ cycle \in CycleRecord /\ Wall \in Int
        /\ real \in Nat /\ error \in Int
    BY CycleAssumption DEF TypeOK, CycleRecord, Wall
  <2> USE DEF LoopAt, Steps, On, upload, world, schedule, time
  <2>1. ASSUME power = "on", power' = "on", UNCHANGED <<real, error, clockValid>>,
               interval' = interval, StartNormalMeasurementCycle
        PROVE  SlotInv'
    <3>1. Slot(Wall, interval)' = Slot(Wall, interval)
      BY <2>1 DEF Wall, Slot
    <3>2. /\ clockValid => cycle'.slot = Slot(Wall, interval) /\ lastSlot' = cycle'.slot
          /\ ~clockValid => lastSlot' = None
      BY <2>1, StartedCycle
    <3> QED BY <2>1, <3>1, <3>2, SlotTaken
  <2>2. ASSUME power = "on", power' = "on", UNCHANGED <<real, error, clockValid>>,
               NeedsSlot, CaptureSlot
        PROVE  SlotInv'
    <3>1. Slot(Wall, interval)' = Slot(Wall, interval)
      BY <2>2 DEF Wall, Slot, CaptureSlot
    <3>2. cycle'.slot = Slot(Wall, interval) /\ lastSlot' = cycle'.slot /\ clockValid
      BY <2>0, <2>2, CapturedSlot DEF CaptureSlot, NeedsSlot
    <3> QED BY <2>2, <3>1, <3>2, SlotTaken
  <2>3. ASSUME power = "on", power' = "on", UNCHANGED <<real, error, clockValid>>,
               UNCHANGED <<interval, cycle, lastSlot>>, phase = "none" => phase' = "none"
        PROVE  SlotInv'
    <3>1. Wall' = Wall
      BY <2>3 DEF Wall
    <3> QED BY <2>0, <2>3, <3>1, SlotKept
  <2>4. CASE ServiceNetworkTime
    BY <2>2, <2>4 DEF ServiceNetworkTime
  <2>5. CASE LoopHoldsForOta \/ LoopConnects \/ LoopUploads \/ LoopReturns
    BY <2>3, <2>5 DEF LoopHoldsForOta, LoopConnects, LoopUploads, LoopReturns
  <2>6. CASE LoopMeasures
    <3>1. CASE phase # "none" /\ UNCHANGED schedule
      BY <2>3, <2>6, <3>1 DEF LoopMeasures
    <3>2. CASE StartNormalMeasurementCycle /\ interval' = interval
      BY <2>1, <2>6, <3>2 DEF LoopMeasures
    <3> QED BY <2>6, <3>1, <3>2 DEF LoopMeasures, AcquisitionEnds, FinishMeasurement
  <2>7. CASE LoopSleeps \/ LoopTimesOut
    <3>1. EnterTimedDeepSleep /\ power = "on"
      BY <2>7 DEF LoopSleeps, LoopTimesOut, Sleeps
    <3>2. PICK drift \in Drifts : /\ wakeAt' = real + SleepDuration + drift
                                  /\ error' = error - drift
      BY <3>1 DEF EnterTimedDeepSleep
    <3>3. drift \in Int /\ SleepDuration \in Nat
      BY SleepType, CycleAssumption
    <3>4. wakeAt' + error' = Wall + SleepDuration
      BY <2>0, <3>2, <3>3 DEF Wall
    <3>5. clockValid => Slot(Wall, interval) < Slot(Wall + SleepDuration, interval)
      <4>1. clockValid => SleepDuration = AbsoluteSleep(Wall, interval)
        BY DEF SleepDuration
      <4>2. GUARD < interval
        BY CycleAssumption DEF TypeOK
      <4> QED BY <2>0, <4>1, <4>2, SleepEndsAtBoundary DEF Slot
    <3>6. lastSlot \in Int /\ Slot(Wall, interval) \in Int
          /\ Slot(Wall + SleepDuration, interval) \in Int
      BY <2>0, <3>3, SlotOfTime DEF TypeOK, Slot
    <3>7. lastSlot # None => /\ clockValid
                             /\ lastSlot < Slot(Wall + SleepDuration, interval)
      BY <3>1, <3>5, <3>6 DEF SlotInv
    <3>8. /\ power' = "asleep" /\ phase' = "none"
          /\ UNCHANGED <<interval, lastSlot, clockValid>>
      BY <3>1 DEF EnterTimedDeepSleep
    <3>9. Slot(wakeAt + error, interval)' = Slot(Wall + SleepDuration, interval)
      BY <3>4, <3>8 DEF Slot
    <3> QED BY <3>7, <3>8, <3>9 DEF SlotInv
  <2>8. CASE ServiceContinuousMeasurements
    <3> USE DEF Inside
    <3>1. CASE UNCHANGED schedule
      BY <2>3, <2>8, <3>1 DEF ServiceContinuousMeasurements
    <3>2. CASE NeedsSlot /\ CaptureSlot
      BY <2>2, <2>8, <3>2 DEF ServiceContinuousMeasurements
    <3>3. CASE StartNormalMeasurementCycle /\ interval' = interval
      BY <2>1, <2>8, <3>3 DEF ServiceContinuousMeasurements
    <3> QED BY <2>8, <3>1, <3>2, <3>3 DEF ServiceContinuousMeasurements, FinishMeasurement
  <2>9. CASE DeadlinePasses \/ SwitchSensor
    BY <2>3, <2>9 DEF DeadlinePasses, SwitchSensor, Inside
  <2>10. CASE MeasureInterval
    <3>1. PICK i \in Intervals : interval' = i /\ cycle' = Captured(cycle, i)
      BY <2>10 DEF MeasureInterval
    <3>2. /\ power' = "on" /\ UNCHANGED <<real, error, clockValid>>
          /\ lastSlot' = IF cycle'.slotValid THEN cycle'.slot ELSE None
      BY <2>10 DEF MeasureInterval, Command
    <3>3. /\ cycle'.slotValid = clockValid
          /\ clockValid => cycle'.slot = Slot(Wall, i)
      BY <2>0, <3>1, CapturedSlot, CycleAssumption
    <3>4. Slot(Wall, interval)' = Slot(Wall, i)
      BY <3>1, <3>2 DEF Wall, Slot
    <3> QED BY <3>2, <3>3, <3>4, SlotTaken
  <2>11. CASE SetDeepSleepDisabled \/ OtaRequested
    BY <2>3, <2>11 DEF SetDeepSleepDisabled, OtaRequested, Command
  <2>12. CASE Tick
    <3>1. CASE power = "on"
      <4>1. Wall <= Wall'
        BY <2>0, <2>12 DEF Tick, Wall
      <4> QED BY <2>12, <3>1, <4>1, SlotKept DEF Tick
    <3>2. CASE power # "on"
      BY <2>12, <3>2 DEF Tick, SlotInv, Slot, TypeOK
    <3> QED BY <3>1, <3>2
  <2>13. CASE NtpSync
    <3>1. PICK e \in Errors : /\ error' = e
                              /\ clockValid => lastSlot' = IF e < error THEN None ELSE lastSlot
                              /\ ~clockValid => lastSlot' = lastSlot
      BY <2>13 DEF NtpSync
    <3>2. /\ power = "on" /\ power' = "on" /\ clockValid' = TRUE
          /\ UNCHANGED <<real, interval, cycle, phase>>
      BY <2>13 DEF NtpSync
    <3>3. CASE lastSlot' = None
      BY <3>3 DEF SlotInv
    <3>4. CASE lastSlot' # None
      <4>1. clockValid /\ ~(e < error) /\ lastSlot' = lastSlot
        BY <3>1, <3>4 DEF SlotInv
      <4>2. Wall <= Wall'
        BY <2>0, <3>1, <3>2, <4>1, CycleAssumption DEF Wall
      <4> QED BY <3>2, <4>1, <4>2, SlotKept
    <3> QED BY <3>3, <3>4
  <2>14. CASE ConnectionChanges \/ FallbackChanges
    BY <2>3, <2>14 DEF ConnectionChanges, FallbackChanges
  <2>15. CASE Restarts
    BY <2>15 DEF Restarts, SlotInv
  <2>16. CASE Setup
    <3>1. /\ power' = "on" /\ UNCHANGED <<real, error, clockValid, interval>>
          /\ StartNormalMeasurementCycle
      BY <2>16 DEF Setup
    <3>2. Slot(Wall, interval)' = Slot(Wall, interval)
      BY <3>1 DEF Wall, Slot
    <3> QED BY <3>1, <3>2, StartedCycle, SlotTaken
  <2>17. CASE UNCHANGED vars
    BY <2>17 DEF vars, SlotInv, Slot, Wall
  <2> QED BY <2>4, <2>5, <2>6, <2>7, <2>8, <2>9, <2>10, <2>11, <2>12, <2>13, <2>14, <2>15,
             <2>16, <2>17 DEF Next
<1> QED BY <1>1, <1>2, TypeCorrect, PTL DEF Spec

(***************************************************************************)
(* No slot is measured twice, whatever starts the cycles: a new one        *)
(* belongs to a later slot, also after a sleep whose timer was wrong.      *)
(***************************************************************************)
THEOREM AlwaysLaterSlot == Spec => NoSlotTwice
<1>1. TypeOK /\ SlotInv /\ [Next]_vars
        => [phase # "acquiring" /\ phase' = "acquiring" /\ lastSlot # None /\ lastSlot' # None
              => lastSlot' > lastSlot]_vars
  <2> SUFFICES ASSUME TypeOK, SlotInv, [Next]_vars, phase # "acquiring", phase' = "acquiring",
                      lastSlot # None, lastSlot' # None
               PROVE  lastSlot' > lastSlot
    OBVIOUS
  <2>0. /\ clockValid /\ power # "off" /\ lastSlot \in Int
        /\ interval \in Nat \ {0} /\ Wall \in Int /\ Slot(Wall, interval) \in Int
    BY CycleAssumption, SlotOfTime DEF SlotInv, TypeOK, Wall, Slot
  <2> USE DEF LoopAt, Steps, Inside, Command, upload, world, schedule
  <2>1. ASSUME StartNormalMeasurementCycle, phase = "recorded", Due
        PROVE  lastSlot' > lastSlot
    <3>1. lastSlot' = Slot(Wall, interval)
      BY <2>0, <2>1, StartedCycle
    <3>2. Slot(Wall, interval) > cycle.slot /\ cycle.slot = lastSlot
      BY <2>0, <2>1 DEF Due, SlotInv
    <3> QED BY <2>0, <3>1, <3>2
  <2>2. CASE LoopMeasures
    BY <2>1, <2>2 DEF LoopMeasures, FinishMeasurement
  <2>3. CASE ServiceContinuousMeasurements
    BY <2>1, <2>3 DEF ServiceContinuousMeasurements, FinishMeasurement
  <2>4. CASE Setup
    <3>1. StartNormalMeasurementCycle /\ power = "asleep" /\ real = wakeAt
      BY <2>0, <2>4 DEF Setup
    <3>2. lastSlot' = Slot(Wall, interval)
      BY <2>0, <3>1, StartedCycle
    <3>3. lastSlot < Slot(Wall, interval)
      BY <2>0, <3>1 DEF SlotInv, Wall
    <3> QED BY <2>0, <3>2, <3>3
  <2>5. CASE UNCHANGED vars
    BY <2>5 DEF vars
  <2> QED BY <2>2, <2>3, <2>4, <2>5
          DEF Next, ServiceNetworkTime, LoopHoldsForOta, LoopConnects, LoopSleeps, LoopUploads,
              LoopReturns, LoopTimesOut, Sleeps, EnterTimedDeepSleep, DeadlinePasses,
              SwitchSensor, MeasureInterval, SetDeepSleepDisabled, OtaRequested, Tick, NtpSync,
              ConnectionChanges, FallbackChanges, Restarts, Dies
<1> QED BY <1>1, TypeCorrect, SlotInvariant, PTL DEF Spec, NoSlotTwice
-----------------------------------------------------------------------------
(***************************************************************************)
(* A device that is held awake measures again.  The schedule is aligned at *)
(* waitingSince; Aligned, SlotReached and WithinAcquisition say what is    *)
(* known of the cycle then: it has begun before, in a slot that has begun  *)
(* before, and its acquisition takes no longer than Acquisition.           *)
(***************************************************************************)
Aligned == cycle.startedAt <= waitingSince /\ waitingSince <= real

SlotReached ==
    cycle.slotValid => clockValid /\ interval * cycle.slot <= waitingSince + error + shifted

WithinAcquisition ==
    phase = "acquiring" /\ sensor => real - cycle.startedAt <= Acquisition

AwakeInv == Aligned /\ SlotReached /\ WithinAcquisition /\ AwakeMeasuresAgain

\* The numbers of a state, for the arithmetic of the steps.
Numbers ==
    /\ real \in Nat /\ error \in Int /\ waitingSince \in Nat /\ shifted \in Nat
    /\ cycle.startedAt \in Nat /\ cycle.slot \in Int
    /\ interval \in Nat \ {0} /\ interval * cycle.slot \in Int
    /\ Wall \in Int /\ Acquisition \in Nat /\ Acquisition < interval

LEMMA NumbersOfState == TypeOK => Numbers
  BY CycleAssumption DEF TypeOK, Numbers, Wall

\* The start of the slot of a time is within the interval before it.
LEMMA SlotHasBegun ==
    ASSUME NEW i \in Nat \ {0}, NEW w \in Int
    PROVE  i * Slot(w, i) <= w /\ w < i * Slot(w, i) + i
<1>1. PICK q \in Int, r \in 0 .. i - 1 : q = w \div i /\ w = i * q + r
  BY SlotOfTime
<1> QED BY <1>1 DEF Slot

\* A time whose slot is not later than k is before the end of slot k.
LEMMA BeforeNextSlot ==
    ASSUME NEW i \in Nat \ {0}, NEW w \in Int, NEW k \in Int, ~(Slot(w, i) > k)
    PROVE  w < i * k + i
<1>1. PICK q \in Int, r \in 0 .. i - 1 : q = w \div i /\ w = i * q + r
  BY SlotOfTime
<1>2. q <= k
  BY <1>1 DEF Slot
<1>3. i * q <= i * k
  BY <1>2
<1>4. PICK a \in Int, b \in Int : a = i * q /\ b = i * k
  OBVIOUS
<1> QED BY <1>1, <1>3, <1>4

\* A cycle that starts is aligned.
LEMMA StartIsAwake ==
    ASSUME TypeOK, TypeOK', StartNormalMeasurementCycle,
           UNCHANGED <<real, error, clockValid, interval>>
    PROVE  AwakeInv'
<1>1. Numbers /\ Numbers'
  BY NumbersOfState, PTL
<1>2. /\ cycle'.startedAt = real /\ cycle'.slotValid = clockValid
      /\ clockValid => cycle'.slot = Slot(Wall, interval)
  BY StartedCycle
<1>3. phase' = "acquiring" /\ waitingSince' = real /\ shifted' = 0
  BY DEF StartNormalMeasurementCycle
<1>4. Aligned' /\ WithinAcquisition'
  BY <1>1, <1>2, <1>3 DEF Aligned, WithinAcquisition, Numbers
<1>5. SlotReached'
  <2>1. interval * Slot(Wall, interval) <= Wall
    BY <1>1, SlotHasBegun DEF Numbers
  <2> QED BY <1>1, <1>2, <1>3, <2>1 DEF SlotReached, Numbers, Wall
<1> QED BY <1>3, <1>4, <1>5 DEF AwakeInv, AwakeMeasuresAgain

\* So is one whose slot is captured again, for whichever interval.
LEMMA CaptureIsAwake ==
    ASSUME TypeOK, TypeOK', AwakeInv, NEW i \in Intervals,
           cycle' = Captured(cycle, i), interval' = i, waitingSince' = real,
           UNCHANGED <<real, error, clockValid, shifted, phase, sensor>>
    PROVE  AwakeInv'
<1>1. Numbers /\ Numbers'
  BY NumbersOfState, PTL
<1>2. i \in Nat \ {0} /\ cycle \in CycleRecord
  BY CycleAssumption DEF TypeOK, CycleRecord
<1>3. /\ cycle'.startedAt = cycle.startedAt /\ cycle'.slotValid = clockValid
      /\ clockValid => cycle'.slot = Slot(Wall, i)
  BY <1>2, CapturedSlot
<1>4. Aligned' /\ WithinAcquisition' /\ AwakeMeasuresAgain'
  BY <1>1, <1>3 DEF AwakeInv, Aligned, WithinAcquisition, AwakeMeasuresAgain, Numbers
<1>5. SlotReached'
  <2>1. i * Slot(Wall, i) <= Wall
    BY <1>1, <1>2, SlotHasBegun DEF Numbers
  <2> QED BY <1>1, <1>3, <2>1 DEF SlotReached, Numbers, Wall
<1> QED BY <1>4, <1>5 DEF AwakeInv

\* Who waits from a later time on has waited less.
LEMMA WaitedLess ==
    ASSUME NEW r \in Nat, NEW s \in Nat, NEW w \in Nat, NEW v \in Nat, NEW n \in Nat,
           s <= w, w <= v, r - s <= n
    PROVE  r - v <= n
  OBVIOUS

\* A step that leaves the schedule alone keeps it aligned; a device that begins to be held
\* is aligned by that, and one that gets its record has just begun to acquire.
LEMMA StillAwake ==
    ASSUME TypeOK, TypeOK', AwakeInv,
           UNCHANGED <<real, error, clockValid, interval, cycle, shifted>>,
           waitingSince' \in {waitingSince, real},
           phase' = "acquiring" /\ sensor' => phase = "acquiring" /\ sensor,
           On' /\ Held' /\ ~ota' /\ phase' = "recorded"
             => \/ waitingSince' = real
                \/ On /\ Held /\ ~ota /\ phase = "recorded"
                \/ phase = "acquiring" /\ sensor
    PROVE  AwakeInv'
<1>1. Numbers /\ Numbers'
  BY NumbersOfState, PTL
<1>0. /\ real \in Nat /\ real' \in Nat /\ waitingSince \in Nat /\ waitingSince' \in Nat
      /\ shifted \in Nat /\ interval \in Nat /\ Acquisition \in Nat /\ Acquisition < interval
      /\ cycle.startedAt \in Nat
      /\ interval' = interval /\ shifted' = shifted /\ real' = real
  BY <1>1 DEF Numbers
<1>2. waitingSince <= waitingSince' /\ waitingSince' <= real
  BY <1>1 DEF AwakeInv, Aligned, Numbers
<1>3. Aligned' /\ WithinAcquisition'
  BY <1>1, <1>2 DEF AwakeInv, Aligned, WithinAcquisition, Numbers
<1>4. SlotReached'
  <2>1. interval' * cycle'.slot = interval * cycle.slot
    OBVIOUS
  <2>2. PICK p \in Int : p = interval * cycle.slot
    BY <1>1 DEF Numbers
  <2> QED BY <1>1, <1>2, <2>1, <2>2 DEF AwakeInv, SlotReached, Numbers
<1>5. AwakeMeasuresAgain'
  <2> SUFFICES ASSUME On', Held', ~ota', phase' = "recorded"
               PROVE  real' - waitingSince' <= interval' + shifted'
    BY DEF AwakeMeasuresAgain
  <2>0. PICK v \in Nat, n \in Nat : v = waitingSince' /\ n = interval + shifted
    BY <1>0
  <2>1. CASE waitingSince' = real
    BY <1>1, <2>1 DEF Numbers
  <2>2. CASE On /\ Held /\ ~ota /\ phase = "recorded"
    <3>1. real - waitingSince <= interval + shifted
      BY <2>2 DEF AwakeInv, AwakeMeasuresAgain
    <3>2. real - waitingSince <= n /\ waitingSince <= v /\ waitingSince <= waitingSince
      BY <1>0, <1>2, <2>0, <3>1
    <3>3. real - v <= n
      BY <1>0, <2>0, <3>2, WaitedLess
    <3> QED BY <1>0, <2>0, <3>3
  <2>3. CASE phase = "acquiring" /\ sensor
    <3>1. real - cycle.startedAt <= Acquisition /\ cycle.startedAt <= waitingSince
      BY <2>3 DEF AwakeInv, Aligned, WithinAcquisition
    <3>2. real - cycle.startedAt <= n /\ waitingSince <= v
      BY <1>0, <1>2, <2>0, <3>1
    <3>3. real - v <= n
      BY <1>0, <2>0, <3>1, <3>2, WaitedLess
    <3> QED BY <1>0, <2>0, <3>3
  <2> QED BY <2>1, <2>2, <2>3
<1> QED BY <1>3, <1>4, <1>5 DEF AwakeInv

\* Without a cycle nothing is to be aligned.
LEMMA NoneIsAwake ==
    ASSUME TypeOK', cycle' = NoCycle, phase' = "none", waitingSince' <= real'
    PROVE  AwakeInv'
<1>1. cycle'.startedAt = 0 /\ cycle'.slotValid = FALSE
  BY DEF NoCycle
<1>2. waitingSince' \in Nat
  BY DEF TypeOK
<1> QED BY <1>1, <1>2
        DEF AwakeInv, Aligned, SlotReached, WithinAcquisition, AwakeMeasuresAgain

\* Time passes only while no cycle is due and no acquisition at its end.
LEMMA TickIsAwake ==
    ASSUME TypeOK, TypeOK', CycleInv, AwakeInv, Tick
    PROVE  AwakeInv'
<1>1. Numbers /\ Numbers'
  BY NumbersOfState, PTL
<1>2. /\ real' = real + 1 /\ ~ScheduleBusy
      /\ UNCHANGED <<power, error, clockValid, phase, sensor>>
      /\ UNCHANGED <<interval, cycle, waitingSince, shifted, stayAwake, fallback, ota>>
  BY DEF Tick, schedule, world
<1>3. Aligned'
  BY <1>1, <1>2 DEF AwakeInv, Aligned, Numbers
<1>4. SlotReached'
  BY <1>2 DEF AwakeInv, SlotReached
<1>5. WithinAcquisition'
  <2> SUFFICES ASSUME phase' = "acquiring", sensor'
               PROVE  real' - cycle'.startedAt <= Acquisition
    BY DEF WithinAcquisition
  <2>0. phase = "acquiring" /\ sensor
    BY <1>2
  <2>1. power = "on"
    BY <2>0 DEF CycleInv
  <2>2. ~(real - cycle.startedAt >= Acquisition)
    BY <1>2, <2>0, <2>1 DEF ScheduleBusy, AcquisitionEnds, On
  <2> QED BY <1>1, <1>2, <2>2 DEF Numbers
<1>6. AwakeMeasuresAgain'
  <2> SUFFICES ASSUME On', Held', ~ota', phase' = "recorded"
               PROVE  real' - waitingSince' <= interval' + shifted'
    BY DEF AwakeMeasuresAgain
  <2>0. On /\ Held /\ ~ota /\ phase = "recorded"
    BY <1>2 DEF On, Held
  <2>1. ~Due /\ ~NeedsSlot
    BY <1>2, <2>0 DEF ScheduleBusy
  <2>2. CASE clockValid
    <3>1. cycle.slotValid /\ ~(Slot(Wall, interval) > cycle.slot)
      BY <2>0, <2>1, <2>2 DEF Due, NeedsSlot
    <3>2. Wall < interval * cycle.slot + interval
      BY <1>1, <3>1, BeforeNextSlot DEF Numbers
    <3>3. interval * cycle.slot <= waitingSince + error + shifted
      BY <3>1 DEF AwakeInv, SlotReached
    <3>4. PICK p \in Int : p = interval * cycle.slot
      BY <1>1 DEF Numbers
    <3> QED BY <1>1, <1>2, <3>2, <3>3, <3>4 DEF Numbers, Wall
  <2>3. CASE ~clockValid
    <3>1. ~(real - cycle.startedAt >= interval)
      BY <2>1, <2>3 DEF Due
    <3> QED BY <1>1, <1>2, <3>1 DEF Numbers, AwakeInv, Aligned
  <2> QED BY <2>2, <2>3
<1> QED BY <1>3, <1>4, <1>5, <1>6 DEF AwakeInv

\* NTP moves the clock by what it adds to shifted.
LEMMA NtpShifts ==
    ASSUME TypeOK, TypeOK', NtpSync, clockValid
    PROVE  /\ error' + shifted' >= error + shifted /\ shifted' >= shifted
           /\ error' - shifted' <= error - shifted
<1>1. PICK e \in Errors : error' = e /\ shifted' = shifted + Distance(e, error)
  BY DEF NtpSync
<1>2. e \in Int /\ error \in Int /\ shifted \in Nat
  BY CycleAssumption DEF TypeOK
<1>3. PICK d \in Int : d = Distance(e, error) /\ d >= 0 /\ e + d >= error /\ e - d <= error
  <2>1. PICK a \in Int : a = error
    BY <1>2
  <2>2. CASE e < a
    BY <1>2, <2>1, <2>2 DEF Distance
  <2>3. CASE ~(e < a)
    BY <1>2, <2>1, <2>3 DEF Distance
  <2> QED BY <2>2, <2>3
<1> QED BY <1>1, <1>2, <1>3
\* A corrected clock moves the slot and the schedule by what is added to shifted.
LEMMA NtpIsAwake ==
    ASSUME TypeOK, TypeOK', AwakeInv, NtpSync
    PROVE  AwakeInv'
<1>0. /\ UNCHANGED <<power, real, interval, cycle, waitingSince, phase, sensor, stayAwake,
                     fallback, ota>>
      /\ clockValid' = TRUE
  BY DEF NtpSync, world
<1>1. Numbers /\ Numbers'
  BY NumbersOfState, PTL
<1>2. shifted <= shifted'
  <2>1. CASE clockValid
    BY <1>1, <2>1, NtpShifts DEF Numbers
  <2>2. CASE ~clockValid
    BY <1>1, <2>2 DEF NtpSync, Numbers
  <2> QED BY <2>1, <2>2
<1>3. Aligned' /\ WithinAcquisition'
  BY <1>0 DEF AwakeInv, Aligned, WithinAcquisition
<1>4. SlotReached'
  <2> SUFFICES ASSUME cycle.slotValid
               PROVE  interval * cycle.slot <= waitingSince + error' + shifted'
    BY <1>0 DEF SlotReached
  <2>1. clockValid /\ interval * cycle.slot <= waitingSince + error + shifted
    BY DEF AwakeInv, SlotReached
  <2>2. error' + shifted' >= error + shifted
    BY <2>1, NtpShifts
  <2>3. PICK p \in Int : p = interval * cycle.slot
    BY <1>1 DEF Numbers
  <2>4. PICK a \in Int, b \in Int : a = error + shifted /\ b = error' + shifted'
    <3>1. error \in Int /\ shifted \in Nat
      BY DEF TypeOK
    <3>2. error' \in Int /\ shifted' \in Nat
      BY DEF TypeOK
    <3>3. error + shifted \in Int /\ error' + shifted' \in Int
      BY <3>1, <3>2
    <3> QED BY <3>3
  <2>5. p <= waitingSince + a /\ a <= b /\ waitingSince \in Nat
    <3>1. waitingSince \in Nat /\ error \in Int /\ shifted \in Nat
      BY DEF TypeOK
    <3> QED BY <2>1, <2>2, <2>3, <2>4, <3>1
  <2>6. p <= waitingSince + b
    BY <2>5
  <2> QED BY <1>1, <2>3, <2>4, <2>6 DEF Numbers
<1>5. AwakeMeasuresAgain'
  <2> SUFFICES ASSUME On', Held', ~ota', phase' = "recorded"
               PROVE  real' - waitingSince' <= interval' + shifted'
    BY DEF AwakeMeasuresAgain
  <2>1. On /\ Held /\ ~ota /\ phase = "recorded"
    BY <1>0 DEF On, Held
  <2>2. real - waitingSince <= interval + shifted
    BY <2>1 DEF AwakeInv, AwakeMeasuresAgain
  <2>3. PICK d \in Nat, n \in Nat : d = real - waitingSince /\ n = interval
    BY <1>1 DEF Numbers, AwakeInv, Aligned
  <2>4. PICK s \in Nat, t \in Nat : s = shifted /\ t = shifted'
    BY DEF TypeOK
  <2>5. d <= n + s /\ s <= t
    BY <1>2, <2>2, <2>3, <2>4
  <2>6. d <= n + t
    BY <2>5
  <2> QED BY <1>0, <2>3, <2>4, <2>6
<1> QED BY <1>3, <1>4, <1>5 DEF AwakeInv

\* AwakeInv holds in every reachable state.
THEOREM AwakeInvariant == Spec => []AwakeInv
<1>1. Init => AwakeInv
  BY CycleAssumption
     DEF Init, NoCycle, AwakeInv, Aligned, SlotReached, WithinAcquisition, AwakeMeasuresAgain
<1>2. TypeOK /\ TypeOK' /\ CycleInv /\ AwakeInv /\ [Next]_vars => AwakeInv'
  <2> SUFFICES ASSUME TypeOK, TypeOK', CycleInv, AwakeInv, [Next]_vars PROVE AwakeInv'
    OBVIOUS
  <2>0. interval \in Intervals
    BY DEF TypeOK
  <2> USE DEF LoopAt, Steps, On, Held, upload, world, schedule, time
  <2>1. ASSUME UNCHANGED <<real, error, clockValid>>, CaptureSlot,
               UNCHANGED <<phase, sensor, stamp, upload>>
        PROVE  AwakeInv'
    BY <2>0, <2>1, CaptureIsAwake DEF CaptureSlot
  <2>2. ASSUME power = "on", UNCHANGED <<power, time, world>>, UNCHANGED schedule,
               AcquisitionEnds, FinishMeasurement
        PROVE  AwakeInv'
    <3>1. phase = "acquiring" /\ sensor /\ phase' = "recorded"
      BY <2>2 DEF AcquisitionEnds, FinishMeasurement
    <3> QED BY <2>2, <3>1, StillAwake
  <2>3. ASSUME power = "on", UNCHANGED <<power, time, world>>, UNCHANGED <<schedule, phase>>,
               sensor' => sensor \/ phase = "recorded"
        PROVE  AwakeInv'
    BY <2>3, StillAwake
  <2>4. CASE ServiceNetworkTime
    BY <2>1, <2>4 DEF ServiceNetworkTime
  <2>5. CASE LoopHoldsForOta \/ LoopConnects \/ LoopUploads \/ LoopReturns
    BY <2>3, <2>5 DEF LoopHoldsForOta, LoopConnects, LoopUploads, LoopReturns
  <2>6. CASE LoopMeasures
    <3>1. CASE AcquisitionEnds /\ FinishMeasurement
      BY <2>2, <2>6, <3>1 DEF LoopMeasures, FinishMeasurement
    <3>2. CASE UNCHANGED <<schedule, phase, sensor, stamp, upload>>
      BY <2>3, <2>6, <3>2 DEF LoopMeasures
    <3>3. CASE StartNormalMeasurementCycle /\ interval' = interval
      BY <2>6, <3>3, StartIsAwake DEF LoopMeasures
    <3> QED BY <2>6, <3>1, <3>2, <3>3 DEF LoopMeasures
  <2>7. CASE LoopSleeps \/ LoopTimesOut
    <3>1. EnterTimedDeepSleep
      BY <2>7 DEF LoopSleeps, LoopTimesOut, Sleeps
    <3>2. waitingSince' <= real'
      BY <3>1 DEF EnterTimedDeepSleep, TypeOK
    <3> QED BY <3>1, <3>2, NoneIsAwake DEF EnterTimedDeepSleep
  <2>8. CASE ServiceContinuousMeasurements
    <3> USE DEF Inside
    <3>1. CASE AcquisitionEnds /\ FinishMeasurement
      BY <2>2, <2>8, <3>1 DEF ServiceContinuousMeasurements, FinishMeasurement
    <3>2. CASE CaptureSlot /\ UNCHANGED <<phase, sensor, stamp, upload>>
      BY <2>1, <2>8, <3>2 DEF ServiceContinuousMeasurements
    <3>3. CASE StartNormalMeasurementCycle /\ interval' = interval
      BY <2>8, <3>3, StartIsAwake DEF ServiceContinuousMeasurements
    <3> QED BY <2>8, <3>1, <3>2, <3>3 DEF ServiceContinuousMeasurements
  <2>9. CASE DeadlinePasses \/ SwitchSensor
    BY <2>3, <2>9 DEF DeadlinePasses, SwitchSensor, Inside
  <2>10. CASE MeasureInterval
    <3>1. PICK i \in Intervals : interval' = i /\ cycle' = Captured(cycle, i)
      BY <2>10 DEF MeasureInterval
    <3> QED BY <2>10, <3>1, CaptureIsAwake DEF MeasureInterval, Command
  <2>11. CASE SetDeepSleepDisabled
    <3>1. On' /\ Held' /\ ~ota' /\ phase' = "recorded"
            => waitingSince' = real \/ (On /\ Held /\ ~ota /\ phase = "recorded")
      BY <2>11 DEF SetDeepSleepDisabled, Command
    <3> QED BY <2>11, <3>1, StillAwake DEF SetDeepSleepDisabled, Command
  <2>12. CASE OtaRequested
    BY <2>12, StillAwake DEF OtaRequested, Command
  <2>13. CASE Tick
    BY <2>13, TickIsAwake
  <2>14. CASE NtpSync
    BY <2>14, NtpIsAwake
  <2>15. CASE ConnectionChanges
    BY <2>15, StillAwake DEF ConnectionChanges
  <2>16. CASE FallbackChanges
    <3>1. On' /\ Held' /\ ~ota' /\ phase' = "recorded"
            => waitingSince' = real \/ (On /\ Held /\ ~ota /\ phase = "recorded")
      BY <2>16 DEF FallbackChanges
    <3> QED BY <2>16, <3>1, StillAwake DEF FallbackChanges
  <2>17. CASE Restarts
    <3>1. waitingSince' <= real'
      BY <2>17 DEF Restarts, Dies, TypeOK
    <3> QED BY <2>17, <3>1, NoneIsAwake DEF Restarts, Dies
  <2>18. CASE Setup
    BY <2>18, StartIsAwake DEF Setup
  <2>19. CASE UNCHANGED vars
    BY <2>19 DEF vars, AwakeInv, Aligned, SlotReached, WithinAcquisition, AwakeMeasuresAgain
  <2> QED BY <2>4, <2>5, <2>6, <2>7, <2>8, <2>9, <2>10, <2>11, <2>12, <2>13, <2>14, <2>15,
             <2>16, <2>17, <2>18, <2>19 DEF Next
<1> QED BY <1>1, <1>2, TypeCorrect, CycleInvariant, PTL DEF Spec

(***************************************************************************)
(* A device that is held awake measures again within an interval, and what *)
(* the clock was set back: no sequence of aligned, corrected and commanded *)
(* schedules postpones the next cycle further.                             *)
(***************************************************************************)
THEOREM MeasuresAgainWhileAwake == Spec => []AwakeMeasuresAgain
<1>1. AwakeInv => AwakeMeasuresAgain
  BY DEF AwakeInv
<1> QED BY <1>1, AwakeInvariant, PTL
-----------------------------------------------------------------------------
(***************************************************************************)
(* A clock that is valid has left its first slot behind, so that no slot   *)
(* has the timestamp 0, which stands for an unknown one.  While the device *)
(* sleeps, this is said of the time at which it wakes.                     *)
(***************************************************************************)
PastFirstSlot(wall) == \A i \in Intervals : wall >= i

ClockInv ==
    /\ \E t \in Epochs : t <= real
    /\ clockValid => PastFirstSlot((IF power = "asleep" THEN wakeAt ELSE real) + error)

\* A step that leaves the clock alone, and the power or the time of waking too.
LEMMA ClockKept ==
    ASSUME ClockInv, UNCHANGED <<real, error>>, clockValid' => clockValid,
           \/ power # "asleep" /\ power' # "asleep"
           \/ UNCHANGED <<power, wakeAt>>
    PROVE  ClockInv'
<1>1. (\E t \in Epochs : t <= real)'
  BY DEF ClockInv
<1>2. ASSUME clockValid' PROVE PastFirstSlot((IF power = "asleep" THEN wakeAt ELSE real) + error)'
  <2>1. PastFirstSlot((IF power = "asleep" THEN wakeAt ELSE real) + error)
    BY <1>2 DEF ClockInv
  <2>2. (IF power = "asleep" THEN wakeAt ELSE real)' = IF power = "asleep" THEN wakeAt ELSE real
    OBVIOUS
  <2> QED BY <2>1, <2>2 DEF PastFirstSlot
<1> QED BY <1>1, <1>2 DEF ClockInv

\* ClockInv holds in every reachable state.
THEOREM ClockInvariant == Spec => []ClockInv
<1>1. Init => ClockInv
  <2> SUFFICES ASSUME Init PROVE ClockInv
    OBVIOUS
  <2>1. real \in Epochs /\ real \in Nat /\ error = 0 /\ power # "asleep"
    BY CycleAssumption DEF Init
  <2>2. \A i \in Intervals : real + 0 >= i
    BY <2>1, ClockAssumption
  <2>3. \E t \in Epochs : t <= real
    BY <2>1
  <2> QED BY <2>1, <2>2, <2>3 DEF ClockInv, PastFirstSlot
<1>2. TypeOK /\ ClockInv /\ [Next]_vars => ClockInv'
  <2> SUFFICES ASSUME TypeOK, ClockInv, [Next]_vars PROVE ClockInv'
    OBVIOUS
  <2>0. real \in Nat /\ error \in Int /\ interval \in Nat \ {0}
    BY CycleAssumption DEF TypeOK
  <2> USE DEF LoopAt, Steps, On, time
  <2>1. CASE ServiceNetworkTime \/ LoopHoldsForOta \/ LoopMeasures \/ LoopConnects \/ LoopUploads
               \/ LoopReturns
    <3>1. UNCHANGED <<power, real, error, clockValid, wakeAt>>
      BY <2>1
         DEF ServiceNetworkTime, LoopHoldsForOta, LoopMeasures, LoopConnects, LoopUploads,
             LoopReturns
    <3> QED BY <3>1, ClockKept
  <2>2. CASE ServiceContinuousMeasurements \/ DeadlinePasses \/ SwitchSensor
    BY <2>2, ClockKept DEF ServiceContinuousMeasurements, DeadlinePasses, SwitchSensor, Inside
  <2>3. CASE MeasureInterval \/ SetDeepSleepDisabled \/ OtaRequested
    BY <2>3, ClockKept DEF MeasureInterval, SetDeepSleepDisabled, OtaRequested, Command
  <2>4. CASE ConnectionChanges \/ FallbackChanges
    BY <2>4, ClockKept DEF ConnectionChanges, FallbackChanges
  <2>5. CASE LoopSleeps \/ LoopTimesOut
    <3>1. EnterTimedDeepSleep /\ power = "on"
      BY <2>5 DEF LoopSleeps, LoopTimesOut, Sleeps
    <3>2. PICK drift \in Drifts : /\ wakeAt' = real + SleepDuration + drift
                                  /\ error' = error - drift
      BY <3>1 DEF EnterTimedDeepSleep
    <3>3. power' = "asleep" /\ UNCHANGED <<real, clockValid>>
      BY <3>1 DEF EnterTimedDeepSleep
    <3>4. drift \in Int /\ SleepDuration \in Nat
      BY SleepType, CycleAssumption
    <3>5. PICK s \in Nat : s = SleepDuration
      BY <3>4
    <3>6. wakeAt' + error' = real + error + s
      BY <2>0, <3>2, <3>4, <3>5
    <3>7. ASSUME clockValid, NEW i \in Intervals PROVE real + error + s >= i
      <4>1. real + error >= i
        BY <3>1, <3>7 DEF ClockInv, PastFirstSlot
      <4>2. i \in Nat
        BY CycleAssumption
      <4> QED BY <2>0, <4>1, <4>2
    <3>8. clockValid => PastFirstSlot(wakeAt' + error')
      BY <3>6, <3>7 DEF PastFirstSlot
    <3> QED BY <3>3, <3>8 DEF ClockInv, PastFirstSlot
  <2>6. CASE Tick
    <3>1. /\ real' = real + 1 /\ UNCHANGED <<power, error, clockValid, wakeAt>>
      BY <2>6 DEF Tick
    <3>2. (\E t \in Epochs : t <= real)'
      <4>1. PICK t \in Epochs : t <= real
        BY DEF ClockInv
      <4>2. t <= real'
        BY <2>0, <3>1, <4>1, CycleAssumption
      <4> QED BY <4>2
    <3>3. CASE power = "asleep"
      BY <3>1, <3>2, <3>3 DEF ClockInv, PastFirstSlot
    <3>4. CASE power # "asleep"
      <4>1. ASSUME clockValid, NEW i \in Intervals PROVE real + 1 + error >= i
        <5>1. real + error >= i /\ i \in Nat
          BY <3>4, <4>1, CycleAssumption DEF ClockInv, PastFirstSlot
        <5> QED BY <2>0, <5>1
      <4> QED BY <3>1, <3>2, <3>4, <4>1 DEF ClockInv, PastFirstSlot
    <3> QED BY <3>3, <3>4
  <2>7. CASE NtpSync
    <3>1. PICK e \in Errors : error' = e
      BY <2>7 DEF NtpSync
    <3>2. power = "on" /\ UNCHANGED <<power, real>>
      BY <2>7 DEF NtpSync
    <3>3. PICK t \in Epochs : t <= real
      BY DEF ClockInv
    <3>4. ASSUME NEW i \in Intervals PROVE real + e >= i
      <4>1. t + e >= i
        BY ClockAssumption
      <4>2. t \in Nat /\ e \in Int /\ i \in Nat
        BY CycleAssumption
      <4> QED BY <2>0, <3>3, <4>1, <4>2
    <3>5. PastFirstSlot(real' + error')
      BY <3>1, <3>2, <3>4 DEF PastFirstSlot
    <3> QED BY <3>2, <3>3, <3>5 DEF ClockInv
  <2>8. CASE Restarts
    <3>1. power' = "off" /\ power = "on" /\ UNCHANGED <<real, error>>
      BY <2>8 DEF Restarts, Dies
    <3>2. clockValid' => clockValid
      BY <2>8 DEF Restarts, TypeOK
    <3> QED BY <3>1, <3>2, ClockKept
  <2>9. CASE Setup
    <3>1. /\ power' = "on" /\ UNCHANGED <<real, error, clockValid>>
          /\ power = "asleep" => wakeAt = real
      BY <2>9 DEF Setup
    <3> QED BY <3>1 DEF ClockInv, PastFirstSlot
  <2>10. CASE UNCHANGED vars
    BY <2>10, ClockKept DEF vars
  <2> QED BY <2>1, <2>2, <2>3, <2>4, <2>5, <2>6, <2>7, <2>8, <2>9, <2>10 DEF Next
<1> QED BY <1>1, <1>2, TypeCorrect, PTL DEF Spec

(***************************************************************************)
(* When a record is dated.  A cycle that begins with a valid clock has a   *)
(* slot (Slotted), which begins near the start of the cycle also when the  *)
(* clock is corrected or the interval changed meanwhile (NearStart); its   *)
(* record is dated at once, so that whatever has to wait for a date is     *)
(* dated by the start of its cycle (Stamped).                              *)
(***************************************************************************)
Slotted == /\ cycle.startedWithTime => cycle.slotValid
           /\ cycle.slotValid => cycle.slot >= 1

Near(start, slack, i, begin) ==
    /\ start - i - slack + 1 <= begin
    /\ begin <= start + Acquisition + slack

NearStart ==
    phase = "acquiring" /\ sensor /\ cycle.startedWithTime
      => Near(cycle.startedAt + error, shifted, interval, interval * cycle.slot)

Stamped == phase = "recorded" /\ stamp = 0 => ~cycle.startedWithTime

DateInv == Slotted /\ NearStart /\ Stamped

\* A time that is past every first slot is in a later one.
LEMMA LaterThanFirst ==
    ASSUME NEW i \in Intervals, NEW w \in Int, PastFirstSlot(w)
    PROVE  Slot(w, i) >= 1
<1>1. i \in Nat \ {0} /\ i <= w
  BY CycleAssumption DEF PastFirstSlot
<1>2. (i * 1) \div i = 1 /\ i * 1 = i
  BY <1>1, SlotOfBoundary
<1>3. i \div i <= w \div i
  BY <1>1, LaterTimeLaterSlot
<1> QED BY <1>2, <1>3 DEF Slot

\* No slot behind the first has the timestamp of an unknown one.
LEMMA SlotIsDated ==
    ASSUME NEW i \in Nat \ {0}, NEW k \in Int, k >= 1
    PROVE  k * i # 0
  OBVIOUS

\* A slot that is captured no later than Acquisition after start is near it.
LEMMA CapturedNear ==
    ASSUME NEW i \in Nat \ {0}, NEW start \in Int, NEW passed \in Nat, NEW slack \in Nat,
           passed <= Acquisition
    PROVE  Near(start, slack, i, i * Slot(start + passed, i))
<1>1. PICK b \in Int : b = i * Slot(start + passed, i) /\ b <= start + passed
                       /\ start + passed < b + i
  <2>1. start + passed \in Int
    OBVIOUS
  <2>2. Slot(start + passed, i) \in Int
    BY <2>1, SlotOfTime DEF Slot
  <2> QED BY <2>1, <2>2, SlotHasBegun
<1>2. Acquisition \in Nat
  BY CycleAssumption
<1> QED BY <1>1, <1>2 DEF Near

\* A start that moves by no more than the slack grows stays near.
LEMMA StillNear ==
    ASSUME NEW i \in Nat, NEW begin \in Int, NEW start \in Int, NEW later \in Int,
           NEW slack \in Nat, NEW more \in Nat,
           Near(start, slack, i, begin), later + more >= start + slack,
           later - more <= start - slack
    PROVE  Near(later, more, i, begin)
<1>1. Acquisition \in Nat
  BY CycleAssumption
<1> QED BY <1>1 DEF Near

\* A cycle that starts is in the slot of the clock.
LEMMA StartIsDated ==
    ASSUME TypeOK, ClockInv, StartNormalMeasurementCycle,
           UNCHANGED <<real, error, clockValid, interval>>,
           power = "asleep" => wakeAt = real
    PROVE  DateInv'
<1>1. /\ cycle'.startedAt = real
      /\ cycle'.slotValid = clockValid /\ cycle'.startedWithTime = clockValid
      /\ clockValid => cycle'.slot = Slot(Wall, interval)
  BY StartedCycle
<1>2. phase' = "acquiring" /\ shifted' = 0
  BY DEF StartNormalMeasurementCycle
<1>3. interval \in Intervals /\ interval \in Nat \ {0} /\ Wall \in Int /\ Acquisition \in Nat
  BY CycleAssumption DEF TypeOK, Wall
<1>4. clockValid => PastFirstSlot(Wall)
  BY DEF ClockInv, PastFirstSlot, Wall
<1>5. Slotted'
  BY <1>1, <1>3, <1>4, LaterThanFirst DEF Slotted
<1>6. NearStart'
  <2>0. PICK none \in Nat : none = 0 /\ none <= Acquisition
    BY <1>3
  <2>1. Near(Wall, none, interval, interval * Slot(Wall + none, interval))
    <3>1. \A i \in Nat \ {0}, w \in Int : Near(w, none, i, i * Slot(w + none, i))
      BY <2>0, CapturedNear, Zenon
    <3> QED BY <1>3, <3>1, Zenon
  <2>2. Wall + none = Wall /\ Wall = real + error
    BY <1>3, <2>0 DEF Wall
  <2> QED BY <1>1, <1>2, <2>0, <2>1, <2>2 DEF NearStart
<1> QED BY <1>2, <1>5, <1>6 DEF DateInv, Stamped

\* A slot that is captured again is a past one, and near the start while the cycle acquires.
LEMMA CaptureIsDated ==
    ASSUME TypeOK, ClockInv, AwakeInv, DateInv, NEW i \in Intervals, power = "on",
           cycle' = Captured(cycle, i), interval' = i,
           UNCHANGED <<real, error, clockValid, shifted, phase, sensor, stamp>>
    PROVE  DateInv'
<1>1. i \in Nat \ {0} /\ cycle \in CycleRecord /\ Wall \in Int /\ Acquisition \in Nat
      /\ real \in Nat /\ error \in Int /\ shifted \in Nat
  BY CycleAssumption DEF TypeOK, CycleRecord, Wall
<1>2. /\ cycle'.startedAt = cycle.startedAt /\ cycle'.startedWithTime = cycle.startedWithTime
      /\ cycle'.slotValid = clockValid
      /\ clockValid => cycle'.slot = Slot(Wall, i)
  BY <1>1, CapturedSlot
<1>3. clockValid => PastFirstSlot(Wall)
  BY DEF ClockInv, Wall
<1>4. cycle.startedWithTime => clockValid
  BY DEF DateInv, Slotted, AwakeInv, SlotReached
<1>5. Slotted'
  BY <1>1, <1>2, <1>3, <1>4, LaterThanFirst DEF Slotted
<1>6. NearStart'
  <2> SUFFICES ASSUME phase' = "acquiring", sensor', cycle'.startedWithTime
               PROVE  Near(cycle'.startedAt + error', shifted', interval',
                           interval' * cycle'.slot)
    BY DEF NearStart
  <2>1. phase = "acquiring" /\ sensor /\ clockValid
    BY <1>2, <1>4
  <2>2. PICK start \in Int, passed \in Nat :
            /\ start = cycle.startedAt + error /\ passed = real - cycle.startedAt
            /\ passed <= Acquisition
    <3>1. cycle.startedAt \in Nat
      BY DEF TypeOK
    <3>2. real - cycle.startedAt <= Acquisition /\ cycle.startedAt <= real
      BY <1>1, <2>1, <3>1 DEF AwakeInv, WithinAcquisition, Aligned, TypeOK
    <3> QED BY <1>1, <3>1, <3>2
  <2>3. Wall = start + passed
    BY <1>1, <2>2 DEF Wall, TypeOK
  <2>4. Near(start, shifted, i, i * Slot(start + passed, i))
    BY <1>1, <2>2, CapturedNear
  <2> QED BY <1>2, <2>1, <2>2, <2>3, <2>4
<1> QED BY <1>2, <1>5, <1>6 DEF DateInv, Stamped

\* The timestamp of a cycle that began with a slot is the start of that slot, any other that
\* of its own start.
LEMMA TimestampOfCycle ==
    ASSUME TypeOK, DateInv
    PROVE  /\ cycle.startedWithTime
                => CurrentCycleTimestamp = interval * cycle.slot /\ CurrentCycleTimestamp # 0
           /\ ~cycle.startedWithTime
                => CurrentCycleTimestamp \in {0, cycle.startedAt + error}
<1>1. /\ interval \in Nat \ {0} /\ cycle.slot \in Int /\ cycle.startedAt \in Nat
      /\ real \in Nat /\ error \in Int
  BY CycleAssumption DEF TypeOK
<1>2. CASE cycle.startedWithTime
  <2>1. cycle.slotValid /\ cycle.slot >= 1
    BY <1>2 DEF DateInv, Slotted
  <2>2. CurrentCycleTimestamp = cycle.slot * interval
    BY <1>2, <2>1 DEF CurrentCycleTimestamp
  <2>3. cycle.slot * interval # 0 /\ cycle.slot * interval = interval * cycle.slot
    BY <1>1, <2>1, SlotIsDated
  <2> QED BY <1>2, <2>2, <2>3
<1>3. CASE ~cycle.startedWithTime
  <2>1. Wall - (real - cycle.startedAt) = cycle.startedAt + error
    BY <1>1 DEF Wall
  <2> QED BY <1>3, <2>1 DEF CurrentCycleTimestamp
<1> QED BY <1>2, <1>3

\* A step that leaves the clock and the schedule alone, and dates what gets a record.
LEMMA StillDated ==
    ASSUME TypeOK, DateInv, UNCHANGED <<error, interval, cycle, shifted>>,
           phase' = "acquiring" /\ sensor' => phase = "acquiring" /\ sensor,
           phase' = "recorded" => \/ phase = "recorded" /\ stamp' = stamp
                                  \/ stamp' = CurrentCycleTimestamp
    PROVE  DateInv'
<1>1. Slotted' /\ NearStart'
  BY DEF DateInv, Slotted, NearStart
<1>2. Stamped'
  BY TimestampOfCycle DEF DateInv, Stamped
<1> QED BY <1>1, <1>2 DEF DateInv

\* A corrected clock leaves the slot near the start, as shifted grows by the correction.
LEMMA NtpIsDated ==
    ASSUME TypeOK, TypeOK', AwakeInv, DateInv, NtpSync
    PROVE  DateInv'
<1>1. UNCHANGED <<interval, cycle, phase, sensor, stamp>>
  BY DEF NtpSync
<1>2. Slotted' /\ Stamped'
  BY <1>1 DEF DateInv, Slotted, Stamped
<1>3. NearStart'
  <2> SUFFICES ASSUME phase = "acquiring", sensor, cycle.startedWithTime
               PROVE  Near(cycle.startedAt + error', shifted', interval, interval * cycle.slot)
    BY <1>1 DEF NearStart
  <2>1. clockValid
    BY DEF DateInv, Slotted, AwakeInv, SlotReached
  <2>2. /\ cycle.startedAt \in Nat /\ error \in Int /\ shifted \in Nat
        /\ interval \in Nat /\ cycle.slot \in Int
    BY CycleAssumption DEF TypeOK
  <2>3. error' \in Int /\ shifted' \in Nat
    BY DEF TypeOK
  <2>4. PICK start \in Int, later \in Int, more \in Nat, begin \in Int :
            /\ start = cycle.startedAt + error /\ later = cycle.startedAt + error'
            /\ more = shifted' /\ begin = interval * cycle.slot
    <3>1. cycle.startedAt + error \in Int /\ cycle.startedAt + error' \in Int
      BY <2>2, <2>3
    <3>2. interval * cycle.slot \in Int
      BY <2>2
    <3> QED BY <2>3, <3>1, <3>2
  <2>5. Near(start, shifted, interval, begin)
    BY <2>4 DEF DateInv, NearStart
  <2>6. error' + shifted' >= error + shifted /\ error' - shifted' <= error - shifted
    BY <2>1, NtpShifts
  <2>7. later + more >= start + shifted /\ later - more <= start - shifted
    <3>1. PICK c \in Int, d \in Int, b \in Int :
              c = error + shifted /\ d = error - shifted /\ b = cycle.startedAt
      BY <2>2
    <3>2. PICK e \in Int : e = error'
      BY <2>3
    <3>3. e + more >= c /\ e - more <= d
      BY <2>4, <2>6, <3>1, <3>2
    <3>4. later = b + e /\ start + shifted = b + c /\ start - shifted = b + d
      BY <2>2, <2>4, <3>1, <3>2
    <3> QED BY <3>1, <3>3, <3>4
  <2>8. Near(later, more, interval, begin)
    BY <2>2, <2>4, <2>5, <2>7, StillNear
  <2> QED BY <2>4, <2>8
<1> QED BY <1>2, <1>3 DEF DateInv

\* DateInv holds in every reachable state.
THEOREM DateInvariant == Spec => []DateInv
<1>1. Init => DateInv
  BY DEF Init, NoCycle, DateInv, Slotted, NearStart, Stamped
<1>2. TypeOK /\ TypeOK' /\ ClockInv /\ AwakeInv /\ DateInv /\ [Next]_vars => DateInv'
  <2> SUFFICES ASSUME TypeOK, TypeOK', ClockInv, AwakeInv, DateInv, [Next]_vars PROVE DateInv'
    OBVIOUS
  <2>0. interval \in Intervals
    BY DEF TypeOK
  <2> USE DEF LoopAt, Steps, On, upload, world, schedule, time
  <2>1. ASSUME power = "on", UNCHANGED <<real, error, clockValid>>, CaptureSlot,
               UNCHANGED <<phase, sensor, stamp, upload>>
        PROVE  DateInv'
    BY <2>0, <2>1, CaptureIsDated DEF CaptureSlot
  <2>2. ASSUME power = "on", UNCHANGED <<real, error, clockValid>>, interval' = interval,
               StartNormalMeasurementCycle
        PROVE  DateInv'
    BY <2>2, StartIsDated
  <2>3. ASSUME UNCHANGED error, FinishMeasurement
        PROVE  DateInv'
    BY <2>3, StillDated DEF FinishMeasurement
  <2>4. ASSUME UNCHANGED <<error, interval, cycle, shifted, phase, stamp>>,
               sensor' => sensor \/ phase = "recorded"
        PROVE  DateInv'
    BY <2>4, StillDated
  <2>5. ASSUME cycle' = NoCycle, phase' = "none"
        PROVE  DateInv'
    BY <2>5 DEF NoCycle, DateInv, Slotted, NearStart, Stamped
  <2>6. CASE ServiceNetworkTime
    BY <2>1, <2>6 DEF ServiceNetworkTime
  <2>7. CASE LoopHoldsForOta \/ LoopConnects \/ LoopReturns
    BY <2>4, <2>7 DEF LoopHoldsForOta, LoopConnects, LoopReturns
  <2>8. CASE LoopMeasures
    <3>1. CASE FinishMeasurement
      BY <2>3, <2>8, <3>1 DEF LoopMeasures
    <3>2. CASE UNCHANGED <<schedule, phase, sensor, stamp, upload>>
      BY <2>4, <2>8, <3>2 DEF LoopMeasures
    <3>3. CASE StartNormalMeasurementCycle /\ interval' = interval
      BY <2>2, <2>8, <3>3 DEF LoopMeasures
    <3> QED BY <2>8, <3>1, <3>2, <3>3 DEF LoopMeasures
  <2>9. CASE LoopSleeps \/ LoopTimesOut
    BY <2>5, <2>9 DEF LoopSleeps, LoopTimesOut, Sleeps, EnterTimedDeepSleep
  <2>10. CASE LoopUploads
    <3>1. UNCHANGED <<error, interval, cycle, shifted, phase, sensor>>
      BY <2>10 DEF LoopUploads
    <3>2. stamp' = stamp \/ stamp' = CurrentCycleTimestamp
      BY <2>10 DEF LoopUploads
    <3> QED BY <3>1, <3>2, StillDated
  <2>11. CASE ServiceContinuousMeasurements
    <3> USE DEF Inside
    <3>1. CASE FinishMeasurement
      BY <2>3, <2>11, <3>1 DEF ServiceContinuousMeasurements
    <3>2. CASE CaptureSlot /\ UNCHANGED <<phase, sensor, stamp, upload>>
      BY <2>1, <2>11, <3>2 DEF ServiceContinuousMeasurements
    <3>3. CASE StartNormalMeasurementCycle /\ interval' = interval
      BY <2>2, <2>11, <3>3 DEF ServiceContinuousMeasurements
    <3> QED BY <2>11, <3>1, <3>2, <3>3 DEF ServiceContinuousMeasurements
  <2>12. CASE DeadlinePasses \/ SwitchSensor
    BY <2>4, <2>12 DEF DeadlinePasses, SwitchSensor, Inside
  <2>13. CASE MeasureInterval
    <3>1. PICK i \in Intervals : interval' = i /\ cycle' = Captured(cycle, i)
      BY <2>13 DEF MeasureInterval
    <3> QED BY <2>13, <3>1, CaptureIsDated DEF MeasureInterval, Command
  <2>14. CASE SetDeepSleepDisabled \/ OtaRequested
    BY <2>4, <2>14 DEF SetDeepSleepDisabled, OtaRequested, Command
  <2>15. CASE Tick \/ ConnectionChanges \/ FallbackChanges
    BY <2>4, <2>15 DEF Tick, ConnectionChanges, FallbackChanges
  <2>16. CASE NtpSync
    BY <2>16, NtpIsDated
  <2>17. CASE Restarts
    BY <2>5, <2>17 DEF Restarts, Dies
  <2>18. CASE Setup
    BY <2>18, StartIsDated DEF Setup
  <2>19. CASE UNCHANGED vars
    BY <2>4, <2>19 DEF vars
  <2> QED BY <2>6, <2>7, <2>8, <2>9, <2>10, <2>11, <2>12, <2>13, <2>14, <2>15, <2>16, <2>17,
             <2>18, <2>19 DEF Next
<1> QED BY <1>1, <1>2, TypeCorrect, ClockInvariant, AwakeInvariant, PTL DEF Spec

(***************************************************************************)
(* A record that gets a date gets that of its acquisition, or of the slot  *)
(* in which it began, whenever the date is given: with the record, or at   *)
(* the end of a later pass of loop().                                      *)
(***************************************************************************)
THEOREM AlwaysDatedWhenMeasured == Spec => DatedWhenMeasured
<1> DEFINE Start == cycle.startedAt + error
<1>1. TypeOK /\ DateInv /\ [Next]_vars
        => [stamp = 0 /\ stamp' # 0
              => stamp' \in Start - interval - shifted + 1 .. Start + Acquisition + shifted]_vars
  <2> SUFFICES ASSUME TypeOK, DateInv, [Next]_vars, stamp = 0, stamp' # 0
               PROVE  stamp' \in Start - interval - shifted + 1 .. Start + Acquisition + shifted
    OBVIOUS
  <2>1. /\ stamp' = CurrentCycleTimestamp
        /\ \/ phase = "acquiring" /\ sensor
           \/ phase = "recorded"
    <3> USE DEF LoopAt, Steps, Inside, Command, upload, world, schedule
    <3>1. CASE LoopMeasures
      BY <3>1 DEF LoopMeasures, AcquisitionEnds, FinishMeasurement, StartNormalMeasurementCycle
    <3>2. CASE ServiceContinuousMeasurements
      BY <3>2 DEF ServiceContinuousMeasurements, AcquisitionEnds, FinishMeasurement,
                  StartNormalMeasurementCycle
    <3>3. CASE LoopUploads
      BY <3>3 DEF LoopUploads
    <3>4. CASE UNCHANGED vars
      BY <3>4 DEF vars
    <3> QED BY <3>1, <3>2, <3>3, <3>4
            DEF Next, ServiceNetworkTime, LoopHoldsForOta, LoopConnects, LoopSleeps, LoopReturns,
                LoopTimesOut, Sleeps, EnterTimedDeepSleep, DeadlinePasses, SwitchSensor,
                MeasureInterval, SetDeepSleepDisabled, OtaRequested, Tick, NtpSync,
                ConnectionChanges, FallbackChanges, Restarts, Dies, Setup,
                StartNormalMeasurementCycle
  <2>2. PICK start \in Int, i \in Nat \ {0}, slack \in Nat, date \in Int :
            start = Start /\ i = interval /\ slack = shifted /\ date = stamp'
    <3>1. /\ cycle.startedAt \in Nat /\ error \in Int /\ shifted \in Nat
          /\ interval \in Nat \ {0}
      BY CycleAssumption DEF TypeOK
    <3>2. Start \in Int
      BY <3>1
    <3>3. stamp' \in Int
      BY <2>1, StampType
    <3> QED BY <3>1, <3>2, <3>3
  <2>3. Near(start, slack, i, date)
    <3>1. CASE cycle.startedWithTime
      <4>1. phase = "acquiring" /\ sensor
        BY <2>1, <3>1 DEF DateInv, Stamped
      <4>2. date = interval * cycle.slot
        BY <2>1, <2>2, <3>1, TimestampOfCycle
      <4> QED BY <2>2, <3>1, <4>1, <4>2 DEF DateInv, NearStart
    <3>2. CASE ~cycle.startedWithTime
      <4>1. date = start
        BY <2>1, <2>2, <3>2, TimestampOfCycle
      <4>2. Acquisition \in Nat
        BY CycleAssumption
      <4> QED BY <2>2, <4>1, <4>2 DEF Near
    <3> QED BY <3>1, <3>2
  <2>4. date \in start - i - slack + 1 .. start + Acquisition + slack
    BY <2>2, <2>3, CycleAssumption DEF Near
  <2> QED BY <2>2, <2>4
<1> QED BY <1>1, TypeCorrect, DateInvariant, PTL DEF Spec, DatedWhenMeasured
=============================================================================
