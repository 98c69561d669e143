----------------------------- MODULE WifiOutage -----------------------------
(***************************************************************************)
(* The Wi-Fi outage tracker of src/main.cpp: what each of its functions    *)
(* does to the variables in RAM, o, and the NVS writes that it makes, in   *)
(* their order.  WifiFallback calls them.                                  *)
(*                                                                         *)
(* Time is a number of ticks that divides every duration the code uses, so *)
(* the rounding to seconds is not seen; 0 is no time.  millis() and the    *)
(* wall clock advance together; the wall clock is valid until the power is *)
(* lost and from the next NTP synchronisation on.                          *)
(***************************************************************************)
EXTENDS Preferences, Integers

CONSTANT WIFI_OUTAGE_BEFORE_PROVISIONING

ASSUME OutageAssumption == WIFI_OUTAGE_BEFORE_PROVISIONING \in Nat \ {0}

\* wifiOutageActive, -StartedEpoch, -ElapsedSeconds and -AwakeStartedAt.
NoOutage(now) == [active |-> FALSE, started |-> 0, elapsed |-> 0, awakeAt |-> now]

\* resetWifiOutageTracking()
ResetTracking(o, now) == IF o.active THEN NoOutage(now) ELSE o
ResetWrites(o) ==
    When(o.active, <<Write("active", FALSE), Write("started", 0),
                     Write("elapsed", 0), Write("sleep", 0)>>)

\* beginWifiOutageTracking()
BeginTracking(o, now, clockValid) ==
    IF o.active THEN o
    ELSE [active |-> TRUE, started |-> IF clockValid THEN now ELSE 0,
          elapsed |-> 0, awakeAt |-> now]
BeginWrites(o, now, clockValid) ==
    When(~o.active, <<Write("active", TRUE), Write("started", IF clockValid THEN now ELSE 0),
                      Write("elapsed", 0), Write("sleep", 0)>>)

\* Mutant: the awake time is taken the wrong way round.
CheckpointedBackwards(o, now) ==
    IF o.active /\ now > o.awakeAt
    THEN [o EXCEPT !.elapsed = @ + (o.awakeAt - now), !.awakeAt = now]
    ELSE o

\* checkpointWifiOutageAwakeTime()
Checkpointed(o, now) ==
    IF o.active /\ now > o.awakeAt
    THEN [o EXCEPT !.elapsed = @ + (now - o.awakeAt), !.awakeAt = now]
    ELSE o
CheckpointWrites(o, now) ==
    When(o.active /\ now > o.awakeAt, <<Write("elapsed", Checkpointed(o, now).elapsed)>>)

\* currentWifiOutageDurationSeconds()
OutageDuration(o, now, clockValid) ==
    IF ~o.active THEN 0
    ELSE IF o.started # 0 /\ clockValid /\ now >= o.started THEN now - o.started
    ELSE o.elapsed + (now - o.awakeAt)

\* wifiOutageProvisioningThresholdReached(): the answer precedes the checkpoint,
\* which a timer check makes every half hour and the deadline of a cycle always.
ThresholdReached(o, now, clockValid) ==
    OutageDuration(BeginTracking(o, now, clockValid), now, clockValid)
        >= WIFI_OUTAGE_BEFORE_PROVISIONING

Evaluated(o, now, clockValid, progressDue) ==
    LET begun == BeginTracking(o, now, clockValid)
    IN  IF progressDue THEN Checkpointed(begun, now) ELSE begun
EvaluationWrites(o, now, clockValid, progressDue) ==
    BeginWrites(o, now, clockValid)
        \o When(progressDue, CheckpointWrites(BeginTracking(o, now, clockValid), now))

\* enterTimedDeepSleep(): the part about the outage, for a sleep of d ticks.
SleepWrites(o, now, d) ==
    CheckpointWrites(o, now) \o When(o.active, <<Write("sleep", d)>>)

\* Mutant: a sleep counts whatever ended it.
SleptHoweverEnded(keys, timerWake) == IF keys.active THEN keys.sleep ELSE 0

\* setup(): the planned sleep counts only if the timer ended it.
Slept(keys, timerWake) == IF keys.active /\ timerWake THEN keys.sleep ELSE 0

Restored(keys, now, timerWake) ==
    [active |-> keys.active, started |-> keys.started,
     elapsed |-> keys.elapsed + Slept(keys, timerWake), awakeAt |-> now]
RestoreWrites(keys, timerWake) ==
    <<Write("sleep", 0)>>
        \o When(Slept(keys, timerWake) > 0,
                <<Write("elapsed", keys.elapsed + Slept(keys, timerWake))>>)
=============================================================================
