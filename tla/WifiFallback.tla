---------------------------- MODULE WifiFallback ----------------------------
(***************************************************************************)
(* The fallback from a lost Wi-Fi to the provisioning portal and back:     *)
(* WifiOutage and Provisioning composed as main.cpp composes them, in the  *)
(* handlers of the loop task, with Blynk.Edgent's state machine, the user  *)
(* of the portal, the access points, deep sleep and resets around them.    *)
(*                                                                         *)
(* A handler is one action that ends in one of three ways: all its NVS     *)
(* writes are done, one of them fails (the code goes on), or power is lost *)
(* after some of them.  The last two are faults, of which a behaviour has  *)
(* at most MaxFaults; a reset or a power loss between handlers is none.    *)
(*                                                                         *)
(* WiFi.status() is read by each handler and either answer is possible.    *)
(***************************************************************************)
EXTENDS WifiOutage, Provisioning

CONSTANTS
    Genuine,         \* the networks that exist: other credentials never connect
    Installed,       \* the networks that a device may have worked with before
    SleepLengths,    \* possible lengths of a deep sleep
    MqttOnly,        \* the telemetry mode is MQTT_ONLY
    MaxTime,         \* bound: length of a behaviour
    MaxFaults,       \* bound: torn handlers and failing writes
    MaxSubmissions,  \* bound: configurations submitted through the portal
    MaxResets        \* bound: explicit resets with the button

ASSUME FallbackAssumption ==
    /\ "none" \notin Networks /\ Genuine \subseteq Networks
    /\ Installed \subseteq Genuine
    /\ SleepLengths \subseteq Nat \ {0}
    /\ MqttOnly \in BOOLEAN
    /\ MaxTime \in Nat /\ MaxFaults \in Nat /\ MaxSubmissions \in Nat /\ MaxResets \in Nat

VARIABLES
    power,           \* "on", "asleep" or "off"
    now, wakeAt,     \* the time, and when the timer ends the sleep
    clockValid,      \* the wall clock has been synchronised since the last power loss
    nvs,             \* the keys of both parts
    outage, prov,    \* the variables in RAM of both parts
    uploaded,        \* cycleUploaded
    timedOut,        \* edgentConnectTimedOut
    stayAwake,       \* deepSleepDisabled, kept in NVS
    seenAt,          \* history: when the firmware last found the Wi-Fi connected
    verified,        \* history: networks that worked since the last explicit reset, as
                     \* soon as one of them was saved as the last-known-good one
    faults, submissions, resets

clock == <<now, wakeAt>>
history == <<seenAt, verified>>
world == <<stayAwake, submissions, resets>>
vars == <<power, clock, clockValid, nvs, outage, prov, uploaded, timedOut, history, world,
          faults>>

Portal == {"WAIT_CONFIG", "CONFIGURING"}
Mode == Portal \cup {"SWITCH_TO_STA", "CONNECTING_NET", "CONNECTING_CLOUD", "LOGGED_IN",
                     "RUNNING", "ERROR", "RESET_CONFIG"}
On == power = "on"
Online == prov.mode = "RUNNING" /\ ~timedOut

-----------------------------------------------------------------------------
(***************************************************************************)
(* How a handler ends                                                      *)
(***************************************************************************)
\* Writes that are only cut short: Edgent's own, and the recovery marker, whose
\* failure the code reports and which nothing replaces.
Unfailing == {"blynk", "marker"}

RamLost ==
    /\ outage' = NoOutage(0) /\ prov' = Unprovisioned
    /\ uploaded' = FALSE /\ timedOut' = FALSE

\* Power is lost or the chip is reset; only the former stops the wall clock.
Dies ==
    /\ power' = "off" /\ wakeAt' = 0
    /\ clockValid' \in {clockValid, FALSE}
    /\ RamLost

Stored(writes) ==
    \/ nvs' = Written(nvs, writes) /\ UNCHANGED faults
    \/ /\ faults < MaxFaults /\ faults' = faults + 1
       /\ nvs' \in OneFailed(nvs, writes, Unfailing)

Torn(writes) ==
    /\ faults < MaxFaults /\ faults' = faults + 1
    /\ nvs' \in CutShort(nvs, writes)
    /\ Dies
    /\ UNCHANGED now

\* A handler that leaves its variables so and makes these writes.
Handles(o, p, isUploaded, isTimedOut, writes) ==
    \/ /\ outage' = o /\ prov' = p
       /\ uploaded' = isUploaded /\ timedOut' = isTimedOut
       /\ Stored(writes)
       /\ UNCHANGED <<power, clock, clockValid>>
    \/ Torn(writes)

Serves(o, p, writes) == Handles(o, p, uploaded, timedOut, writes)

\* Power that is lost before the first write of the reset leaves the Wi-Fi unseen.
WifiIsSeen == seenAt' = IF power' = "on" \/ ~nvs'.active THEN now ELSE seenAt

-----------------------------------------------------------------------------
(***************************************************************************)
(* The outage of the Wi-Fi                                                 *)
(***************************************************************************)
\* serviceSuccessfulWifiConnection(), called by loop() and by the 1 s timer.
ServiceSuccessfulWifiConnection ==
    /\ On
    /\ Serves(ResetTracking(outage, now), prov, ResetWrites(outage))
    /\ WifiIsSeen
    /\ UNCHANGED <<verified, world>>

\* SNTP, while the Wi-Fi is connected.
NetworkTime ==
    /\ On /\ seenAt = now /\ ~clockValid
    /\ clockValid' = TRUE
    /\ UNCHANGED <<power, clock, nvs, outage, prov, uploaded, timedOut, history, world, faults>>

\* Both checks of the threshold: then is what a check that does not reach it does.
CheckOutage(progressDue, then, isTimedOut) ==
    LET o == Evaluated(outage, now, clockValid, progressDue)
        writes == EvaluationWrites(outage, now, clockValid, progressDue)
    IN  IF ThresholdReached(outage, now, clockValid)
        THEN Handles(o, EnterFallback(prov), uploaded, FALSE,
                     writes \o EnterFallbackWrites(nvs, prov))
        ELSE Handles(o, then, uploaded, isTimedOut, writes)

\* serviceStayAwakeWifiProvisioningFallback(), the Wi-Fi being down.
ServiceStayAwakeWifiProvisioningFallback ==
    /\ On /\ stayAwake /\ ~prov.requested /\ prov.config.valid
    /\ prov.mode \in {"CONNECTING_NET", "ERROR"}
    /\ \E progressDue \in BOOLEAN : CheckOutage(progressDue, prov, timedOut)
    /\ UNCHANGED <<history, world>>

\* abortEdgentConnectionForThisCycle(): the deadline of the cycle, or MODE_ERROR.
AbortEdgentConnectionForThisCycle ==
    /\ On /\ prov.started /\ ~stayAwake /\ ~uploaded /\ ~timedOut /\ ~prov.requested
    /\ LET running == [prov EXCEPT !.mode = IF @ \in Portal \cup {"CONNECTING_NET",
                                                       "CONNECTING_CLOUD"}
                                            THEN "RUNNING" ELSE @]
       IN  \/ CheckOutage(TRUE, running, TRUE) /\ UNCHANGED history
           \/ /\ Handles(ResetTracking(outage, now), running, uploaded, TRUE,
                         ResetWrites(outage))
              /\ WifiIsSeen /\ UNCHANGED verified
    /\ UNCHANGED world

-----------------------------------------------------------------------------
(***************************************************************************)
(* The cycle, as far as it decides when the device sleeps                  *)
(***************************************************************************)
\* The destinations are served, or MQTT's deadline has passed in the loop.
UploadFinishes ==
    /\ On /\ prov.started /\ ~uploaded /\ ~timedOut
    /\ Online \/ MqttOnly
    /\ uploaded' = TRUE
    /\ UNCHANGED <<power, clock, clockValid, nvs, outage, prov, timedOut, history, world,
                   faults>>

\* startNormalMeasurementCycle() for the next slot of a device that is awake.
StartNormalMeasurementCycle ==
    /\ On /\ prov.started
    /\ stayAwake \/ prov.fallback
    /\ uploaded \/ timedOut
    /\ uploaded' = FALSE /\ timedOut' = FALSE
    /\ UNCHANGED <<power, clock, clockValid, nvs, outage, prov, history, world, faults>>

\* Where loop() calls enterTimedDeepSleep(), and what that refuses.
LoopSleeps ==
    /\ uploaded \/ timedOut
    /\ prov.mode \notin {"RESET_CONFIG", "LOGGED_IN"}
    /\ prov.requested => prov.mode \notin Portal \cup {"SWITCH_TO_STA", "ERROR"}

EnterTimedDeepSleep ==
    /\ On /\ prov.started /\ ~stayAwake /\ LoopSleeps
    /\ \E d \in SleepLengths :
           LET writes == SleepWrites(outage, now, d)
           IN  \/ /\ power' = "asleep" /\ wakeAt' = now + d
                  /\ RamLost /\ Stored(writes)
                  /\ UNCHANGED <<now, clockValid>>
               \/ Torn(writes)
    /\ UNCHANGED <<history, world>>

\* BLYNK_WRITE(V17)
SetDeepSleepDisabled ==
    /\ On /\ Online
    /\ stayAwake' = ~stayAwake
    /\ UNCHANGED <<power, clock, clockValid, nvs, outage, prov, uploaded, timedOut, history,
                   submissions, resets, faults>>

-----------------------------------------------------------------------------
(***************************************************************************)
(* Time, the power and the start                                           *)
(***************************************************************************)
\* The code reads the time only while it does not provision.
Tick ==
    /\ now < MaxTime
    /\ power = "asleep" => now < wakeAt
    /\ On => ~prov.requested
    /\ now' = now + 1
    /\ UNCHANGED <<power, wakeAt, clockValid, nvs, outage, prov, uploaded, timedOut, history,
                   world, faults>>

PowerLossOrReset ==
    /\ power # "off"
    /\ Dies
    /\ UNCHANGED <<now, nvs, history, world, faults>>

\* setup()
Setup ==
    /\ power = "off" \/ (power = "asleep" /\ now = wakeAt)
    /\ LET timerWake == power = "asleep"
           writes == RestoreWrites(nvs, timerWake) \o BootWrites(nvs)
       IN  \/ /\ power' = "on" /\ wakeAt' = 0
              /\ outage' = Restored(nvs, now, timerWake) /\ prov' = Booted(nvs)
              /\ Stored(writes)
              /\ UNCHANGED <<now, clockValid, uploaded, timedOut>>
           \/ Torn(writes)
    /\ UNCHANGED <<history, world>>

-----------------------------------------------------------------------------
(***************************************************************************)
(* Provisioning                                                            *)
(***************************************************************************)
Provisions(p, writes) ==
    /\ On /\ ~timedOut
    /\ Serves(outage, p, writes)
    /\ UNCHANGED <<history, world>>

\* serviceSavedWifiRecovery(), called by the 1 s timer.
SavedWifiRestores ==
    /\ prov.fallback /\ prov.requested /\ ~prov.config.valid
    /\ prov.mode \in {"ERROR", "WAIT_CONFIG"}
    /\ Provisions(RestoreSaved(nvs, prov), RestoreSavedWrites(nvs, prov))

\* Mutant: an attached portal client suspends the recovery.
SavedWifiBeginsWithoutClient ==
    /\ prov.fallback /\ prov.requested /\ prov.config.valid
    /\ prov.mode = "WAIT_CONFIG" /\ prov.recovery = "IDLE"
    /\ Provisions([prov EXCEPT !.recovery = "CONNECTING"], <<>>)

SavedWifiBegins ==
    /\ prov.fallback /\ prov.requested /\ prov.config.valid
    /\ prov.mode \in Portal /\ prov.recovery = "IDLE"
    /\ Provisions([prov EXCEPT !.recovery = "CONNECTING"], <<>>)

SavedWifiConnects ==
    /\ On /\ prov.recovery = "CONNECTING" /\ prov.mode \in Portal
    /\ prov.config.network \in Genuine
    /\ Serves(ResetTracking(outage, now), Recovered(prov),
              MarkerWrites(nvs, FALSE) \o ResetWrites(outage))
    /\ WifiIsSeen
    /\ UNCHANGED <<verified, world>>

SavedWifiTimesOut ==
    /\ prov.recovery = "CONNECTING"
    /\ Provisions([prov EXCEPT !.recovery = "IDLE"], <<>>)

\* The branch of loop() for MODE_ERROR, where it does not end in a sleep.
ModeError ==
    /\ prov.started /\ prov.mode = "ERROR"
    /\ \/ /\ prov.requested /\ prov.fallback
          /\ Provisions(RestoreSaved(nvs, prov), RestoreSavedWrites(nvs, prov))
       \/ /\ prov.requested /\ ~prov.fallback
          /\ Provisions([prov EXCEPT !.mode = "RESET_CONFIG"], <<>>)
       \/ /\ ~prov.requested /\ stayAwake
          /\ Provisions([prov EXCEPT !.mode = "CONNECTING_NET"], <<>>)

\* The branch for MODE_RESET_CONFIG; without a first cycle only Edgent's part.
ModeResetConfig ==
    /\ On /\ ~timedOut /\ prov.mode = "RESET_CONFIG"
    /\ IF prov.started THEN Serves(outage, ExplicitReset(prov), ExplicitResetWrites(nvs))
       ELSE Serves(outage, [prov EXCEPT !.config = NoConfig, !.mode = "WAIT_CONFIG"],
                   ConfigWrites(NoConfig))
    /\ verified' = {}
    /\ UNCHANGED <<seenAt, world>>

\* The branch for a device without a first cycle, once Edgent has a configuration.
FirstCycle ==
    /\ ~prov.started /\ prov.config.valid
    /\ Provisions([prov EXCEPT !.started = TRUE], <<>>)

-----------------------------------------------------------------------------
(***************************************************************************)
(* External: Blynk.Edgent and its user                                     *)
(***************************************************************************)
ButtonReset ==
    /\ On /\ ~timedOut /\ resets < MaxResets
    /\ prov.mode \notin {"RESET_CONFIG", "LOGGED_IN"}
    /\ prov' = [prov EXCEPT !.mode = "RESET_CONFIG"]
    /\ resets' = resets + 1
    /\ UNCHANGED <<power, clock, clockValid, nvs, outage, uploaded, timedOut, history,
                   stayAwake, submissions, faults>>

\* The 1 s timer restores a refused candidate before a client can be attached to the
\* access point that is opened again.
PortalServes == prov.mode \in Portal /\ ~(prov.fallback /\ ~prov.config.valid)

\* Clients come and go.
PortalClient ==
    /\ PortalServes
    /\ \E mode \in Portal \ {prov.mode} : Provisions([prov EXCEPT !.mode = mode], <<>>)

\* The user may ask Edgent to save the candidate before it is proven usable.
PortalSubmits ==
    /\ On /\ ~timedOut /\ PortalServes /\ submissions < MaxSubmissions
    /\ submissions' = submissions + 1
    /\ \E network \in Networks, forced \in BOOLEAN :
           LET candidate == [network |-> network, valid |-> forced]
           IN  Serves(outage, [prov EXCEPT !.config = candidate, !.mode = "SWITCH_TO_STA",
                                           !.recovery = "IDLE"],
                      When(forced, ConfigWrites(candidate)))
    /\ UNCHANGED <<history, stayAwake, resets>>

\* The state machine when a connection fails: a candidate is replaced by the
\* defaults, which may be saved.  A candidate's token may be refused; the one of
\* a configuration that was saved is assumed good.
EdgentFails(mode) ==
    IF prov.config.valid THEN Provisions([prov EXCEPT !.mode = mode], <<>>)
    ELSE \E saved \in BOOLEAN :
             Provisions([prov EXCEPT !.config = NoConfig, !.mode = mode],
                        When(saved, ConfigWrites(NoConfig)))

EdgentSwitches ==
    /\ prov.mode = "SWITCH_TO_STA"
    /\ Provisions([prov EXCEPT !.mode = "CONNECTING_NET"], <<>>)

EdgentJoinsNetwork ==
    /\ prov.mode = "CONNECTING_NET" /\ prov.config.network \in Genuine
    /\ Provisions([prov EXCEPT !.mode = "CONNECTING_CLOUD"], <<>>)

EdgentGivesUp ==
    \/ prov.mode \in {"CONNECTING_NET", "CONNECTING_CLOUD"} /\ EdgentFails("ERROR")
    \/ prov.mode = "CONNECTING_CLOUD" /\ ~prov.config.valid /\ EdgentFails("WAIT_CONFIG")

EdgentLoses ==
    \/ /\ prov.mode \in {"CONNECTING_CLOUD", "RUNNING"}
       /\ Provisions([prov EXCEPT !.mode = "CONNECTING_NET"], <<>>)
    \/ /\ prov.mode = "RUNNING"
       /\ Provisions([prov EXCEPT !.mode = "CONNECTING_CLOUD"], <<>>)

\* The backup holds the network that works; from then on all that work are counted.
Counted(network) ==
    IF verified # {} \/ nvs'.backup = Valid(network) THEN verified \cup {network} ELSE verified

\* BLYNK_CONNECTED.  The first configuration counts once Edgent has stored it.
BlynkConnected ==
    /\ On /\ ~timedOut
    /\ prov.mode = "CONNECTING_CLOUD"
    /\ Serves(ResetTracking(outage, now), BlynkLoggedIn(prov),
              BlynkLoggedInWrites(nvs, prov) \o ResetWrites(outage))
    /\ WifiIsSeen
    /\ verified' = IF prov.config.valid \/ verified # {}
                   THEN Counted(prov.config.network) ELSE verified
    /\ UNCHANGED world

\* Edgent stores a candidate that has worked.
EdgentRuns ==
    /\ On /\ prov.mode = "LOGGED_IN"
    /\ LET config == Valid(prov.config.network)
       IN  /\ Serves(outage, [prov EXCEPT !.config = config, !.mode = "RUNNING"],
                     When(~prov.config.valid, ConfigWrites(config)))
           /\ verified' = IF power' = "on" THEN Counted(config.network) ELSE verified
    /\ UNCHANGED <<seenAt, world>>

-----------------------------------------------------------------------------
\* The keys of the outage, the recovery marker, the last-known-good backup and Blynk's
\* configuration, as nothing or the cycles with one network have left them.
Keys(config) == [active |-> FALSE, started |-> 0, elapsed |-> 0, sleep |-> 0,
                 marker |-> FALSE, backup |-> config, blynk |-> config]

\* A device as it is shipped, or one that has worked with its network.
Init ==
    /\ power = "off" /\ now = 1 /\ wakeAt = 0 /\ clockValid = FALSE
    /\ outage = NoOutage(0) /\ prov = Unprovisioned
    /\ uploaded = FALSE /\ timedOut = FALSE
    /\ stayAwake \in BOOLEAN
    /\ \/ verified = {} /\ nvs = Keys(NoConfig)
       \/ \E network \in Installed : verified = {network} /\ nvs = Keys(Valid(network))
    /\ seenAt = 1
    /\ faults = 0 /\ submissions = 0 /\ resets = 0

Next ==
    \/ ServiceSuccessfulWifiConnection \/ NetworkTime
    \/ ServiceStayAwakeWifiProvisioningFallback \/ AbortEdgentConnectionForThisCycle
    \/ UploadFinishes \/ StartNormalMeasurementCycle \/ EnterTimedDeepSleep
    \/ SetDeepSleepDisabled
    \/ Tick \/ PowerLossOrReset \/ Setup
    \/ SavedWifiRestores \/ SavedWifiBegins \/ SavedWifiConnects \/ SavedWifiTimesOut
    \/ ModeError \/ ModeResetConfig \/ FirstCycle
    \/ ButtonReset \/ PortalClient \/ PortalSubmits
    \/ EdgentSwitches \/ EdgentJoinsNetwork \/ EdgentGivesUp \/ EdgentLoses
    \/ BlynkConnected \/ EdgentRuns

Spec == Init /\ [][Next]_vars

\* What the loop, its timers and Edgent do next in a state that does not last.
Proceeds ==
    \/ SavedWifiRestores \/ ModeError \/ ModeResetConfig \/ FirstCycle
    \/ EdgentSwitches \/ EdgentJoinsNetwork \/ EdgentGivesUp

\* The device starts again and its loop and timers run; between resets the saved
\* network and the cloud answer again and again.
LiveSpec ==
    /\ Spec
    /\ WF_vars(Setup) /\ WF_vars(Proceeds)
    /\ SF_vars(SavedWifiBegins) /\ SF_vars(SavedWifiConnects) /\ SF_vars(BlynkConnected)

-----------------------------------------------------------------------------
TypeOK ==
    /\ power \in {"on", "asleep", "off"}
    /\ now \in Nat /\ wakeAt \in Nat /\ clockValid \in BOOLEAN
    /\ outage \in [active : BOOLEAN, started : Nat, elapsed : Nat, awakeAt : Nat]
    /\ prov \in [config : Config, good : Config, requested : BOOLEAN, fallback : BOOLEAN,
                 mode : Mode, recovery : {"IDLE", "CONNECTING"}, started : BOOLEAN]
    /\ nvs \in [active : BOOLEAN, started : Nat, elapsed : Nat, sleep : Nat,
                marker : BOOLEAN, backup : Config, blynk : Config]
    /\ uploaded \in BOOLEAN /\ timedOut \in BOOLEAN
    /\ stayAwake \in BOOLEAN
    /\ seenAt \in Nat /\ verified \subseteq Networks
    /\ faults \in 0 .. MaxFaults
    /\ submissions \in 0 .. MaxSubmissions /\ resets \in 0 .. MaxResets

\* The portal does not open before the Wi-Fi has been away for four hours, whatever
\* resets, early wakes, lost clocks and torn checkpoints came in between.
NeverEarly ==
    [][~prov.fallback /\ On /\ prov'.fallback /\ power' = "on"
           => now - seenAt >= WIFI_OUTAGE_BEFORE_PROVISIONING]_vars

\* The next start finds credentials that worked, whenever the power is lost: no
\* candidate of the portal takes their place before it has worked itself.
BootFindsVerified ==
    verified # {} => ConfigAtBoot(nvs).valid /\ ConfigAtBoot(nvs).network \in verified

\* The fallback of a device that has worked ends, whatever clients are attached to the
\* portal: the saved network or a new one takes over, or the user resets the device.
FallbackEnds == (nvs.marker /\ verified # {}) ~> ~nvs.marker

\* The device does not fall asleep while it waits for a configuration.
StaysAwakeToProvision == [][On /\ prov.requested => power' # "asleep"]_vars
=============================================================================
