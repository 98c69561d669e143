---------------------------- MODULE Provisioning ----------------------------
(***************************************************************************)
(* Automatic provisioning and the recovery of the saved Wi-Fi in           *)
(* src/main.cpp: what each function does to the variables in RAM, p, and   *)
(* the NVS writes that it makes, in their order.  WifiFallback calls them. *)
(*                                                                         *)
(* A configuration is a network (its credentials and cloud token) and the  *)
(* flag CONFIG_FLAG_VALID.  Blynk.Edgent is external: its modes are the    *)
(* ones that main.cpp names, and LOGGED_IN is the part of                  *)
(* MODE_CONNECTING_CLOUD after BLYNK_CONNECTED, before Edgent stores the   *)
(* configuration and goes to MODE_RUNNING.                                 *)
(***************************************************************************)
EXTENDS Preferences

CONSTANT Networks      \* what a user may submit; "none" is no network

NoConfig == [network |-> "none", valid |-> FALSE]
Valid(network) == [network |-> network, valid |-> TRUE]
Config == {NoConfig} \cup [network : Networks, valid : BOOLEAN]

\* config: configStore.  good: fallbackSavedConfig, NoConfig if it is not available.
\* requested, fallback: provisioningRequested and fallbackProvisioningActive.
\* recovery: savedWifiRecoveryState.  started: normalCycleStarted.
Unprovisioned == [config |-> NoConfig, good |-> NoConfig, requested |-> FALSE,
                  fallback |-> FALSE, mode |-> "WAIT_CONFIG", recovery |-> "IDLE",
                  started |-> FALSE]

\* persistAutomaticWifiRecovery(): the copy in RAM always is the key.
MarkerWrites(keys, active) == When(keys.marker # active, <<Write("marker", active)>>)

\* saveLastKnownGoodConfig()
SaveGoodWrites(keys, config, replaceExisting) ==
    LET saved == [config EXCEPT !.valid = TRUE]
    IN  When(/\ config.network # "none"
             /\ keys.backup # saved
             /\ keys.backup = NoConfig \/ replaceExisting,
             <<Write("backup", saved)>>)

\* config_save(), which is Edgent's.
ConfigWrites(config) == <<Write("blynk", config)>>

\* enterProvisioningFallback()
EnterFallback(p) ==
    [p EXCEPT !.good = IF ~p.fallback /\ p.config.valid THEN p.config ELSE @,
              !.requested = TRUE, !.fallback = TRUE,
              !.mode = "WAIT_CONFIG", !.recovery = "IDLE"]
EnterFallbackWrites(keys, p) ==
    When(~p.fallback /\ p.config.valid, SaveGoodWrites(keys, p.config, FALSE))
        \o MarkerWrites(keys, TRUE)

\* restoreFallbackSavedConfig()
SavedConfig(keys, p) == IF p.good # NoConfig THEN p.good ELSE keys.backup
RestoreSaved(keys, p) ==
    LET saved == SavedConfig(keys, p)
    IN  IF saved = NoConfig THEN p
        ELSE [p EXCEPT !.config = saved, !.good = saved,
                       !.mode = "WAIT_CONFIG", !.recovery = "IDLE"]
RestoreSavedWrites(keys, p) ==
    When(SavedConfig(keys, p) # NoConfig, ConfigWrites(SavedConfig(keys, p)))

\* serviceSavedWifiRecovery(): the saved network answered.
Recovered(p) ==
    [p EXCEPT !.requested = FALSE, !.fallback = FALSE, !.good = NoConfig,
              !.mode = "CONNECTING_CLOUD", !.recovery = "IDLE"]

\* BLYNK_CONNECTED
BlynkLoggedIn(p) ==
    [p EXCEPT !.requested = FALSE, !.fallback = FALSE,
              !.good = IF p.requested THEN NoConfig ELSE @,
              !.recovery = IF p.requested THEN "IDLE" ELSE @,
              !.mode = "LOGGED_IN"]
BlynkLoggedInWrites(keys, p) ==
    MarkerWrites(keys, FALSE) \o SaveGoodWrites(keys, p.config, TRUE)

\* The branch of loop() for MODE_RESET_CONFIG, and Edgent's config_reset.
ExplicitReset(p) ==
    [p EXCEPT !.config = NoConfig, !.good = NoConfig, !.requested = TRUE,
              !.fallback = FALSE, !.mode = "WAIT_CONFIG"]
ExplicitResetWrites(keys) ==
    MarkerWrites(keys, FALSE) \o <<Write("backup", NoConfig)>> \o ConfigWrites(NoConfig)

\* Mutant: the recovery marker is not looked at.
BlynkConfigAtBoot(keys) == keys.blynk

\* setup(): with the marker set, the backup is what counts.
ConfigAtBoot(keys) ==
    IF keys.marker /\ keys.backup # NoConfig THEN keys.backup ELSE keys.blynk

BootWrites(keys) ==
    LET config == ConfigAtBoot(keys)
    IN  When(config # keys.blynk, ConfigWrites(config))
            \o When(keys.backup = NoConfig /\ ~config.valid, MarkerWrites(keys, FALSE))
            \o When(config.valid, SaveGoodWrites(keys, config, FALSE))

Booted(keys) ==
    LET config == ConfigAtBoot(keys)
        fallback == keys.marker /\ config.valid
    IN  [config |-> config, good |-> IF config.valid THEN config ELSE NoConfig,
         requested |-> ~config.valid \/ fallback, fallback |-> fallback,
         mode |-> IF config.valid /\ ~fallback THEN "CONNECTING_NET" ELSE "WAIT_CONFIG",
         recovery |-> "IDLE", started |-> config.valid]
=============================================================================
