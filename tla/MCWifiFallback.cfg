SPECIFICATION LiveSpec
CONSTANTS
    WIFI_OUTAGE_BEFORE_PROVISIONING = 2
    Networks = {"old", "new", "wrong"}
    Genuine = {"old", "new"}
    Installed = {"old"}
    SleepLengths = {1, 2}
    MqttOnly = FALSE
    MaxTime = 3
    MaxFaults = 1
    MaxSubmissions = 1
    MaxResets = 1
INVARIANTS
    TypeOK
    BootFindsVerified
PROPERTIES
    NeverEarly
    FallbackEnds
