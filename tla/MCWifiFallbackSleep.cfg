SPECIFICATION Spec
CONSTANTS
    WIFI_OUTAGE_BEFORE_PROVISIONING = 2
    Networks = {"old", "new"}
    Genuine = {"old", "new"}
    Installed = {"old"}
    SleepLengths = {1}
    MqttOnly = FALSE
    MaxTime = 3
    MaxFaults = 0
    MaxSubmissions = 1
    MaxResets = 1
PROPERTIES
    StaysAwakeToProvision
