SPECIFICATION Spec
CONSTANTS
    Capacity = 2
    MAX_RECORD_UPLOADS_PER_CYCLE = 2
    Modes = {"BLYNK_ONLY", "MQTT_ONLY", "BOTH"}
    Commands = {"mqtt", "offline clear", "stay awake"}
    Faults = {"acknowledge"}
    MaxCycles = 2
    MaxInFlight = 0
PROPERTIES
    DeliveredBeforeRemoved
\* The last of MaxCycles cycles ends in a sleep without a wake.
CHECK_DEADLOCK FALSE
