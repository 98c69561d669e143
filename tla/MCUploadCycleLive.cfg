SPECIFICATION LiveSpec
CONSTANTS
    Capacity = 2
    MAX_RECORD_UPLOADS_PER_CYCLE = 2
    Modes = {"BLYNK_ONLY", "BOTH"}
    Commands = {"mqtt", "stay awake"}
    Faults = {"acknowledge"}
    MaxCycles = 1
    MaxInFlight = 0
PROPERTIES
    CycleEnds
\* The last of MaxCycles cycles ends in a sleep without a wake.
CHECK_DEADLOCK FALSE
