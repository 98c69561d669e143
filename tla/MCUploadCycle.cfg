SPECIFICATION Spec
CONSTANTS
    Capacity = 3
    MAX_RECORD_UPLOADS_PER_CYCLE = 2
    Modes = {"BLYNK_ONLY"}
    Commands = {"offline clear", "stay awake"}
    Faults = {"mount", "acknowledge", "rewrite"}
    MaxCycles = 4
    MaxInFlight = 1
INVARIANTS
    TypeOK
    UploadTracksPending
    WithinUploadLimit
PROPERTIES
    OldestFirst
    DeliveredBeforeRemoved
\* The last of MaxCycles cycles ends in a sleep without a wake.
CHECK_DEADLOCK FALSE
