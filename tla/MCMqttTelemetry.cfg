SPECIFICATION LiveSpec
CONSTANTS
    TimeHalfRange = 4
    INITIAL_RECONNECT_BACKOFF = 1
    MAX_RECONNECT_BACKOFF = 2
    RecordSequences = {7, 8}
    MaxPackets = 2
    MaxDisables = 1
    MaxUptime = 15
INVARIANTS
    TypeOK
    AcknowledgedMeansPuback
    NoLostPuback
    NothingUntracked
PROPERTIES
    ReconnectsEventually
