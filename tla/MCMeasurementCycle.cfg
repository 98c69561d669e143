SPECIFICATION Spec
CONSTANTS
    Intervals = {4, 6}
    Acquisition = 2
    GUARD = 2
    MINIMUM_SLEEP = 2
    Drifts <- TimerDrifts
    Errors <- NtpErrors
    Epochs = {15}
    MaxTime = 25
    MaxDisturbances = 2
INVARIANTS
    TypeOK
    AwakeMeasuresAgain
PROPERTIES
    NoSlotTwice
    AcquisitionCompletes
    NoUploadWhileAcquiring
    DatedWhenMeasured
    WakesAtNextSlot
\* At MaxTime nothing more happens to a device that sleeps.
CHECK_DEADLOCK FALSE
