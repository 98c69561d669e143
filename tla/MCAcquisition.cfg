SPECIFICATION Spec
CONSTANTS
    Distances = {200, 259, 1279, 5000}
    Noise = {255, 1}
    Heights = {3000, 4000}
    A02YYUW_DISCARD_SAMPLES = 1
    A02YYUW_MIN_VALID_SAMPLES = 3
    MAD_MIN_SAMPLES = 3
    A02YYUW_SAMPLE_CAPACITY = 4
    TRIM_SHARE = 4
    MaxFrames = 6
    MaxFaults = 2
INVARIANTS
    TypeOK
    StraysNeedFaults
    FindsHeader
    DistanceWasSent
    
    DatumIsInForce
