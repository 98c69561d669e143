SPECIFICATION MCSpec
CONSTANTS
    HalfRange = 8
    Capacity = 4
    Masks <- DualMasks
    MaxDropped = 2
INVARIANTS
    TypeOK
    Contiguous
    DeliveredInOrder
    CursorFindsPending
