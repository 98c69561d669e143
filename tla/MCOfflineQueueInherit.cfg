SPECIFICATION Spec
CONSTANTS
    HalfRange = 8
    GenerationHalfRange = 2
    Capacity = 2
    Masks <- DualMasks
    Torn = Torn
    AgedSequence = 14
    MaxIssued = 3
INVARIANTS
    NoInheritedCursor
