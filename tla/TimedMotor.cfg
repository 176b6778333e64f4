SPECIFICATION FairSpec
CONSTANTS
    Durations <- MCDurations
    Compositions <- MCCompositions
    MaxGeneration = 4
INVARIANTS
    TypeOK
    CarrierUnderControl
    RequestPlays
PROPERTIES
    NeverEarly
    ImplementsContract
    NothingLingers
CHECK_DEADLOCK FALSE
