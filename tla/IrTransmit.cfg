SPECIFICATION Spec
CONSTANTS
    Callers = {c1, c2}
    NoCaller = NoCaller
    Carriers = {20000, 36000, 37000, 37001, 39000}
    Durations = {0, 1, 3}
    MaxLength = 6
    kLircBufferSize = 4
    kLircMaxDuration = 5
    kMaxTransmitDuration = 7
INVARIANTS
    TypeOK
    SentWhole
PROPERTIES
    GapKept
