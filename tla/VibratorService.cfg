SPECIFICATION FairSpec
CONSTANTS
    Scale = 512
    Amplitudes <- MCAmplitudes
    Compositions <- MCCompositions
INVARIANTS
    TypeOK
    HeardAsAsked
PROPERTIES
    CrashSilences
