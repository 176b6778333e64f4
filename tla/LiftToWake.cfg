SPECIFICATION FairLiftSpec
CONSTANTS
    ArmDelay = 2
    MaxTime = 7
    MaxQueue = 2
INVARIANTS
    LiftTypeOK
PROPERTIES
    WakesAreMeant
    RaiseWakes
CHECK_DEADLOCK FALSE
