SPECIFICATION FairSpec
CONSTANTS
    MaxRetries = 1
    MaxChanges = 3
    FirstSettings = {{}, {"doubleTap", "fingerprint", "lift"}}
INVARIANTS
    SyncTypeOK
    FollowsAtRest
    GivesUpLate
PROPERTIES
    Settles
CHECK_DEADLOCK FALSE
