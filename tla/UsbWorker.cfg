SPECIFICATION FairSpec
CONSTANT MaxWorkers = 5
INVARIANTS
    OneWorker
    LeftIfTooSoon
PROPERTIES
    ConfiguredFirst
    JoinReturns
CHECK_DEADLOCK FALSE
