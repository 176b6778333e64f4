SPECIFICATION Spec
CONSTANT MaxWorkers = 4
INVARIANTS
    NullMeansStopped
CHECK_DEADLOCK FALSE
