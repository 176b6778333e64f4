SPECIFICATION FairSpec
CONSTANTS
    WaitTicks = 2
    MaxSwitches = 2
    MaxChanges = 4
    MaxSpurious = 1
INVARIANTS
    FairSwitch
    OrphanExplained
    FrameworkUpToDate
PROPERTIES
    SwitchReturns
CHECK_DEADLOCK FALSE
