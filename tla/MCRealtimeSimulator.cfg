SPECIFICATION FairSpec
CONSTANTS
    Delays = {0, 5}
    StartTime = 20
    Idle = 4
    HeadStart = 3
    MaxTicks = 6
    MaxEvents = 3
    MaxRuns = 1
INVARIANTS NeverEarly NoLostWakeup
PROPERTIES DueIsRun ImplementsContract
CHECK_DEADLOCK FALSE
