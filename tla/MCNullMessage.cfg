SPECIFICATION FairSpec
CONSTANTS
    Ranks = {0, 1, 2}
    Links <- Line
    Tune = 100
    Starters = {0}
    StopTime = 4
    Delays = {0, 1}
    TxTimes = {1}
    MaxTime = 6
    MaxEvents = 3
INVARIANTS NeverLate GuaranteeHolds SafeTimeGrows
PROPERTIES RunReturns StepsKeepContract
