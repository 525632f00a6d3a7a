SPECIFICATION Spec
CONSTANTS
    Ranks = {0, 1}
    Links <- Bundle
    Tune = 100
    Starters = {0}
    StopTime = 6
    Delays = {4}
    TxTimes = {1, 2}
    MaxTime = 10
    MaxEvents = 3
INVARIANTS GuaranteeHolds
