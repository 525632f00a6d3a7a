SPECIFICATION Spec
CONSTANTS
    Unit = "bytes"
    QueueSize = 7
    DiscSize = 2
    Quota = 64
    Mtu = 3
    PppHeader = 1
    Sizes = {1, 3}
    Gap = 0
    Delay = 1
    HoldTime = 4
    MinLimit = 0
    MaxLimit = 100
    MaxPackets = 6
    MaxTime = 3
INVARIANT DeviceNeverDiscards

