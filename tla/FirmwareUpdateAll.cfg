SPECIFICATION Spec
CONSTANTS
    N <- MCN
    Data <- MCData
    Blocks = 4
    MaxPage = 0
    Old = Old
    Erased = Erased
    Torn = Torn
    HostChannel = "primary"
    JumpDelay = 2
    LineLen = 5
    QueueLen = 1
    MaxTries = 1
    PnMod = 2
    LosesAcks = FALSE
    Faults = {"bad"}
    Leftover = {"ACK"}
    PerSecond = 1
    MaxResets = 0
INVARIANT AckIsSuccess
CHECK_DEADLOCK FALSE
