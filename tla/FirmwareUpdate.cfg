SPECIFICATION FairSpec
CONSTANTS
    N <- MCN
    Data <- MCData
    Blocks = 4
    MaxPage = 0
    Old = Old
    Erased = Erased
    Torn = Torn
    HostChannel = "primary"
    JumpDelay = 2
    LineLen = 2
    QueueLen = 1
    MaxTries = 0
    PnMod = 2
    LosesAcks = TRUE
    Faults = {"bad", "lost", "fail"}
    Leftover = {}
    PerSecond = 1
    MaxResets = 1
INVARIANT ImageComplete
INVARIANT BlocksInPlace
INVARIANT SenderNotAhead
INVARIANT TransferInv
PROPERTY ChangedByConsent
PROPERTY IsTransfer
PROPERTY TransferCompletes
CHECK_DEADLOCK FALSE
