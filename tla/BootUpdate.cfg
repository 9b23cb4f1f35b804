SPECIFICATION BootSpec
CONSTANTS
    PnMod <- MCPnMod
    Blocks <- MCBlocks
    MaxPage <- MCMaxPage
    Data = {d}
    Old = Old
    Erased = Erased
    Torn = Torn
    HostChannel = "secondary"
    JumpDelay = 2
    LineLen = 1
    LosesAcks = FALSE
INVARIANT BootInv
PROPERTY ChannelRecordedOnce
PROPERTY ProgrammedStays
CHECK_DEADLOCK FALSE
