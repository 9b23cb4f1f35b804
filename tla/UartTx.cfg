SPECIFICATION FairSpec
CONSTANTS
    low = low
    high = high
    a = a
    b = b
    Writers = {low, high}
    Pollers = {low}
    Isr = isr
    Prio <- MCPrio
    Byte = {a, b}
    NoByte = none
    Depth = 3
    MaxBlock = 2
    Wrap = 6
INVARIANTS
    UartInv
    StallsByRaceOnly
PROPERTY
    IsStream
