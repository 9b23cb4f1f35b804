SPECIFICATION FairSpec
CONSTANTS
    low = low
    high = high
    a = a
    b = b
    Writers = {low, high}
    Pollers = {}
    Isr = isr
    Prio <- MCPrio
    Byte = {a, b}
    NoByte = none
    Depth = 3
    MaxBlock = 2
    Wrap = 16
INVARIANTS
    NeverStalls
CHECK_DEADLOCK FALSE
