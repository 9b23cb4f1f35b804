SPECIFICATION FairSpec
CONSTANTS
    primary = primary
    secondary = secondary
    long = long
    other = other
    Buses = {primary, secondary}
    NoBus = none
    Message = {long, other}
    NoMessage = nothing
    BusOf <- MCBusOf
    Size <- MCSize
    Responses = {}
    Capacity = 2
    QueueLength = 1
INVARIANTS
    RxInv
    StuckByLongOrMixed
PROPERTY
    IsMailbox
