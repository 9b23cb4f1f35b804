SPECIFICATION FairSpec
CONSTANT MaxTimers = 1
INVARIANTS
    PinsHeld
    ChassisInv
PROPERTIES
    PulseEnds
    Executed
