\* The power board with the times of the code, in units of 10 ms.
SPECIFICATION FairSpec
CONSTANTS
    KeyHeld = 9
    Settle = 10
    MaxLate = 2
    Brownouts = TRUE
INVARIANTS
    PowerInv
    OffMeansDischarged
PROPERTIES
    PowerCycled
    ActsOnRelease
    Settles
