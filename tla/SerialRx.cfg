SPECIFICATION FairSpec
CONSTANTS
    Payloads <- MCPayloads
    ConsoleBuffer = 10
    Keys <- MCKeys
    Noise <- MCNoise
    BufferSize = 7
    QueueLength = 1
    ShellRoom = 1
    MaxFrames = 2
    MaxLost = 2
    NoPayload = NoPayload
INVARIANTS
    SerialInv
    RequestRead
PROPERTIES
    FrameArrives
    ShellHears
