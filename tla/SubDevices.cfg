\* Two boards with two sensors, any answer may be lost.
SPECIFICATION FairSpec
CONSTANTS
    d1 = d1
    d2 = d2
    Devices <- MCDevices
    Sensors = 2
    MaxFailed = 3
    SamplePeriod = 2
    SwitchPeriod = 4
    MaxLate = 3
    Wired <- MCWired
    Flaky = TRUE
INVARIANTS
    UploadInv
    ReadingRecent
PROPERTIES
    MovedOnlyWhenSilent
    FindsBus
