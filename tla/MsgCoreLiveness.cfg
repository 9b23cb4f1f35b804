SPECIFICATION MCFairSpec
CONSTANTS
    s1 = s1
    s2 = s2
    own = own
    host = host
    swid = swid
    none = none
    stray = stray
    t1 = t1
    t2 = t2
    noSensor = noSensor
    NoSensor = noSensor
    Slaves = {s1}
    Self = own
    Host = host
    ConsoleIds <- MCConsoleIds
    Sensors = {t1}
    NoAddr = none
    Stray = stray
    Bus = 1
    Periphs <- MCPeriphs
    PeriphOf <- MCPeriphOf
    IsMaster = TRUE
    RecvLen = 2
    RespLen = 2
    FwdLen = 1
    MaxReq = 2
PROPERTIES
    CoreReturns
    RequestsTaken
    SamplerReturns
