SPECIFICATION FairSpec
CONSTANTS
    FwMsgs <- FloodMsgs
    GpuEndpoints <- DoorbellOnly
    A2ICap = 1
    I2ACap = 1
    DrainMax = 2
    MayBeSlow = TRUE
    MayFail = FALSE
PROPERTIES BootEnds RemoveEnds
