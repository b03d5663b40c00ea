SPECIFICATION FwFairSpec
CONSTANTS
    FwMsgs <- NoMsgs
    GpuEndpoints <- NoEndpoints
    FwSystemEndpoints <- AllSystemEndpoints
    A2ICap = 2
    I2ACap = 8
    DrainMax = 2
    MayBeSlow = FALSE
    MayFail = FALSE
INVARIANTS EpmapStartsAll QuiescedBeforeSleep AsleepBeforeStop
PROPERTIES BootSucceeds BuffersGranted
