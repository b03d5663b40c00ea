SPECIFICATION FwSpec
CONSTANTS
    FwMsgs <- NoMsgs
    GpuEndpoints <- NoEndpoints
    FwSystemEndpoints <- AllSystemEndpoints
    A2ICap = 2
    I2ACap = 8
    DrainMax = 2
    MayBeSlow = FALSE
    MayFail = TRUE
INVARIANTS QuiescedBeforeSleep
