SPECIFICATION Spec
CONSTANTS
    FwMsgs <- HelloMsgs
    GpuEndpoints <- NoEndpoints
    A2ICap = 1
    I2ACap = 1
    DrainMax = 2
    MayBeSlow = TRUE
    MayFail = TRUE
INVARIANTS CrashAfterGrant
PROPERTIES VersionAgreed
