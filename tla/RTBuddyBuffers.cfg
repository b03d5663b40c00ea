SPECIFICATION Spec
CONSTANTS
    FwMsgs <- BufferMsgs
    GpuEndpoints <- NoEndpoints
    A2ICap = 1
    I2ACap = 1
    DrainMax = 2
    MayBeSlow = TRUE
    MayFail = TRUE
INVARIANTS TypeOK GrantedBuffersLive NoDmaLeak
