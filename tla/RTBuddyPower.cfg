SPECIFICATION DisplaySpec
CONSTANTS
    FwMsgs <- PowerMsgs
    GpuEndpoints <- DoorbellOnly
    A2ICap = 1
    I2ACap = 1
    DrainMax = 2
    MayBeSlow = TRUE
    MayFail = TRUE
    Listeners = {l1, l2}
SYMMETRY Exchange
INVARIANTS InitFirst AppStartOrder GpuAfterStart TornDownClean
INVARIANTS UnregisteredQuiet ListenersFollow OnWhilePowered
PROPERTIES PowerReports
