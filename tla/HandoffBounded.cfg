SPECIFICATION ReqSpec
CONSTANTS
    MaxSpins = 2
    FLUSH_SLOTS = 1
    Requests <- ThreeRequests
    ADDR_SPAN = 4
    UNMAP_TAG = 8
    Leftovers <- Old
    LocksFirst = TRUE
    AnyOrder = FALSE
INVARIANTS TypeOK MutualExclusion FirmwareSeesApStores IdleLeavesNoFlag
INVARIANTS SlotsCleared TakesRequest
PROPERTIES FirmwareUndisturbed WaitMeansFlushed
