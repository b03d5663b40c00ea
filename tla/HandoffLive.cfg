SPECIFICATION ReqFairSpec
CONSTANTS
    MaxSpins = 0
    FLUSH_SLOTS = 1
    Requests <- NoRequests
    ADDR_SPAN = 4
    UNMAP_TAG = 8
    Leftovers <- Old
    LocksFirst = FALSE
    AnyOrder = FALSE
PROPERTIES ApLockSucceeds FwLockSucceeds WaitFirmwareSucceeds
