SPECIFICATION ReqSpec
CONSTANTS
    MaxSpins = 3
    FLUSH_SLOTS = 1
    Requests <- ThreeRequests
    ADDR_SPAN = 4
    UNMAP_TAG = 8
    Leftovers <- Old
    LocksFirst = TRUE
    AnyOrder = TRUE
PROPERTIES WaitMeansFlushed
