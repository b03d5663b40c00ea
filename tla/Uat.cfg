SPECIFICATION Spec
CONSTANTS
    CONTEXT_COUNT = 2
    PAGE_SIZE = 2
    PA_LIMIT = 8
    L1_COUNT = 2
    L2_COUNT = 2
    L3_COUNT = 2
    Frames = {f1, f2, f3, f4, f5, f6}
    Requests <- MCRequests
    None = None
SYMMETRY FrameSymmetry
INVARIANTS TypeOK WalkLive NothingLost
PROPERTIES ImplementsMap
