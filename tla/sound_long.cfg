SPECIFICATION Spec
CONSTANTS
    None = None
    Frames <- MCLong
    MaxNoise = 0
    MaxStrays = 0
    Strays <- MCStrays
INVARIANTS
    FrameInSyncReturned
CHECK_DEADLOCK FALSE
