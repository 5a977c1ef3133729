SPECIFICATION Spec
CONSTANTS
    None = None
    Frames <- MCShort
    MaxNoise = 2
    MaxStrays = 1
    Strays <- MCStrays
INVARIANTS
    OutOfSyncStays
    AnswersWerePlayed
PROPERTIES
    ImplementsChannel
CHECK_DEADLOCK FALSE
