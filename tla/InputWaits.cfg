CONSTANTS
    RingSize = 3
    TickBits = 3
    Waits = {0, 2}
    Calls <- AllCalls
    MaxKeys = 4
    MaxRolls = 2
SPECIFICATION FairSpec
CHECK_DEADLOCK FALSE
INVARIANTS KeysOnceInOrder FrameNeverBlocks WheelAtMostOnce
PROPERTIES WaitsKept
