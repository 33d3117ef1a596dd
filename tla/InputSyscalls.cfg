CONSTANTS
    RingSize = 3
    TickBits = 3
    Waits = {2}
    Calls = {"read", "sleep"}
    MaxKeys = 1
    MaxRolls = 0
SPECIFICATION FairSpec
CHECK_DEADLOCK FALSE
PROPERTIES SyscallsReturn
