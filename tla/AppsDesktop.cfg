CONSTANTS
    MaxWindows = 3
    NumSlots = 2
    NumFibers = 3
    QueueLen = 3
    Builtins = {"Terminal"}
    Gestures <- AllGestures
SPECIFICATION FairSpec
CHECK_DEADLOCK FALSE
INVARIANTS ProgramsApart SyscallsLandInCaller OwnEventsOnly UsedIsOrdered
PROPERTIES ShownProgramsRun
