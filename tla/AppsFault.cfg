CONSTANTS
    MaxWindows = 4
    NumSlots = 2
    NumFibers = 2
    QueueLen = 2
    Builtins = {"Terminal"}
    Gestures = {"search", "launch", "fault"}
SPECIFICATION Spec
CHECK_DEADLOCK FALSE
INVARIANTS FaultsRecovered
