CONSTANTS
    Names = {a, b}
    Values = {x, y}
    NumClusters = 2
    RootSectors = 1
    PerSector = 2
    Lens = {1, 5}
    PathMax = 1
    TerminalOps = {"echo"}
    DesktopOps = {}
    FaultKinds = {}
    MaxFaults = 0
    BadLbas = {}
SPECIFICATION Spec
PROPERTIES FailedWriteKeepsFile
