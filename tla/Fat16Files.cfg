CONSTANTS
    Names = {a, b}
    Values = {x, y}
    NumClusters = 3
    RootSectors = 1
    PerSector = 2
    Lens = {1, 3}
    PathMax = 1
    TerminalOps = {"touch", "rm"}
    DesktopOps = {"echo"}
    FaultKinds = {"read", "write", "power"}
    MaxFaults = 1
    BadLbas = {3}
SYMMETRY Perms
CONSTRAINT Whole
SPECIFICATION Spec
PROPERTIES ImplementsStore
