CONSTANTS
    Names = {a, b}
    Values = {x}
    NumClusters = 3
    RootSectors = 1
    PerSector = 1
    Lens = {1, 2}
    PathMax = 2
    TerminalOps = {"mkdir", "rm", "echo", "cd", "cdup"}
    DesktopOps = {}
    FaultKinds = {"read", "write", "power"}
    MaxFaults = 1
    BadLbas = {0, 1, 3, 5}
SPECIFICATION FairSpec
CONSTRAINT Whole
INVARIANTS TypeOK NoCrossLink NoLeak NoStaleContents
PROPERTIES OthersIntact CallsReturn
