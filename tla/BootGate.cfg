CONSTANTS
    Passwords = {"p", "q"}
    Auth = "AURAUSER.DAT"
    Staged = "NEWKRNL.BIN"
    Installed = "AURORAOS.UPD"
    Names = {"AURAUSER.DAT", "NEWKRNL.BIN", "AURORAOS.UPD"}
    Contents <- BootContents
    Empty = empty
    Lost = lost
    Forged = forged
    Images = {kernel}
    Partial = partial
    Huge = huge
    HostFiles = {kernel, huge}
    UserFiles = {forged}
SPECIFICATION BootSpec
CONSTRAINT Whole
INVARIANTS UnlockedByOwner PromptCanBeMet FormattedClean BootsWhole
PROPERTIES StartKeepsFiles ReachesPrompt
