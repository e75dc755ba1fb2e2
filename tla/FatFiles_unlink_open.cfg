\* The path is unlinked while a handle is open on it, and the handle writes on.
CONSTANTS
    h1 = h1
    h2 = h2
    Handles <- OneHandle
    Bs = 2
    Byte <- OneByte
    MaxCount = 2
    MaxPos = 3
    MaxSize = 4
    OpenModes <- RWMode
    UnlinkWhileOpen = TRUE
    InitSlack <- ZeroSlack
    InitHints <- AnyHint
    NumClusters = 3
    FsType = "FAT32"
    BytesPerSec = 8
    Reserved = 1
    FatSize = 5
SPECIFICATION Spec
INVARIANTS
    FileChainSound
VIEW StateView
