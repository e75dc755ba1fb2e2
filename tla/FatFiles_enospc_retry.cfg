\* One data cluster: a write that needs a second one fails with no space,
\* and is retried.
CONSTANTS
    h1 = h1
    h2 = h2
    Handles <- OneHandle
    Bs = 2
    Byte <- OneByte
    MaxCount = 2
    MaxPos = 3
    MaxSize = 4
    OpenModes <- RWMode
    UnlinkWhileOpen = FALSE
    InitSlack <- ZeroSlack
    InitHints <- FirstHint
    NumClusters = 1
    FsType = "FAT32"
    BytesPerSec = 8
    Reserved = 1
    FatSize = 5
SPECIFICATION Spec
INVARIANTS
    FileChainSound
VIEW StateView
