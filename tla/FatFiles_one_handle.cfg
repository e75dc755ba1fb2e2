\* One handle slot, every access mode, callers that close before unlinking,
\* and three clusters for files of at most four bytes.
CONSTANTS
    h1 = h1
    h2 = h2
    Handles <- OneHandle
    Bs = 2
    Byte <- OneByte
    MaxCount = 2
    MaxPos = 3
    MaxSize = 4
    OpenModes <- AllModes
    UnlinkWhileOpen = FALSE
    InitSlack <- ZeroSlack
    InitHints <- AnyHint
    NumClusters = 3
    FsType = "FAT32"
    BytesPerSec = 8
    Reserved = 1
    FatSize = 5
SPECIFICATION Spec
INVARIANTS
    TypeOK
    FileChainSound
    CursorMatchesPtr
VIEW StateView
