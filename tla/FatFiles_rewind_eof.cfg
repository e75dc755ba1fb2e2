\* A read-only handle reads to the end of a file that fills its last cluster,
\* seeks back and reads again.
CONSTANTS
    h1 = h1
    h2 = h2
    Handles <- OneHandle
    Bs = 2
    Byte <- OneByte
    MaxCount = 2
    MaxPos = 3
    MaxSize = 4
    OpenModes <- RMode
    UnlinkWhileOpen = FALSE
    InitSlack <- ZeroSlack
    InitHints <- AnyHint
    NumClusters = 3
    FsType = "FAT32"
    BytesPerSec = 8
    Reserved = 1
    FatSize = 5
SPECIFICATION Spec
PROPERTY
    Refinement
VIEW StateView
