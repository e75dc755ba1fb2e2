\* Bytes past the end of the last cluster are not zero at mount; a handle
\* seeks past the end and writes.
CONSTANTS
    h1 = h1
    h2 = h2
    Handles <- OneHandle
    Bs = 2
    Byte <- OneByte
    MaxCount = 2
    MaxPos = 3
    MaxSize = 4
    OpenModes <- RWMode
    UnlinkWhileOpen = FALSE
    InitSlack <- AnySlack
    InitHints <- AnyHint
    NumClusters = 3
    FsType = "FAT32"
    BytesPerSec = 8
    Reserved = 1
    FatSize = 5
SPECIFICATION Spec
PROPERTY
    Refinement
VIEW StateView
