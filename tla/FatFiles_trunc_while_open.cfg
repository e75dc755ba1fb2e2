\* Two read-write handles on one file: one reopens it with O_TRUNC while
\* the other is open.
CONSTANTS
    h1 = h1
    h2 = h2
    Handles <- TwoHandles
    Bs = 2
    Byte <- OneByte
    MaxCount = 2
    MaxPos = 3
    MaxSize = 3
    OpenModes <- RWMode
    UnlinkWhileOpen = FALSE
    InitSlack <- ZeroSlack
    InitHints <- AnyHint
    NumClusters = 3
    FsType = "FAT32"
    BytesPerSec = 8
    Reserved = 1
    FatSize = 5
SPECIFICATION Spec
PROPERTY
    Refinement
SYMMETRY HandleSymmetry
VIEW StateView
