\* FAT32, 4 data clusters, 2 entries per 8-byte sector, FAT sized with room
\* for the reserved-sector offset; clears and directory-entry adds may fail.
CONSTANTS
    f1 = f1
    d1 = d1
    FsType = "FAT32"
    NumClusters = 4
    BytesPerSec = 8
    Reserved = 1
    FatSize = 5
    Files <- MC_Files
    Dirs <- MC_Dirs
    MaxOrder = 2
    MaxFaults = 1
    FaultSites <- MC_FaultSites
    EmptyFiles = FALSE
    InitHints <- ClusterHints
SPECIFICATION Spec
INVARIANTS
    TypeOK
    ChainsDisjoint
    ChainsWellFormed
    NoLeak
