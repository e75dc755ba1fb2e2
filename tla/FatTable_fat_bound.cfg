\* FAT16 whose FAT is exactly as long as its entries need (reserved_sectors = 1).
CONSTANTS
    f1 = f1
    d1 = d1
    Files <- MC_Files
    Dirs <- MC_Dirs
    MaxOrder = 2
    MaxFaults = 1
    FsType = "FAT16"
    NumClusters = 4
    BytesPerSec = 4
    Reserved = 1
    FatSize = 3
    FaultSites <- NoFaultSites
    EmptyFiles = FALSE
    InitHints <- ClusterHints
SPECIFICATION Spec
INVARIANT NoSpuriousAllocFailure
