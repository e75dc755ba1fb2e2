\* FAT32 whose FSInfo says the last allocated cluster is unknown; the last FAT sector has slack entries.
CONSTANTS
    f1 = f1
    d1 = d1
    Files <- MC_Files
    Dirs <- MC_Dirs
    MaxOrder = 2
    MaxFaults = 1
    FsType = "FAT32"
    NumClusters = 3
    BytesPerSec = 8
    Reserved = 1
    FatSize = 5
    FaultSites <- NoFaultSites
    EmptyFiles = FALSE
    InitHints <- UnknownHint
SPECIFICATION Spec
INVARIANT ChainsWellFormed
