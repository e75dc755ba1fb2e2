\* FAT16 volume holding size-0 files, whose entries name cluster 0.
CONSTANTS
    f1 = f1
    d1 = d1
    Files <- MC_Files
    Dirs <- MC_Dirs
    MaxOrder = 2
    MaxFaults = 1
    FsType = "FAT16"
    NumClusters = 3
    BytesPerSec = 4
    Reserved = 1
    FatSize = 6
    FaultSites <- NoFaultSites
    EmptyFiles = TRUE
    InitHints <- ClusterHints
SPECIFICATION Spec
INVARIANT ReservedIntact
