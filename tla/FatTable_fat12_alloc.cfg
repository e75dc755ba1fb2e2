\* FAT12: every allocation in fat_allocate_cluster.
CONSTANTS
    f1 = f1
    d1 = d1
    Files <- MC_Files
    Dirs <- MC_Dirs
    MaxOrder = 2
    MaxFaults = 1
    FsType = "FAT12"
    NumClusters = 4
    BytesPerSec = 4
    Reserved = 1
    FatSize = 6
    FaultSites <- NoFaultSites
    EmptyFiles = FALSE
    InitHints <- ClusterHints
SPECIFICATION Spec
INVARIANT NoLeak
