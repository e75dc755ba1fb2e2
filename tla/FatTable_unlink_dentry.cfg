\* FAT32, where erasing a directory entry may fail once.
CONSTANTS
    f1 = f1
    d1 = d1
    Files <- MC_Files
    Dirs <- MC_Dirs
    MaxOrder = 2
    MaxFaults = 1
    FsType = "FAT32"
    NumClusters = 3
    BytesPerSec = 8
    Reserved = 1
    FatSize = 5
    FaultSites <- DentryFaultSites
    EmptyFiles = FALSE
    InitHints <- ClusterHints
SPECIFICATION Spec
INVARIANT ChainsDisjoint
