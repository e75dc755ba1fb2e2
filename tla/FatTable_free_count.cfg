\* FAT32, where clearing a fresh cluster may fail once.
CONSTANTS
    f1 = f1
    d1 = d1
    Files <- MC_Files
    Dirs <- MC_Dirs
    MaxOrder = 2
    MaxFaults = 1
    FsType = "FAT32"
    NumClusters = 3
    BytesPerSec = 8
    Reserved = 1
    FatSize = 5
    FaultSites <- ClearFaultSites
    EmptyFiles = FALSE
    InitHints <- ClusterHints
SPECIFICATION Spec
PROPERTY FreeCountTracks
