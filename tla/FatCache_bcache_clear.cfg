\* Cluster cache with two slots (callers of fatfs.c), including
\* fat_cluster_clear: a clear that hits a clean cached cluster.
CONSTANTS
    s1 = s1
    s2 = s2
    Blocks <- MC_Blocks
    Slots <- TwoSlots
    Vals <- MC_Vals
    Zero = 0
    MaxFaults = 0
SPECIFICATION SpecCluster
SYMMETRY SlotSymmetry
PROPERTIES
    Refinement
