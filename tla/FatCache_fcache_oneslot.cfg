\* FAT-sector cache created with fcache_sz = 1 through fat_fs_init_ex.
CONSTANTS
    s1 = s1
    s2 = s2
    Blocks <- MC_Blocks
    Slots <- OneSlot
    Vals <- MC_Vals
    Zero = 0
    MaxFaults = 0
SPECIFICATION SpecFat
PROPERTIES
    Refinement
