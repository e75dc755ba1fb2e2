\* FAT-sector cache with two slots (callers of fat.c): reads, writes,
\* FAT12 straddling writes, write-back and device faults.
CONSTANTS
    s1 = s1
    s2 = s2
    Blocks <- MC_Blocks
    Slots <- TwoSlots
    Vals <- MC_Vals
    Zero = 0
    MaxFaults = 1
SPECIFICATION SpecFat
SYMMETRY SlotSymmetry
INVARIANTS
    TypeOK
    NoDuplicateBlock
PROPERTIES
    Refinement
