------------------------------ MODULE MC_FatTable ------------------------------
(* Model-checking instance of FatTable: one file and one subdirectory     *)
(* over a handful of clusters with two or four FAT entries per sector.    *)
EXTENDS FatTable, TLC

CONSTANTS f1, d1

MC_Files == {f1}
MC_Dirs == {d1}
MC_FaultSites == {"clear", "add_dentry"}
NoFaultSites == {}
DentryFaultSites == {"erase_dentry"}
ClearFaultSites == {"clear"}
ClusterHints == 2..(NumClusters + 1)
UnknownHint == {HintUnknown}
================================================================================
