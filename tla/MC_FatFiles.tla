------------------------------ MODULE MC_FatFiles ------------------------------
(* Model-checking instance of FatFiles: one path, one or two handle slots, *)
(* clusters of two bytes over a four-cluster FAT32 volume.                *)
EXTENDS FatFiles, TLC

CONSTANTS h1, h2

OneHandle == {h1}
TwoHandles == {h1, h2}
HandleSymmetry == Permutations(TwoHandles)
MC_Byte == {1, 2}
OneByte == {1}
ZeroSlack == {0}
AnySlack == {0, 1}
AnyHint == 2..(NumClusters + 1)
FirstHint == {2}
ReadModes == {"R", "RW"}
AllModes == {"R", "W", "RW"}
RMode == {"R"}
RWMode == {"RW"}
WMode == {"W"}

\* ret records a call's result and no later step reads it: states that
\* differ only in ret have the same futures.
StateView == <<fat, last, free, data, dir, fh>>
================================================================================
