------------------------------ MODULE MC_FatCache ------------------------------
(* Model-checking instance of FatCache: three records, two values, one     *)
(* device fault per behaviour, slots as interchangeable model values.      *)
EXTENDS FatCache, TLC

CONSTANTS s1, s2

MC_Blocks == 1..3
MC_Vals == {0, 1}
TwoSlots == {s1, s2}
OneSlot == {s1}
SlotSymmetry == Permutations(TwoSlots)
================================================================================
