----------------------------- MODULE MC_Ext2Tree -----------------------------
(* Instances of Ext2Tree for TLC: two entry names, a root and three more  *)
(* inodes, so a directory can hold a subdirectory that holds a third.     *)
EXTENDS Ext2Tree, TLC

CONSTANTS a, b

TwoNames == {a, b}

\* Names are interchangeable: no handler orders or compares them.
NameSymmetry == Permutations(TwoNames)
====
