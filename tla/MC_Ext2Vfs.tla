------------------------------ MODULE MC_Ext2Vfs ------------------------------
(* Model-checking instance of Ext2Vfs: two names, two inodes, blocks of   *)
(* two bytes and a handful of mode words.                                  *)
EXTENDS Ext2Vfs, TLC

CONSTANTS t1, t2, a, b

OneThread == {t1}
TwoThreads == {t1, t2}

R == Mode("RDONLY", FALSE, FALSE, FALSE)        \* O_RDONLY, the zero word
RA == Mode("RDONLY", TRUE, FALSE, FALSE)        \* O_RDONLY | O_APPEND
RWC == Mode("RDWR", FALSE, FALSE, TRUE)         \* O_RDWR | O_CREAT
WCT == Mode("WRONLY", FALSE, TRUE, TRUE)        \* O_WRONLY | O_CREAT | O_TRUNC
WA == Mode("WRONLY", TRUE, FALSE, FALSE)        \* O_WRONLY | O_APPEND

ClosingModes == {RA, RWC, WCT, WA}
AllModes == {R, RWC, WCT, WA}
CreateModes == {RWC}
ReadOnly == {R, RWC}
OneName == {a}
TwoNames == {a, b}
NameSymmetry == Permutations(TwoNames)
====
