-------------------------------- MODULE MC_HostFs --------------------------------
(* HostFs with two descriptors, two heap blocks for wrappers, two handler *)
(* handles and one VFS handler in the name manager's list.                *)
EXTENDS HostFs, TLC

CONSTANTS t1, t2, w1, w2, h1, h2

OneThread == {t1}
TwoThreads == {t1, t2}
TwoWrappers == {w1, w2}
TwoHnds == {h1, h2}
====
