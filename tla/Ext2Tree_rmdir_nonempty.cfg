\* fs_ext2_rmdir removes a directory that still has entries.
CONSTANTS
    a = a
    b = b
    Names <- TwoNames
    NInodes = 3
    MaxLinks = 2
SPECIFICATION Spec
INVARIANT RemovedDirsEmpty
CHECK_DEADLOCK FALSE
