\* The directory tree under mkdir, rmdir, create, open/close, unlink, link
\* and one rename (fs_ext2_rename never releases ext2_mutex afterwards).
CONSTANTS
    a = a
    b = b
    Names <- TwoNames
    NInodes = 4
    MaxLinks = 2
SPECIFICATION Spec
INVARIANTS
    TypeOK
    TreeShape
    DirLinkCounts
SYMMETRY NameSymmetry
\* After a rename the file system stays locked, and no handler can run.
CHECK_DEADLOCK FALSE
