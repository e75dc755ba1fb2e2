\* Two threads; one name, one inode, one slot.  A thread's call returns
\* once it holds ext2_mutex and its handler body has run.
CONSTANTS
    t1 = t1
    t2 = t2
    a = a
    b = b
    Names <- TwoNames
    NInodes = 1
    NBlocks = 1
    NFiles = 1
    Bs = 2
    NIdx = 1
    MaxCount = 1
    MaxPos = 1
    OpenModes <- CreateModes
    Threads <- TwoThreads
SPECIFICATION FairSpec
PROPERTY
    CallsReturn
CHECK_DEADLOCK FALSE
