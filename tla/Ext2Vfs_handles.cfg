\* One calling thread, two names, two inodes, two fh[] slots, three blocks
\* of two bytes, every kind of mode word.  A successful rename leaves
\* ext2_mutex locked and every later call blocked, so the engine stops
\* there: deadlock is not an error of this run.
CONSTANTS
    t1 = t1
    t2 = t2
    a = a
    b = b
    Names <- TwoNames
    NInodes = 2
    NBlocks = 2
    NFiles = 2
    Bs = 2
    NIdx = 2
    MaxCount = 2
    MaxPos = 3
    OpenModes <- AllModes
    Threads <- OneThread
SPECIFICATION Spec
INVARIANTS
    TypeOK
    OpenFileLive
    LinksMatchEntries
CHECK_DEADLOCK FALSE
SYMMETRY NameSymmetry
