\* One name opened O_RDWR | O_CREAT, files of up to three blocks of two
\* bytes, seeks up to position 5.
CONSTANTS
    t1 = t1
    t2 = t2
    a = a
    b = b
    Names <- OneName
    NInodes = 1
    NBlocks = 4
    NFiles = 1
    Bs = 2
    NIdx = 3
    MaxCount = 2
    MaxPos = 5
    OpenModes <- CreateModes
    Threads <- OneThread
SPECIFICATION Spec
INVARIANT
    BlocksOwned
CHECK_DEADLOCK FALSE
