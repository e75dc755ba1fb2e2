\* Callers open with O_RDWR | O_CREAT or with the zero word O_RDONLY and
\* close what they open.
CONSTANTS
    t1 = t1
    t2 = t2
    a = a
    b = b
    Names <- OneName
    NInodes = 1
    NBlocks = 1
    NFiles = 2
    Bs = 2
    NIdx = 1
    MaxCount = 1
    MaxPos = 1
    OpenModes <- ReadOnly
    Threads <- OneThread
SPECIFICATION Spec
INVARIANT
    SlotsHeld
CHECK_DEADLOCK FALSE
