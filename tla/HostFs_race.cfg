\* Two threads calling fs.c with no lock between them.
CONSTANTS
    t1 = t1
    t2 = t2
    w1 = w1
    w2 = w2
    h1 = h1
    h2 = h2
    Null = Null
    RootH = RootH
    NFd = 2
    Wrappers <- TwoWrappers
    Hnds <- TwoHnds
    NMounts = 1
    Threads <- TwoThreads
SPECIFICATION Spec
INVARIANT
    RefsCounted
CHECK_DEADLOCK FALSE
