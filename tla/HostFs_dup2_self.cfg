\* One thread: dup2 of a descriptor onto itself.
CONSTANTS
    t1 = t1
    t2 = t2
    w1 = w1
    w2 = w2
    h1 = h1
    h2 = h2
    Null = Null
    RootH = RootH
    NFd = 2
    Wrappers <- TwoWrappers
    Hnds <- TwoHnds
    NMounts = 1
    Threads <- OneThread
SPECIFICATION Spec
INVARIANT
    NoAbort
CHECK_DEADLOCK FALSE
