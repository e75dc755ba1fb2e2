\* One thread calling fs.c: the calls run one after another, as the
\* file's own comments assume.  A dup2 of a descriptor onto itself fails
\* the assert in fs_hnd_ref and stops the kernel, so a halt is not an
\* error of this run.
CONSTANTS
    t1 = t1
    t2 = t2
    w1 = w1
    w2 = w2
    h1 = h1
    h2 = h2
    Null = Null
    RootH = RootH
    NFd = 2
    Wrappers <- TwoWrappers
    Hnds <- TwoHnds
    NMounts = 1
    Threads <- OneThread
SPECIFICATION Spec
INVARIANTS
    TypeOK
    RefsCounted
CHECK_DEADLOCK FALSE
