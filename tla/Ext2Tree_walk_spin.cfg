\* int_rename's ancestor walk never ends for a directory moved to another
\* parent below the root.
CONSTANTS
    a = a
    b = b
    Names <- TwoNames
    NInodes = 3
    MaxLinks = 2
SPECIFICATION FairSpec
PROPERTY WalkEnds
CHECK_DEADLOCK FALSE
