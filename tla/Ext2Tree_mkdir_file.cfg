\* mkdir with a regular file as the parent path: the file's and the new
\* inode's link counts no longer match the entries naming them.
CONSTANTS
    a = a
    b = b
    Names <- TwoNames
    NInodes = 4
    MaxLinks = 2
SPECIFICATION Spec
INVARIANT FileLinkCounts
CHECK_DEADLOCK FALSE
