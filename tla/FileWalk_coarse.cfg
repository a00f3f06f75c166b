SPECIFICATION Spec
CONSTANTS
    Paths = {1, 2, 3, 4, 5}
    Parent <- InAttachments
    DirPaths = {1}
    Specials = {5}
    Skipped = {4}
    InitPaths = {1, 2, 3, 4, 5}
    Inodes = {1, 2, 3, 4}
    MaxLen = 3
    MaxWrites = 2
    FineClock = FALSE
INVARIANT TarIntact
