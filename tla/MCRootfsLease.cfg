SPECIFICATION FairSpec
CONSTANTS
    Dirs <- MCDirs
    Files <- MCFiles
    Aliases <- MCAliases
    Symlinks <- MCSymlinks
    ParentOf <- MCParentOf
    LinkTarget = "file"
    MaxFaults = 2
    TornAppends = TRUE
    PubFiles = 2
INVARIANTS
    NamesAreOwned
    LeaseIsKept
    LedgersAgree
    AcceptedIsWhole
PROPERTY
    RootfsSettles
CHECK_DEADLOCK FALSE
