SPECIFICATION FairSpec
CONSTANTS
    Dirs <- MCDirs
    Files <- MCFiles
    Aliases <- MCAliases
    Symlinks <- MCSymlinks
    ParentOf <- MCParentOf
    LinkTarget = "file"
    MaxFaults = 1
    TornAppends = FALSE
    PubFiles = 2
PROPERTY
    RetirementFinishes
CHECK_DEADLOCK FALSE
