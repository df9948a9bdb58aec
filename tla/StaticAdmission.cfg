SPECIFICATION FairSpec
CONSTANTS
    MaxFaults = 2
    MaxUpgrades = 1
INVARIANTS InstalledIsProvable WorkKeepsInputs ToolsAreReviewed DuplicatesAreOwned
PROPERTY PreparationSettles
CHECK_DEADLOCK FALSE
