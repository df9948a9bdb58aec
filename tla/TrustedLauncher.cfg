SPECIFICATION FairSpec
CONSTANTS
    Modes = {"runtime", "lifecycle", "sandbox"}
    MaxFaults = 2
    HelperTools = 2
INVARIANTS
    GatedUntilOwned
    CertainMeansRestored
    IssuedOnce
PROPERTY
    EverythingEnds
CHECK_DEADLOCK FALSE
