\* Three dependencies, one of them independent, and two callers.
CONSTANTS
    Order <- MCOrder
    Independent = {"egress"}
    Requests = {"operator", "signal"}
SPECIFICATION LaunchFairSpec
INVARIANT LaunchSafe
PROPERTY ShutdownDecides
CHECK_DEADLOCK FALSE
