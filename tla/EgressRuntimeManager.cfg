\* The watcher's initial read and one poll.
CONSTANT MaxReads = 2
SPECIFICATION ManagerFairSpec
INVARIANT ManagerSafe
PROPERTY RevocationStopsEgress
CHECK_DEADLOCK FALSE
