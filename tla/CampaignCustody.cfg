SPECIFICATION FairSpec
CONSTANTS
  Boundary = 1
  LastCycle = 2
  RootKinds = {"first", "second", "diag"}
  MaxAttempts = 2
  MaxFaults = 2
INVARIANTS
  CustodyTypeOK
  LiveIsRecoverable
  CertainZero
  ClaimsAreJournaled
PROPERTIES
  CustodySettles
