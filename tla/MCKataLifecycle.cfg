CONSTANTS
  TailEffects = 0
  KeyCommands = 1
  MaxFaults = 2
  Routes <- AllRoutes
SPECIFICATION FairSpec
INVARIANTS
  RetiredIsClean
  VmFenced
  ReceiptMeansWhole
  OrphansAreNamed
PROPERTY OperationSettles
