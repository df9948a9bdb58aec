SPECIFICATION FairSpec
CONSTANTS
  Cycles = 2
  MaxFaults = 3
INVARIANTS
  ControllerTypeOK
  ClearEndMeansZero
  EffectsOnce
  ChainFollowsRecords
PROPERTIES
  ConsumedEnds
