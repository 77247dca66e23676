SPECIFICATION FairSpec
CONSTANTS
  Chain <- TwoTiers
  MaxContinuations = 1
  MaxFailRestarts = 1
  MaxStallRestarts = 2
  StartStallCap = 2
INVARIANTS
  TypeOK
  OneLiveSession
  Lineage
  VerdictMatchesRow
  CompletedHonestly
  RestartBudget
PROPERTIES
  Settles
  CancelEnds
CHECK_DEADLOCK FALSE
