SPECIFICATION FairSpec
CONSTANTS
  u = u
  v = v
  Caller <- OneCaller
  MaxLaunches = 3
  MaxRestarts = 2
INVARIANTS
  TypeOK
  LiveControlled
  NoOrphan
  DoneMeansFree
PROPERTIES
  FailReasonKept
  ContractSpec
  CallsReturn
