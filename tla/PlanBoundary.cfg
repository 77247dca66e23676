SPECIFICATION FairSpec
CONSTANTS
  u = u
  v = v
  Approver <- OneApprover
  Editor <- OneEditor
  Early = FALSE
  MaxLaunches = 2
  MaxEdits = 2
  MaxRestarts = 1
INVARIANTS
  TypeOK
  OnlyApprovedRuns
  NeverNeither
  NeverBoth
PROPERTIES
  ApprovalFinal
  ApprovalPickedUp
  LoopEnds
  CallsReturn
CHECK_DEADLOCK FALSE
