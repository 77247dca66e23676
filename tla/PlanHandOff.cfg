SPECIFICATION Spec
CONSTANTS
  u = u
  v = v
  Approver <- OneApprover
  Editor <- OneEditor
  Early = TRUE
  MaxLaunches = 2
  MaxEdits = 1
  MaxRestarts = 0
INVARIANT NeverNeither
CHECK_DEADLOCK FALSE
