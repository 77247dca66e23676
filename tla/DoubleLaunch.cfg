SPECIFICATION Spec
CONSTANTS
  u = u
  v = v
  Caller <- TwoCallers
  MaxLaunches = 3
  MaxRestarts = 0
INVARIANT OneRun
