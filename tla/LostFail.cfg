SPECIFICATION Spec
CONSTANTS
  u = u
  v = v
  Caller <- OneCaller
  MaxLaunches = 1
  MaxRestarts = 0
INVARIANT FailTakesEffect
