SPECIFICATION Spec
CONSTANTS
  Requests = {r1, r2, r3}
  Keys = {k1}
  Bindings = {b1, b2}
  None = None
  Lease = 2
  Ttl = 2
  MaxRun = 2
  LastCall = 4
  MaxNow = 6
  MaxCrashes = 0
SYMMETRY RequestSymmetry
INVARIANTS
  WaitEndsWithStatus
CHECK_DEADLOCK FALSE
