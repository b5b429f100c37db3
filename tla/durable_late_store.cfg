SPECIFICATION Spec
CONSTANTS
  Requests = {r1, r2, r3, r4}
  Keys = {k1}
  Bindings = {b1, b2}
  None = None
  Lease = 1
  Ttl = 1
  MaxRun = 5
  LastCall = 5
  MaxNow = 6
  MaxCrashes = 0
SYMMETRY RequestSymmetry
INVARIANTS
  ReplayMatchesRequest
CHECK_DEADLOCK FALSE
