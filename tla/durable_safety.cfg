SPECIFICATION Spec
CONSTANTS
  Requests = {r1, r2, r3, r4}
  Keys = {k1}
  Bindings = {b1, b2}
  None = None
  Lease = 1
  Ttl = 2
  MaxRun = 2
  LastCall = 4
  MaxNow = 5
  MaxCrashes = 1
SYMMETRY RequestSymmetry
INVARIANTS
  TypeOK
  ExecutorKeepsRow
  OneExecutorWithinLease
  ReplayMatchesRequest
  RegisteredFutureIsOfPendingRow
CHECK_DEADLOCK FALSE
