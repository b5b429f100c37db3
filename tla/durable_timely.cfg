SPECIFICATION FairSpec
CONSTANTS
  Requests = {r1, r2, r3}
  Keys = {k1}
  Bindings = {b1, b2}
  None = None
  Lease = 2
  Ttl = 2
  MaxRun = 1
  LastCall = 5
  MaxNow = 7
  MaxCrashes = 1
INVARIANTS
  OneExecutorPerKey
PROPERTIES
  CompletedResponseIsFinal
  WaitersAnswered
  ImplementsContract
CHECK_DEADLOCK FALSE
