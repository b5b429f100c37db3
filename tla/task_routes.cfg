SPECIFICATION FairSpec
CONSTANTS
  alice = alice
  bob = bob
  carol = carol
  root = root
  t1 = t1
  Requests = {r1, r2}
  Keys = {k1}
  None = None
  Lease = 1
  Ttl = 1
  MaxRun = 0
  LastCall = 2
  MaxNow = 3
  MaxCrashes = 1
  Tasks = {t1}
  Subjects = {alice, bob, carol, root}
  Admins = {root}
  Writers = {alice, bob, root}
  Jobs <- MixedJobs
INVARIANTS
  TypeOK
  CreatedTaskIsOwned
  SuccessWasApplied
  SentOncePerKey
  OnlyOwnerMutates
PROPERTIES
  RequestsAnswered
  OwnerIsForever
CHECK_DEADLOCK FALSE
