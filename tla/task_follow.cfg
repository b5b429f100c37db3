SPECIFICATION FairSpec
CONSTANTS
  Statuses = {"running", "done", "failed", "escalated"}
  Final = {"done", "failed", "escalated"}
  Revivable = {"failed"}
  Timeout = 3
  Poll = 2
  MaxDelay = 1
  Window = 1
  MaxNow = 5
  MaxEvents = 3
  MaxRetries = 1
INVARIANTS
  TypeOK
  TimeoutMissedNothing
  StreamTellsAll
PROPERTIES
  FollowingEnds
CHECK_DEADLOCK FALSE
