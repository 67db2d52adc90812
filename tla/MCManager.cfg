SPECIFICATION FairManagerSpec
CONSTANTS
  j1 = j1
  Jobs = {j1}
  UserIds = {}
  ListenTopic <- MCNone
  GlobalIds = {}
  GlobalEvent <- MCNone
  Payloads = {"running", "finished", "error", "cancelled"}
  RedisCanFail = TRUE
CHECK_DEADLOCK FALSE
INVARIANTS
  ReleasedIsMonitored
  NoOrphanAllocation
  FinishedIsTrue
PROPERTIES
  UsesTracker
  QueriesAreDue
  EventuallyResolved
