SPECIFICATION Spec
CONSTANTS
  j1 = j1
  j2 = j2
  u1 = u1
  g1 = g1
  Jobs = {j1}
  UserIds = {u1}
  ListenTopic <- MCTopic
  GlobalIds = {g1}
  GlobalEvent <- MCEvent
  Payloads <- MCPayloads
  RedisCanFail = TRUE
INVARIANTS
  TrackerInv
  UntrackedIsClean
  MonitoringIntact
  CompletionTold
PROPERTIES
  KeepsLifecycle
