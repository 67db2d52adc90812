SPECIFICATION Spec
CONSTANTS
  j1 = j1
  j2 = j2
  u1 = u1
  g1 = g1
  Jobs = {j1, j2}
  UserIds = {}
  ListenTopic <- MCNoTopic
  GlobalIds = {}
  GlobalEvent <- MCNoEvent
  Payloads <- MCOnePayload
  RedisCanFail = FALSE
PROPERTIES
  JobsAreIsolated
