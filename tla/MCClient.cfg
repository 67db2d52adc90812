SPECIFICATION FairSpec
CONSTANTS
  a = a
  i1 = i1
  i2 = i2
  NoEvent = NoEvent
  Topics = {a}
  Ids = {i1, i2}
  TopicOf <- MCPair
  MaxEvents = 2
CHECK_DEADLOCK FALSE
INVARIANTS
  RegisteredIsServed
  AckSound
  NoLoss
  AtMostOneStray
PROPERTIES
  EventuallyAcknowledged
  StopIsObeyed
