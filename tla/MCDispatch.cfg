SPECIFICATION FairSpec
CONSTANTS
  ulog = ulog
  ustatus = ustatus
  glog = glog
  Users = {ulog, ustatus}
  Globals = {glog}
  EventOf <- MCEventOf
  NoMessage = NoMessage
  Sent = {"log", "running", "end", "garbage"}
  MaxMessages = 3
INVARIANTS
  InOrderOnce
  NobodyLeftOut
  NothingAfterTheEnd
PROPERTY
  KeepsDispatching
