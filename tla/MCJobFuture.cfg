SPECIFICATION Spec
CONSTANTS
  t1 = t1
  t2 = t2
  w1 = w1
  i1 = i1
  i2 = i2
  NoOne = NoOne
  Threads = {t1, t2}
  Waiters = {w1}
  Ids = {i1, i2}
  EventOf <- MCEventOf
INVARIANTS
  DoneIsSettled
  CallbackIsOwned
PROPERTIES
  ReadersSeeLifecycle
