SPECIFICATION Spec
CONSTANTS
  u1 = u1
  p1 = p1
  NoOne = NoOne
  Users = {u1}
  Pool = {p1}
  MaxMessages = 1
INVARIANTS
  NoCircularWait
  QueuedOnce
