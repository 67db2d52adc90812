SPECIFICATION FairSpec
CONSTANTS
  c1 = c1
  Streams = {"stdout"}
  Children = {c1}
CHECK_DEADLOCK FALSE
INVARIANTS
  GroupIsGone
  GraceIsGiven
  FinishedIsEarned
PROPERTIES
  ReportsCorrectly
  CancelledReturns
