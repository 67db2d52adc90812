SPECIFICATION FairSpec
CONSTANTS
  MaxChunk = 4
  MaxInput = 7
CHECK_DEADLOCK FALSE
INVARIANTS
  SplitIndependent
PROPERTIES
  NoRuneSplit
  WriteTerminates
