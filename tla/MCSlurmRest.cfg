SPECIFICATION RestSpec
INVARIANTS
  VerdictIsTrue
PROPERTIES
  AccountingIsFallback
  CompleteRecordResolves
