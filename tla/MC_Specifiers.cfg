SPECIFICATION Spec
CONSTANTS
  Source <- MCSource
INVARIANTS
  TypeOK
  LegalAccepted
  StorageClassKept
  AcceptsOnlyC
  DeclaredAsWritten
CHECK_DEADLOCK FALSE
