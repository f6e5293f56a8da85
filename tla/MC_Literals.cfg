SPECIFICATION Spec
CONSTANTS
  Texts <- MCTexts
INVARIANTS
  TypeOK
  LiteralsAsInC
  EscapesReadable
  SectionsHoldStrings
CHECK_DEADLOCK FALSE
