SPECIFICATION Spec
CONSTANTS
  Source <- UnsignedInt
INVARIANTS
  DeclarationAccepted
CHECK_DEADLOCK FALSE
