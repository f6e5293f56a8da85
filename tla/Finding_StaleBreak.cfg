SPECIFICATION Spec
CONSTANTS
  Node <- MCNode
  Program <- StaleBreak
INVARIANT BreakOutsideRejected
CHECK_DEADLOCK FALSE
