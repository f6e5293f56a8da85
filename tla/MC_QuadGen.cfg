SPECIFICATION Spec
CONSTANTS
  Node <- MCNode
  Program <- MCProgram
INVARIANTS
  TypeOK
  BranchesResolved
  OnlyTailOpen
  CompareBeforeBranch
  ArgNotLast
  NeverOuterLoop
PROPERTIES
  ConditionalIsFinal
  Terminates
CHECK_DEADLOCK FALSE
