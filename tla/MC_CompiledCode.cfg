SPECIFICATION CSpec
CONSTANTS
  Node <- MCNode
  Program <- MCProgram
  MaxPushed = 2
INVARIANTS
  CodeFollowsSource
  StaysInFunction
CHECK_DEADLOCK FALSE
