SPECIFICATION CSpec
CONSTANTS
  Node <- MCNode
  Program <- LoopsTest
  MaxPushed = 2
INVARIANT CompilesC
CHECK_DEADLOCK FALSE
