----------------------------- MODULE MC_QuadGen -----------------------------
EXTENDS QuadGen, MC_Programs

\* What compound assignments expand to is among the nodes too.
AllNodes ==
  {n \in Level5 \cup {Expanded(m).right : m \in {l \in Level5 : Compound(l)}} :
     n # NoNode}

MCProgram == Compiled
MCNode == AllNodes

\* A break outside any loop, in a function that follows one with a loop.
StaleBreak == {<<Block(<<DoWhile(Less(a, b), Set(a, b))>>), Block(<<Break>>)>>}
=============================================================================
