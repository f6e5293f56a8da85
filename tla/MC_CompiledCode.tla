-------------------------- MODULE MC_CompiledCode --------------------------
EXTENDS CompiledCode, MC_Programs

MCProgram == Executed
MCNode ==
  {n \in Level5 \cup {Expanded(m).right : m \in {l \in Level5 : Compound(l)}} :
     n # NoNode}

\* The loops of ptests/hw4/loops.c:13-32: a for whose body calls a function,
\* then a do loop.
LoopsTest ==
  {<<Block(<<For(Set(p, b), Less(a, b), Incr(a), Call(<<a>>)),
             DoWhile(Less(a, b), Set(a, b))>>)>>}
=============================================================================
