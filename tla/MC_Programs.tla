---------------------------- MODULE MC_Programs ----------------------------
(***************************************************************************)
(* The programs the runs compile: small function bodies in which every     *)
(* kind of statement, condition and expression occurs, alone, in sequence, *)
(* and nested in another.                                                  *)
(***************************************************************************)
EXTENDS Ast

a == Ident("a")
b == Ident("b")
f == Ident("f")
p == Ident("p")

Less(l, r)  == create_binary("COMP_OP", "<", l, r)
Equal(l, r) == create_binary("COMP_OP", "==", l, r)
And(l, r)   == create_binary("LOGICAL_OP", "&&", l, r)
Or(l, r)    == create_binary("LOGICAL_OP", "||", l, r)
Set(l, r)   == create_binary("ASSIGNMENT", "=", l, r)
Plus(l, r)  == create_binary("BINOP", "+", l, r)
Remainder(l, r) == create_binary("BINOP", "%", l, r)
TimesEq(l, r)     == create_binary("ASSIGNMENT_COMPOUND", "*", l, r)
RemainderEq(l, r) == create_binary("ASSIGNMENT_COMPOUND", "%", l, r)
Deref(e)    == create_unary("*", e)
Incr(e)     == create_unary("++", e)
Not(e)      == create_unary("!", e)
Call(args)  == create_fn_node(f, args)

Break    == Jump("BREAK_JUMP")
Continue == Jump("CONTINUE_JUMP")
Goto     == Jump("GOTO_JUMP")
If(c, s)        == create_if_stmt(s, c, NoNode, "IF_NODE")
IfElse(c, s, e) == create_if_stmt(s, c, e, "IF_NODE")
Switch(c, s)    == create_if_stmt(s, c, NoNode, "SWITCH_NODE")
While(c, s)     == create_while_loop(s, c, FALSE)
DoWhile(c, s)   == create_while_loop(s, c, TRUE)
For(i, c, n, s) == create_for_loop(i, c, s, n)

-----------------------------------------------------------------------------
\* Expression statements.
Expressions ==
  {Set(a, b), Set(a, Less(b, p)), Set(a, And(b, p)), Set(a, Call(<<b>>)),
   Set(a, Plus(b, Incr(p))), Set(a, Deref(p)), Set(Deref(p), Less(a, b)),
   Set(a, Or(b, And(p, Less(a, b)))), Set(a, TimesEq(b, p)),
   TimesEq(a, b), TimesEq(a, Call(<<b>>)), TimesEq(Deref(p), Deref(b)),
   Incr(a), Call(<< >>), Call(<<a, b>>), Call(<<a, Call(<<b>>)>>),
   Call(<<Call(<<b>>), a>>), Call(<<Call(<< >>), a>>), Call(<<Less(a, b), b>>),
   Plus(Less(a, b), And(a, b)), Set(a, Set(b, p)), Set(a, Not(b)), Set(a, Incr(Set(b, p))),
   Plus(b, Incr(Set(b, p))), Set(a, a), Set(a, TimesEq(a, b)),
   create_fn_node(Call(<< >>), <<a>>), create_fn_node(Call(<<b>>), <<a, p>>),
   create_fn_node(Deref(p), <<Less(a, b)>>), create_fn_node(And(a, b), <<b>>),
   Call(<<a, create_fn_node(Call(<<b>>), <<p>>)>>),
   create_fn_node(Call(<<a, b>>), <<Call(<<p>>), b>>)}

\* Conditions gen_condexpr accepts, and two it does not look at closely.
Conditions ==
  {a, Less(a, b), And(a, b), Or(And(a, b), p), And(Less(a, b), Or(p, b)),
   Set(a, b), Set(a, Less(a, b)), Less(Call(<<a>>), b),
   Equal(Less(a, b), p), Not(a), Deref(p), Incr(a)}

\* What the parser accepts and the generator rejects, drops or trips over.
Jumpy == {Goto, [type |-> "TERNARY_NODE"]}   \* no semantics is given to these
Odd ==
  {Switch(a, b), Declaration, create_label_node(Set(a, b)),
   Block(<<Set(a, b)>>), ReturnStmt(NoNode),
   Set(Number(5), a), Set(Deref(Set(a, b)), p), Plus(a, Set(b, p)),
   Set(Plus(a, Call(<< >>)), b), Set(Deref(Not(a)), Call(<<b>>)),
   Remainder(a, Call(<<b>>)), Remainder(Set(a, b), Not(b)),
   RemainderEq(a, b), create_fn_node(Set(p, b), <<a>>),
   create_fn_node(Not(Call(<<a>>)), <<b>>),
   Call(<<Set(a, b)>>), Deref(Set(a, b)), Set(Deref(p), Set(a, b)),
   If(Call(<<a>>), b), If(Plus(a, b), b), If(TimesEq(a, b), b),
   If(Set(Number(5), a), b), If(Set(Deref(p), b), a),
   For(NoNode, a, Incr(b), b), For(Set(a, b), NoNode, Incr(b), b),
   For(Set(a, b), a, NoNode, b)}

Ifs(c, S) == {If(c, s) : s \in S} \cup {IfElse(c, s, Set(p, a)) : s \in S}
             \cup {IfElse(c, Set(p, a), s) : s \in S}
Fors(c, inc, S) == {For(Set(p, b), c, inc, s) : s \in S}
Whiles(c, S) == {While(c, s) : s \in S} \cup {DoWhile(c, s) : s \in S}
Nested(c, S) == Ifs(c, S) \cup Fors(c, Incr(b), S) \cup Whiles(c, S)

Seqs(S, T) == {Block(<<s, t>>) : s \in S, t \in T}

Simple == {Set(a, b), Break, Continue, ReturnStmt(b), Call(<<a>>)}

\* One statement inside another, without and with loops that nest badly.
Plain   == Ifs(Less(a, b), Simple) \cup Fors(Less(a, b), Incr(a), Simple)
Looping == Whiles(Less(a, b), Simple) \cup Fors(a, Call(<<a>>), Simple)

\* Two statements in sequence inside a third.
Pairs  == Seqs(Plain, {Set(a, b), Break, Continue})
          \cup Seqs(Fors(Less(a, b), Incr(a), Simple), Ifs(b, {Break, Continue}))
Deeper == Nested(a, Pairs)

\* Programs of one function.
EachExpression == {<<Block(<<e>>)>> : e \in Expressions}
EachCondition  ==
  {<<Block(<<s, ReturnStmt(a)>>)>> :
     s \in UNION {Nested(c, {Set(a, b)}) : c \in Conditions}}
EachOdd     == {<<Block(<<s, ReturnStmt(a)>>)>> : s \in Odd}
EachJumpy   == {<<Block(<<s, ReturnStmt(a)>>)>> : s \in Jumpy}
EachDeeper  == {<<Block(<<s, Set(b, p)>>)>> : s \in Deeper}
Sequences_  == {<<Block(<<s, t>>)>> : s \in Plain \cup Looping, t \in Looping}
               \cup {<<Block(<<If(a, s), t>>)>> : s \in Looping, t \in Simple}

\* Programs of two functions: the second starts with the globals of the first.
TwoFunctions ==
  {<<Block(<<s>>), Block(<<t>>)>> :
     s \in Plain \cup Looping, t \in Simple \cup Plain \cup Looping}

Executed == EachExpression \cup EachCondition \cup EachOdd \cup EachDeeper
            \cup Sequences_ \cup TwoFunctions

Compiled == Executed \cup EachJumpy

\* Their nodes; no tree above is more than five levels deep.
Down(S) == {n \in S \cup UNION {Children(m) : m \in S} : n # NoNode}
Level1 == UNION {{pr[i] : i \in DOMAIN pr} : pr \in Compiled}
Level2 == Down(Level1)
Level3 == Down(Level2)
Level4 == Down(Level3)
Level5 == Down(Level4)
=============================================================================
