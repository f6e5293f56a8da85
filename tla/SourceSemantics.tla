-------------------------- MODULE SourceSemantics --------------------------
(***************************************************************************)
(* What a function body means, written from the C language the grammar of  *)
(* src/parser/parser.y accepts and independently of the generator: the     *)
(* abstract specification of the compiler.                                 *)
(*                                                                         *)
(* The state of an execution is a stack "ctl" of what is left to do.       *)
(* Unfold expands its head; what remains is either empty (the function     *)
(* ends), an event, or a comparison.  Data is left out: an event names the *)
(* nodes whose values it uses and the one it delivers, and a comparison    *)
(* may have any outcome.                                                   *)
(***************************************************************************)
EXTENDS Ast, SequencesExt

Exec(n)       == [i |-> "exec", n |-> n]
Eval(n, dest) == [i |-> "eval", n |-> n, dest |-> dest]
Test(n, t, f) == [i |-> "test", n |-> n, t |-> t, f |-> f]
Again(n)      == [i |-> "again", n |-> n]     \* the next round of a loop
Do(op, src1, src2, result) ==
  [i |-> "event",
   e |-> [op |-> op, src1 |-> src1, src2 |-> src2, result |-> result]]
Compare(l, op, r, t, f) ==
  [i |-> "compare", l |-> l, op |-> op, r |-> r, t |-> t, f |-> f]
Illegal == [i |-> "illegal"]

Outcome == {"LT", "EQ", "GT"}

\* Which outcomes of comparing the two sides make the operator true.
Holds == [op \in {"<", ">", "==", "!=", ">=", "<="} |->
            CASE op = "<"  -> {"LT"}       [] op = ">"  -> {"GT"}
              [] op = "==" -> {"EQ"}       [] op = "!=" -> {"LT", "GT"}
              [] op = ">=" -> {"EQ", "GT"} [] op = "<=" -> {"LT", "EQ"}]

IsBinary(n, operator_type) ==
  n.type = "BINARY_NODE" /\ n.operator_type = operator_type
IsUnary(n, operator) == n.type = "UNARY_NODE" /\ n.operator = operator

\* Where the value of an evaluated node can be read: an assignment has the
\* value of the object it wrote.
Held(n) ==
  IF IsBinary(n, "ASSIGNMENT") \/ IsBinary(n, "ASSIGNMENT_COMPOUND")
    THEN n.left ELSE n

EvalSelf(n) == Eval(n, n)

\* The value of n, already computed, goes to dest.
Deliver(n, dest) ==
  IF dest = n THEN << >> ELSE <<Do("MOV", Held(n), NoNode, dest)>>

\* A variable assigned to itself is written like any other.
UnfoldAssign(n, dest) ==
  IF n.left.type = "IDENT_NODE"
    THEN <<IF n.right.type \in Leaf THEN Do("MOV", n.right, NoNode, n.left)
                                    ELSE Eval(n.right, n.left)>>
         \o Deliver(n, dest)
    ELSE <<EvalSelf(n.left.expr), EvalSelf(n.right),
           Do("STORE", Held(n.right), Held(n.left.expr), NoNode)>>
         \o Deliver(n, dest)

\* left op= right reads and writes one object: its address is computed once.
UnfoldCompound(n, dest) ==
  LET sum == create_binary("BINOP", n.operator, n.left, n.right) IN
  IF n.left.type = "IDENT_NODE"
    THEN <<EvalSelf(n.right), Do("ADD", n.left, Held(n.right), n.left)>>
         \o Deliver(n, dest)
    ELSE <<EvalSelf(n.left.expr),
           Do("LOAD", Held(n.left.expr), NoNode, n.left), EvalSelf(n.right),
           Do("ADD", n.left, Held(n.right), sum),
           Do("STORE", sum, Held(n.left.expr), NoNode)>>
         \o Deliver(n, dest)

UnfoldEval(n, dest) ==
  CASE n.type \in Leaf ->
         IF dest = n THEN << >> ELSE <<Do("MOV", n, NoNode, dest)>>
    [] IsBinary(n, "BINOP") ->
         <<EvalSelf(n.left), EvalSelf(n.right),
           Do("ADD", Held(n.left), Held(n.right), dest)>>
    [] IsBinary(n, "ASSIGNMENT") -> UnfoldAssign(n, dest)
    [] IsBinary(n, "ASSIGNMENT_COMPOUND") -> UnfoldCompound(n, dest)
    [] IsUnary(n, "*") ->
         <<EvalSelf(n.expr), Do("LOAD", Held(n.expr), NoNode, dest)>>
    [] IsUnary(n, "++") ->
         <<EvalSelf(n.expr), Do("POSTINC", Held(n.expr), NoNode, dest)>>
    [] n.type = "FN_CALL" ->
         <<EvalSelf(n.postfix)>>
         \o [i \in DOMAIN n.head |-> EvalSelf(Reverse(n.head)[i])]
         \o <<Do("CALL", Held(n.postfix),
                 Block([i \in DOMAIN n.head |-> Held(n.head[i])]), dest)>>
    [] OTHER ->
         <<Test(n, <<Do("MOV", Number(1), NoNode, dest)>>,
                   <<Do("MOV", Number(0), NoNode, dest)>>)>>

UnfoldTest(n, t, f) ==
  CASE n.type \in Leaf -> <<Compare(n, "!=", Number(0), t, f)>>
    [] IsBinary(n, "LOGICAL_OP") ->
         IF n.operator = "&&" THEN <<Test(n.left, <<Test(n.right, t, f)>>, f)>>
                              ELSE <<Test(n.left, t, <<Test(n.right, t, f)>>)>>
    [] IsBinary(n, "COMP_OP") ->
         <<EvalSelf(n.left), EvalSelf(n.right),
           Compare(Held(n.left), n.operator, Held(n.right), t, f)>>
    [] IsUnary(n, "!") -> <<Test(n.expr, f, t)>>
    [] OTHER -> <<EvalSelf(n), Compare(Held(n), "!=", Number(0), t, f)>>

\* One test of a loop's condition and what follows it.
Round(n) ==
  Test(n.cond,
       <<Exec(IF n.type = "FOR_LOOP" THEN n.body ELSE n.stmt), Again(n)>>,
       << >>)

UnfoldExec(n) ==
  CASE n.type = "COMPOUND" -> [i \in DOMAIN n.ds_list |-> Exec(n.ds_list[i])]
    [] n.type = "LABEL_NODE" -> <<Exec(n.stmt)>>
    [] n.type = "DECLARATION" -> << >>
    [] n.type = "IF_STMT" ->
         <<Test(n.cond, <<Exec(n.stmt)>>,
                IF n.else_stmt = NoNode THEN << >> ELSE <<Exec(n.else_stmt)>>)>>
    [] n.type = "FOR_LOOP" -> <<Exec(n.init), Round(n)>>
    [] n.type = "WHILE_LOOP" ->
         IF n.do_while THEN <<Exec(n.stmt), Again(n)>> ELSE <<Round(n)>>
    [] n.type = "JUMP_NODE" ->
         <<EvalSelf(n.expr), Do("RETURN", Held(n.expr), NoNode, NoNode)>>
    [] OTHER -> <<EvalSelf(n)>>

IsJump(item, jump_type) ==
  /\ item.i = "exec"
  /\ item.n.type = "JUMP_NODE"
  /\ item.n.jump_type = jump_type

\* A jump leaves everything up to the next round of the innermost loop.
Unwind(ctl, keep) ==
  LET rounds == {j \in DOMAIN ctl : ctl[j].i = "again"} IN
  IF rounds = {} THEN <<Illegal>>
  ELSE LET j == CHOOSE j \in rounds : \A k \in rounds : j <= k IN
       SubSeq(ctl, IF keep THEN j ELSE j + 1, Len(ctl))

\* Can the head of ctl be expanded, or is it for the execution to perform?
Expandable(ctl) == ctl # << >> /\ Head(ctl).i \in {"exec", "eval", "test", "again"}

Unfold(ctl) ==
  LET item == Head(ctl) IN
  IF IsJump(item, "BREAK_JUMP") THEN Unwind(ctl, FALSE)
  ELSE IF IsJump(item, "CONTINUE_JUMP") THEN Unwind(ctl, TRUE)
  ELSE (CASE item.i = "exec" -> UnfoldExec(item.n)
          [] item.i = "eval" -> UnfoldEval(item.n, item.dest)
          [] item.i = "test" -> UnfoldTest(item.n, item.t, item.f)
          [] item.i = "again" ->
               IF item.n.type = "FOR_LOOP"
                 THEN <<Exec(item.n.inc), Round(item.n)>>
                 ELSE <<Round(item.n)>>)
       \o Tail(ctl)
=============================================================================
