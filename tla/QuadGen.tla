------------------------------ MODULE QuadGen ------------------------------
(***************************************************************************)
(* The generator of quads and basic blocks of src/quads/quads.c: gen_quads *)
(* and the recursive routines it calls (gen_stmt, gen_rvalue,              *)
(* gen_binary_node, gen_unary_node, gen_fn_call, gen_assign, gen_if,       *)
(* gen_for_loop, gen_while_loop, gen_condexpr).                            *)
(*                                                                         *)
(* The recursion of the C code is the stack "work": its head is the call   *)
(* in progress, the rest is what the active calls still have to do when it *)
(* returns.  An action is a routine up to its next recursive call.  A quad *)
(* names its operands by the nodes they were generated from: a leaf is the *)
(* variable or the constant, any other node the temporary that holds its   *)
(* value.  Types and the scaling of pointers are not in this module.  In a *)
(* LOGICAL_OP the operator is && or ||: &, | and ^ take the path of BINOP. *)
(* The left side of a compound assignment is generated twice; a call in it *)
(* is not considered, because reverse_ll turns the list of its arguments   *)
(* around in place and the second time finds them in the other order.  Nor *)
(* is a compound assignment that stores through the value of another one.  *)
(***************************************************************************)
EXTENDS Ast, BasicBlocks, SequencesExt

CONSTANTS
  Node,       \* every AST node of the programs considered
  Program     \* the programs: sequences of function bodies

VARIABLES
  prog,         \* bodies of the functions the parser has yet to reduce
  work,         \* what remains to do of the calls that are active
  blocks,       \* every basic block created, in order
  block_head,   \* first block of each function generated so far
  curr_block,   \* where emit appends
  break_block,  \* target of a break
  cont_block,   \* target of a continue
  status        \* what the compiler is doing

vars == <<prog, work, blocks, block_head, curr_block, break_block, cont_block,
          status>>

\* "error" is exit(2) with a diagnostic, "abort" is die(), "crash" is the
\* use of a NULL pointer, "done" is the end of the translation unit.
Status == {"parse", "gen", "done", "error", "abort", "crash"}

-----------------------------------------------------------------------------
\* The calls and the continuations that work holds.

Quad(op, src1, src2, result) ==
  [op |-> op, src1 |-> src1, src2 |-> src2, result |-> result]

Stmt(n)           == [k |-> "stmt", n |-> n]
Rvalue(n, target) == [k |-> "rvalue", n |-> n, target |-> target]
Cond(n, bt, bf)   == [k |-> "cond", n |-> n, bt |-> bt, bf |-> bf]

SetCurr(b)   == [k |-> "curr", b |-> b]                \* curr_block = b
Link(b, to)  == [k |-> "link", b |-> b, to |-> to]     \* link_bb(b, BR, to)
LinkCurr(to) == [k |-> "linkcurr", to |-> to]
Emit(q)      == [k |-> "emit", q |-> q]
\* emit and then link_bb(curr_block, branch, l, r)
Branch(q, branch, l, r) ==
  [k |-> "branch", q |-> q, branch |-> branch, l |-> l, r |-> r]
EndCall(q)   == [k |-> "call", q |-> q]
ForBlocks(n) == [k |-> "for", n |-> n]
Die(why)     == [k |-> "die", why |-> why]             \* the program ends
\* curr_block = b; break_block = brk
LoopHead(b, brk) == [k |-> "head", b |-> b, brk |-> brk]
\* the end of a loop whose blocks for break and continue are brk and cnt
EndLoop(brk, cnt) == [k |-> "loop", brk |-> brk, cnt |-> cnt]

Top == Head(work)
At(k) == status = "gen" /\ work # << >> /\ Top.k = k
AtNode(k, type) == At(k) /\ Top.n.type = type
AtBinary(k, operator_types) ==
  AtNode(k, "BINARY_NODE") /\ Top.n.operator_type \in operator_types
AtUnary(k, operators) == AtNode(k, "UNARY_NODE") /\ Top.n.operator \in operators

\* The call returns after the frames fs, the calls it still has to make.
Return(fs) == work' = fs \o Tail(work)

Stop(why) ==
  /\ status' = why
  /\ UNCHANGED <<prog, work, blocks, block_head, curr_block, break_block,
                 cont_block>>

\* What most routines leave alone.
Loops == <<break_block, cont_block>>
Unit  == <<prog, block_head, status>>

Next1 == Len(blocks) + 1
Next2 == Len(blocks) + 2
Next3 == Len(blocks) + 3
Next4 == Len(blocks) + 4

-----------------------------------------------------------------------------
\* What a call of gen_rvalue returns.

\* The operators get_opcode knows.
Arithmetic == {"+", "-", "*", "/"}

\* Nodes no branch of gen_rvalue mentions, and goto: target comes back.
Ignored == {"COMPOUND", "LABEL_NODE", "CASE_NODE", "TERNARY_NODE",
            "DECLARATION"}

\* if (!target) target = new_temporary(...)
Temp(n, target) == IF target = NoNode THEN n ELSE target

Compound(n) == n.type = "BINARY_NODE" /\ n.operator_type = "ASSIGNMENT_COMPOUND"

\* The variable an assignment writes, or the pointer it writes through.
Destination(lhs) == IF lhs.type = "UNARY_NODE" THEN lhs.expr ELSE lhs

\* Does gen_rvalue hand back the target it was given, evaluated or not?
TargetOnly(n) ==
  \/ n.type \in Ignored \cup {"JUMP_NODE", "IF_STMT", "FOR_LOOP", "WHILE_LOOP"}
  \/ n.type = "BINARY_NODE" /\ n.operator_type = "ASSIGNMENT"
  \/ n.type = "UNARY_NODE" /\ n.operator = "!"

Value(n, target) ==
  IF n.type \in Leaf THEN n
  ELSE IF TargetOnly(n) THEN target
  ELSE IF Compound(n) THEN Destination(n.left)
  ELSE Temp(n, target)

Operand(n) == Value(n, NoNode)

\* left op= right is left = left op right.  The operator stays unwritten, in
\* memory that reads as zero, when the switch has no case for it.
Expanded(n) ==
  create_binary("ASSIGNMENT", "=", n.left,
                create_binary("BINOP",
                              IF n.operator \in Arithmetic THEN n.operator
                                                           ELSE "unwritten",
                              n.left, n.right))

\* gen_lvalue has a branch for the left side of the assignment.
HasLvalue(n) ==
  \/ n.left.type = "IDENT_NODE"
  \/ n.left.type = "UNARY_NODE" /\ n.left.operator = "*"

\* gen_assign: the calls it makes, in order.  The right side of a direct one
\* is moved if its node is not the very node dst: a leaf and the destination
\* of a compound assignment are nodes of their own, be it for the same name.
\* Of an indirect one the left side is generated before dst turns out NULL.
Assignment(n) ==
  IF n.left.type = "IDENT_NODE"
    THEN <<Rvalue(n.right, n.left)>>
         \o (IF n.right.type \in Leaf \/ Compound(n.right)
               THEN <<Emit(Quad("MOV", Value(n.right, n.left), NoNode, n.left))>>
               ELSE << >>)
    ELSE <<Rvalue(n.left.expr, NoNode)>>
         \o (IF Operand(n.left.expr) = NoNode
               THEN <<Die("error")>>
               ELSE <<Rvalue(n.right, NoNode),
                      Emit(Quad("STORE", Operand(n.right), Operand(n.left.expr),
                                NoNode))>>)

-----------------------------------------------------------------------------

\* BeginFunction without the reset of block_tail.
BeginFunction_KeepsTail ==
  /\ status = "parse"
  /\ prog # << >>
  /\ blocks' = create_basic_block(blocks, Len(blocks))
  /\ block_head' = Append(block_head, Next1)
  /\ curr_block' = Next1
  /\ work' = <<Stmt(Head(prog))>>
  /\ prog' = Tail(prog)
  /\ status' = "gen"
  /\ UNCHANGED Loops

\* gen_quads: the block list starts again with one block.  break_block and
\* cont_block keep the values the previous function left.
BeginFunction ==
  /\ status = "parse"
  /\ prog # << >>
  /\ blocks' = create_basic_block(blocks, NULL)
  /\ block_head' = Append(block_head, Next1)
  /\ curr_block' = Next1
  /\ work' = <<Stmt(Head(prog))>>
  /\ prog' = Tail(prog)
  /\ status' = "gen"
  /\ UNCHANGED Loops

\* The end of gen_quads: a return is inserted if the last quad is not one.
EndFunction ==
  /\ status = "gen"
  /\ work = << >>
  /\ blocks' = IF LastOpcode(blocks[curr_block]) = "RETURN"
                 THEN blocks
                 ELSE emit(blocks, curr_block,
                           Quad("RETURN", Number(0), NoNode, NoNode))
  /\ status' = IF prog = << >> THEN "done" ELSE "parse"
  /\ UNCHANGED <<prog, work, block_head, curr_block, break_block, cont_block>>

\* gen_stmt.  The members of a compound statement go to gen_rvalue.
GenStmt ==
  /\ At("stmt")
  /\ Top.n # NoNode
  /\ Return(IF Top.n.type = "COMPOUND"
              THEN [i \in DOMAIN Top.n.ds_list |->
                      Rvalue(Top.n.ds_list[i], NoNode)]
              ELSE <<Rvalue(Top.n, NoNode)>>)
  /\ UNCHANGED <<blocks, curr_block, Loops, Unit>>

\* asthead->type, node->type with a NULL pointer: a loop without one of its
\* expressions, a return without a value.
NullNode ==
  /\ status = "gen" /\ work # << >>
  /\ Top.k \in {"stmt", "rvalue", "cond"}
  /\ Top.n = NoNode
  /\ Stop("crash")

\* The assignments and calls a routine makes between two recursive calls.
SetCurrBlock ==
  /\ At("curr")
  /\ curr_block' = Top.b
  /\ Return(<< >>)
  /\ UNCHANGED <<blocks, Loops, Unit>>

LinkBlock ==
  /\ \/ /\ At("link")
        /\ blocks' = link_bb(blocks, Top.b, "BR", Top.to, NULL)
     \/ /\ At("linkcurr")
        /\ blocks' = link_bb(blocks, curr_block, "BR", Top.to, NULL)
     \/ /\ At("branch")
        /\ blocks' = link_bb(emit(blocks, curr_block, Top.q),
                             curr_block, Top.branch, Top.l, Top.r)
  /\ Return(<< >>)
  /\ UNCHANGED <<curr_block, Loops, Unit>>

\* These read a field of an operand before they emit; ++ does so for the type
\* of its temporary, when it was given no variable for its value.
Dereferenced(q) ==
  CASE q.op = "ADD" -> {q.src1, q.src2}
    [] q.op = "ARG" -> {q.src2}
    [] q.op = "LOAD" -> {q.src1}
    [] q.op = "POSTINC" -> IF q.result.type \in Leaf THEN {} ELSE {q.src1}
    [] OTHER -> {}

EmitQuad ==
  /\ At("emit")
  /\ IF NoNode \in Dereferenced(Top.q)
       THEN Stop("crash")
       ELSE /\ blocks' = emit(blocks, curr_block, Top.q)
            /\ Return(<< >>)
            /\ UNCHANGED <<curr_block, Loops, Unit>>

\* What the calls before it lead up to: an operator that is not supported, an
\* error found once an operand is generated, a NULL operand.
GiveUp ==
  /\ At("die")
  /\ Stop(Top.why)

-----------------------------------------------------------------------------
\* gen_rvalue of an expression that needs no block of its own.
RvalueLeaf ==
  /\ At("rvalue")
  /\ \/ Top.n.type \in Leaf \cup Ignored
     \/ Top.n.type = "JUMP_NODE" /\ Top.n.jump_type = "GOTO_JUMP"
  /\ Return(<< >>)
  /\ UNCHANGED <<blocks, curr_block, Loops, Unit>>

\* Both operands come before the operator is looked at.  (That operands which
\* are pointers only take some of the operators is in module Expressions.)
RvalueBinop ==
  /\ AtBinary("rvalue", {"BINOP"})
  /\ LET n == Top.n IN
       Return(<<Rvalue(n.left, NoNode), Rvalue(n.right, NoNode)>>
              \o IF n.operator \in Arithmetic
                   THEN <<Emit(Quad("ADD", Operand(n.left), Operand(n.right),
                                    Temp(n, Top.target)))>>
                   ELSE <<Die(IF NoNode \in {Operand(n.left), Operand(n.right)}
                                THEN "crash" ELSE "abort")>>)
  /\ UNCHANGED <<blocks, curr_block, Loops, Unit>>

RvalueAssignment ==
  /\ AtBinary("rvalue", {"ASSIGNMENT", "ASSIGNMENT_COMPOUND"})
  /\ IF ~HasLvalue(Top.n)
       THEN Stop("error")
       ELSE /\ Return(Assignment(IF Compound(Top.n) THEN Expanded(Top.n)
                                                    ELSE Top.n))
            /\ UNCHANGED <<blocks, curr_block, Loops, Unit>>

\* RvalueUnary without the return of target at the end of gen_unary_node.
RvalueUnary_NoDefault ==
  /\ AtUnary("rvalue", {"*", "++"})
  /\ LET n == Top.n
         op == IF n.operator = "*" THEN "LOAD" ELSE "POSTINC" IN
       Return(<<Rvalue(n.expr, NoNode),
                Emit(Quad(op, Operand(n.expr), NoNode, Temp(n, Top.target)))>>)
  /\ UNCHANGED <<blocks, curr_block, Loops, Unit>>

RvalueUnary ==
  /\ AtUnary("rvalue", {"*", "++", "!"})
  /\ LET n == Top.n
         op == IF n.operator = "*" THEN "LOAD" ELSE "POSTINC" IN
       Return(IF n.operator = "!"
                THEN << >>
                ELSE <<Rvalue(n.expr, NoNode),
                       Emit(Quad(op, Operand(n.expr), NoNode,
                                 Temp(n, Top.target)))>>)
  /\ UNCHANGED <<blocks, curr_block, Loops, Unit>>

\* RvalueComparison without curr_block = Bt.
RvalueComparison_StaysPut ==
  /\ AtBinary("rvalue", {"COMP_OP"})
  /\ LET Mov(i) == Emit(Quad("MOV", Number(i), NoNode,
                             Temp(Top.n, Top.target))) IN
       /\ blocks' = Create3(blocks)
       /\ Return(<<Cond(Top.n, Next1, Next2), Mov(1), LinkCurr(Next3),
                   SetCurr(Next2), Mov(0), LinkCurr(Next3), SetCurr(Next3)>>)
  /\ UNCHANGED <<curr_block, Loops, Unit>>

\* A comparison whose value is used: 1 in Bt, 0 in Bf, both go on at Bn.
RvalueComparison ==
  /\ AtBinary("rvalue", {"COMP_OP"})
  /\ LET Mov(i) == Emit(Quad("MOV", Number(i), NoNode,
                             Temp(Top.n, Top.target))) IN
       /\ blocks' = Create3(blocks)
       /\ Return(<<Cond(Top.n, Next1, Next2),
                   SetCurr(Next1), Mov(1), LinkCurr(Next3),
                   SetCurr(Next2), Mov(0), LinkCurr(Next3),
                   SetCurr(Next3)>>)
  /\ UNCHANGED <<curr_block, Loops, Unit>>

\* RvalueLogical without the block that follows.
RvalueLogical_NoBn ==
  /\ AtBinary("rvalue", {"LOGICAL_OP"})
  /\ LET Mov(i) == Emit(Quad("MOV", Number(i), NoNode,
                             Temp(Top.n, Top.target))) IN
       /\ blocks' = Create2(blocks)
       /\ Return(<<Cond(Top.n, Next1, Next2),
                   Link(Next1, Next3), Link(Next2, Next3),
                   SetCurr(Next1), Mov(1), SetCurr(Next2), Mov(0),
                   SetCurr(Next3)>>)
  /\ UNCHANGED <<curr_block, Loops, Unit>>

RvalueLogical ==
  /\ AtBinary("rvalue", {"LOGICAL_OP"})
  /\ LET Mov(i) == Emit(Quad("MOV", Number(i), NoNode,
                             Temp(Top.n, Top.target))) IN
       /\ blocks' = Create3(blocks)
       /\ Return(<<Cond(Top.n, Next1, Next2),
                   Link(Next1, Next3), Link(Next2, Next3),
                   SetCurr(Next1), Mov(1), SetCurr(Next2), Mov(0),
                   SetCurr(Next3)>>)
  /\ UNCHANGED <<curr_block, Loops, Unit>>

\* The arguments are evaluated and pushed from the last to the first.
PushArguments(args) ==
  [i \in 1..2 * Len(args) |->
     LET arg == args[(i + 1) \div 2] IN
     IF i % 2 = 1
       THEN Rvalue(arg, NoNode)
       ELSE Emit(Quad("ARG", Number(i \div 2), Operand(arg), NoNode))]

\* gen_fn_call: the function called comes before its arguments; its type is
\* read even if it has no value.
RvalueCall ==
  /\ AtNode("rvalue", "FN_CALL")
  /\ LET n == Top.n
         fn_ident == Operand(n.postfix) IN
       /\ blocks' = emit(blocks, curr_block,
                         Quad("ARGBEGIN", Number(Len(n.head)), NoNode, NoNode))
       /\ Return(<<Rvalue(n.postfix, NoNode)>>
                 \o IF fn_ident = NoNode
                      THEN <<Die("crash")>>
                      ELSE PushArguments(Reverse(n.head))
                           \o <<EndCall(Quad("CALL", fn_ident, NoNode,
                                             Temp(n, Top.target)))>>)
  /\ UNCHANGED <<curr_block, Loops, Unit>>

\* EndOfCall with the new block created before the CALL is emitted.
EndOfCall_Late ==
  /\ At("call")
  /\ blocks' = emit(link_bb(Create1(blocks), curr_block, "BR", Next1, NULL),
                    Next1, Top.q)
  /\ curr_block' = Next1
  /\ Return(<< >>)
  /\ UNCHANGED <<Loops, Unit>>

EndOfCall ==
  /\ At("call")
  /\ blocks' = link_bb(Create1(emit(blocks, curr_block, Top.q)),
                       curr_block, "BR", Next1, NULL)
  /\ curr_block' = Next1
  /\ Return(<< >>)
  /\ UNCHANGED <<Loops, Unit>>

-----------------------------------------------------------------------------
\* Jumps.
ReturnJump ==
  /\ AtNode("rvalue", "JUMP_NODE")
  /\ Top.n.jump_type = "RETURN_JUMP"
  /\ Return(<<Rvalue(Top.n.expr, NoNode),
              Emit(Quad("RETURN", IF Top.n.expr = NoNode
                                    THEN NoNode ELSE Operand(Top.n.expr),
                        NoNode, NoNode))>>)
  /\ UNCHANGED <<blocks, curr_block, Loops, Unit>>

\* JumpTo without the check.
JumpTo_Unchecked(target) ==
  /\ blocks' = link_bb(Create1(blocks), curr_block, "BR", target, NULL)
  /\ curr_block' = Next1
  /\ Return(<< >>)
  /\ UNCHANGED <<Loops, Unit>>

\* Without a loop around it the statement ends the compilation; otherwise a
\* new block takes the quads that follow.
JumpTo(target) ==
  IF target = NULL
    THEN Stop("error")
    ELSE /\ blocks' = link_bb(Create1(blocks), curr_block, "BR", target, NULL)
         /\ curr_block' = Next1
         /\ Return(<< >>)
         /\ UNCHANGED <<Loops, Unit>>

LoopJump ==
  /\ AtNode("rvalue", "JUMP_NODE")
  /\ \/ Top.n.jump_type = "BREAK_JUMP" /\ JumpTo(break_block)
     \/ Top.n.jump_type = "CONTINUE_JUMP" /\ JumpTo(cont_block)

-----------------------------------------------------------------------------
\* gen_if.  Without else the false branch is the block after the statement.
GenIf ==
  /\ AtNode("rvalue", "IF_STMT")
  /\ LET n == Top.n
         Bn == IF n.else_stmt = NoNode THEN Next2 ELSE Next3 IN
       IF n.cond_type = "SWITCH_NODE"
         THEN Stop("error")
         ELSE /\ blocks' = IF n.else_stmt = NoNode THEN Create2(blocks)
                                                   ELSE Create3(blocks)
              /\ Return(<<Cond(n.cond, Next1, Next2),
                          SetCurr(Next1), Stmt(n.stmt), LinkCurr(Bn)>>
                        \o (IF n.else_stmt = NoNode
                              THEN << >>
                              ELSE <<SetCurr(Next2), Stmt(n.else_stmt),
                                     LinkCurr(Bn)>>)
                        \o <<SetCurr(Bn)>>)
              /\ UNCHANGED <<curr_block, Loops, Unit>>

\* gen_for_loop: init first, the four blocks after it.
GenForLoop ==
  /\ AtNode("rvalue", "FOR_LOOP")
  /\ Return(<<Stmt(Top.n.init), ForBlocks(Top.n)>>)
  /\ UNCHANGED <<blocks, curr_block, Loops, Unit>>

\* GenForBlocks without cont_block = Binc.
GenForBlocks_NoContinue ==
  /\ At("for")
  /\ LET n == Top.n
         init == curr_block  Bcond  == Next1  Bbody == Next2
         Binc == Next3       Bbreak == Next4 IN
       /\ blocks' = Create4(blocks)
       /\ break_block' = Bbreak
       /\ curr_block' = Bbody
       /\ Return(<<Stmt(n.body), LinkCurr(Binc), Link(Binc, Bcond),
                   SetCurr(Binc), Stmt(n.inc), Link(init, Bcond),
                   SetCurr(Bcond), Cond(n.cond, Bbody, Bbreak),
                   EndLoop(Bbreak, Binc)>>)
  /\ UNCHANGED <<cont_block, Unit>>

GenForBlocks ==
  /\ At("for")
  /\ LET n == Top.n
         init == curr_block  Bcond  == Next1  Bbody == Next2
         Binc == Next3       Bbreak == Next4 IN
       /\ blocks' = Create4(blocks)
       /\ cont_block' = Binc
       /\ break_block' = Bbreak
       /\ curr_block' = Bbody
       /\ Return(<<Stmt(n.body), LinkCurr(Binc), Link(Binc, Bcond),
                   SetCurr(Binc), Stmt(n.inc), Link(init, Bcond),
                   SetCurr(Bcond), Cond(n.cond, Bbody, Bbreak),
                   EndLoop(Bbreak, Binc)>>)
  /\ UNCHANGED Unit

\* gen_while_loop.  Nothing links the block before the loop to Bstart but
\* create_basic_block, and that only when the block is the tail.
GenWhileLoop ==
  /\ AtNode("rvalue", "WHILE_LOOP")
  /\ LET n == Top.n
         Bstart == Next1  Bbody == Next2  Bbreak == Next3 IN
       /\ blocks' = Create3(blocks)
       /\ curr_block' = Bstart
       /\ break_block' = Bbreak
       /\ IF n.do_while
            THEN /\ cont_block' = Bbody
                 /\ Return(<<Stmt(n.stmt), LinkCurr(Bbody),
                             LoopHead(Bbody, Bbreak),
                             Cond(n.cond, Bstart, Bbreak),
                             EndLoop(Bbreak, Bbody)>>)
            ELSE /\ cont_block' = Bstart
                 /\ Return(<<Cond(n.cond, Bbody, Bbreak),
                             LoopHead(Bbody, Bbreak),
                             Stmt(n.stmt), LinkCurr(Bstart),
                             EndLoop(Bbreak, Bstart)>>)
  /\ UNCHANGED Unit

EnterPart ==
  /\ At("head")
  /\ curr_block' = Top.b
  /\ break_block' = Top.brk
  /\ Return(<< >>)
  /\ UNCHANGED <<blocks, cont_block, Unit>>

LeaveLoop ==
  /\ At("loop")
  /\ curr_block' = Top.brk
  /\ Return(<< >>)
  /\ UNCHANGED <<blocks, Loops, Unit>>

-----------------------------------------------------------------------------
\* gen_condexpr.

\* The value n, compared with 0.
NotZero(n, bt, bf) ==
  Branch(Quad("CMP", n, Number(0), NoNode), "BRNEQ", bt, bf)

\* Inverted with < kept where it should be >=.
Inverted_Strict == [op \in {"<", ">", "==", "!=", ">=", "<="} |->
               CASE op = "<"  -> "BRGT"  [] op = ">"  -> "BRLEQ"
                 [] op = "==" -> "BRNEQ" [] op = "!=" -> "BREQ"
                 [] op = ">=" -> "BRLT"  [] op = "<=" -> "BRGT"]

Inverted == [op \in {"<", ">", "==", "!=", ">=", "<="} |->
               CASE op = "<"  -> "BRGEQ" [] op = ">"  -> "BRLEQ"
                 [] op = "==" -> "BRNEQ" [] op = "!=" -> "BREQ"
                 [] op = ">=" -> "BRLT"  [] op = "<=" -> "BRGT"]

CondLeaf ==
  /\ At("cond")
  /\ Top.n.type \in Leaf
  /\ Return(<<NotZero(Top.n, Top.bt, Top.bf)>>)
  /\ UNCHANGED <<blocks, curr_block, Loops, Unit>>

CondAssignment ==
  /\ AtBinary("cond", {"ASSIGNMENT"})
  /\ IF ~HasLvalue(Top.n)
       THEN Stop("error")
       ELSE /\ Return(Assignment(Top.n)
                      \o <<NotZero(Destination(Top.n.left), Top.bt, Top.bf)>>)
            /\ UNCHANGED <<blocks, curr_block, Loops, Unit>>

\* CondLogical without curr_block = Btmp.
CondLogical_StaysPut ==
  /\ AtBinary("cond", {"LOGICAL_OP"})
  /\ LET n == Top.n  Btmp == Next1 IN
       /\ blocks' = Create1(blocks)
       /\ Return(<<IF n.operator = "&&" THEN Cond(n.left, Btmp, Top.bf)
                                        ELSE Cond(n.left, Top.bt, Btmp),
                   Cond(n.right, Top.bt, Top.bf)>>)
  /\ UNCHANGED <<curr_block, Loops, Unit>>

\* The left side decides alone, or passes on to the right side in Btmp.
CondLogical ==
  /\ AtBinary("cond", {"LOGICAL_OP"})
  /\ LET n == Top.n  Btmp == Next1 IN
       /\ blocks' = Create1(blocks)
       /\ Return(<<IF n.operator = "&&" THEN Cond(n.left, Btmp, Top.bf)
                                        ELSE Cond(n.left, Top.bt, Btmp),
                   SetCurr(Btmp), Cond(n.right, Top.bt, Top.bf)>>)
  /\ UNCHANGED <<curr_block, Loops, Unit>>

\* Every other binary operator is taken for a comparison; the branch is the
\* opposite one, with the two targets swapped.
CondComparison ==
  /\ AtBinary("cond", {"COMP_OP", "BINOP", "ASSIGNMENT_COMPOUND"})
  /\ LET n == Top.n
         cmp == Quad("CMP", Operand(n.left), Operand(n.right), NoNode) IN
       Return(<<Rvalue(n.left, NoNode), Rvalue(n.right, NoNode)>>
              \o IF n.operator \in DOMAIN Inverted
                   THEN <<Branch(cmp, Inverted[n.operator], Top.bf, Top.bt)>>
                   ELSE <<Emit(cmp), Die("abort")>>)
  /\ UNCHANGED <<blocks, curr_block, Loops, Unit>>

\* The operator itself is not looked at.
CondUnary ==
  /\ AtNode("cond", "UNARY_NODE")
  /\ LET n == Top.n IN
       Return(<<Rvalue(n.expr, NoNode),
                NotZero(Operand(n.expr), Top.bt, Top.bf)>>)
  /\ UNCHANGED <<blocks, curr_block, Loops, Unit>>

CondInvalid ==
  /\ At("cond")
  /\ Top.n # NoNode
  /\ Top.n.type \notin Leaf \cup {"BINARY_NODE", "UNARY_NODE"}
  /\ Stop("abort")

-----------------------------------------------------------------------------
Init ==
  /\ prog \in Program
  /\ work = << >>
  /\ blocks = << >>
  /\ block_head = << >>
  /\ curr_block = NULL
  /\ break_block = NULL
  /\ cont_block = NULL
  /\ status = "parse"

Expression ==
  \/ RvalueLeaf \/ RvalueBinop \/ RvalueAssignment \/ RvalueUnary
  \/ RvalueComparison \/ RvalueLogical \/ RvalueCall \/ EndOfCall

Statement ==
  \/ GenStmt \/ ReturnJump \/ LoopJump \/ GenIf \/ GenForLoop \/ GenForBlocks
  \/ GenWhileLoop \/ EnterPart \/ LeaveLoop

Condition ==
  \/ CondLeaf \/ CondAssignment \/ CondLogical \/ CondComparison \/ CondUnary
  \/ CondInvalid

Step ==
  \/ NullNode \/ SetCurrBlock \/ LinkBlock \/ EmitQuad \/ GiveUp
  \/ Expression \/ Statement \/ Condition

Next == BeginFunction \/ EndFunction \/ Step

\* The compiler is one thread that runs until it exits.
Spec == Init /\ [][Next]_vars /\ WF_vars(Next)

-----------------------------------------------------------------------------
\* The programs are closed under the pointers of their nodes, and hold the
\* node that a compound assignment builds.
Maybe == Node \cup {NoNode}

ASSUME NodeAssumption ==
  /\ NoNode \notin Node
  /\ \A n \in Node :
       /\ Children(n) \subseteq Maybe
       /\ n.type = "COMPOUND" => n.ds_list \in Seq(Node)
       /\ n.type = "FN_CALL" => n.head \in Seq(Node)
       /\ Compound(n) => Expanded(n).right \in Node

\* What the grammar derives from expr: the operands of an operator and the
\* arguments of a call are expressions, never statements.
ExpressionType == Leaf \cup {"BINARY_NODE", "UNARY_NODE", "FN_CALL", "TERNARY_NODE"}

ASSUME ExpressionAssumption ==
  \A n \in Node :
    n.type \in {"BINARY_NODE", "UNARY_NODE", "FN_CALL"} =>
      \A m \in Children(n) : m.type \in ExpressionType

ASSUME ProgramAssumption == \A p \in Program : p \in Seq(Node)

\* The values a frame of work may have when there are nb blocks.
Operands == Maybe \cup [type : {"NUM"}, integer : Nat]
Quads == [op : Opcode, src1 : Operands, src2 : Operands, result : Operands]

Frames(nb) ==
  LET Block_ == 1..nb IN
       [k : {"stmt"}, n : Maybe]
  \cup [k : {"for"}, n : {n \in Node : n.type = "FOR_LOOP"}]
  \cup [k : {"rvalue"}, n : Maybe, target : Maybe]
  \cup [k : {"cond"}, n : Maybe, bt : Block_, bf : Block_]
  \cup [k : {"curr"}, b : Block_]
  \cup [k : {"link"}, b : Block_, to : Block_]
  \cup [k : {"linkcurr"}, to : Block_]
  \cup [k : {"emit", "call"}, q : Quads]
  \cup [k : {"branch"}, q : Quads, branch : BranchType, l : Block_, r : Block_]
  \cup [k : {"head"}, b : Block_, brk : Block_]
  \cup [k : {"loop"}, brk : Block_, cnt : Block_]
  \cup [k : {"die"}, why : {"abort", "error", "crash"}]

BasicBlock(nb) ==
  [quads : Seq(Quads), branch : BranchType \cup {"NONE"},
   left : 0..nb, right : 0..nb]

\* The types of the globals of quads.c.  While a function is generated there
\* is a current block, and no call in progress holds a NULL block.
TypeOK ==
  /\ prog \in Seq(Node)
  /\ work \in Seq(Frames(Len(blocks)))
  /\ blocks \in Seq(BasicBlock(Len(blocks)))
  /\ block_head \in Seq(1..Len(blocks))
  /\ curr_block \in 0..Len(blocks)
  /\ break_block \in 0..Len(blocks)
  /\ cont_block \in 0..Len(blocks)
  /\ status \in Status
  /\ status = "gen" => curr_block # NULL

\* gen_assembly prints bb->left->label and, for a conditional jump,
\* bb->right->label (assemble.c:97-105): neither is NULL.
BranchesResolved ==
  \A i \in DOMAIN blocks :
    /\ blocks[i].branch # "NONE" => blocks[i].left # NULL
    /\ Conditional(blocks[i]) => blocks[i].right # NULL

\* Control never falls from one block into the next unmarked: of the blocks
\* of a function only the last created may be without a branch
\* (create_basic_block, quads.c:962-969), whatever is linked in between.
OnlyTailOpen ==
  \A i \in 1..Len(blocks) - 1 :
    blocks[i].branch = "NONE" => \E f \in DOMAIN block_head : block_head[f] = i + 1

\* A conditional jump uses the flags of the comparison just before it: the
\* block's last quad is the CMP (gen_condexpr emits it before link_bb).
CompareBeforeBranch ==
  \A i \in DOMAIN blocks :
    Conditional(blocks[i]) => LastOpcode(blocks[i]) = "CMP"

\* parse_quad dies on an ARG that is the last quad of its block
\* (assemble.c:168-170): no function that was generated has one.
ArgNotLast ==
  status \in {"parse", "done"} =>
    \A i \in DOMAIN blocks : LastOpcode(blocks[i]) # "ARG"

\* Inside a loop break and continue are always accepted, and neither leaves
\* an enclosing loop as well: their targets were created with the innermost
\* loop or after it (gen_for_loop and gen_while_loop set both globals).
NeverOuterLoop ==
  \A i \in DOMAIN work :
    work[i].k = "loop" => /\ break_block >= work[i].brk
                          /\ cont_block >= work[i].cnt

\* Once a block ends in a conditional jump it is finished: later steps neither
\* append quads to it nor redirect it (gen_condexpr leaves curr_block on it).
ConditionalIsFinal ==
  [][\A i \in DOMAIN blocks :
       Conditional(blocks[i]) => blocks'[i] = blocks[i]]_vars

\* The compiler comes to an end, with code or with a diagnostic or a crash: no
\* node is without a routine that handles it.
Terminates == <>(status \in {"done", "error", "abort", "crash"})

\* The loops in progress, by their place in work.
LoopFrames == {j \in DOMAIN work : work[j].k = "loop"}
Innermost == work[Min(LoopFrames)]

-----------------------------------------------------------------------------
\* What comments and messages of the source say and the code does not do.

\* A break that no loop of its function encloses finds break_block NULL and is
\* reported: "Cannot use break keyword in this context" (quads.c:184-187).
BreakOutsideRejected ==
  AtNode("rvalue", "JUMP_NODE") /\ Top.n.jump_type = "BREAK_JUMP"
    /\ LoopFrames = {} => break_block = NULL

\* The third expression of a for has just been generated.
AfterIncrement ==
  /\ At("link")
  /\ Len(work) >= 4 /\ work[3].k = "cond" /\ work[4].k = "loop"
=============================================================================
